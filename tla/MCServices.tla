----------------------------- MODULE MCServices -----------------------------
(* Liveness of the components whose calls must come to an end, for TLC. As in *)
(* MCChain a behaviour is one of a single instance, named by scenario; the    *)
(* other components stay in their initial states.                             *)
EXTENDS Naturals, Sequences

CONSTANT None

VARIABLES
    scenario,
    ingressRelayer, allocationRelayer,                              \* SystemIngress
    pendingOps, pendingOpKeys, quarantinedOps, opNonces,
    pendingPreimages, pendingPreimageKeys, quarantinedPreimages,
    pendingAllocations, processedAllocations, pendingAllocationCount, allocationReceipts,
    opsPaused, preimagesPaused, reportsPaused, reports, jam,
    fuel, totalFuel, escrow, funder, halted, consumed, dropped, lost,
    rpc, submitLock, systemOpLock, nextNonce, nextSystemOpNonce,    \* ChainClient
    pc, req, calls, pool, chain, finalized, faults, answers, abandoned,
    rpcPc, rpcReq, tmp, final, files, writes, block, works, imported,   \* FormalRpc
    opNonce, opCache, late, ops, receipts, services, preimages, provided, rpcFaults,
    phase, child, termed, clock, outcome, launchFaults,             \* Launcher
    direct, state, queue, permits, directories, compiling,          \* Compiler
    answer, metrics, compileFaults,
    now, node, upSince, connector, worker, matches, changesLeft,    \* Startup
    bestChain, finalNumber, blocks, reorgsLeft, waitPc, seen, next, \* EventWait
    scanned, sleeps, result, waitFaults

ingressVars == <<ingressRelayer, allocationRelayer, pendingOps, pendingOpKeys, quarantinedOps,
                 opNonces, pendingPreimages, pendingPreimageKeys, quarantinedPreimages,
                 pendingAllocations, processedAllocations, pendingAllocationCount,
                 allocationReceipts, opsPaused, preimagesPaused, reportsPaused, reports, jam,
                 fuel, totalFuel, escrow, funder, halted, consumed, dropped, lost>>
clientVars == <<rpc, submitLock, systemOpLock, nextNonce, nextSystemOpNonce, pc, req, calls,
                pool, chain, finalized, faults, answers, abandoned>>
gatewayVars == <<rpcPc, rpcReq, tmp, final, files, writes, block, works, imported, opNonce,
                 opCache, late, ops, receipts, services, preimages, provided, rpcFaults>>
launcherVars == <<phase, child, termed, clock, outcome, launchFaults>>
compilerVars == <<direct, state, queue, permits, directories, compiling, answer, metrics,
                  compileFaults>>
startupVars == <<now, node, upSince, connector, worker, matches, changesLeft>>
waitVars == <<bestChain, finalNumber, blocks, reorgsLeft, waitPc, seen, next, scanned, sleeps,
              result, waitFaults>>
vars == <<scenario, ingressVars, clientVars, gatewayVars, launcherVars, compilerVars,
          startupVars, waitVars>>
-----------------------------------------------------------------------------
(* Allocations share their blocks with operations that fail *)
Ingress == INSTANCE SystemIngress WITH
    Relayers <- {1}, GenesisRelayer <- 1,
    Codes <- {"good", "bad"}, BadCodes <- {"bad"},
    AllocationIds <- {1, 2}, Directly <- {}, Targets <- {0},
    MaxPendingSystemOps <- 1, MaxPendingPreimages <- 0, MaxPendingAllocations <- 2,
    MaxSystemOps <- 3,
    Outcomes <- {"Ok", "Execution"}, HostResults <- {"done"}, MemoGas <- {},
    RootCalls <- {"drop"},
    Funds <- 0, MaxNonce <- 3, MaxReports <- 0, MaxServices <- 4

(* Watched and system submissions, with every fault *)
Client == INSTANCE ChainClient WITH
    Callers <- {}, Watchers <- {"w"}, Deployers <- {"d"}, Preparers <- {},
    Faults <- {"request", "genesis", "answer", "timeout", "dispatch", "reorg", "drop"},
    MaxCalls <- 2, MaxFaults <- 2

(* A work and a deployment *)
Gateway == INSTANCE FormalRpc WITH
    pc <- rpcPc, req <- rpcReq, faults <- rpcFaults,
    WorkRequests <- {"w1"}, StatusRequests <- {}, DeployRequests <- {"d1"},
    Packages <- {"p"}, Codes <- {"a"}, OneWriter <- TRUE,
    Faults <- {"crash", "refused", "late", "dispatch", "rejected", "quarantine"},
    MaxConcurrency <- 2, MaxPolls <- 2, MaxFaults <- 1

Dev == INSTANCE Launcher WITH
    faultsLeft <- launchFaults,
    Last <- 3, MaxPolls <- 2, MaxTicks <- 2, MaxFaults <- 2

Compile == INSTANCE Compiler WITH
    files <- directories, faultsLeft <- compileFaults,
    Requests <- {"r1", "r2", "r3", "r4"}, TooLong <- {"r4"}, Concurrency <- 2, MaxFaults <- 2

Connect == INSTANCE Startup WITH
    rpc <- connector,
    Deadline <- 6, InitialDelay <- 1, MaxDelay <- 2, RetryInterval <- 2, MaxChanges <- 3

Events == INSTANCE EventWait WITH
    chain <- bestChain, finalized <- finalNumber, imported <- blocks, pc <- waitPc,
    block <- scanned, faultsLeft <- waitFaults,
    From <- 0, MaxBlocks <- 4, MaxReorgs <- 2, MaxSleeps <- 2, MaxFaults <- 1

ASSUME ServicesAssumption ==
    /\ Ingress!Assumption /\ Client!Assumption /\ Gateway!Assumption /\ Dev!Assumption
    /\ Compile!Assumption /\ Connect!Assumption /\ Events!Assumption
-----------------------------------------------------------------------------
Scenarios == {"ingress", "client", "gateway", "launcher", "compiler", "startup", "events"}

Init ==
    /\ scenario \in Scenarios
    /\ Ingress!Init /\ Client!Init /\ Gateway!Init /\ Dev!Init
    /\ Compile!Init /\ Connect!Init /\ Events!Init
    /\ scenario # "compiler" => direct
    /\ scenario # "startup" => node = "up" /\ matches

(* Nothing but the component changes *)
Only(component) ==
    /\ scenario = component /\ UNCHANGED scenario
    /\ IF component = "ingress" THEN TRUE ELSE UNCHANGED ingressVars
    /\ IF component = "client" THEN TRUE ELSE UNCHANGED clientVars
    /\ IF component = "gateway" THEN TRUE ELSE UNCHANGED gatewayVars
    /\ IF component = "launcher" THEN TRUE ELSE UNCHANGED launcherVars
    /\ IF component = "compiler" THEN TRUE ELSE UNCHANGED compilerVars
    /\ IF component = "startup" THEN TRUE ELSE UNCHANGED startupVars
    /\ IF component = "events" THEN TRUE ELSE UNCHANGED waitVars

Next ==
    \/ Only("ingress") /\ Ingress!Next
    \/ Only("client") /\ Client!Next
    \/ Only("gateway") /\ Gateway!Next
    \/ Only("launcher") /\ Dev!Next
    \/ Only("compiler") /\ Compile!Next
    \/ Only("startup") /\ Connect!Next
    \/ Only("events") /\ Events!Next

(* The fairness of each component's module *)
Fairness ==
    /\ WF_ingressVars(scenario = "ingress" /\ Ingress!ExecuteBlockStf("done", {}, {}))
    /\ WF_ingressVars(scenario = "ingress" /\ Ingress!QuarantinePendingSystemOps)
    /\ \A t \in {"w", "d"} :
          WF_clientVars(scenario = "client" /\ Client!Step(t) /\ pc[t] # "idle")
    /\ WF_clientVars(scenario = "client" /\ Client!Include /\ Len(chain') > Len(chain))
    /\ WF_clientVars(scenario = "client" /\ Client!Finalize)
    /\ WF_gatewayVars(scenario = "gateway" /\ Gateway!Gateway)
    /\ WF_launcherVars(scenario = "launcher" /\ Dev!Launch)
    /\ \A r \in {"r1", "r2", "r3", "r4"} :
          WF_compilerVars(scenario = "compiler" /\ Compile!Serve(r))
    /\ WF_startupVars(scenario = "startup" /\ Connect!Retry)
    /\ WF_startupVars(scenario = "startup" /\ Connect!Ask)
    /\ WF_startupVars(scenario = "startup" /\ Connect!AskAgain)
    /\ WF_startupVars(scenario = "startup" /\ Connect!Tick)
    /\ WF_waitVars(scenario = "events" /\ Events!Wait)

Spec == Init /\ [][Next]_vars /\ Fairness
-----------------------------------------------------------------------------
(* Each property gathers what the modules of the components say about one     *)
(* concern, each in its scenario.                                             *)

(* Nothing that was accepted waits for ever: a failing operation cannot hold  *)
(* up the allocations it shares blocks with, every submission of the chain    *)
(* client returns, and every request of the formal RPC is answered.           *)
CallsEnd ==
    /\ scenario = "ingress" => Ingress!AllocationsSettle
    /\ scenario = "client" => Client!SubmissionsEnd
    /\ scenario = "gateway" => Gateway!RequestsEnd

(* A child that exits ends the whole network, the launcher leaves no process  *)
(* behind, and starts a child only after all earlier ones have served.        *)
NetworkEnds ==
    /\ [](scenario = "launcher" => Dev!NoOrphans /\ Dev!NetworkReady)
    /\ scenario = "launcher" => Dev!FailureEnds

(* Every compilation ends, even when compilers hang, with what was made of    *)
(* its own source; permits and counters are exact.                            *)
CompilesEnd ==
    /\ [](scenario = "compiler" =>
            Compile!CommandsBounded /\ Compile!OwnBlob /\ Compile!MetricsExact)
    /\ scenario = "compiler" => Compile!CompilesEnd

(* The formal RPC gives up at its deadline, and only on a node that was out   *)
(* of reach; a worker started before its node joins when the node stays up.   *)
StartupSound ==
    /\ [](scenario = "startup" => Connect!DeadlineKept /\ Connect!GivesUpOnlyUnreachable)
    /\ scenario = "startup" => Connect!WorkerJoins

(* The wait for an event ends, with the first final match, or by its timeout  *)
(* with nothing missed.                                                       *)
WaitSound ==
    /\ [](scenario = "events" => Events!FirstFinalizedEvent /\ Events!TimeoutMeansNone)
    /\ scenario = "events" => Events!WaitEnds
=============================================================================
