------------------------------ MODULE MCChain -------------------------------
(* Instances of the components on the side of the chain, for TLC: the ingress *)
(* of pallet-minijam, pallet-minijam-bridge, the worker engine, the state     *)
(* adapter and the node's reads, and next to them the keepers of contents.    *)
(* They do not share state. A behaviour is one of a single instance, named by *)
(* scenario; the others stay in an initial state.                             *)
EXTENDS ContentKeepers, ChainLedgers, Naturals

VARIABLES
    scenario,
    ingressRelayer, allocationRelayer,                              \* SystemIngress
    pendingOps, pendingOpKeys, quarantinedOps, opNonces,
    pendingPreimages, pendingPreimageKeys, quarantinedPreimages,
    pendingAllocations, processedAllocations, pendingAllocationCount, allocationReceipts,
    opsPaused, preimagesPaused, reportsPaused, reports, jam,
    fuel, totalFuel, escrow, funder, halted, consumed, dropped, lost,
    records, pool, maxDuties, todo, duties, assignments, result,    \* WorkerEngine
    protocolState, applied, output, phase, staged, done, blocks     \* StateAdapter

ingressVars == <<
    ingressRelayer, allocationRelayer, pendingOps, pendingOpKeys, quarantinedOps, opNonces,
    pendingPreimages, pendingPreimageKeys, quarantinedPreimages,
    pendingAllocations, processedAllocations, pendingAllocationCount, allocationReceipts,
    opsPaused, preimagesPaused, reportsPaused, reports, jam,
    fuel, totalFuel, escrow, funder, halted, consumed, dropped, lost>>
bridgeVars == <<free, escrowHeld, nextInboundNonce, inboundRecords,
                processedOutboundNonces, outboundRecords>>
engineVars == <<records, pool, maxDuties, todo, duties, assignments, result>>
adapterVars == <<protocolState, applied, output, phase, staged, done, blocks>>
readVars == <<parent, state, best, finalized, context, known>>
overlayVars == <<head, writes, deletes, call, answer, settled, callsLeft, faultsLeft>>
hostVars == <<memory, a0, storage, yielded, log, status, buffer, steps>>
bundleVars == <<task, outcome, held, intact>>
bulletinVars == <<block, nextIndex, authorizations, entries, locations, faults, blobs,
                  writing, receipts, failed, storeFaults, grantsLeft>>
vars == <<scenario, ingressVars, bridgeVars, engineVars, adapterVars, readVars, overlayVars,
          hostVars, bundleVars, bulletinVars>>

-----------------------------------------------------------------------------
(* Operations of one relayer that traps the executor now and then; root       *)
(* quarantines, drops, retries and clears them.                               *)
Ops == INSTANCE SystemIngress WITH
    Relayers <- {1}, GenesisRelayer <- 1,
    Codes <- {"good", "bad"}, BadCodes <- {"bad"},
    AllocationIds <- {}, Directly <- {}, Targets <- {},
    MaxPendingSystemOps <- 2, MaxPendingPreimages <- 0, MaxPendingAllocations <- 0,
    MaxSystemOps <- 2,
    Outcomes <- {"Ok", "Execution"},
    HostResults <- {"done", "new failed", "transfer failed"}, MemoGas <- {},
    RootCalls <- {"pause", "quarantine", "drop", "retry", "clear"},
    Funds <- 0, MaxNonce <- 3, MaxReports <- 1, MaxServices <- 6

(* Allocations, whose relayer changes, next to an operation. A batch has room *)
(* for both queues.                                                           *)
Allocations == INSTANCE SystemIngress WITH
    Relayers <- {1, 2}, GenesisRelayer <- 1,
    Codes <- {"good"}, BadCodes <- {},
    AllocationIds <- {1, 2}, Directly <- {}, Targets <- {0, 1},
    MaxPendingSystemOps <- 1, MaxPendingPreimages <- 0, MaxPendingAllocations <- 2,
    MaxSystemOps <- 3,
    Outcomes <- {"Ok", "Execution"}, HostResults <- {"done"}, MemoGas <- {1},
    RootCalls <- {"pause", "relayers"},
    Funds <- 0, MaxNonce <- 1, MaxReports <- 1, MaxServices <- 2

(* All inputs at once, and every answer of the executor *)
Preimages == INSTANCE SystemIngress WITH
    Relayers <- {1}, GenesisRelayer <- 1,
    Codes <- {"good", "other"}, BadCodes <- {},
    AllocationIds <- {1}, Directly <- {}, Targets <- {0},
    MaxPendingSystemOps <- 1, MaxPendingPreimages <- 2, MaxPendingAllocations <- 1,
    MaxSystemOps <- 1,
    Outcomes <- {"Ok", "Execution", "Refused", "State"}, HostResults <- {"done"}, MemoGas <- {0},
    RootCalls <- {"pause"},
    Funds <- 1, MaxNonce <- 1, MaxReports <- 1, MaxServices <- 1

(* Workers that serve, with two stakes and a suspension that is just over, and *)
(* one for every reason not to                                                 *)
Worker(stake, kind, until) == [stake |-> stake, status |-> [kind |-> kind, until |-> until]]
WorkerKinds ==
    {Worker(2, "Active", 0), Worker(3, "Active", 0), Worker(3, "SuspendedUntil", 1)}
        \cup {Worker(1, "Active", 0), Worker(3, "SuspendedUntil", 2),
              Worker(3, "UnbondingUntil", 0), Worker(3, "Exited", 0)}

Engine == INSTANCE WorkerEngine WITH
    Workers <- 0..3, Works <- {10, 11}, Records <- WorkerKinds, MinimumWorkerStake <- 2,
    Epoch <- 1, Suspensions <- {1, 2}, TopN <- 3, WorkersPerWork <- 2, DutyLimits <- {1, 2}

Adapter == INSTANCE StateAdapter WITH
    memory <- applied,
    Keys <- {1, 2}, Values <- {1, 2}, MaxChanges <- 2, MaxDelta <- 5, MaxBlocks <- 3

ASSUME ChainAssumption ==
    /\ Ops!Assumption /\ Allocations!Assumption /\ Preimages!Assumption
    /\ Escrow!Assumption /\ Engine!Assumption /\ Adapter!Assumption
    /\ Reads!Assumption /\ Overlay!Assumption /\ Host!Assumption
    /\ Bundle!Assumption /\ Store!Assumption
-----------------------------------------------------------------------------
Ingress == {"ops", "allocations", "preimages"}
Scenarios == Ingress \cup {"bridge", "engine", "adapter", "reads", "overlay", "host", "check",
                           "store"}

Init ==
    /\ scenario \in Scenarios
    /\ scenario # "bridge" =>
          free = [a \in Users \cup {EscrowAccount} |-> IF a = EscrowAccount THEN 0 ELSE Endowment]
    /\ scenario # "engine" =>
          /\ records = [w \in 0..3 |-> Worker(1, "Active", 0)]
          /\ maxDuties = 1
    /\ scenario # "host" => memory = [a \in Readable |-> 0]
    /\ CASE scenario = "allocations" -> Allocations!Init
         [] scenario = "preimages"   -> Preimages!Init
         [] OTHER                    -> Ops!Init
    /\ Escrow!Init /\ Engine!Init /\ Adapter!Init /\ Reads!Init
    /\ Overlay!Init /\ Host!Init /\ Bundle!Init /\ Store!Init

(* Nothing but the component changes *)
Only(component) ==
    /\ UNCHANGED scenario
    /\ IF component = "ingress" THEN TRUE ELSE UNCHANGED ingressVars
    /\ IF component = "bridge" THEN TRUE ELSE UNCHANGED bridgeVars
    /\ IF component = "engine" THEN TRUE ELSE UNCHANGED engineVars
    /\ IF component = "adapter" THEN TRUE ELSE UNCHANGED adapterVars
    /\ IF component = "reads" THEN TRUE ELSE UNCHANGED readVars
    /\ IF component = "overlay" THEN TRUE ELSE UNCHANGED overlayVars
    /\ IF component = "host" THEN TRUE ELSE UNCHANGED hostVars
    /\ IF component = "bundle" THEN TRUE ELSE UNCHANGED bundleVars
    /\ IF component = "bulletin" THEN TRUE ELSE UNCHANGED bulletinVars

Next ==
    \/ scenario = "ops" /\ Ops!Next /\ Only("ingress")
    \/ scenario = "allocations" /\ Allocations!Next /\ Only("ingress")
    \/ scenario = "preimages" /\ Preimages!Next /\ Only("ingress")
    \/ scenario = "bridge" /\ Escrow!Next /\ Only("bridge")
    \/ scenario = "engine" /\ Engine!Next /\ Only("engine")
    \/ scenario = "adapter" /\ Adapter!Next /\ Only("adapter")
    \/ scenario = "reads" /\ Reads!Next /\ Only("reads")
    \/ scenario = "overlay" /\ Overlay!Next /\ Only("overlay")
    \/ scenario = "host" /\ Host!Next /\ Only("host")
    \/ scenario = "check" /\ Bundle!Next /\ Only("bundle")
    \/ scenario = "store" /\ Store!Next /\ Only("bulletin")

Spec == Init /\ [][Next]_vars
-----------------------------------------------------------------------------
(* Each property gathers what the module of a component says about one        *)
(* concern, in the instance that brings its cases about.                      *)

(* Every operation that submit_system_op accepted is in exactly one place     *)
(* (queued, quarantined, consumed, dropped by root, or lost to a full         *)
(* quarantine), the key sets say exactly what is queued, and Service 0        *)
(* creates the services of a sender in the order of its nonces, through       *)
(* failing blocks, quarantine and retries.                                    *)
OpsAccounted ==
    /\ scenario = "ops" => Ops!OpsAccounted /\ Ops!KeysExact /\ Ops!ServicesInNonceOrder
    /\ scenario = "preimages" =>
          Preimages!TypeOK /\ Preimages!OpsAccounted /\ Preimages!KeysExact

(* The ledger of the allocations agrees with itself, an allocation is         *)
(* credited once, when it is processed, and on_finalize does not panic over   *)
(* one while batches have room for both queues; the fuel of the services is   *)
(* what lies in the escrow.                                                   *)
AllocationsExact ==
    /\ scenario = "allocations" =>
          /\ Allocations!AllocationsExact /\ Allocations!CreditedWhenProcessed
          /\ Allocations!IngressNeverHalts
    /\ scenario = "preimages" => Preimages!AllocationsExact /\ Preimages!FuelBacked

(* No receipt is replaced or removed, an operation is lost only together with *)
(* a pause, and a paused input neither reaches the protocol state nor leaves  *)
(* its queue.                                                                 *)
IngressSteps ==
    [][/\ scenario = "ops" => Ops!ReceiptStable /\ Ops!LossPauses /\ Ops!PausedUntouched
       /\ scenario = "preimages" => Preimages!ReceiptStable /\ Preimages!PausedUntouched]_vars

(* top_workers returns the best eligible workers; assign_batch counts the     *)
(* duties it gives, none over max_duties, and fails only when the capacity of *)
(* the pool is short.                                                         *)
AssignmentExact ==
    scenario = "engine" => Engine!PoolIsBest /\ Engine!DutiesExact /\ Engine!CapacityGuaranteed

(* A validated delta, applied change by change, does exactly what it says, in *)
(* the pallet's storage and in MemoryProtocolState alike, and normalised      *)
(* changes are never refused for their order.                                 *)
DeltaExact ==
    /\ [][scenario = "adapter" => Adapter!DeltaExact]_vars
    /\ [](scenario = "adapter" => Adapter!MemoryAgrees /\ Adapter!NormalizedInOrder)
===========================================================================
