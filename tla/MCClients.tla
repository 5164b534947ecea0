----------------------------- MODULE MCClients ------------------------------
(* Instances of the programs around the chain, for TLC: the chain client, the *)
(* formal RPC and the worker daemon. A behaviour is one of a single program,  *)
(* named by scenario; the others stay as they start.                          *)
EXTENDS GatewayProgram, DaemonProgram, Naturals

VARIABLES
    scenario,
    rpc, submitLock, systemOpLock, nextNonce, nextSystemOpNonce,    \* ChainClient
    pc, req, calls, pool, chain, finalized, faults, answers, abandoned

clientVars == <<rpc, submitLock, systemOpLock, nextNonce, nextSystemOpNonce, pc, req, calls,
                pool, chain, finalized, faults, answers, abandoned>>
gatewayVars == <<rpcPc, rpcReq, tmp, final, files, writes, block, works, imported, opNonce,
                 opCache, late, ops, receipts, services, preimages, provided, rpcFaults>>
daemonVars == <<tasks, version, accountNonce, extrinsics, outcomes, daemonPc, local, statuses,
                file, ready, registered, signed, daemonFaults>>
vars == <<scenario, clientVars, gatewayVars, daemonVars>>

-----------------------------------------------------------------------------
(* One task of each kind, while the chain reorganises *)
Submissions == INSTANCE ChainClient WITH
    Callers <- {"c"}, Watchers <- {"w"}, Deployers <- {"d"}, Preparers <- {},
    Faults <- {"dispatch", "timeout", "reorg"}, MaxCalls <- 2, MaxFaults <- 2

(* An operation is prepared before it is submitted, while requests fail *)
Prepared == INSTANCE ChainClient WITH
    Callers <- {"c"}, Watchers <- {"w"}, Deployers <- {}, Preparers <- {"p"},
    Faults <- {"request", "answer", "timeout", "dispatch"}, MaxCalls <- 2, MaxFaults <- 1

ASSUME ClientsAssumption ==
    /\ Submissions!Assumption /\ Prepared!Assumption
    /\ Gateway!Assumption /\ Daemon!Assumption
-----------------------------------------------------------------------------
Scenarios == {"submissions", "prepared", "bundles", "deployments", "daemon"}

Init ==
    /\ scenario \in Scenarios
    /\ IF scenario = "prepared" THEN Prepared!Init ELSE Submissions!Init
    /\ Gateway!Init
    /\ Daemon!Init

(* Nothing but the component changes *)
Only(component) ==
    /\ UNCHANGED scenario
    /\ IF component = "client" THEN TRUE ELSE UNCHANGED clientVars
    /\ IF component = "gateway" THEN TRUE ELSE UNCHANGED gatewayVars
    /\ IF component = "daemon" THEN TRUE ELSE UNCHANGED daemonVars

(* These requests of the formal RPC do not come *)
Waiting(requests) == \A r \in requests : rpcPc'[r] = "new"

Next ==
    \/ scenario = "submissions" /\ Submissions!Next /\ Only("client")
    \/ scenario = "prepared" /\ Prepared!Next /\ Only("client")
    \/ scenario = "bundles" /\ Gateway!Next /\ Only("gateway") /\ Waiting(DeployRequests)
    \/ scenario = "deployments" /\ Gateway!Next /\ Only("gateway")
          /\ Waiting(WorkRequests \cup StatusRequests)
    \/ scenario = "daemon" /\ Daemon!Next /\ Only("daemon")

Spec == Init /\ [][Next]_vars
-----------------------------------------------------------------------------
(* Each property gathers what the module of a component says about one        *)
(* concern, in the instance that brings its cases about.                      *)

(* The account nonces of the extrinsics that reach the node have no gap, the  *)
(* NonceCursor agrees with the node between submissions, a watched submission *)
(* that returned Ok is final with that outcome, and the correlation of a      *)
(* system operation is the request id it got, unless an abandoned one came    *)
(* before it.                                                                 *)
SubmissionsExact ==
    /\ scenario = "submissions" =>
          /\ Submissions!NonceContiguous /\ Submissions!CursorExact
          /\ Submissions!AnswersFinal /\ Submissions!CorrelationUnlessAbandoned
    /\ scenario = "prepared" => Prepared!CursorExact
=============================================================================
