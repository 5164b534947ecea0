------------------------------ MODULE Startup -------------------------------
(* The Formal RPC and the worker wait for the node: retry_connection tries    *)
(* until a deadline with growing pauses, wait_for_network_domain for ever.    *)
(* Time passes only when neither has anything to do.                          *)
EXTENDS StorageMap

CONSTANTS
    Deadline, InitialDelay, MaxDelay,   \* ConnectRetryPolicy
    RetryInterval,                      \* NETWORK_DOMAIN_RETRY_INTERVAL
    MaxChanges                          \* bound on how often the node changes

(* What the constants are assumed to be *)
Assumption ==
    /\ {Deadline, InitialDelay, MaxDelay, RetryInterval} \subseteq Nat \ {0}
    /\ InitialDelay <= MaxDelay

VARIABLES
    now,                    \* since the Formal RPC was started, up to the deadline
    node,                   \* up, down (refuses), or mute (accepts and does not answer)
    upSince,                \* when the node came up
    rpc,                    \* retry_connection: where it is, delay, end of its sleep
    worker,                 \* wait_for_network_domain: where it is, rest of its sleep
    matches,                \* the genesis hash of the node is the expected one
    changesLeft

nodeVars == <<node, upSince, changesLeft>>
vars == <<now, nodeVars, rpc, worker, matches>>

Init ==
    /\ now = 0
    /\ node \in {"down", "up", "mute"} /\ upSince = 0 /\ changesLeft = MaxChanges
    /\ rpc = [pc |-> "check", delay |-> InitialDelay, wake |-> 0]
    /\ worker = [pc |-> "ask", left |-> 0]
    /\ matches \in BOOLEAN

Remaining == Deadline - now
-----------------------------------------------------------------------------
(* retry_connection *)

(* The top of the loop *)
Check ==
    /\ rpc.pc = "check"
    /\ rpc' = [rpc EXCEPT !.pc = IF Remaining = 0 THEN "failed" ELSE "connect"]
    /\ UNCHANGED <<now, nodeVars, worker, matches>>

Connected ==
    /\ rpc.pc = "connect" /\ node = "up"
    /\ rpc' = [rpc EXCEPT !.pc = "connected"]
    /\ UNCHANGED <<now, nodeVars, worker, matches>>

(* Faulty Pause: not cut to what remains *)
PauseUncut == rpc.delay

(* delay.min(remaining) *)
Pause == Min2(rpc.delay, Remaining)

(* Faulty NextDelay: doubles without a bound *)
NextDelayUncapped == 2 * rpc.delay

NextDelay == Min2(2 * rpc.delay, MaxDelay)

(* The attempt fails: refused, or given up by the client itself *)
AttemptFails ==
    /\ rpc.pc = "connect" /\ node # "up"
    /\ rpc' = IF Remaining = 0 THEN [rpc EXCEPT !.pc = "failed"]
              ELSE [pc |-> "sleep", delay |-> NextDelay, wake |-> now + Pause]
    /\ UNCHANGED <<now, nodeVars, worker, matches>>

(* tokio::time::timeout(remaining, connect()) *)
AttemptTimesOut ==
    /\ rpc.pc = "connect" /\ node = "mute" /\ Remaining = 0
    /\ rpc' = [rpc EXCEPT !.pc = "failed"]
    /\ UNCHANGED <<now, nodeVars, worker, matches>>

Wake ==
    /\ rpc.pc = "sleep" /\ now >= rpc.wake
    /\ rpc' = [rpc EXCEPT !.pc = "check"]
    /\ UNCHANGED <<now, nodeVars, worker, matches>>

Retry == Check \/ Connected \/ AttemptFails \/ AttemptTimesOut \/ Wake
-----------------------------------------------------------------------------
(* wait_for_network_domain. genesis_hash has no timeout: it waits for a mute  *)
(* node.                                                                      *)
Ask ==
    /\ worker.pc = "ask" /\ node # "mute"
    /\ worker' = IF node = "down" THEN [pc |-> "sleep", left |-> RetryInterval]
                 ELSE [pc |-> IF matches THEN "running" ELSE "exited", left |-> 0]
    /\ UNCHANGED <<now, nodeVars, rpc, matches>>

(* Faulty AskAgain: the first error is the last *)
AskAgainNever ==
    /\ worker.pc = "sleep" /\ worker.left = 0
    /\ UNCHANGED vars

AskAgain ==
    /\ worker.pc = "sleep" /\ worker.left = 0
    /\ worker' = [worker EXCEPT !.pc = "ask"]
    /\ UNCHANGED <<now, nodeVars, rpc, matches>>
-----------------------------------------------------------------------------
RpcWaits ==
    \/ rpc.pc \in {"connected", "failed"}
    \/ rpc.pc = "sleep" /\ now < rpc.wake
    \/ rpc.pc = "connect" /\ node = "mute" /\ Remaining > 0

WorkerWaits ==
    \/ worker.pc \in {"running", "exited"}
    \/ worker.pc = "sleep" /\ worker.left > 0
    \/ worker.pc = "ask" /\ node = "mute"

Tick ==
    /\ RpcWaits /\ WorkerWaits
    /\ now' = IF rpc.pc = "sleep" THEN now + 1 ELSE Min2(now + 1, Deadline)
    /\ worker' = [worker EXCEPT !.left = Max2(@ - 1, 0)]
    /\ UNCHANGED <<nodeVars, rpc, matches>>

NodeChanges ==
    /\ changesLeft > 0
    /\ changesLeft' = changesLeft - 1
    /\ node' \in {"down", "up", "mute"} \ {node}
    /\ upSince' = now
    /\ UNCHANGED <<now, rpc, worker, matches>>

Next == Retry \/ Ask \/ AskAgain \/ Tick \/ NodeChanges

Spec == Init /\ [][Next]_vars

(* Timers fire and requests are carried out; nothing is assumed of the node *)
FairSpec ==
    Spec /\ WF_vars(Retry) /\ WF_vars(Ask) /\ WF_vars(AskAgain) /\ WF_vars(Tick)
-----------------------------------------------------------------------------
(* The Formal RPC gives up at its deadline, neither before nor after, however *)
(* the attempts and the pauses fall: the launcher, which waits longer than    *)
(* that, sees the process end rather than its own timeout.                    *)
DeadlineKept == now <= Deadline /\ (rpc.pc = "failed" => now = Deadline)

(* It gives up only on a node that was out of reach: one that answers for     *)
(* more than the longest pause before the deadline has been connected to.     *)
GivesUpOnlyUnreachable ==
    rpc.pc = "failed" => node # "up" \/ upSince >= Deadline - MaxDelay

(* A worker started before its node joins the network when the node stays up, *)
(* or exits because it is another network.                                    *)
WorkerJoins == <>[](node = "up") => <>(worker.pc = IF matches THEN "running" ELSE "exited")
=============================================================================
