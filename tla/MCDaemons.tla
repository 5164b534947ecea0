----------------------------- MODULE MCDaemons ------------------------------
(* Liveness of the worker daemon, for TLC: a behaviour is one of the instance *)
(* that scenario names. Fairness is that of WorkerDaemon, for each instance   *)
(* in its own scenario; the protocol state stays at version 0.                *)
EXTENDS FiniteSets, Naturals

CONSTANTS None, Torn

VARIABLES
    scenario,
    works, version, accountNonce, pool, outcomes,
    pc, local, statuses, file, ready, registered, signed, faults

daemonVars == <<works, version, accountNonce, pool, outcomes,
                pc, local, statuses, file, ready, registered, signed, faults>>
vars == <<scenario, daemonVars>>
-----------------------------------------------------------------------------
(* Two daemons propose and vote, next to a work that cannot be refined *)
Serve == INSTANCE WorkerDaemon WITH
    Daemons <- {1, 2}, Proposers <- {1, 2}, Voters <- {1, 2}, Works <- {1, 2},
    Assignments <- {{1, 2}}, BadBundle <- {}, Unrefinable <- {2}, Lanes <- 1,
    Faults <- {"timeout"}, MaxFaults <- 1, MaxRounds <- 1, MaxVersion <- 0

(* A daemon that polls bundles, one of them bad, crashes and loses its key *)
Polled == INSTANCE WorkerDaemon WITH
    Daemons <- {1}, Proposers <- {}, Voters <- {1}, Works <- {1, 2},
    Assignments <- {{0}}, BadBundle <- {2}, Unrefinable <- {}, Lanes <- 1,
    Faults <- {"gateway", "crash", "rotate", "expire"},
    MaxFaults <- 1, MaxRounds <- 2, MaxVersion <- 0

ASSUME DaemonsAssumption == Serve!Assumption /\ Polled!Assumption

Serves == scenario = "serve"
Polls == scenario = "polled"

Init ==
    /\ scenario \in {"serve", "polled"}
    /\ IF Serves THEN Serve!Init ELSE Polled!Init

Next ==
    /\ UNCHANGED scenario
    /\ \/ Serves /\ Serve!Next
       \/ Polls /\ Polled!Next

Fairness ==
    /\ WF_daemonVars(IF Serves THEN Serve!Daemon(1) ELSE Polled!Daemon(1))
    /\ WF_daemonVars(Serves /\ Serve!Daemon(2))
    /\ WF_daemonVars(\E x \in pool : IF Serves THEN Serve!Include(x) ELSE Polled!Include(x))
    /\ WF_daemonVars(IF Serves THEN Serve!Expire(2, {1, 2}) ELSE Polled!Expire(2, {0}))

Spec == Init /\ [][Next]_vars /\ Fairness
-----------------------------------------------------------------------------
(* A work that cannot be executed only delays the others: they get their      *)
(* candidate and the votes of the daemons that run                            *)
GoodWorksServed == Serves => Serve!GoodWorksServed

(* A bundle that was rejected is tried again as long as its task is pending,  *)
(* none is recorded as ready that could not be verified, and readiness does   *)
(* not outlive a change of the session key.                                   *)
BundlesPolled ==
    /\ [](IF Serves THEN Serve!ReadyIsVerified ELSE Polled!ReadyIsVerified)
    /\ Polls => Polled!RejectedRetried /\ Polled!StaleReadyEnds
=============================================================================
