------------------------------ MODULE Launcher ------------------------------
(* minijam-launcher: `minijam --dev` starts node, Formal RPC and worker, each *)
(* once the one before serves requests, watches them, and stops them all when *)
(* one has exited or a signal asks for it.                                    *)
EXTENDS Integers, FiniteSets

CONSTANTS
    Last,                   \* children are numbered 1..Last in the order they are started
    MaxPolls,               \* probes before STARTUP_TIMEOUT
    MaxTicks,               \* looks at the children before SHUTDOWN_TIMEOUT
    MaxFaults               \* bound on children that exit, hang or fail to start, and on signals

(* What the constants are assumed to be *)
Assumption == {Last, MaxPolls, MaxTicks, MaxFaults} \subseteq Nat /\ Last > 0

VARIABLES
    phase,                  \* <<name, child>> of the step of run the launcher is at
    child,                  \* what each child process does
    termed,                 \* children that were sent SIGTERM
    clock,                  \* probes or looks since the phase began
    outcome,                \* why the launcher ends
    faultsLeft

vars == <<phase, child, termed, clock, outcome, faultsLeft>>

Children == 1..Last
Live == {c \in Children : child[c] \in {"up", "ready", "mute"}}
Fault == faultsLeft > 0 /\ faultsLeft' = faultsLeft - 1
Starting == phase[1] \in {"spawn", "wait"}
Exited == phase[1] = "exited"

Init ==
    /\ phase = <<"spawn", 1>>
    /\ child = [c \in Children |-> "none"]
    /\ termed = {} /\ clock = 0 /\ outcome = "none" /\ faultsLeft = MaxFaults

Goto(name, c) == phase' = <<name, c>> /\ clock' = 0

(* shutdown_children follows, then run returns *)
Shutdown(why) ==
    /\ Goto("terminate", 0)
    /\ outcome' = why
    /\ UNCHANGED <<child, termed>>
-----------------------------------------------------------------------------
Spawn(c) ==
    /\ phase = <<"spawn", c>>
    /\ child' = [child EXCEPT ![c] = "up"]
    /\ Goto("wait", c)
    /\ UNCHANGED <<termed, outcome, faultsLeft>>

(* spawn_node(..)?, spawn_formal_rpc(..)?, spawn_worker(..)?: run returns at  *)
(* once, and dropping the handles does not stop the children started so far   *)
SpawnFails(c) ==
    /\ phase = <<"spawn", c>>
    /\ Fault
    /\ Goto("exited", 0)
    /\ outcome' = "spawn"
    /\ UNCHANGED <<child, termed>>

NextChild(c) == IF c = Last THEN Goto("monitor", 0) ELSE Goto("spawn", c + 1)

(* wait_for_http: the child is running and its port answers with status 200 *)
WaitReady(c) ==
    /\ phase = <<"wait", c>>
    /\ child[c] = "ready"
    /\ clock < MaxPolls
    /\ NextChild(c)
    /\ UNCHANGED <<child, termed, outcome, faultsLeft>>

(* The port does not answer yet. While a child accepts the connection and     *)
(* does not answer (mute) the read is pending and the loop does not go on.    *)
WaitPolls(c) ==
    /\ phase = <<"wait", c>>
    /\ child[c] = "up"
    /\ clock < MaxPolls
    /\ clock' = clock + 1
    /\ UNCHANGED <<phase, child, termed, outcome, faultsLeft>>

WaitExited(c) ==
    /\ phase = <<"wait", c>>
    /\ child[c] = "dead"
    /\ Shutdown("exited")
    /\ UNCHANGED faultsLeft

(* Faulty WaitTimesOut: the next child is started all the same *)
WaitGivesUp(c) ==
    /\ phase = <<"wait", c>>
    /\ child[c] \in {"up", "ready"}
    /\ clock = MaxPolls
    /\ NextChild(c)
    /\ UNCHANGED <<child, termed, outcome, faultsLeft>>

WaitTimesOut(c) ==
    /\ phase = <<"wait", c>>
    /\ child[c] \in {"up", "ready"}
    /\ clock = MaxPolls
    /\ Shutdown("timeout")
    /\ UNCHANGED faultsLeft

(* Faulty ChildExited: only the node is looked at *)
NodeExited == child[1] = "dead"

ChildExited == \E c \in Children : child[c] = "dead"

(* monitor_children *)
MonitorExited ==
    /\ phase[1] = "monitor"
    /\ ChildExited
    /\ Shutdown("exited")
    /\ UNCHANGED faultsLeft

(* SIGTERM or Ctrl-C for the launcher. Its handlers are installed when all    *)
(* children are ready; before that the launcher dies where it stands.         *)
Signal ==
    /\ Fault
    /\ \/ /\ phase[1] = "monitor"
          /\ Shutdown("signal")
       \/ /\ Starting
          /\ Goto("exited", 0)
          /\ outcome' = "killed"
          /\ UNCHANGED <<child, termed>>
-----------------------------------------------------------------------------
(* shutdown_children: SIGTERM for all, then up to SHUTDOWN_TIMEOUT for them   *)
(* to exit, then kill and reap the rest                                       *)
Terminate ==
    /\ phase[1] = "terminate"
    /\ termed' = Live
    /\ Goto("drain", 0)
    /\ UNCHANGED <<child, outcome, faultsLeft>>

Drain ==
    /\ phase[1] = "drain"
    /\ Live # {} /\ clock < MaxTicks
    /\ clock' = clock + 1
    /\ UNCHANGED <<phase, child, termed, outcome, faultsLeft>>

(* Faulty Kill: whoever ignored SIGTERM is left alone *)
KillNone ==
    /\ phase[1] = "drain"
    /\ Live = {} \/ clock = MaxTicks
    /\ Goto("exited", 0)
    /\ UNCHANGED <<child, termed, outcome, faultsLeft>>

Kill ==
    /\ phase[1] = "drain"
    /\ Live = {} \/ clock = MaxTicks
    /\ child' = [c \in Children |-> IF c \in Live THEN "dead" ELSE child[c]]
    /\ Goto("exited", 0)
    /\ UNCHANGED <<termed, outcome, faultsLeft>>
-----------------------------------------------------------------------------
(* What the children do by themselves *)
ChildServes(c) ==
    /\ child[c] \in {"up", "mute"}
    /\ child' = [child EXCEPT ![c] = "ready"]
    /\ UNCHANGED <<phase, termed, clock, outcome, faultsLeft>>

ChildHangs(c) ==
    /\ child[c] = "up" /\ Fault
    /\ child' = [child EXCEPT ![c] = "mute"]
    /\ UNCHANGED <<phase, termed, clock, outcome>>

ChildExits(c) ==
    /\ c \in Live
    /\ IF c \in termed THEN UNCHANGED faultsLeft ELSE Fault
    /\ child' = [child EXCEPT ![c] = "dead"]
    /\ UNCHANGED <<phase, termed, clock, outcome>>

Launch ==
    \/ \E c \in Children :
          \/ Spawn(c)
          \/ WaitReady(c)
          \/ WaitPolls(c)
          \/ WaitExited(c)
          \/ WaitTimesOut(c)
    \/ MonitorExited
    \/ Terminate
    \/ Drain
    \/ Kill

Next ==
    \/ Launch
    \/ Signal
    \/ \E c \in Children :
          \/ SpawnFails(c)
          \/ ChildServes(c)
          \/ ChildHangs(c)
          \/ ChildExits(c)

Spec == Init /\ [][Next]_vars

(* The launcher goes on where it is not blocked. Nothing is assumed of the    *)
(* children: they may never serve and never react to SIGTERM.                 *)
FairSpec == Spec /\ WF_vars(Launch)
-----------------------------------------------------------------------------
(* The launcher leaves no process behind: when it has ended, every child has  *)
(* exited, also those that ignored SIGTERM. The exceptions are a child that   *)
(* could not be started and a signal before all children were ready, where    *)
(* those already started run on.                                              *)
NoOrphans == Exited /\ outcome \notin {"spawn", "killed"} => Live = {}

(* The launcher reports the network ready only after each child has served a  *)
(* request, and starts a child only after all earlier ones have.              *)
NetworkReady ==
    \A c \in Children :
        (phase[1] = "monitor" \/ \E d \in Children : c < d /\ child[d] # "none")
            => child[c] \in {"ready", "dead"}

(* A child that exits, in whichever phase, ends the whole network, unless the *)
(* launcher waits on a child that has accepted its probe and does not answer: *)
(* that read has no timeout.                                                  *)
FailureEnds ==
    (\E c \in Children : child[c] = "dead")
        ~> Exited \/ \E c \in Children : child[c] = "mute"
=============================================================================
