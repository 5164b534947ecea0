---------------------------- MODULE EngineRounds ----------------------------
(* The rounds that the two pallets run, compared with the rounds of the       *)
(* worker engine.                                                             *)
EXTENDS MiniJamProperties

Verdicts(key) == [w \in Voters(key) |-> votes[<<key, w>>]]

(* Round key of the pallets, as the engine would keep it *)
RoundView(key) ==
    IF key \in DOMAIN roundResults
      THEN [stage |-> "final",
            outcome |-> IF roundResults[key].decision = "Accepted" THEN "Accepted" ELSE "Rejected",
            absent |-> roundResults[key].absentees]
    ELSE IF key \in DOMAIN votingRounds
      THEN [stage |-> "voting", assigned |-> assignments[key],
            voteDeadline |-> votingRounds[key].deadline, votes |-> Verdicts(key),
            locked |-> votingRounds[key].locked]
    ELSE IF key \in DOMAIN assignments
      THEN [stage |-> "assigned", assigned |-> assignments[key],
            reportDeadline |-> works[key[1]].candidateDeadline]
    ELSE [stage |-> "none"]

Engine(key) == INSTANCE CandidateRound WITH round <- RoundView(key)

FollowsEngine ==
    \A key \in RoundKeys : Engine(key)!RoundNext \/ UNCHANGED RoundView(key)

(* The two pallets, in which a round is spread over seven storage maps, two   *)
(* hooks and two calls, run every round the way the worker engine runs its    *)
(* CandidateRound: deadlines are inclusive, the decision is locked by the     *)
(* thresholds, an undecided round is rejected, whoever did not vote is        *)
(* absent, and a settled round never changes again.                           *)
RoundsFollowEngine ==
    /\ \A key \in RoundKeys : Engine(key)!Init
    /\ [][FollowsEngine]_vars
=============================================================================
