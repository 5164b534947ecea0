--------------------------- MODULE CandidateRound ---------------------------
(* minijam-worker-engine: one candidate round of a work, from its assignment  *)
(* to its final outcome, as the engine's CandidateRound keeps it. The block   *)
(* number is a parameter of every operation; here it is the variable now.     *)
EXTENDS StorageMap, FiniteSets

CONSTANTS
    WorkerIds, WorkersPerWork, SupportThreshold, OpposeThreshold,
    ReportSubmissionDeadline, VoteWindow

VARIABLES
    now,
    round               \* the round, a record tagged with its stage

NoRound == [stage |-> "none"]

(* CandidateRound::new, for the workers that assign_batch selected *)
New(W, reportDeadline) ==
    [stage |-> "assigned", assigned |-> W, reportDeadline |-> reportDeadline]

Opened ==
    [stage |-> "voting", assigned |-> round.assigned, voteDeadline |-> now + VoteWindow,
     votes |-> <<>>, locked |-> "None"]

Count(votes, verdict) == Cardinality({w \in DOMAIN votes : votes[w] = verdict})

(* update_locked_outcome *)
LockedOutcome(votes, locked) ==
    IF Count(votes, "Support") >= SupportThreshold THEN "Accepted"
    ELSE IF Count(votes, "Oppose") >= OpposeThreshold THEN "Rejected"
    ELSE locked

Voted(w, verdict) ==
    LET votes == Insert(round.votes, w, verdict)
    IN  [round EXCEPT !.votes = votes, !.locked = LockedOutcome(votes, @)]

ReadyToFinalize(r) == now >= r.voteDeadline \/ DOMAIN r.votes = r.assigned

(* final_outcome and absent_workers *)
Final(r) ==
    [stage |-> "final",
     outcome |-> IF r.locked = "Accepted" THEN "Accepted" ELSE "Rejected",
     absent |-> r.assigned \ DOMAIN r.votes]

Init == round = NoRound

OpenCandidate ==
    /\ round.stage = "assigned"
    /\ now <= round.reportDeadline
    /\ round' = Opened

(* The vote that completes the round may settle it in the same step *)
RecordVote(w, verdict) ==
    /\ round.stage = "voting"
    /\ now <= round.voteDeadline
    /\ w \in round.assigned \ DOMAIN round.votes
    /\ LET voted == Voted(w, verdict)
       IN  \/ round' = voted
           \/ ReadyToFinalize(voted) /\ round' = Final(voted)

Settle ==
    /\ round.stage = "voting"
    /\ ReadyToFinalize(round)
    /\ round' = Final(round)

Start ==
    /\ round.stage = "none"
    /\ \E W \in SUBSET WorkerIds :
          Cardinality(W) = WorkersPerWork /\ round' = New(W, now + ReportSubmissionDeadline)

(* A round for which no candidate came in time is dropped *)
Drop ==
    /\ round.stage = "assigned"
    /\ now > round.reportDeadline
    /\ round' = NoRound

RoundNext ==
    \/ Start
    \/ OpenCandidate
    \/ \E w \in WorkerIds, verdict \in {"Support", "Oppose"} : RecordVote(w, verdict)
    \/ Settle
    \/ Drop
=============================================================================
