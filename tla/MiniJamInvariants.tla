------------------------- MODULE MiniJamInvariants --------------------------
(* The storage of the two pallets agrees: the invariants that TLC checks on   *)
(* small instances and MiniJamProofs proves for all of them.                  *)
EXTENDS MiniJam

-----------------------------------------------------------------------------
(* Types *)

StakeTypeOK ==
    /\ free \in [Accounts -> Nat]
    /\ pool \in Nat
    /\ workers \in [Registered -> WorkerRecord]
    /\ Registered \subseteq WorkerIds
    /\ stakeHold \in [Registered -> Nat]
    /\ IsMap(pendingUpdates, Registered, PendingWorkerUpdate)
    /\ IsMap(unbonding, Registered, UnbondingChunk)
    /\ currentEpoch \in Nat
    /\ activeWorkers \subseteq Registered

AssignmentTypeOK ==
    /\ IsMap(assignments, RoundKeys, SUBSET Registered)
    /\ IsMap(assignmentEpochs, RoundKeys, Nat)
    /\ assignedWorkCount \in [Rounds -> Nat]
    /\ dutyCounts \in [Rounds -> [WorkerIds -> Nat]]

VotingTypeOK ==
    /\ IsMap(votingRounds, RoundKeys, VotingRound)
    /\ openVoteRounds \in Seq(RoundKeys)
    /\ IsMap(votes, RoundKeys \X WorkerIds, {"Support", "Oppose"})
    /\ IsMap(roundResults, RoundKeys, RoundResult)
    /\ equivocations \subseteq RoundKeys \X WorkerIds

WorkTypeOK ==
    /\ DOMAIN works \subseteq WorkIds
    /\ works \in [DOMAIN works -> WorkRecord]
    /\ pendingWorks \in Seq(DOMAIN works)
    /\ IsMap(candidates, RoundKeys, CandidateRecord)
    /\ depositHold \in [Accounts -> Nat]
    /\ bondHold \in [Accounts -> Nat]

QueueTypeOK ==
    /\ executionQueue \in Seq(ExecutionItem)
    /\ quarantinedExecutionQueue \in Seq(ExecutionItem)
    /\ reportImportPaused \in BOOLEAN
    /\ ingressRelayer \in Accounts

BlockTypeOK ==
    /\ now \in Nat
    /\ phase \in {"workers", "minijam", "halted"}
    /\ votesTodo \in Seq(RoundKeys)
    /\ worksTodo \in Seq(DOMAIN works)

(* Every storage item of the two pallets has the type its declaration gives   *)
(* it, no balance or stake is negative, and an id kept in storage names a     *)
(* registered worker or a known work.                                         *)
TypeOK ==
    /\ StakeTypeOK
    /\ AssignmentTypeOK
    /\ VotingTypeOK
    /\ WorkTypeOK
    /\ QueueTypeOK
    /\ BlockTypeOK
-----------------------------------------------------------------------------
(* The life of a work *)

(* PendingWorks lists each unsettled work once and nothing else, although     *)
(* works are swap_removed from it while on_initialize walks a snapshot.       *)
PendingWorksExact ==
    /\ Distinct(pendingWorks)
    /\ Elements(pendingWorks) = {w \in DOMAIN works : works[w].status \in PendingStatuses}

(* OpenVoteRounds lists each round with a VotingRound once and nothing else,  *)
(* so finalize_due_votes misses no overdue round.                             *)
OpenVoteRoundsExact ==
    /\ Distinct(openVoteRounds)
    /\ Elements(openVoteRounds) = DOMAIN votingRounds

(* The storage of the two pallets agrees on what a work is doing: a work      *)
(* without workers has no assignment, one that awaits its candidate has an    *)
(* assignment and no trace of a vote, one being voted on has a candidate and  *)
(* either an open vote or a result, and a settled one holds no assignment.    *)
RoundStateCoherent ==
    /\ \A w \in DOMAIN works :
        LET key == RoundOf(w)
        IN  /\ key \in DOMAIN assignments <=> works[w].status \in {"AwaitingCandidate", "Voting"}
            /\ works[w].status \in {"InsufficientWorkers", "AwaitingCandidate"} =>
                  key \notin DOMAIN candidates \cup DOMAIN votingRounds \cup DOMAIN roundResults
            /\ works[w].status = "Voting" =>
                  /\ key \in DOMAIN candidates
                  /\ key \in DOMAIN votingRounds <=> key \notin DOMAIN roundResults
            /\ works[w].status \in {"Accepted", "Imported"} => key \in DOMAIN candidates
    /\ \A key \in DOMAIN assignments : key[1] \in DOMAIN works /\ key = RoundOf(key[1])
    /\ DOMAIN assignmentEpochs = DOMAIN assignments
    /\ DOMAIN votingRounds \subseteq DOMAIN assignments

(* Work ids are given out without gaps, and no candidate or result exists for *)
(* a round its work has not reached: prepare_round always opens a fresh one.  *)
RoundsReached ==
    /\ DOMAIN works = 0..(NextWorkId - 1)
    /\ \A key \in DOMAIN candidates \cup DOMAIN roundResults :
          key[1] \in DOMAIN works /\ key[2] <= works[key[1]].round

Queued(q) == {q[i].workId : i \in DOMAIN q}

(* Every queued work passes the checks whose failure makes on_finalize panic, *)
(* and no work is queued twice, in the queue or in quarantine.                *)
ExecutionQueueSound ==
    /\ \A w \in Queued(executionQueue) \cup Queued(quarantinedExecutionQueue) : Executable(w)
    /\ \A q \in {executionQueue, quarantinedExecutionQueue} :
          \A i, j \in DOMAIN q : q[i].workId = q[j].workId => i = j
    /\ Queued(executionQueue) \cap Queued(quarantinedExecutionQueue) = {}

(* on_finalize does not panic over the pallet's own bookkeeping *)
NeverHalted == phase # "halted"
-----------------------------------------------------------------------------
(* All of them together, which is what every call and hook preserves: the     *)
(* storage of the two pallets is well formed, agrees on what every work and   *)
(* round is doing, and lets on_finalize run.                                  *)
StorageInv ==
    /\ TypeOK
    /\ RoundStateCoherent
    /\ RoundsReached
    /\ PendingWorksExact
    /\ OpenVoteRoundsExact
    /\ ExecutionQueueSound
    /\ NeverHalted
=============================================================================
