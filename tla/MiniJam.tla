------------------------------ MODULE MiniJam -------------------------------
(* pallet-minijam: the life of a work from submission to import, composed     *)
(* with pallet-minijam-workers (module Workers).                              *)
(*                                                                            *)
(* A block runs Workers::on_initialize, MiniJam::on_initialize, the           *)
(* extrinsics, MiniJam::on_finalize, in this order (construct_runtime). Each  *)
(* loop of a hook iterates over a snapshot of a BoundedVec; an iteration is   *)
(* one action and the rest of the snapshot is votesTodo or worksTodo. No      *)
(* extrinsic runs between two iterations:                                     *)
(*                                                                            *)
(*   phase = "workers"   Workers::on_initialize                               *)
(*   phase = "minijam"   MiniJam::on_initialize while worksTodo # <<>>,       *)
(*                       then the extrinsics, ended by on_finalize            *)
(*   phase = "halted"    on_finalize panicked: no block can be built          *)
(*                                                                            *)
(* System operations, preimages and allocations are not part of this module:  *)
(* here the executor sees the reports only.                                   *)
EXTENDS Workers

CONSTANTS
    Packages,                   \* work packages, by hash
    MaxCandidateRounds, MaxPendingWorks, MaxExecutionReports,
    ReportSubmissionDeadline, VoteWindow,
    WorkDeposit, CandidateBond, CandidateRejectionSlash, AcceptedSubmitterReward,
    Relayers,                   \* accounts that root makes the ingress relayer
    GenesisRelayer,
    RootCalls,                  \* the execution controls that root uses
    MaxBlock                    \* the last block that is modelled

VARIABLES
    worksTodo,                  \* works left in the loop of on_initialize
    works, pendingWorks, candidates,
    executionQueue, quarantinedExecutionQueue, reportImportPaused,
    ingressRelayer,
    depositHold, bondHold       \* WorkDeposit and CandidateBond holds

blockVars == <<now, phase, votesTodo, worksTodo>>
workVars == <<works, pendingWorks, candidates, depositHold, bondHold>>
queueVars == <<executionQueue, quarantinedExecutionQueue, reportImportPaused>>
minijamVars == <<workVars, queueVars, ingressRelayer>>
vars == <<blockVars, workersVars, minijamVars>>

PendingStatuses == {"InsufficientWorkers", "AwaitingCandidate", "Voting"}
WorkStatus == PendingStatuses \cup {"Accepted", "Imported", "Failed"}
WorkRecord == [owner : Accounts, package : Packages, round : Rounds, status : WorkStatus,
               candidateDeadline : Nat]
CandidateRecord == [submitter : Accounts, voteDeadline : Nat]
ExecutionItem == [workId : WorkIds, executeAt : Nat]

ASSUME MiniJamAssumption ==
    /\ MaxCandidateRounds \in Nat \ {0}
    /\ Rounds = 0..(MaxCandidateRounds - 1)
    /\ WorkIds \subseteq Nat
    /\ \A w \in WorkIds : \A v \in 0..w : v \in WorkIds
    /\ MaxPendingWorks \in Nat /\ MaxExecutionReports \in Nat \ {0}
    /\ ReportSubmissionDeadline \in Nat /\ VoteWindow \in Nat \ {0}
    /\ WorkDeposit \in Nat /\ CandidateBond \in Nat
    /\ CandidateRejectionSlash \in Nat /\ AcceptedSubmitterReward \in Nat
    /\ Relayers \subseteq Accounts /\ GenesisRelayer \in Accounts
    /\ RootCalls \subseteq {"pause_execution", "quarantine_pending"}
    /\ MaxBlock \in Nat

(* Faulty NextWorkId: counts the pending works, so ids are used again *)
NextWorkIdReused == Len(pendingWorks)

(* NextWorkId: ids are given out in order and works are never removed *)
NextWorkId == Cardinality(DOMAIN works)

(* The round a work is in *)
RoundOf(w) == <<w, works[w].round>>

Dispatching == phase = "minijam" /\ worksTodo = <<>>
-----------------------------------------------------------------------------
(* prepare_round for a work whose record is rec, after clear_assignment left  *)
(* as0 and epochs0.                                                           *)
PrepareRound(w, rec, as0, epochs0) ==
    LET key == <<w, rec.round>>
        awaiting == [rec EXCEPT !.status = "AwaitingCandidate",
                                !.candidateDeadline = now + ReportSubmissionDeadline]
        insufficient == [rec EXCEPT !.status = "InsufficientWorkers"]
        results == AssignWorkResults(key, as0)
    IN  \/ /\ \E W \in results : AssignWork(key, W, as0, epochs0)
           /\ works' = Insert(works, w, awaiting)
        \/ /\ results = {}
           /\ assignments' = as0
           /\ assignmentEpochs' = epochs0
           /\ works' = Insert(works, w, insufficient)
           /\ UNCHANGED <<assignedWorkCount, dutyCounts>>

SubmitWork(owner, package) ==
    /\ Dispatching
    /\ owner = ingressRelayer
    /\ \A w \in DOMAIN works : works[w].package # package
    /\ NextWorkId \in WorkIds
    /\ Len(pendingWorks) < MaxPendingWorks
    /\ free[owner] >= WorkDeposit
    /\ free' = [free EXCEPT ![owner] = @ - WorkDeposit]
    /\ depositHold' = [depositHold EXCEPT ![owner] = @ + WorkDeposit]
    /\ pendingWorks' = Append(pendingWorks, NextWorkId)
    /\ PrepareRound(NextWorkId,
                    [owner |-> owner, package |-> package, round |-> 0,
                     status |-> "InsufficientWorkers", candidateDeadline |-> 0],
                    assignments, assignmentEpochs)
    /\ UNCHANGED <<blockVars, pool, stakeVars, epochVars, votingVars, equivocations,
                   candidates, bondHold, queueVars, ingressRelayer>>

(* Only the assigned worker of least id produces the candidate *)
IsProducer(a, key) ==
    \E w \in assignments[key] : workers[w].owner = a /\ \A v \in assignments[key] : w <= v

SubmitCandidate(submitter, w) ==
    LET key == RoundOf(w)
        voteDeadline == now + VoteWindow
    IN  /\ Dispatching
        /\ key \in DOMAIN assignments
        /\ IsProducer(submitter, key)
        /\ works[w].status = "AwaitingCandidate"
        /\ now <= works[w].candidateDeadline
        /\ key \notin DOMAIN candidates
        /\ free[submitter] >= CandidateBond
        /\ free' = [free EXCEPT ![submitter] = @ - CandidateBond]
        /\ bondHold' = [bondHold EXCEPT ![submitter] = @ + CandidateBond]
        /\ OpenVoting(key, voteDeadline)
        /\ candidates' = Insert(candidates, key,
                            [submitter |-> submitter, voteDeadline |-> voteDeadline])
        /\ works' = [works EXCEPT ![w].status = "Voting"]
        /\ UNCHANGED <<blockVars, pool, stakeVars, epochVars, assignmentVars, equivocations,
                       pendingWorks, depositHold, queueVars, ingressRelayer>>
-----------------------------------------------------------------------------
(* on_initialize: what it does with one pending work *)

(* settle_rejected_candidate *)
RejectionSlash == Min2(CandidateRejectionSlash, CandidateBond)

(* Faulty CanSettleRejected: wants more than one bond to be held *)
SettlesSpareBond(key) ==
    /\ key \in DOMAIN candidates
    /\ bondHold[candidates[key].submitter] > CandidateBond

CanSettleRejected(key) ==
    /\ key \in DOMAIN candidates
    /\ bondHold[candidates[key].submitter] >= CandidateBond

(* Faulty CanFailWork: wants more than one deposit to be held *)
FailsSpareDeposit(w) == depositHold[works[w].owner] > WorkDeposit

(* fail_work, after the last round *)
CanFailWork(w) == depositHold[works[w].owner] >= WorkDeposit

(* Faulty LastRound: gives up one round early *)
LastRoundEarly(w) == works[w].round + 2 >= MaxCandidateRounds

LastRound(w) == works[w].round + 1 >= MaxCandidateRounds

(* Faulty FailureSlash: takes the deposit whenever a round is lost *)
SlashedEveryRound(w) == WorkDeposit

(* Faulty FailureSlash: leaves the deposit of a failed work on hold *)
NeverSlashed(w) == 0

(* What fail_work takes of the deposit; a work that moves on keeps it *)
FailureSlash(w) == IF LastRound(w) THEN WorkDeposit ELSE 0

(* advance_or_fail rolls back when a hold does not cover what it settles *)
CanAdvance(w, rejected) ==
    /\ rejected => CanSettleRejected(RoundOf(w))
    /\ LastRound(w) => CanFailWork(w)

AdvanceOrFail(w, rejected) ==
    LET key == RoundOf(w)
        slash == IF rejected THEN RejectionSlash ELSE 0
    IN  /\ CanAdvance(w, rejected)
        /\ IF rejected
           THEN LET submitter == candidates[key].submitter
                IN  /\ bondHold' = [bondHold EXCEPT ![submitter] = @ - CandidateBond]
                    /\ free' = [free EXCEPT ![submitter] = @ + (CandidateBond - slash)]
           ELSE UNCHANGED <<bondHold, free>>
        /\ pool' = pool + slash + FailureSlash(w)
        /\ depositHold' = [depositHold EXCEPT ![works[w].owner] = @ - FailureSlash(w)]
        /\ votes' = ClearedVotes(key)
        /\ IF LastRound(w)
           THEN /\ works' = [works EXCEPT ![w].status = "Failed"]
                /\ pendingWorks' = SwapRemove(pendingWorks, w)
                /\ assignments' = ClearedAssignments(key)
                /\ assignmentEpochs' = ClearedEpochs(key)
                /\ UNCHANGED <<assignedWorkCount, dutyCounts>>
           ELSE /\ PrepareRound(w, [works[w] EXCEPT !.round = @ + 1,
                                                    !.status = "InsufficientWorkers"],
                                ClearedAssignments(key), ClearedEpochs(key))
                /\ UNCHANGED pendingWorks
        /\ UNCHANGED <<stakeVars, epochVars, votingRounds, openVoteRounds, roundResults,
                       equivocations, candidates, queueVars>>

(* Faulty Enqueued: the newest item goes first *)
EnqueuedFirst(w) == <<[workId |-> w, executeAt |-> now + 1]>> \o executionQueue

(* The accepted work is executed in the next block at the earliest *)
Enqueued(w) == Append(executionQueue, [workId |-> w, executeAt |-> now + 1])

(* accept_candidate rolls back when the pool cannot pay or the queue is full, *)
(* and is tried again in the next block.                                      *)
CanAccept(w) ==
    /\ RoundOf(w) \in DOMAIN candidates
    /\ bondHold[candidates[RoundOf(w)].submitter] >= CandidateBond
    /\ pool >= AcceptedSubmitterReward
    /\ depositHold[works[w].owner] >= WorkDeposit
    /\ Len(executionQueue) < MaxPendingWorks

AcceptCandidate(w) ==
    LET key == RoundOf(w)
        submitter == candidates[key].submitter
        bonded == [free EXCEPT ![submitter] = @ + CandidateBond + AcceptedSubmitterReward]
    IN  /\ CanAccept(w)
        /\ bondHold' = [bondHold EXCEPT ![submitter] = @ - CandidateBond]
        /\ pool' = pool - AcceptedSubmitterReward
        /\ depositHold' = [depositHold EXCEPT ![works[w].owner] = @ - WorkDeposit]
        /\ free' = [bonded EXCEPT ![works[w].owner] = @ + WorkDeposit]
        /\ works' = [works EXCEPT ![w].status = "Accepted"]
        /\ executionQueue' = Enqueued(w)
        /\ pendingWorks' = SwapRemove(pendingWorks, w)
        /\ assignments' = ClearedAssignments(key)
        /\ assignmentEpochs' = ClearedEpochs(key)
        /\ votes' = ClearedVotes(key)
        /\ UNCHANGED <<stakeVars, epochVars, assignedWorkCount, dutyCounts, votingRounds,
                       openVoteRounds, roundResults, equivocations, candidates,
                       quarantinedExecutionQueue, reportImportPaused>>

HasResult(w) == works[w].status = "Voting" /\ RoundOf(w) \in DOMAIN roundResults

(* Faulty ResultAccepts and ResultRejects: the decision is not looked at *)
AnyResult(w) == HasResult(w)

ResultAccepts(w) == HasResult(w) /\ roundResults[RoundOf(w)].decision = "Accepted"
ResultRejects(w) == HasResult(w) /\ roundResults[RoundOf(w)].decision # "Accepted"
CandidateOverdue(w) == works[w].status = "AwaitingCandidate" /\ now > works[w].candidateDeadline

(* One iteration of the loop, on the work at the head of worksTodo *)
ThisWork(w) ==
    /\ phase = "minijam"
    /\ worksTodo # <<>>
    /\ w = Head(worksTodo)
    /\ worksTodo' = Tail(worksTodo)
    /\ UNCHANGED <<now, phase, votesTodo, ingressRelayer>>

RetryAssignment(w) ==
    /\ ThisWork(w)
    /\ works[w].status = "InsufficientWorkers"
    /\ PrepareRound(w, works[w], assignments, assignmentEpochs)
    /\ UNCHANGED <<free, pool, stakeVars, epochVars, votingVars, equivocations, pendingWorks,
                   candidates, depositHold, bondHold, queueVars>>

MissedCandidate(w) == ThisWork(w) /\ CandidateOverdue(w) /\ AdvanceOrFail(w, FALSE)

(* Faulty RejectedCandidate: the candidate's bond is not settled *)
RejectedUnsettled(w) == ThisWork(w) /\ ResultRejects(w) /\ AdvanceOrFail(w, FALSE)

RejectedCandidate(w) == ThisWork(w) /\ ResultRejects(w) /\ AdvanceOrFail(w, TRUE)

AcceptedCandidate(w) == ThisWork(w) /\ ResultAccepts(w) /\ AcceptCandidate(w)

(* Nothing to do yet, or the transaction rolled back *)
SkipWork(w) ==
    /\ ThisWork(w)
    /\ works[w].status # "InsufficientWorkers"
    /\ CandidateOverdue(w) => ~CanAdvance(w, FALSE)
    /\ ResultRejects(w) => ~CanAdvance(w, TRUE)
    /\ ResultAccepts(w) => ~CanAccept(w)
    /\ UNCHANGED <<workersVars, workVars, queueVars>>
-----------------------------------------------------------------------------
(* on_finalize *)

Due(item) == ~reportImportPaused /\ item.executeAt <= now

(* The first n items of the queue are the ones execute_block_stf takes: due   *)
(* items in queue order, at most MaxExecutionReports. The queue is in the     *)
(* order of executeAt (QueueInOrder), so what is due is a prefix.             *)
TakesPrefix(n) ==
    /\ n <= MaxExecutionReports
    /\ \A i \in 1..n : Due(executionQueue[i])
    /\ n = MaxExecutionReports \/ \A i \in (n + 1)..Len(executionQueue) : ~Due(executionQueue[i])

(* The checks of execute_block_stf_inner on a due work: Fatal if one fails *)
Executable(w) ==
    /\ w \in DOMAIN works
    /\ RoundOf(w) \in DOMAIN candidates
    /\ works[w].status = "Accepted"

NextBlock ==
    /\ now < MaxBlock
    /\ now' = now + 1
    /\ phase' = "workers"
    /\ votesTodo' = openVoteRounds
    /\ UNCHANGED worksTodo

(* Faulty Remaining: the last item taken stays in the queue *)
RemainingFromLast(n) == SubSeq(executionQueue, Max2(n, 1), Len(executionQueue))

(* What stays in the queue once its first n items are taken *)
Remaining(n) == SubSeq(executionQueue, n + 1, Len(executionQueue))

(* The executor returned Ok. The reports it consumed are imported; a report   *)
(* it did not consume leaves the queue too and its work stays Accepted.       *)
ExecuteBlockStf(n, consumed) ==
    LET due == {executionQueue[i].workId : i \in 1..n}
    IN  /\ Dispatching
        /\ TakesPrefix(n)
        /\ consumed \subseteq due
        /\ IF \A w \in due : Executable(w)
           THEN /\ works' = [w \in DOMAIN works |->
                                IF w \in consumed THEN [works[w] EXCEPT !.status = "Imported"]
                                                  ELSE works[w]]
                /\ executionQueue' = Remaining(n)
                /\ NextBlock
           ELSE /\ phase' = "halted"
                /\ UNCHANGED <<now, votesTodo, worksTodo, works, executionQueue>>
        /\ UNCHANGED <<workersVars, pendingWorks, candidates, depositHold, bondHold,
                       quarantinedExecutionQueue, reportImportPaused, ingressRelayer>>

(* The executor returned an execution error on a batch with reports: Yielded. *)
(* The transaction is rolled back and the batch is tried again.               *)
YieldBlockStf(n) ==
    /\ Dispatching
    /\ n > 0
    /\ TakesPrefix(n)
    /\ \A i \in 1..n : Executable(executionQueue[i].workId)
    /\ NextBlock
    /\ UNCHANGED <<workersVars, minijamVars>>
-----------------------------------------------------------------------------
(* Root calls *)

(* The pauses of preimages and system operations are not part of this module *)
PauseExecution(paused) ==
    /\ Dispatching
    /\ "pause_execution" \in RootCalls
    /\ reportImportPaused' = paused
    /\ UNCHANGED <<blockVars, workersVars, workVars, executionQueue, quarantinedExecutionQueue,
                   ingressRelayer>>

(* Faulty QuarantinePending: copies the queue instead of taking it *)
QuarantineCopies ==
    /\ Dispatching
    /\ "quarantine_pending" \in RootCalls
    /\ quarantinedExecutionQueue' = executionQueue
    /\ UNCHANGED <<blockVars, workersVars, workVars, executionQueue, reportImportPaused,
                   ingressRelayer>>

QuarantinePending ==
    /\ Dispatching
    /\ "quarantine_pending" \in RootCalls
    /\ quarantinedExecutionQueue' = executionQueue
    /\ executionQueue' = <<>>
    /\ UNCHANGED <<blockVars, workersVars, workVars, reportImportPaused, ingressRelayer>>

SetIngressRelayer(a) ==
    /\ Dispatching
    /\ ingressRelayer' = a
    /\ UNCHANGED <<blockVars, workersVars, workVars, queueVars>>
-----------------------------------------------------------------------------
(* The composed system *)

(* Workers::on_initialize: the loop of finalize_due_votes, then the epoch;    *)
(* MiniJam::on_initialize then takes its snapshot of PendingWorks.            *)
WorkersOnInitialize ==
    /\ phase = "workers"
    /\ \/ FinalizeDueVote /\ UNCHANGED <<phase, worksTodo>>
       \/ /\ votesTodo = <<>>
          /\ OnInitializeEpoch
          /\ phase' = "minijam"
          /\ worksTodo' = pendingWorks
          /\ UNCHANGED votesTodo
    /\ UNCHANGED <<now, minijamVars>>

MiniJamOnInitialize ==
    \E w \in DOMAIN works :
        \/ RetryAssignment(w)
        \/ MissedCandidate(w)
        \/ RejectedCandidate(w)
        \/ AcceptedCandidate(w)
        \/ SkipWork(w)

WorkersCall ==
    /\ Dispatching
    /\ \/ \E a \in Accounts, stake \in StakeAmounts : Register(a, stake)
       \/ \E w \in Registered, stake \in StakeAmounts \cup {NoStake} : ScheduleUpdate(w, stake)
       \/ \E key \in DOMAIN votingRounds, w \in Registered, verdict \in {"Support", "Oppose"} :
             SubmitVote(key, w, verdict)
       \/ \E key \in DOMAIN assignments, w \in Registered : SubmitEquivocation(key, w)
    /\ UNCHANGED <<blockVars, minijamVars>>

MiniJamCall ==
    \/ \E a \in Accounts, package \in Packages : SubmitWork(a, package)
    \/ \E a \in Accounts, w \in DOMAIN works : SubmitCandidate(a, w)
    \/ \E paused \in BOOLEAN : PauseExecution(paused)
    \/ QuarantinePending
    \/ \E a \in Relayers : SetIngressRelayer(a)

MiniJamOnFinalize ==
    \E n \in 0..Len(executionQueue) :
        \/ \E consumed \in SUBSET WorkIds : ExecuteBlockStf(n, consumed)
        \/ YieldBlockStf(n)

Init ==
    /\ WorkersInit
    /\ now = 1
    /\ phase = "workers"
    /\ votesTodo = <<>>
    /\ worksTodo = <<>>
    /\ works = <<>>
    /\ pendingWorks = <<>>
    /\ candidates = <<>>
    /\ executionQueue = <<>>
    /\ quarantinedExecutionQueue = <<>>
    /\ reportImportPaused = FALSE
    /\ ingressRelayer = GenesisRelayer
    /\ depositHold = [a \in Accounts |-> 0]
    /\ bondHold = [a \in Accounts |-> 0]

(* Everything the chain does without anybody's help *)
Hooks == WorkersOnInitialize \/ MiniJamOnInitialize \/ MiniJamOnFinalize

Next == Hooks \/ WorkersCall \/ MiniJamCall

Spec == Init /\ [][Next]_vars
=============================================================================
