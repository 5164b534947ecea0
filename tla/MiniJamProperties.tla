------------------------- MODULE MiniJamProperties --------------------------
(* What the two pallets guarantee together, beyond MiniJamInvariants. *)
EXTENDS MiniJamInvariants

-----------------------------------------------------------------------------
(* Money *)

UnsettledOf(a) == {w \in DOMAIN works : works[w].owner = a /\ works[w].status \in PendingStatuses}

VotingOf(a) ==
    {w \in DOMAIN works : works[w].status = "Voting" /\ candidates[RoundOf(w)].submitter = a}

(* The WorkDeposit hold of an account is one deposit for each of its works    *)
(* that is neither accepted nor failed, so the Exact release of               *)
(* accept_candidate and the full slash of fail_work always find it.           *)
DepositsExact == \A a \in Accounts : depositHold[a] = WorkDeposit * Cardinality(UnsettledOf(a))

(* The CandidateBond hold of an account is one bond for each of its           *)
(* candidates that is being voted on, so settling a candidate never fails     *)
(* with InconsistentState and never touches the bond of another candidate.    *)
BondsExact == \A a \in Accounts : bondHold[a] = CandidateBond * Cardinality(VotingOf(a))

(* The holds of both kinds match the works and candidates they stand for,     *)
(* through the roll backs of advance_or_fail and accept_candidate.            *)
HoldsExact == DepositsExact /\ BondsExact

(* What the pallet can still ask of the stake held for w *)
StakeClaim(w) ==
    IF w \in DOMAIN pendingUpdates THEN Max2(workers[w].activeStake, pendingUpdates[w].stake)
    ELSE IF w \in DOMAIN unbonding THEN workers[w].activeStake + unbonding[w].amount
    ELSE workers[w].activeStake

(* No stake is held that the pallet does not account for, whatever order of   *)
(* updates, slashes, epochs and releases led here: a worker that reduces its  *)
(* stake never leaves money behind in the hold. An update waits only while no *)
(* chunk of the same worker is unbonding, and a new worker takes a new id, so *)
(* it never takes over the stake of another one.                              *)
StakeNeverOverHeld ==
    /\ \A w \in Registered : stakeHold[w] <= StakeClaim(w)
    /\ DOMAIN pendingUpdates \cap DOMAIN unbonding = {}
    /\ Registered = 0..(WorkerCount - 1)

-----------------------------------------------------------------------------
(* The life of a work *)

(* A candidate that won its vote is never lost: a round that was accepted is  *)
(* the last round of its work, which is then never failed or moved on, even   *)
(* while accept_candidate keeps rolling back.                                 *)
AcceptedRoundIsFinal ==
    \A key \in DOMAIN roundResults :
        roundResults[key].decision = "Accepted" =>
            /\ key = RoundOf(key[1])
            /\ works[key[1]].status \in {"Voting", "Accepted", "Imported"}

(* Items are queued in the order in which they fall due, so the cap of        *)
(* MaxExecutionReports never lets a later work overtake an earlier one, and   *)
(* none falls due later than the next block.                                  *)
QueueInOrder ==
    /\ \A i, j \in DOMAIN executionQueue :
          i < j => executionQueue[i].executeAt <= executionQueue[j].executeAt
    /\ \A i \in DOMAIN executionQueue : executionQueue[i].executeAt <= now + 1

(* PackageToWork: a package belongs to one work *)
PackagesDistinct == \A v, w \in DOMAIN works : works[v].package = works[w].package => v = w

(* A queued work is one that on_finalize can execute, queued once and in      *)
(* turn, and no other work carries its package.                               *)
QueueSound == ExecutionQueueSound /\ QueueInOrder /\ PackagesDistinct

ImportsOnce ==
    \A w \in DOMAIN works :
        /\ works'[w].package = works[w].package /\ works'[w].owner = works[w].owner
        /\ works[w].status \in {"Imported", "Failed"} => works'[w] = works[w]
        /\ works'[w].status = "Imported" => works[w].status \in {"Accepted", "Imported"}
        /\ works[w].status = "Accepted" => works'[w].status \in {"Accepted", "Imported"}

(* A package is executed at most once: it belongs to one work and a work is   *)
(* imported only out of Accepted, once.                                       *)
ImportedOnce == [][ImportsOnce]_vars
-----------------------------------------------------------------------------
(* Refinement *)

WorkOf(p) == CHOOSE w \in DOMAIN works : works[w].package = p

Submitted == {works[w].package : w \in DOMAIN works}

StageOf(status) == IF status \in PendingStatuses THEN "pending"
                   ELSE IF status = "Accepted" THEN "accepted"
                   ELSE IF status = "Imported" THEN "imported"
                   ELSE "failed"

lifeOf == [p \in Packages |-> IF p \in Submitted THEN StageOf(works[WorkOf(p)].status)
                                                 ELSE "unknown"]

ownerOf == [p \in Submitted |-> works[WorkOf(p)].owner]

Life == INSTANCE WorkLife WITH Deposit <- WorkDeposit, life <- lifeOf, owner <- ownerOf,
                               locked <- depositHold

(* The two pallets keep the promise of WorkLife: seen through the status of   *)
(* the work that carries it, a package goes from submission to import or      *)
(* failure by the steps of WorkLife alone, and its deposit with it.           *)
KeepsWorkLife == Life!LifeSpec
-----------------------------------------------------------------------------
(* Votes *)

VotersFor(key, verdict) == {w \in Voters(key) : votes[<<key, w>>] = verdict}

(* The counters of the round are the votes in storage *)
RoundExact(key) ==
    LET voting == votingRounds[key]
    IN  /\ voting.support = Cardinality(VotersFor(key, "Support"))
        /\ voting.oppose = Cardinality(VotersFor(key, "Oppose"))
        /\ voting.responses = Cardinality(Voters(key))
        /\ voting.responses < Cardinality(assignments[key])
        /\ voting.deadline = candidates[key].voteDeadline
        /\ voting.assignmentEpoch = assignmentEpochs[key]
        /\ voting.locked = "Accepted" => voting.support >= SupportThreshold
        /\ voting.locked = "Rejected" => voting.oppose >= OpposeThreshold
        /\ voting.locked = Undecided => /\ voting.support < SupportThreshold
                                        /\ voting.oppose < OpposeThreshold

(* The counters of an open round are the votes in storage, the round is not   *)
(* complete, and its decision is locked exactly when a threshold is met.      *)
VotingRoundExact == \A key \in DOMAIN votingRounds : RoundExact(key)

(* A vote in storage is the vote of an assigned worker on a candidate that is *)
(* not settled: clear_assignment leaves none behind.                          *)
VotesCurrent ==
    \A vote \in DOMAIN votes :
        /\ vote[1] \in DOMAIN assignments
        /\ vote[2] \in assignments[vote[1]]
        /\ works[vote[1][1]].status = "Voting"

(* The votes that won a round stay in storage until its work is accepted *)
AcceptedWithSupport ==
    \A w \in DOMAIN works :
        ResultAccepts(w) => Cardinality(VotersFor(RoundOf(w), "Support")) >= SupportThreshold

(* The votes in storage, the counters of the round and its decision agree,    *)
(* and a candidate that has won is not given up.                              *)
VotingSound == VotingRoundExact /\ VotesCurrent /\ AcceptedWithSupport /\ AcceptedRoundIsFinal

DecisionOf(key) ==
    IF key \in DOMAIN votingRounds THEN votingRounds[key].locked
    ELSE IF key \in DOMAIN roundResults THEN roundResults[key].decision
    ELSE Undecided

KeepsDecisions ==
    \A key \in RoundKeys : DecisionOf(key) # Undecided => DecisionOf(key)' = DecisionOf(key)

(* A locked decision is the decision of the round for good: later votes,      *)
(* finalization, a failed finalization and the next rounds do not change it.  *)
DecisionStable == [][KeepsDecisions]_vars

AcceptsBySupport ==
    \A w \in DOMAIN works :
        works[w].status # "Accepted" /\ works'[w].status = "Accepted" =>
            Cardinality(VotersFor(RoundOf(w), "Support")) >= SupportThreshold

(* A work is accepted only while the votes of its assigned workers for this   *)
(* round are in storage and SupportThreshold of them support the candidate.   *)
AcceptedBySupport == [][AcceptsBySupport]_vars

AdvancesWhenDue ==
    \A w \in DOMAIN works :
        LET next == works'[w]
        IN  next.round # works[w].round \/ (next.status = "Failed" /\ works[w].status # "Failed") =>
              /\ CandidateOverdue(w) \/ ResultRejects(w)
              /\ next.status = "Failed" <=> works[w].round = MaxCandidateRounds - 1
              /\ next.status # "Failed" => next.round = works[w].round + 1

(* A work moves to its next round, or fails, only when its candidate is       *)
(* overdue with none submitted or when its vote ended without acceptance, and *)
(* it fails only in its last round.                                           *)
RoundAdvancesWhenDue == [][AdvancesWhenDue]_vars

(* Nothing but a decision that is locked for good, or a missed deadline,      *)
(* takes a work out of its round, whatever votes, blocks and failed           *)
(* transactions come in between.                                              *)
DecisionsHonoured == DecisionStable /\ AcceptedBySupport /\ RoundAdvancesWhenDue

SlashesForCause ==
    \A w \in Registered :
        workers'[w].activeStake < workers[w].activeStake =>
            \/ w \in DOMAIN pendingUpdates \ DOMAIN pendingUpdates'
            \/ \E key \in RoundKeys : <<key, w>> \in equivocations' \ equivocations
            \/ \E key \in DOMAIN votingRounds \ DOMAIN votingRounds' :
                  /\ w \in assignments[key]
                  /\ <<key, w>> \notin DOMAIN votes
                  /\ now > votingRounds[key].deadline

(* The active stake of a worker shrinks only by its own scheduled update, for *)
(* an equivocation reported now, or for missing a vote that closed now and    *)
(* whose deadline has passed: a worker whose vote was recorded is never       *)
(* slashed for absence.                                                       *)
SlashedForCause == [][SlashesForCause]_vars

LiveDuties(round) ==
    {key \in DOMAIN assignments : key[2] = round /\ assignmentEpochs[key] = currentEpoch}

(* Every assignment has WorkersPerWork distinct registered workers. Within an *)
(* epoch and round no worker has more than its share of duties and no more    *)
(* than MaxWorksPerRound works are assigned, although clear_assignment does   *)
(* not give duties back.                                                      *)
DutiesBounded ==
    /\ \A key \in DOMAIN assignments :
          /\ Cardinality(assignments[key]) = WorkersPerWork
          /\ assignments[key] \subseteq Registered
          /\ assignmentEpochs[key] <= currentEpoch
    /\ \A r \in Rounds :
          /\ Cardinality(LiveDuties(r)) <= assignedWorkCount[r]
          /\ assignedWorkCount[r] <= MaxWorksPerRound
          /\ \A w \in WorkerIds :
                /\ Cardinality({key \in LiveDuties(r) : w \in assignments[key]}) <= dutyCounts[r][w]
                /\ dutyCounts[r][w] <= MaxDutiesPerWorkerPerRound

(* The suspension of w is over, or was imposed in this epoch *)
NotSuspendedBefore(w) ==
    workers[w].suspendedUntil \in 0..currentEpoch \cup {currentEpoch + EquivocationSuspension}

ActiveNotSuspended == \A w \in activeWorkers : NotSuspendedBefore(w)

HonoursSuspension ==
    \A key \in DOMAIN assignments' \ DOMAIN assignments :
        \A w \in assignments'[key] : NotSuspendedBefore(w)

(* A worker whose suspension is running is given no new work, except in the   *)
(* epoch in which the equivocation was reported: the active set is renewed at *)
(* epoch boundaries only.                                                     *)
SuspensionHonoured == [][HonoursSuspension]_vars

(* With a pool that can pay, no deadline is still pending once the hooks of a *)
(* later block have run: a vote that can be cast and a candidate that can be  *)
(* submitted are always on time.                                              *)
NothingOverdue ==
    Dispatching => /\ \A key \in DOMAIN votingRounds : now <= votingRounds[key].deadline
                   /\ \A w \in DOMAIN works : ~CandidateOverdue(w)
-----------------------------------------------------------------------------
(* Progress *)

FairSpec == Spec /\ WF_vars(Hooks)

Unsettled(w) == w \in DOMAIN works /\ works[w].status \in PendingStatuses

(* Block production alone settles every work: whatever the workers do or fail *)
(* to do, a submitted work is in the end accepted or failed.                  *)
EveryWorkSettles == \A w \in WorkIds : Unsettled(w) ~> ~Unsettled(w)
-----------------------------------------------------------------------------
(* What the repository says and the code does not do *)

(* Reduced stake is released two epochs later: once an epoch has begun, no    *)
(* chunk that unlocks in it is left.                                          *)
MaturedStakeReleased ==
    Dispatching => \A w \in DOMAIN unbonding : unbonding[w].unlockEpoch > currentEpoch

(* Every assigned worker is in the active set *)
AssignedWorkersActive ==
    \A key \in DOMAIN assignments :
        Cardinality(assignments[key]) = WorkersPerWork /\ assignments[key] \subseteq activeWorkers
=============================================================================
