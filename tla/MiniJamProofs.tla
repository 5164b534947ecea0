--------------------------- MODULE MiniJamProofs ----------------------------
(* Theorems, for all constants, about the two pallets together. *)
EXTENDS StakeSteps, FiniteSetTheorems, FunctionTheorems

-----------------------------------------------------------------------------
(* Cardinalities *)

(* Registered workers are finitely many. *)
LEMMA RegisteredFinite ==
    ASSUME StakeTypeOK
    PROVE  IsFiniteSet(Registered) /\ WorkerCount \in Nat
<1>1. IsFiniteSet(WorkerIds)
  BY WorkersAssumption, FS_Interval DEF WorkerIds
<1>2. IsFiniteSet(Registered)
  BY Zenon, <1>1, FS_Subset DEF StakeTypeOK
<1> QED BY Zenon, <1>2, FS_CardinalityType DEF WorkerCount

(* The slashes of a set of workers add up to a natural number. *)
LEMMA TotalSlashType ==
    ASSUME StakeTypeOK, NEW W \in SUBSET Registered
    PROVE  TotalAbsenceSlash(W) \in Nat /\ IsFiniteSet(W)
<1> DEFINE units(w) == {w} \X (1..ActualAbsenceSlash(w))
           family == {units(w) : w \in W}
<1>1. IsFiniteSet(W)
  BY Zenon, RegisteredFinite, FS_Subset
<1>2. ASSUME NEW w \in W PROVE IsFiniteSet(units(w))
  <2>1. IsFiniteSet({w})
    BY Zenon, FS_Singleton
  <2>2. IsFiniteSet(1..ActualAbsenceSlash(w))
    BY ActualSlashBounds, FS_Interval
  <2> QED BY Zenon, <2>1, <2>2, FS_Product
<1>3. IsFiniteSet(family)
  <2> DEFINE f == [w \in W |-> units(w)]
  <2>1. f \in Surjection(W, family)
    BY Zenon, Fun_IsSurj
  <2> QED BY Zenon, <1>1, <2>1, FS_Surjection
<1>4. IsFiniteSet(UNION family)
  BY Zenon, <1>2, <1>3, FS_UNION
<1> QED BY Zenon, <1>1, <1>4, FS_CardinalityType DEF TotalAbsenceSlash

(* The facts about cardinalities that the steps rest on. *)
LEMMA Countable == StakeTypeOK => WorkersCountable
  BY Zenon, TotalSlashType, FS_CardinalityType DEF WorkersCountable

(* Work ids start at 0 and have no gaps. *)
LEMMA IdsCount == Cardinality({}) = 0 /\ \A n \in Nat : Cardinality(0..n) = n + 1
  BY FS_EmptySet, FS_Interval

(* The subsets of a finite set can be counted. *)
LEMMA FiniteCounts ==
    ASSUME NEW T, IsFiniteSet(T)
    PROVE  Counts(T)
<1>1. Cardinality({}) = 0
  BY Zenon, FS_EmptySet
<1>2. ASSUME NEW S \in SUBSET T
      PROVE  /\ Cardinality(S) \in Nat
             /\ \A x \in T \ S : Cardinality(S \cup {x}) = Cardinality(S) + 1
             /\ \A R \in SUBSET S : Cardinality(R) <= Cardinality(S)
  <2>1. IsFiniteSet(S)
    BY Zenon, FS_Subset
  <2> QED BY Zenon, <2>1, FS_CardinalityType, FS_AddElement, FS_Subset
<1> QED BY Zenon, <1>1, <1>2 DEF Counts

(* Disjoint subsets of the workers are counted apart. *)
LEMMA WorkersCountApart == CountsApart(WorkerIds)
<1> SUFFICES ASSUME NEW R \in SUBSET WorkerIds, NEW S \in SUBSET WorkerIds, R \cap S = {}
             PROVE  Cardinality(R \cup S) = Cardinality(R) + Cardinality(S)
  BY Zenon DEF CountsApart
<1>1. IsFiniteSet(R) /\ IsFiniteSet(S)
  <2>1. IsFiniteSet(WorkerIds)
    BY WorkersAssumption, FS_Interval DEF WorkerIds
  <2> QED BY Zenon, <2>1, FS_Subset
<1>2. Cardinality(R \cup S) = Cardinality(R) + Cardinality(S) - Cardinality(R \cap S)
  BY Zenon, <1>1, FS_Union
<1>3. Cardinality(R \cap S) = 0
  BY Zenon, FS_EmptySet
<1>4. Cardinality(R) \in Nat /\ Cardinality(S) \in Nat
  BY Zenon, <1>1, FS_CardinalityType
<1> QED BY ONLY <1>2, <1>3, <1>4

(* Works, workers and rounds are finitely many. *)
LEMMA AllCount == Counts(WorkIds) /\ Counts(WorkerIds) /\ Counts(RoundKeys)
<1>1. IsFiniteSet(WorkIds) /\ IsFiniteSet(Rounds)
  BY Zenon, WorkersAssumption
<1>2. IsFiniteSet(WorkerIds)
  BY WorkersAssumption, FS_Interval DEF WorkerIds
<1>3. IsFiniteSet(RoundKeys)
  BY Zenon, <1>1, FS_Product DEF RoundKeys
<1> QED BY Zenon, <1>1, <1>2, <1>3, FiniteCounts
-----------------------------------------------------------------------------
(* The invariant *)

(* Every iteration of a hook and every accepted call keeps the storage of the *)
(* two pallets in agreement.                                                  *)
LEMMA NextStorage == StorageInv /\ [Next]_vars => StorageInv'
<1> SUFFICES ASSUME StorageInv, [Next]_vars PROVE StorageInv'
  BY Zenon
<1>1. WorkersCountable
  BY Zenon, Countable DEF StorageInv, TypeOK
<1> QED BY Zenon, <1>1, IdsCount, StorageStep

(* For any number of accounts, workers, works and rounds and any bounds, the  *)
(* storage items of the two pallets agree in every reachable state.           *)
THEOREM StorageInvariant == Spec => []StorageInv
<1>1. Init => StorageInv
  BY Zenon, IdsCount, InitStorage
<1> QED BY <1>1, NextStorage, PTL DEF Spec

(* Every storage item keeps its type: no balance, hold or stake underflows,   *)
(* and every id in storage names a worker or a work that exists.              *)
THEOREM TypeCorrect == Spec => []TypeOK
<1>1. StorageInv => TypeOK
  BY Zenon DEF StorageInv
<1> QED BY <1>1, StorageInvariant, PTL

(* The status of a work, its assignment, its candidate, its vote and its      *)
(* result tell one story, whatever hooks and calls ran in between.            *)
THEOREM RoundsCoherent == Spec => []RoundStateCoherent
<1>1. StorageInv => RoundStateCoherent
  BY Zenon DEF StorageInv
<1> QED BY <1>1, StorageInvariant, PTL

(* prepare_round always opens a round in which nothing is stored yet. *)
THEOREM RoundsFresh == Spec => []RoundsReached
<1>1. StorageInv => RoundsReached
  BY Zenon DEF StorageInv
<1> QED BY <1>1, StorageInvariant, PTL

(* PendingWorks is exactly the unsettled works: on_initialize forgets none    *)
(* and visits no settled one, although it swap_removes from what it walks.    *)
THEOREM PendingWorksCorrect == Spec => []PendingWorksExact
<1>1. StorageInv => PendingWorksExact
  BY Zenon DEF StorageInv
<1> QED BY <1>1, StorageInvariant, PTL

(* OpenVoteRounds is exactly the rounds being voted on, so no vote escapes    *)
(* finalize_due_votes.                                                        *)
THEOREM OpenVotesCorrect == Spec => []OpenVoteRoundsExact
<1>1. StorageInv => OpenVoteRoundsExact
  BY Zenon DEF StorageInv
<1> QED BY <1>1, StorageInvariant, PTL

(* Every queued or quarantined work passes the checks of on_finalize, and no  *)
(* work is queued twice.                                                      *)
THEOREM QueueCorrect == Spec => []ExecutionQueueSound
<1>1. StorageInv => ExecutionQueueSound
  BY Zenon DEF StorageInv
<1> QED BY <1>1, StorageInvariant, PTL

(* The bookkeeping of the pallet never makes on_finalize panic. *)
THEOREM ChainNeverHalts == Spec => []NeverHalted
<1>1. StorageInv => NeverHalted
  BY Zenon DEF StorageInv
<1> QED BY <1>1, StorageInvariant, PTL
-----------------------------------------------------------------------------
(* The invariant of money, votes and duties *)

(* What the steps of the two pallets preserve together. Each conjunct is      *)
(* preserved with the help of StorageInv and, where a vote is counted or a    *)
(* worker slashed, of the conjuncts before it.                                *)
SystemInv ==
    /\ StorageInv
    /\ HoldsExact
    /\ QueueSound
    /\ VotingSound
    /\ DutiesBounded
    /\ StakeNeverOverHeld
    /\ ActiveNotSuspended

(* At genesis nothing is held for works, queued, assigned or voted on. *)
LEMMA InitSystem == Init => SystemInv
<1> SUFFICES ASSUME Init PROVE SystemInv
  BY Zenon
<1>1. StorageInv
  BY Zenon, IdsCount, InitStorage
<1>2. /\ works = <<>> /\ executionQueue = <<>> /\ assignments = <<>> /\ votingRounds = <<>>
      /\ votes = <<>> /\ roundResults = <<>> /\ pendingUpdates = <<>> /\ unbonding = <<>>
      /\ depositHold = [a \in Accounts |-> 0] /\ bondHold = [a \in Accounts |-> 0]
      /\ assignedWorkCount = [r \in Rounds |-> 0]
      /\ dutyCounts = [r \in Rounds |-> [w \in WorkerIds |-> 0]]
      /\ currentEpoch = 0 /\ activeWorkers = Top(workers, GenesisIds)
      /\ stakeHold = [w \in GenesisIds |-> GenesisWorkers[w + 1][2]]
      /\ workers = [w \in GenesisIds |->
                      [owner |-> GenesisWorkers[w + 1][1], activeStake |-> GenesisWorkers[w + 1][2],
                       effectiveEpoch |-> 0, suspendedUntil |-> 0]]
  BY Zenon DEF Init, WorkersInit
<1>3. /\ DOMAIN works = {} /\ DOMAIN executionQueue = {} /\ DOMAIN assignments = {}
      /\ DOMAIN votingRounds = {} /\ DOMAIN votes = {} /\ DOMAIN roundResults = {}
      /\ DOMAIN pendingUpdates = {} /\ DOMAIN unbonding = {}
  BY <1>2
<1>4. HoldsExact
  <2>1. \A a : UnsettledOf(a) = {} /\ VotingOf(a) = {}
    BY Zenon, <1>3 DEF UnsettledOf, VotingOf
  <2>2. WorkDeposit * 0 = 0 /\ CandidateBond * 0 = 0
    BY MiniJamAssumption
  <2> QED BY Zenon, <1>2, <2>1, <2>2, IdsCount DEF HoldsExact, DepositsExact, BondsExact
<1>5. QueueSound
  BY Zenon, <1>1, <1>3 DEF StorageInv, QueueSound, QueueInOrder, PackagesDistinct
<1>6. VotingSound
  BY Zenon, <1>3
  DEF VotingSound, VotingRoundExact, VotesCurrent, AcceptedWithSupport, AcceptedRoundIsFinal
<1>7. DutiesBounded
  <2>1. \A r : LiveDuties(r) = {} /\ \A w : {key \in LiveDuties(r) : w \in assignments[key]} = {}
    BY Zenon, <1>3 DEF LiveDuties
  <2>2. /\ MaxWorksPerRound \in Nat /\ MaxDutiesPerWorkerPerRound \in Nat /\ Cardinality({}) = 0
        /\ 0 <= 0
    BY WorkersAssumption, IdsCount
  <2>3. 0 <= MaxWorksPerRound /\ 0 <= MaxDutiesPerWorkerPerRound
    BY <2>2
  <2> QED BY Zenon, <1>2, <1>3, <2>1, <2>2, <2>3 DEF DutiesBounded
<1>8. StakeNeverOverHeld
  <2>1. Registered = GenesisIds
    BY Zenon, <1>2 DEF Registered
  <2>2. Len(GenesisWorkers) \in Nat
    BY GenesisAssumption
  <2>3. Cardinality(0..(Len(GenesisWorkers) - 1)) = Len(GenesisWorkers)
    <3>1. PICK n \in Int : n = Len(GenesisWorkers) - 1
      BY <2>2
    <3>2. Cardinality(0..n) = IF 0 > n THEN 0 ELSE n - 0 + 1
      BY FS_Interval
    <3> QED BY <2>2, <3>1, <3>2
  <2>4. Registered = 0..(WorkerCount - 1)
    BY Zenon, <2>1, <2>3 DEF WorkerCount, GenesisIds
  <2>5. ASSUME NEW w \in Registered PROVE stakeHold[w] <= StakeClaim(w)
    <3>1. stakeHold[w] = workers[w].activeStake /\ stakeHold[w] \in Nat
      BY Zenon, <1>1, <1>2, <2>1 DEF StorageInv, TypeOK, StakeTypeOK
    <3> QED BY <1>3, <3>1 DEF StakeClaim
  <2> QED BY Zenon, <1>3, <2>4, <2>5 DEF StakeNeverOverHeld
<1>9. ActiveNotSuspended
  <2>1. \A w \in activeWorkers : workers[w].suspendedUntil = 0
    BY Zenon, <1>2 DEF Top
  <2> QED BY <1>2, <2>1 DEF ActiveNotSuspended, NotSuspendedBefore
<1> QED BY Zenon, <1>1, <1>4, <1>5, <1>6, <1>7, <1>8, <1>9 DEF SystemInv

(* Every step preserves the invariant of money, votes and duties. *)
LEMMA NextSystem == SystemInv /\ [Next]_vars => SystemInv'
<1> SUFFICES ASSUME SystemInv, [Next]_vars PROVE SystemInv'
  BY Zenon
<1>1. /\ StorageInv /\ DepositsExact /\ BondsExact /\ QueueInOrder /\ PackagesDistinct
      /\ VotingRoundExact /\ VotesCurrent /\ AcceptedWithSupport /\ AcceptedRoundIsFinal
      /\ DutiesBounded /\ StakeNeverOverHeld /\ ActiveNotSuspended
  BY Zenon DEF SystemInv, HoldsExact, QueueSound, VotingSound
<1>2. /\ StorageInv' /\ WorkEffect /\ RoundEffect /\ DutyEffect /\ StakeEffect /\ QueueEffect
  BY Zenon, <1>1, AllCount, NextStorage, NextWorkEffect, NextRoundEffect, NextDutyEffect,
     NextStakeEffect, NextQueueEffect
<1>3. HoldsExact'
  BY Zenon, <1>1, <1>2, AllCount, DepositsStep, BondsStep DEF HoldsExact
<1>4. QueueSound'
  BY Zenon, <1>1, <1>2, QueueInOrderStep, PackagesStep DEF QueueSound, StorageInv
<1>5. \A key \in DOMAIN assignments : Cardinality(assignments[key]) = WorkersPerWork
  BY Zenon, <1>1 DEF DutiesBounded
<1>6. VotingSound'
  BY Zenon, <1>1, <1>2, <1>5, AllCount, VotingRoundExactStep, VotesCurrentStep, AcceptedWithSupportStep,
     AcceptedRoundIsFinalStep
  DEF VotingSound
<1>7. DutiesBounded'
  BY Zenon, <1>1, <1>2, AllCount, DutiesBoundedStep
<1>8. StakeNeverOverHeld'
  BY Zenon, <1>1, <1>2, AllCount, IdsCount, StakeNeverOverHeldStep
<1>9. ActiveNotSuspended'
  BY Zenon, <1>1, <1>2, ActiveNotSuspendedStep
<1> QED BY Zenon, <1>2, <1>3, <1>4, <1>6, <1>7, <1>8, <1>9 DEF SystemInv

(* For all constants: money, queue, votes, duties and stake stay in order in  *)
(* every reachable state.                                                     *)
THEOREM SystemInvariant == Spec => []SystemInv
  BY InitSystem, NextSystem, PTL DEF Spec
-----------------------------------------------------------------------------
(* What follows from it *)

(* The deposits and bonds on hold are those of the works and candidates that  *)
(* are not settled, for any number of works, rounds and accounts.             *)
THEOREM HoldsAreExact == Spec => []HoldsExact
<1>1. SystemInv => HoldsExact
  BY Zenon DEF SystemInv
<1> QED BY <1>1, SystemInvariant, PTL

(* The execution queue is in the order in which works fall due, each queued   *)
(* work can be executed and is queued once, and no two works share a package. *)
THEOREM QueueStaysSound == Spec => []QueueSound
<1>1. SystemInv => QueueSound
  BY Zenon DEF SystemInv
<1> QED BY <1>1, SystemInvariant, PTL

(* Counters, votes in storage and decisions agree, and a candidate that has   *)
(* won is not given up.                                                       *)
THEOREM VotingStaysSound == Spec => []VotingSound
<1>1. SystemInv => VotingSound
  BY Zenon DEF SystemInv
<1> QED BY <1>1, SystemInvariant, PTL

(* Every assignment is complete and within the limits of its epoch and round. *)
THEOREM DutiesStayBounded == Spec => []DutiesBounded
<1>1. SystemInv => DutiesBounded
  BY Zenon DEF SystemInv
<1> QED BY <1>1, SystemInvariant, PTL

(* No stake is held that the pallet cannot account for. *)
THEOREM StakeIsAccountedFor == Spec => []StakeNeverOverHeld
<1>1. SystemInv => StakeNeverOverHeld
  BY Zenon DEF SystemInv
<1> QED BY <1>1, SystemInvariant, PTL

(* advance_or_fail never rolls back for want of a hold: the transaction that  *)
(* settles a lost round always finds the bond and the deposit it releases or  *)
(* slashes.                                                                   *)
THEOREM RoundsAlwaysAdvance == Spec => []RoundsCanAdvance
<1>1. SystemInv => RoundsCanAdvance
  BY Zenon, AllCount, HoldsLetAdvance DEF SystemInv
<1> QED BY <1>1, SystemInvariant, PTL

(* While the reward pool can pay the voters of a round, no vote and no        *)
(* candidate is past its deadline once on_initialize has run: no iteration of *)
(* the hooks that deals with one is rolled back.                              *)
THEOREM NothingStaysOverdue == Spec /\ []PoolPaysVoters => []NothingOverdue
<1>1. Init => OverdueAhead
  BY Zenon, InitOverdueAhead
<1>2. SystemInv /\ SystemInv' /\ RoundsCanAdvance /\ PoolPaysVoters /\ OverdueAhead /\ [Next]_vars
          => OverdueAhead'
  BY Zenon, AllCount, OverdueAheadStep DEF SystemInv
<1>3. OverdueAhead => NothingOverdue
  BY Zenon, AheadNotOverdue
<1> QED BY <1>1, <1>2, <1>3, SystemInvariant, RoundsAlwaysAdvance, PTL DEF Spec
-----------------------------------------------------------------------------
(* What a step never does *)

(* A package is executed at most once: it keeps its work, and the work is     *)
(* imported only out of Accepted.                                             *)
THEOREM PackagesImportedOnce == Spec => ImportedOnce
<1>1. StorageInv /\ [Next]_vars => [ImportsOnce]_vars
  BY Zenon, NextWorkEffect, ImportsOnceStep
<1> QED BY <1>1, StorageInvariant, PTL DEF Spec, ImportedOnce

(* A work leaves its round by a decision that is locked for good and has the  *)
(* votes for it, or by a missed deadline.                                     *)
THEOREM DecisionsAreHonoured == Spec => DecisionsHonoured
<1>1. SystemInv /\ [Next]_vars => [KeepsDecisions]_vars
  BY Zenon, NextRoundEffect, KeepsDecisionsStep DEF SystemInv
<1>2. SystemInv /\ [Next]_vars => [AcceptsBySupport]_vars
  BY Zenon, NextWorkEffect, AcceptsBySupportStep DEF SystemInv, VotingSound
<1>3. SystemInv /\ [Next]_vars => [AdvancesWhenDue]_vars
  BY Zenon, NextWorkEffect, AdvancesWhenDueStep DEF SystemInv
<1> QED
  BY <1>1, <1>2, <1>3, SystemInvariant, PTL
  DEF Spec, DecisionsHonoured, DecisionStable, AcceptedBySupport, RoundAdvancesWhenDue

(* Active stake shrinks only for a cause: the vote that completes a round     *)
(* slashes nobody, and no recorded vote counts as an absence.                 *)
THEOREM SlashesHaveACause == Spec => SlashedForCause
<1>1. SystemInv /\ [Next]_vars => [SlashesForCause]_vars
  <2> SUFFICES ASSUME SystemInv, [Next]_vars PROVE SlashesForCause
    BY Zenon
  <2>1. StorageInv /\ VotingRoundExact /\ StakeNeverOverHeld
    BY Zenon DEF SystemInv, VotingSound
  <2>2. StakeEffect
    BY Zenon, <2>1, AllCount, NextStakeEffect
  <2> QED BY Zenon, <2>1, <2>2, AllCount, SlashesForCauseStep
<1> QED BY <1>1, SystemInvariant, PTL DEF Spec, SlashedForCause

(* A worker whose suspension runs gets no new work, except in the epoch in    *)
(* which its equivocation was reported.                                       *)
THEOREM SuspensionsAreHonoured == Spec => SuspensionHonoured
<1>1. SystemInv /\ [Next]_vars => [HonoursSuspension]_vars
  BY Zenon, NextDutyEffect, HonoursSuspensionStep DEF SystemInv
<1> QED BY <1>1, SystemInvariant, PTL DEF Spec, SuspensionHonoured
-----------------------------------------------------------------------------
(* Refinement *)

(* The two pallets implement WorkLife: submission, acceptance, failure and    *)
(* import of packages, with their deposits, are its steps and every other     *)
(* step of the pallets is a stutter of it.                                    *)
THEOREM ImplementsWorkLife == Spec => KeepsWorkLife
<1>1. Init => Life!LifeInit
  <2> SUFFICES ASSUME Init PROVE Life!LifeInit
    BY Zenon
  <2>1. works = <<>> /\ depositHold = [a \in Accounts |-> 0]
    BY Zenon DEF Init
  <2>2. Submitted = {}
    BY <2>1 DEF Submitted
  <2>3. lifeOf = [p \in Packages |-> "unknown"] /\ ownerOf = <<>>
    BY <2>2 DEF lifeOf, ownerOf
  <2> QED BY Zenon, <2>1, <2>3 DEF Life!LifeInit
<1>2. SystemInv /\ SystemInv' /\ [Next]_vars => [Life!LifeNext]_(Life!lifeVars)
  BY Zenon, NextWorkEffect, LifeStep DEF SystemInv, QueueSound
<1> QED BY <1>1, <1>2, SystemInvariant, PTL DEF Spec, KeepsWorkLife, Life!LifeSpec

(* With thresholds that cannot both be met, as the protocol and the runtime   *)
(* set them, every round of the two pallets is a round of the worker engine:  *)
(* each step is, for each round, a step of CandidateRound or none.            *)
THEOREM ImplementsCandidateRound ==
    ASSUME ThresholdsApart
    PROVE  Spec => RoundsFollowEngine
<1>1. Init => \A key \in RoundKeys : Engine(key)!Init
  BY Zenon, InitFollows
<1>2. SystemInv /\ [Next]_vars => [FollowsEngine]_vars
  BY Zenon, AllCount, WorkersCountApart, NextFollows DEF SystemInv, VotingSound
<1> QED BY <1>1, <1>2, SystemInvariant, PTL DEF Spec, RoundsFollowEngine
=============================================================================
