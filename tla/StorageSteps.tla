---------------------------- MODULE StorageSteps ----------------------------
(* Genesis, the calls and the hooks of the two pallets keep their storage in  *)
(* agreement. The facts about cardinalities that the steps need are           *)
(* assumptions here and are proved in MiniJamProofs.                          *)
EXTENDS MiniJamInvariants, TLAPS

-----------------------------------------------------------------------------
(* Storage maps and bounded vectors *)

(* Inserting a value of the right type keeps a storage map well typed. *)
LEMMA InsertIsMap ==
    ASSUME NEW K, NEW V, NEW m, IsMap(m, K, V), NEW k \in K, NEW v \in V
    PROVE  IsMap(Insert(m, k, v), K, V)
  BY DEF IsMap, Insert

(* Removing keys keeps a storage map well typed. *)
LEMMA RemoveIsMap ==
    ASSUME NEW K, NEW V, NEW m, IsMap(m, K, V), NEW D
    PROVE  IsMap(RemoveAll(m, D), K, V)
  BY DEF IsMap, RemoveAll

(* A vector over S is a vector over any larger set, and so are its tail and   *)
(* what is left of it after a prefix.                                         *)
LEMMA SeqMonotone ==
    ASSUME NEW S, NEW T, S \subseteq T, NEW s \in Seq(S)
    PROVE  s \in Seq(T)
  OBVIOUS

(* The rest of a loop's snapshot is a sequence over the same set. *)
LEMMA TailIsSeq ==
    ASSUME NEW S, NEW s \in Seq(S), s # <<>>
    PROVE  Tail(s) \in Seq(S) /\ Head(s) \in S
  OBVIOUS

(* What is left of a queue once its first n items are taken: SubSeq keeps the *)
(* items after n, in order.                                                   *)
LEMMA SuffixProperties ==
    ASSUME NEW S, NEW s \in Seq(S), NEW n \in 0..Len(s)
    PROVE  LET r == SubSeq(s, n + 1, Len(s))
           IN  /\ r \in Seq(S)
               /\ DOMAIN r = 1..(Len(s) - n)
               /\ \A i \in DOMAIN r : r[i] = s[n + i] /\ n + i \in DOMAIN s
  OBVIOUS

(* A vector's elements after a push. *)
LEMMA ElementsAppend ==
    ASSUME NEW S, NEW s \in Seq(S), NEW v \in S
    PROVE  /\ Append(s, v) \in Seq(S)
           /\ Elements(Append(s, v)) = Elements(s) \cup {v}
           /\ Distinct(s) /\ v \notin Elements(s) => Distinct(Append(s, v))
<1>1. DOMAIN s = 1..Len(s) /\ DOMAIN Append(s, v) = 1..(Len(s) + 1) /\ Len(s) \in Nat
  OBVIOUS
<1>2. \A i \in 1..Len(s) : Append(s, v)[i] = s[i]
  OBVIOUS
<1>3. Append(s, v)[Len(s) + 1] = v
  OBVIOUS
<1>4. Elements(Append(s, v)) = Elements(s) \cup {v}
  BY <1>1, <1>2, <1>3 DEF Elements
<1>5. ASSUME Distinct(s), v \notin Elements(s) PROVE Distinct(Append(s, v))
  BY <1>1, <1>2, <1>3, <1>5 DEF Distinct, Elements
<1> QED BY <1>4, <1>5

(* swap_remove on a vector without repetitions takes out the value and        *)
(* nothing else, and leaves no repetition.                                    *)
LEMMA SwapRemoveProperties ==
    ASSUME NEW S, NEW s \in Seq(S), Distinct(s), NEW v
    PROVE  /\ SwapRemove(s, v) \in Seq(S)
           /\ Distinct(SwapRemove(s, v))
           /\ Elements(SwapRemove(s, v)) = Elements(s) \ {v}
<1>1. CASE v \notin Elements(s)
  BY <1>1 DEF SwapRemove
<1>2. CASE v \in Elements(s)
  <2>0. PICK n \in Nat : n = Len(s) /\ DOMAIN s = 1..n
    OBVIOUS
  <2> DEFINE P(i) == s[i] = v /\ \A j \in 1..(i - 1) : s[j] # v
             index == CHOOSE i \in DOMAIN s : P(i)
             r == [i \in 1..(n - 1) |-> IF i = index THEN s[n] ELSE s[i]]
  <2>1. SwapRemove(s, v) = r
    BY <1>2, <2>0 DEF SwapRemove
  <2>2. \E i \in DOMAIN s : P(i)
    <3>1. PICK i \in 1..n : s[i] = v
      BY <1>2, <2>0 DEF Elements
    <3>2. \A j \in 1..(i - 1) : s[j] # v
      BY <3>1, <2>0 DEF Distinct
    <3> QED BY <3>1, <3>2, <2>0
  <2>3. index \in 1..n /\ s[index] = v
    BY <2>0, <2>2
  <2>4. n >= 1
    BY <2>3
  <2>5. \A i \in 1..(n - 1) : r[i] = IF i = index THEN s[n] ELSE s[i]
    OBVIOUS
  <2>6. r \in Seq(S) /\ DOMAIN r = 1..(n - 1)
    BY <2>0, <2>3, <2>4
  <2> HIDE DEF index, r
  <2>7. Distinct(r)
    <3> SUFFICES ASSUME NEW i \in 1..(n - 1), NEW j \in 1..(n - 1), r[i] = r[j]
                 PROVE  i = j
      BY <2>6 DEF Distinct
    <3> QED BY <2>0, <2>3, <2>4, <2>5 DEF Distinct
  <2>8. Elements(r) = Elements(s) \ {v}
    <3>1. ASSUME NEW i \in 1..(n - 1) PROVE r[i] \in Elements(s) \ {v}
      <4>1. i \in DOMAIN s /\ n \in DOMAIN s /\ i # n
        BY <2>0, <2>4
      <4>2. CASE i = index
        <5>1. r[i] = s[n] /\ s[n] # v
          BY <2>0, <2>3, <2>4, <2>5, <4>1, <4>2 DEF Distinct
        <5> QED BY <5>1, <4>1 DEF Elements
      <4>3. CASE i # index
        <5>1. r[i] = s[i] /\ s[i] # v
          BY <2>0, <2>3, <2>4, <2>5, <4>1, <4>3 DEF Distinct
        <5> QED BY <5>1, <4>1 DEF Elements
      <4> QED BY <4>2, <4>3
    <3>2. ASSUME NEW i \in 1..n, s[i] # v PROVE \E j \in 1..(n - 1) : r[j] = s[i]
      <4>1. CASE i = n
        <5>1. index \in 1..(n - 1)
          BY <2>3, <2>4, <3>2, <4>1
        <5> QED BY <5>1, <2>5, <4>1
      <4>2. CASE i # n
        <5>1. i \in 1..(n - 1)
          BY <2>4, <4>2
        <5>2. i # index
          BY <2>3, <3>2
        <5> QED BY <5>1, <5>2, <2>5
      <4> QED BY <4>1, <4>2
    <3>3. ASSUME NEW x \in Elements(r) PROVE x \in Elements(s) \ {v}
      <4>1. PICK i \in 1..(n - 1) : r[i] = x
        BY ONLY <2>6, <3>3, Zenon DEF Elements
      <4> QED BY ONLY <3>1, <4>1, Zenon
    <3>4. ASSUME NEW x \in Elements(s) \ {v} PROVE x \in Elements(r)
      <4>1. PICK i \in 1..n : s[i] = x /\ x # v
        BY ONLY <2>0, <3>4, Zenon DEF Elements
      <4>2. PICK j \in 1..(n - 1) : r[j] = x
        BY ONLY <3>2, <4>1, Zenon
      <4> QED BY ONLY <2>6, <4>2, Zenon DEF Elements
    <3> QED BY ONLY <3>3, <3>4
  <2> QED BY <2>1, <2>6, <2>7, <2>8
<1> QED BY <1>1, <1>2
-----------------------------------------------------------------------------


-----------------------------------------------------------------------------
(* Slashes *)

(* The requested absence slash never exceeds the stake. *)
LEMMA RequestedSlashBounds ==
    ASSUME NEW s \in Nat
    PROVE  RequestedAbsenceSlash(s) \in 0..s
<1>1. (AbsenceSlash * s) \div 100 \in Nat
  BY WorkersAssumption
<1> QED BY <1>1, WorkersAssumption DEF RequestedAbsenceSlash, Min2, Max2

(* A percentage of a stake is at most the stake. *)
LEMMA PercentBounds ==
    ASSUME NEW p \in 0..100, NEW s \in Nat
    PROVE  (p * s) \div 100 \in 0..s
<1>1. p * s \in Nat /\ p * s <= 100 * s
  OBVIOUS
<1> QED BY <1>1

(* What is taken from an absent worker is covered by its active stake and by  *)
(* what is held.                                                              *)
LEMMA ActualSlashBounds ==
    ASSUME StakeTypeOK, NEW w \in Registered
    PROVE  /\ ActualAbsenceSlash(w) \in Nat
           /\ ActualAbsenceSlash(w) <= workers[w].activeStake
           /\ ActualAbsenceSlash(w) <= stakeHold[w]
<1>1. workers[w].activeStake \in Nat /\ stakeHold[w] \in Nat
  BY Zenon DEF StakeTypeOK, WorkerRecord
<1>2. RequestedAbsenceSlash(workers[w].activeStake) \in 0..workers[w].activeStake
  BY Zenon, <1>1, RequestedSlashBounds
<1> QED BY <1>1, <1>2 DEF ActualAbsenceSlash, Min2
-----------------------------------------------------------------------------
(* Records *)

(* Updating fields within their types keeps a record well typed. *)
LEMMA WorkerRecordUpdate ==
    ASSUME NEW r \in WorkerRecord, NEW m \in Nat, NEW n \in Nat
    PROVE  /\ [r EXCEPT !.activeStake = m] \in WorkerRecord
           /\ [r EXCEPT !.activeStake = m, !.suspendedUntil = n] \in WorkerRecord
           /\ [r EXCEPT !.activeStake = m, !.effectiveEpoch = n] \in WorkerRecord
  BY Zenon DEF WorkerRecord
-----------------------------------------------------------------------------
(* The inductive invariant *)

(* Sets of workers can be counted and their slashes added up. *)
WorkersCountable ==
    \A W \in SUBSET Registered : Cardinality(W) \in Nat /\ TotalAbsenceSlash(W) \in Nat

(* Each conjunct depends on a few variables only and is kept by a step that   *)
(* leaves those alone.                                                        *)
LEMMA StakeFrame ==
    ASSUME StakeTypeOK, UNCHANGED <<free, pool, stakeVars, epochVars>>
    PROVE  StakeTypeOK'
  BY Zenon DEF StakeTypeOK, stakeVars, epochVars, Registered, IsMap

(* A step that leaves the assignment storage alone keeps its type. *)
LEMMA AssignmentFrame ==
    ASSUME AssignmentTypeOK, UNCHANGED assignmentVars, Registered \subseteq Registered'
    PROVE  AssignmentTypeOK'
  BY Zenon DEF AssignmentTypeOK, assignmentVars, IsMap

(* A step that leaves the voting storage alone keeps its type. *)
LEMMA VotingFrame ==
    ASSUME VotingTypeOK, UNCHANGED <<votingVars, equivocations>>
    PROVE  VotingTypeOK'
  BY Zenon DEF VotingTypeOK, votingVars, IsMap

(* A step that leaves works, candidates and holds alone keeps their types. *)
LEMMA WorkFrame ==
    ASSUME WorkTypeOK, UNCHANGED workVars
    PROVE  WorkTypeOK'
  BY Zenon DEF WorkTypeOK, workVars, IsMap

(* A step that leaves the execution queues alone keeps their types. *)
LEMMA QueueFrame ==
    ASSUME QueueTypeOK, UNCHANGED <<queueVars, ingressRelayer>>
    PROVE  QueueTypeOK'
  BY Zenon DEF QueueTypeOK, queueVars

(* A step within a phase of the block keeps the types of the loop state. *)
LEMMA BlockFrame ==
    ASSUME BlockTypeOK, UNCHANGED blockVars, DOMAIN works \subseteq DOMAIN works'
    PROVE  BlockTypeOK'
  BY Zenon, SeqMonotone DEF BlockTypeOK, blockVars

(* RoundStateCoherent depends on six storage maps only. *)
LEMMA CoherentFrame ==
    ASSUME RoundStateCoherent,
           UNCHANGED <<works, assignments, assignmentEpochs, candidates, votingRounds, roundResults>>
    PROVE  RoundStateCoherent'
  BY Zenon DEF RoundStateCoherent, RoundOf

(* RoundsReached depends on works, candidates and results only. *)
LEMMA ReachedFrame ==
    ASSUME RoundsReached, UNCHANGED <<works, candidates, roundResults>>
    PROVE  RoundsReached'
  BY Zenon DEF RoundsReached, NextWorkId

(* PendingWorksExact depends on works and PendingWorks only. *)
LEMMA PendingFrame ==
    ASSUME PendingWorksExact, UNCHANGED <<works, pendingWorks>>
    PROVE  PendingWorksExact'
  BY ZenonT(40) DEF PendingWorksExact, Distinct, Elements

(* OpenVoteRoundsExact depends on the open votes only. *)
LEMMA OpenFrame ==
    ASSUME OpenVoteRoundsExact, UNCHANGED <<openVoteRounds, votingRounds>>
    PROVE  OpenVoteRoundsExact'
  BY Zenon DEF OpenVoteRoundsExact, Distinct, Elements

(* ExecutionQueueSound depends on works, candidates and the two queues only. *)
LEMMA QueueSoundFrame ==
    ASSUME ExecutionQueueSound,
           UNCHANGED <<works, candidates, executionQueue, quarantinedExecutionQueue>>
    PROVE  ExecutionQueueSound'
  BY DEF ExecutionQueueSound, Queued, Executable, RoundOf
-----------------------------------------------------------------------------
(* Calls of pallet-minijam-workers *)

(* register: the new worker gets a fresh id below MaxCandidates and no balance *)
(* goes negative.                                                             *)
LEMMA RegisterStep ==
    ASSUME StorageInv, WorkersCountable,
           NEW a \in Accounts, NEW stake \in StakeAmounts, Register(a, stake),
           UNCHANGED <<blockVars, minijamVars>>
    PROVE  StorageInv'
<1> USE DEF StorageInv, TypeOK
<1>1. stake \in Nat /\ WorkerCount \in Nat /\ WorkerCount \in WorkerIds
  BY WorkersAssumption DEF Register, WorkerIds, WorkerCount, WorkersCountable
<1>2. StakeTypeOK'
  <2>1. Registered' = Registered \cup {WorkerCount}
    BY Zenon DEF Register, Insert, Registered
  <2>2. free' \in [Accounts -> Nat] /\ pool' \in Nat /\ currentEpoch' \in Nat
    BY <1>1 DEF Register, StakeTypeOK, epochVars
  <2>3. workers' \in [Registered' -> WorkerRecord] /\ stakeHold' \in [Registered' -> Nat]
    BY <1>1, <2>1 DEF Register, StakeTypeOK, Insert, WorkerRecord, Registered
  <2> QED
    BY Zenon, <1>1, <2>1, <2>2, <2>3 DEF Register, StakeTypeOK, epochVars, IsMap
<1>3. AssignmentTypeOK'
  BY Zenon, AssignmentFrame DEF Register, Registered, Insert
<1>4. VotingTypeOK'
  BY Zenon, VotingFrame DEF Register
<1> QED
  BY Zenon, <1>2, <1>3, <1>4, WorkFrame, QueueFrame, BlockFrame, CoherentFrame, ReachedFrame, PendingFrame,
     OpenFrame, QueueSoundFrame
  DEF Register, minijamVars, workVars, queueVars, blockVars, assignmentVars, votingVars, NeverHalted

(* schedule_update: what is held in addition was free. *)
LEMMA ScheduleUpdateStep ==
    ASSUME StorageInv, NEW w \in Registered, NEW stake \in StakeAmounts \cup {NoStake},
           ScheduleUpdate(w, stake), UNCHANGED <<blockVars, minijamVars>>
    PROVE  StorageInv'
<1> USE DEF StorageInv, TypeOK
<1>1. stake \in Nat
  BY WorkersAssumption DEF NoStake
<1>2. StakeTypeOK'
  <2> DEFINE owner == workers[w].owner
             extra == Max2(stake - workers[w].activeStake, 0)
  <2>1. owner \in Accounts /\ extra \in Nat /\ free[owner] >= extra
    BY <1>1 DEF ScheduleUpdate, StakeTypeOK, WorkerRecord, Max2
  <2>2. free' = [free EXCEPT ![owner] = @ - extra] /\ stakeHold' = [stakeHold EXCEPT ![w] = @ + extra]
    BY Zenon DEF ScheduleUpdate
  <2> HIDE DEF owner, extra
  <2>3. free' \in [Accounts -> Nat] /\ stakeHold' \in [Registered -> Nat]
    BY <2>1, <2>2 DEF StakeTypeOK
  <2>4. [stake |-> stake, effectiveEpoch |-> currentEpoch + 1] \in PendingWorkerUpdate
    BY <1>1 DEF StakeTypeOK, PendingWorkerUpdate
  <2>5. IsMap(pendingUpdates', Registered, PendingWorkerUpdate)
    BY Zenon, <2>4, InsertIsMap DEF ScheduleUpdate, StakeTypeOK
  <2> QED
    BY Zenon, <2>3, <2>5 DEF ScheduleUpdate, StakeTypeOK, epochVars, Registered
<1>3. AssignmentTypeOK'
  BY Zenon, AssignmentFrame DEF ScheduleUpdate, Registered
<1>4. VotingTypeOK'
  BY Zenon, VotingFrame DEF ScheduleUpdate
<1> QED
  BY Zenon, <1>2, <1>3, <1>4, WorkFrame, QueueFrame, BlockFrame, CoherentFrame, ReachedFrame, PendingFrame,
     OpenFrame, QueueSoundFrame
  DEF ScheduleUpdate, minijamVars, workVars, queueVars, blockVars, assignmentVars, votingVars,
      NeverHalted

(* submit_equivocation: the slash is at most the stake held and the active stake. *)
LEMMA SubmitEquivocationStep ==
    ASSUME StorageInv, NEW key \in DOMAIN assignments, NEW w \in Registered,
           SubmitEquivocation(key, w), UNCHANGED <<blockVars, minijamVars>>
    PROVE  StorageInv'
<1> USE DEF StorageInv, TypeOK
<1> DEFINE s == workers[w].activeStake
           actual == Min2((EquivocationSlash * s) \div 100, stakeHold[w])
           slashed == [workers[w] EXCEPT !.activeStake = @ - actual,
                                         !.suspendedUntil = currentEpoch + EquivocationSuspension]
<1>1. s \in Nat /\ stakeHold[w] \in Nat /\ currentEpoch \in Nat
  BY Zenon DEF StakeTypeOK, WorkerRecord
<1>2. actual \in Nat /\ actual <= s /\ actual <= stakeHold[w]
  BY <1>1, PercentBounds, WorkersAssumption DEF Min2
<1>3. /\ stakeHold' = [stakeHold EXCEPT ![w] = @ - actual]
      /\ pool' = pool + actual
      /\ workers' = [workers EXCEPT ![w] = slashed]
  BY Zenon DEF SubmitEquivocation
<1> HIDE DEF actual
<1>4. StakeTypeOK'
  <2>0. slashed \in WorkerRecord
    <3>1. workers[w] \in WorkerRecord /\ s - actual \in Nat
              /\ currentEpoch + EquivocationSuspension \in Nat
      BY <1>1, <1>2, WorkersAssumption DEF StakeTypeOK
    <3> QED BY Zenon, <3>1, WorkerRecordUpdate
  <2> HIDE DEF slashed
  <2>1. workers' \in [Registered -> WorkerRecord] /\ Registered' = Registered
    BY Zenon, <1>3, <2>0 DEF StakeTypeOK, Registered
  <2>2. stakeHold' \in [Registered -> Nat] /\ pool' \in Nat
    BY <1>1, <1>2, <1>3 DEF StakeTypeOK
  <2> QED
    BY Zenon, <2>1, <2>2 DEF SubmitEquivocation, StakeTypeOK, epochVars
<1>5. AssignmentTypeOK'
  BY Zenon, <1>3, AssignmentFrame DEF SubmitEquivocation, Registered
<1>6. VotingTypeOK'
  <2>1. <<key, w>> \in RoundKeys \X WorkerIds
    BY Zenon DEF AssignmentTypeOK, StakeTypeOK, IsMap
  <2> QED
    BY Zenon, <2>1 DEF SubmitEquivocation, VotingTypeOK, votingVars, IsMap
<1> QED
  BY Zenon, <1>4, <1>5, <1>6, WorkFrame, QueueFrame, BlockFrame, CoherentFrame, ReachedFrame, PendingFrame,
     OpenFrame, QueueSoundFrame
  DEF SubmitEquivocation, minijamVars, workVars, queueVars, blockVars, assignmentVars, votingVars,
      NeverHalted
-----------------------------------------------------------------------------
(* Votes *)

(* finalize_voting keeps the types of stake and balances, whoever voted. *)
LEMMA FinalizeVotingStake ==
    ASSUME StakeTypeOK, WorkersCountable, NEW key, NEW voters, NEW decision,
           assignments[key] \subseteq Registered, voters \subseteq assignments[key],
           FinalizeVoting(key, voters, decision),
           UNCHANGED <<pendingUpdates, unbonding, epochVars>>
    PROVE  StakeTypeOK' /\ Registered' = Registered
<1> DEFINE absent == assignments[key] \ voters
           rewards == TimelyVoteReward * Cardinality(voters)
<1>1. absent \subseteq Registered /\ voters \subseteq Registered
  BY Zenon
<1>2. Cardinality(voters) \in Nat /\ TotalAbsenceSlash(absent) \in Nat
  BY Zenon, <1>1 DEF WorkersCountable
<1>3. rewards \in Nat
  BY <1>2, WorkersAssumption
<1>4. pool' \in Nat
  BY <1>2, <1>3 DEF FinalizeVoting, StakeTypeOK
<1>5. free' \in [Accounts -> Nat]
  BY WorkersAssumption DEF FinalizeVoting, StakeTypeOK
<1>6. stakeHold' \in [Registered -> Nat]
  BY ActualSlashBounds DEF FinalizeVoting, StakeTypeOK
<1>7. workers' \in [Registered -> WorkerRecord]
  <2>1. ASSUME NEW w \in Registered
        PROVE  [workers[w] EXCEPT !.activeStake = @ - ActualAbsenceSlash(w)] \in WorkerRecord
    <3>1. workers[w] \in WorkerRecord /\ workers[w].activeStake - ActualAbsenceSlash(w) \in Nat
      BY ActualSlashBounds DEF StakeTypeOK, WorkerRecord
    <3> QED BY Zenon, <3>1, WorkerRecordUpdate
  <2> QED
    BY Zenon, <2>1 DEF FinalizeVoting, StakeTypeOK
<1>8. Registered' = Registered
  BY Zenon, <1>7 DEF Registered
<1> QED
  BY Zenon, <1>4, <1>5, <1>6, <1>7, <1>8 DEF StakeTypeOK, epochVars, IsMap

(* finalize_voting closes the round and records its result. *)
LEMMA FinalizeVotingRounds ==
    ASSUME VotingTypeOK, AssignmentTypeOK, StakeTypeOK, OpenVoteRoundsExact, RoundStateCoherent,
           RoundsReached, WorkTypeOK,
           NEW key \in DOMAIN votingRounds, NEW voters,
           NEW decision \in {Undecided, "Accepted", "Rejected"},
           FinalizeVoting(key, voters, decision),
           UNCHANGED <<works, assignments, assignmentEpochs, candidates>>
    PROVE  /\ IsMap(votingRounds', RoundKeys, VotingRound)
           /\ openVoteRounds' \in Seq(RoundKeys)
           /\ IsMap(roundResults', RoundKeys, RoundResult)
           /\ OpenVoteRoundsExact'
           /\ RoundStateCoherent'
           /\ RoundsReached'
<1>1. key \in RoundKeys /\ key \in DOMAIN assignments
  BY Zenon DEF VotingTypeOK, IsMap, RoundStateCoherent
<1>2. assignments[key] \subseteq WorkerIds
  BY Zenon, <1>1 DEF AssignmentTypeOK, StakeTypeOK, IsMap
<1>3. /\ votingRounds' = RemoveAll(votingRounds, {key})
      /\ openVoteRounds' = SwapRemove(openVoteRounds, key)
      /\ roundResults' = Insert(roundResults, key,
                            [decision |-> decision, absentees |-> assignments[key] \ voters])
  BY Zenon DEF FinalizeVoting
<1>4. [decision |-> decision, absentees |-> assignments[key] \ voters] \in RoundResult
  BY Zenon, <1>2 DEF RoundResult
<1>5. IsMap(votingRounds', RoundKeys, VotingRound)
  BY Zenon, <1>3, RemoveIsMap DEF VotingTypeOK
<1>6. IsMap(roundResults', RoundKeys, RoundResult)
  BY Zenon, <1>1, <1>3, <1>4, InsertIsMap DEF VotingTypeOK
<1>7. openVoteRounds' \in Seq(RoundKeys) /\ OpenVoteRoundsExact'
  BY <1>3, SwapRemoveProperties DEF VotingTypeOK, OpenVoteRoundsExact, RemoveAll
<1>8. DOMAIN votingRounds' = DOMAIN votingRounds \ {key}
      /\ DOMAIN roundResults' = DOMAIN roundResults \cup {key}
  BY Zenon, <1>3 DEF RemoveAll, Insert
<1>9. key[1] \in DOMAIN works /\ key = RoundOf(key[1]) /\ key[2] = works[key[1]].round
  BY <1>1 DEF RoundStateCoherent, RoundOf
<1>10. RoundsReached'
  <2>1. works[key[1]].round \in Int
    <3>1. works[key[1]].round \in Rounds
      BY Zenon, <1>9 DEF WorkTypeOK, WorkRecord
    <3>2. \A r \in Rounds : r \in Int
      BY WorkersAssumption
    <3> QED BY Zenon, <3>1, <3>2
  <2> QED BY <2>1, <1>8, <1>9 DEF RoundsReached, NextWorkId
<1>11. RoundStateCoherent'
  BY Zenon, <1>1, <1>8, <1>9 DEF RoundStateCoherent, RoundOf
<1> QED
  BY Zenon, <1>5, <1>6, <1>7, <1>10, <1>11

(* Counting a vote keeps the counters and the decision well typed. *)
LEMMA CountedType ==
    ASSUME NEW voting \in VotingRound, NEW verdict
    PROVE  /\ Counted(voting, verdict) \in VotingRound
           /\ Locked(voting) \in {Undecided, "Accepted", "Rejected"}
           /\ [voting EXCEPT !.locked = Locked(voting)] \in VotingRound
<1>1. Locked(voting) \in {Undecided, "Accepted", "Rejected"}
  BY Zenon DEF Locked, VotingRound
<1>2. ASSUME NEW m \in Nat, NEW n \in Nat, NEW k \in Nat
      PROVE  [voting EXCEPT !.support = m, !.oppose = n, !.responses = k] \in VotingRound
  BY Zenon DEF VotingRound
<1>3. [voting EXCEPT !.locked = Locked(voting)] \in VotingRound
  BY Zenon, <1>1 DEF VotingRound
<1>4. Counted(voting, verdict) \in VotingRound
  <2> DEFINE m == IF verdict = "Support" THEN voting.support + 1 ELSE voting.support
             n == IF verdict = "Oppose" THEN voting.oppose + 1 ELSE voting.oppose
             k == voting.responses + 1
  <2>1. m \in Nat /\ n \in Nat /\ k \in Nat
    BY DEF VotingRound
  <2>2. Counted(voting, verdict) = [voting EXCEPT !.support = m, !.oppose = n, !.responses = k]
    BY Zenon DEF Counted
  <2> HIDE DEF m, n, k
  <2>3. [voting EXCEPT !.support = m, !.oppose = n, !.responses = k] \in VotingRound
    BY Zenon, <1>2, <2>1
  <2> QED BY Zenon, <2>2, <2>3
<1> QED BY Zenon, <1>1, <1>3, <1>4

(* submit_vote: the vote is counted, or it completes the round, which then moves *)
(* from VotingRounds to RoundResults.                                         *)
LEMMA SubmitVoteStep ==
    ASSUME StorageInv, WorkersCountable,
           NEW key \in DOMAIN votingRounds, NEW w \in Registered,
           NEW verdict \in {"Support", "Oppose"},
           SubmitVote(key, w, verdict), UNCHANGED <<blockVars, minijamVars>>
    PROVE  StorageInv'
<1> USE DEF StorageInv, TypeOK
<1> DEFINE counted == Counted(votingRounds[key], verdict)
           voting == [counted EXCEPT !.locked = Locked(counted)]
<1>1. key \in RoundKeys /\ key \in DOMAIN assignments /\ assignments[key] \subseteq Registered
  BY Zenon DEF VotingTypeOK, AssignmentTypeOK, RoundStateCoherent, IsMap
<1>2. voting \in VotingRound /\ voting.locked \in {Undecided, "Accepted", "Rejected"}
  <2>1. counted \in VotingRound
    BY Zenon, CountedType DEF VotingTypeOK, IsMap
  <2>2. voting \in VotingRound
    BY Zenon, <2>1, CountedType
  <2> HIDE DEF voting
  <2> QED BY Zenon, <2>2 DEF VotingRound
<1>3. /\ IF voting.responses >= Cardinality(assignments[key])
         THEN FinalizeVoting(key, Voters(key) \cup {w}, voting.locked)
         ELSE /\ votingRounds' = [votingRounds EXCEPT ![key] = voting]
              /\ UNCHANGED <<free, pool, stakeHold, workers, openVoteRounds, roundResults>>
      /\ w \in assignments[key]
      /\ votes' = Insert(votes, <<key, w>>, verdict)
      /\ UNCHANGED <<pendingUpdates, unbonding, epochVars, assignmentVars, equivocations>>
  BY Zenon DEF SubmitVote
<1>4. UNCHANGED <<works, assignments, assignmentEpochs, candidates>>
  BY Zenon, <1>3 DEF assignmentVars, minijamVars, workVars
<1> HIDE DEF voting
<1>5. IsMap(votes', RoundKeys \X WorkerIds, {"Support", "Oppose"})
  <2>1. <<key, w>> \in RoundKeys \X WorkerIds
    BY Zenon, <1>1 DEF StakeTypeOK
  <2> QED BY Zenon, <1>3, <2>1, InsertIsMap DEF VotingTypeOK
<1>6. /\ StakeTypeOK' /\ Registered' = Registered
      /\ VotingTypeOK' /\ OpenVoteRoundsExact' /\ RoundStateCoherent' /\ RoundsReached'
  <2>1. CASE voting.responses >= Cardinality(assignments[key])
    <3>1. FinalizeVoting(key, Voters(key) \cup {w}, voting.locked)
          /\ Voters(key) \cup {w} \subseteq assignments[key]
      BY Zenon, <1>3, <2>1 DEF Voters
    <3>2. StakeTypeOK' /\ Registered' = Registered
      BY Zenon, <1>1, <1>3, <3>1, FinalizeVotingStake
    <3> QED
      BY Zenon, <1>2, <1>3, <1>4, <1>5, <3>1, <3>2, FinalizeVotingRounds DEF VotingTypeOK
  <2>2. CASE ~(voting.responses >= Cardinality(assignments[key]))
    <3>1. votingRounds' = [votingRounds EXCEPT ![key] = voting]
          /\ UNCHANGED <<free, pool, stakeHold, workers, openVoteRounds, roundResults>>
      BY Zenon, <1>3, <2>2
    <3>2. StakeTypeOK' /\ Registered' = Registered
      BY Zenon, <1>3, <3>1, StakeFrame DEF stakeVars, Registered
    <3>3. DOMAIN votingRounds' = DOMAIN votingRounds
      BY Zenon, <3>1
    <3>4. VotingTypeOK'
      BY Zenon, <1>2, <1>3, <1>5, <3>1 DEF VotingTypeOK, IsMap
    <3>5. OpenVoteRoundsExact' /\ RoundStateCoherent'
      BY <1>4, <3>1, <3>3 DEF OpenVoteRoundsExact, Distinct, Elements, RoundStateCoherent, RoundOf
    <3> QED
      BY Zenon, <1>4, <3>1, <3>2, <3>4, <3>5, ReachedFrame
  <2> QED BY Zenon, <2>1, <2>2
<1>7. AssignmentTypeOK'
  BY Zenon, <1>3, <1>6, AssignmentFrame
<1> QED
  BY Zenon, <1>6, <1>7, WorkFrame, QueueFrame, BlockFrame, PendingFrame, QueueSoundFrame
  DEF minijamVars, workVars, queueVars, blockVars, NeverHalted

(* One iteration of finalize_due_votes: the round is closed, skipped, or its  *)
(* finalization rolls back.                                                   *)
LEMMA FinalizeDueVoteStep ==
    ASSUME StorageInv, WorkersCountable, FinalizeDueVote,
           UNCHANGED <<phase, worksTodo, now, minijamVars>>
    PROVE  StorageInv'
<1> USE DEF StorageInv, TypeOK
<1>1. PICK key \in RoundKeys : key = Head(votesTodo)
  BY Zenon, TailIsSeq DEF FinalizeDueVote, BlockTypeOK
<1>2. UNCHANGED <<works, assignments, assignmentEpochs, candidates, epochVars, assignmentVars>>
  BY Zenon DEF FinalizeDueVote, minijamVars, workVars, assignmentVars
<1>3. BlockTypeOK'
  BY Zenon, <1>2, TailIsSeq DEF FinalizeDueVote, BlockTypeOK
<1>4. /\ StakeTypeOK' /\ Registered' = Registered
      /\ VotingTypeOK' /\ OpenVoteRoundsExact' /\ RoundStateCoherent' /\ RoundsReached'
  <2>1. CASE /\ key \in DOMAIN votingRounds
             /\ FinalizeVoting(key, Voters(key), votingRounds[key].locked)
             /\ UNCHANGED <<pendingUpdates, unbonding, votes, equivocations>>
    <3>1. /\ key \in DOMAIN assignments /\ assignments[key] \subseteq Registered
          /\ Voters(key) \subseteq assignments[key]
      BY Zenon, <2>1 DEF AssignmentTypeOK, RoundStateCoherent, IsMap, Voters
    <3>2. votingRounds[key].locked \in {Undecided, "Accepted", "Rejected"}
      BY Zenon, <2>1 DEF VotingTypeOK, IsMap, VotingRound
    <3>3. StakeTypeOK' /\ Registered' = Registered
      BY Zenon, <1>2, <2>1, <3>1, FinalizeVotingStake
    <3> QED
      BY Zenon, <1>2, <2>1, <3>2, <3>3, FinalizeVotingRounds DEF VotingTypeOK
  <2>2. CASE UNCHANGED <<free, pool, stakeVars, votingVars, equivocations>>
    BY Zenon, <1>2, <2>2, StakeFrame, VotingFrame, OpenFrame, CoherentFrame, ReachedFrame
    DEF votingVars, stakeVars, Registered
  <2> QED
    BY Zenon, <1>1, <2>1, <2>2 DEF FinalizeDueVote
<1>5. AssignmentTypeOK'
  BY Zenon, <1>2, <1>4, AssignmentFrame
<1> QED
  BY Zenon, <1>3, <1>4, <1>5, WorkFrame, QueueFrame, PendingFrame, QueueSoundFrame
  DEF minijamVars, workVars, queueVars, NeverHalted
-----------------------------------------------------------------------------
(* Epochs *)

(* What apply_pending_updates writes is well typed. *)
LEMMA UpdatesType ==
    ASSUME StakeTypeOK, NEW epoch \in Nat
    PROVE  /\ Applied(epoch) \subseteq Registered
           /\ \A w \in Applied(epoch) : UpdatedStake(w) \in Nat
           /\ UpdatedWorkers(epoch) \in [Registered -> WorkerRecord]
           /\ IsMap(UpdatedUnbonding(epoch), Registered, UnbondingChunk)
<1>1. Applied(epoch) \subseteq Registered
  BY Zenon DEF Applied, StakeTypeOK, IsMap
<1>2. \A w \in Applied(epoch) : UpdatedStake(w) \in Nat
  BY Zenon DEF Applied, UpdatedStake, StakeTypeOK, IsMap, PendingWorkerUpdate, WorkerRecord
<1>3. UpdatedWorkers(epoch) \in [Registered -> WorkerRecord]
  <2>1. ASSUME NEW w \in Applied(epoch)
        PROVE  [workers[w] EXCEPT !.activeStake = UpdatedStake(w), !.effectiveEpoch = epoch]
                   \in WorkerRecord
    <3>1. workers[w] \in WorkerRecord
      BY Zenon, <1>1 DEF StakeTypeOK
    <3> QED BY Zenon, <1>2, <3>1, WorkerRecordUpdate
  <2> QED BY Zenon, <2>1 DEF UpdatedWorkers, StakeTypeOK
<1>4. IsMap(UpdatedUnbonding(epoch), Registered, UnbondingChunk)
  <2> DEFINE reduced == {w \in Applied(epoch) : UpdatedStake(w) < workers[w].activeStake}
             chunk(w) == [amount |-> workers[w].activeStake - UpdatedStake(w),
                          unlockEpoch |-> epoch + 2]
  <2>1. ASSUME NEW w \in reduced PROVE chunk(w) \in UnbondingChunk
    BY <1>1, <1>2 DEF StakeTypeOK, WorkerRecord, UnbondingChunk
  <2>2. UpdatedUnbonding(epoch) = [w \in DOMAIN unbonding \cup reduced |->
                                      IF w \in reduced THEN chunk(w) ELSE unbonding[w]]
    BY Zenon DEF UpdatedUnbonding
  <2>3. reduced \subseteq Registered
    BY Zenon, <1>1
  <2> HIDE DEF reduced, chunk
  <2> QED BY Zenon, <2>1, <2>2, <2>3 DEF StakeTypeOK, IsMap
<1> QED BY Zenon, <1>1, <1>2, <1>3, <1>4

(* The epoch transition keeps the types of stake, updates, chunks and active set. *)
LEMMA EpochTransitionType ==
    ASSUME StakeTypeOK, NEW epoch \in Nat, EpochTransition(epoch), UNCHANGED pool
    PROVE  StakeTypeOK' /\ Registered' = Registered
<1> DEFINE chunk == UpdatedUnbonding(epoch)
           released == Released(epoch)
<1>1. workers' \in [Registered -> WorkerRecord] /\ Registered' = Registered
  BY Zenon, UpdatesType DEF EpochTransition, Registered
<1>2. /\ released \subseteq DOMAIN chunk /\ DOMAIN chunk \subseteq Registered
      /\ \A w \in released : chunk[w].amount \in Nat /\ chunk[w].amount <= stakeHold[w]
  BY Zenon, UpdatesType DEF Released, IsMap, UnbondingChunk
<1>3. stakeHold' \in [Registered -> Nat]
  <2>1. stakeHold' = [w \in DOMAIN stakeHold |->
                        IF w \in released THEN stakeHold[w] - chunk[w].amount ELSE stakeHold[w]]
    BY Zenon DEF EpochTransition
  <2> HIDE DEF chunk, released
  <2> QED BY <1>2, <2>1 DEF StakeTypeOK
<1>4. free' \in [Accounts -> Nat]
  <2>1. free' = [a \in Accounts |->
                    IF \E w \in released : workers[w].owner = a
                    THEN free[a] + chunk[CHOOSE w \in released : workers[w].owner = a].amount
                    ELSE free[a]]
    BY Zenon DEF EpochTransition
  <2> HIDE DEF chunk, released
  <2>2. ASSUME NEW a \in Accounts, \E w \in released : workers[w].owner = a
        PROVE  chunk[CHOOSE w \in released : workers[w].owner = a].amount \in Nat
    BY Zenon, <1>2, <2>2
  <2> QED BY <2>1, <2>2 DEF StakeTypeOK
<1>5. IsMap(pendingUpdates', Registered, PendingWorkerUpdate)
  BY Zenon, RemoveIsMap DEF EpochTransition, StakeTypeOK
<1>6. IsMap(unbonding', Registered, UnbondingChunk)
  BY Zenon, UpdatesType, RemoveIsMap DEF EpochTransition
<1>7. activeWorkers' \subseteq Registered
  <2>1. DOMAIN UpdatedWorkers(epoch) = Registered
    BY Zenon, UpdatesType
  <2> QED BY Zenon, <2>1 DEF EpochTransition, Top, Eligible
<1>8. currentEpoch' \in Nat
  BY Zenon DEF EpochTransition
<1> QED
  BY Zenon, <1>1, <1>3, <1>4, <1>5, <1>6, <1>7, <1>8 DEF StakeTypeOK

(* Workers::on_initialize after its votes: the epoch changes or not, and      *)
(* MiniJam::on_initialize takes its snapshot.                                 *)
LEMMA EpochStep ==
    ASSUME StorageInv, OnInitializeEpoch, phase' = "minijam", worksTodo' = pendingWorks,
           UNCHANGED <<now, votesTodo, minijamVars>>
    PROVE  StorageInv'
<1> USE DEF StorageInv, TypeOK
<1>1. StakeTypeOK' /\ Registered' = Registered
  <2>1. CASE EpochTransition(currentEpoch + 1)
    BY <2>1, EpochTransitionType DEF OnInitializeEpoch, StakeTypeOK
  <2>2. CASE UNCHANGED <<free, stakeVars, epochVars, assignedWorkCount, dutyCounts>>
    BY Zenon, <2>2, StakeFrame DEF OnInitializeEpoch, stakeVars, Registered
  <2> QED BY Zenon, <2>1, <2>2 DEF OnInitializeEpoch
<1>2. AssignmentTypeOK'
  <2>1. assignedWorkCount' \in [Rounds -> Nat] /\ dutyCounts' \in [Rounds -> [WorkerIds -> Nat]]
    <3>1. \/ /\ assignedWorkCount' = [r \in Rounds |-> 0]
             /\ dutyCounts' = [r \in Rounds |-> [w \in WorkerIds |-> 0]]
          \/ UNCHANGED <<assignedWorkCount, dutyCounts>>
      BY Zenon DEF OnInitializeEpoch, EpochTransition
    <3>2. CASE UNCHANGED <<assignedWorkCount, dutyCounts>>
      BY Zenon, <3>2 DEF AssignmentTypeOK
    <3>3. CASE /\ assignedWorkCount' = [r \in Rounds |-> 0]
               /\ dutyCounts' = [r \in Rounds |-> [w \in WorkerIds |-> 0]]
      BY Zenon, <3>3
    <3> QED BY Zenon, <3>1, <3>2, <3>3
  <2> QED BY Zenon, <1>1, <2>1 DEF OnInitializeEpoch, AssignmentTypeOK, IsMap
<1>3. BlockTypeOK'
  BY Zenon DEF BlockTypeOK, WorkTypeOK, minijamVars, workVars
<1> QED
  BY Zenon, <1>1, <1>2, <1>3, VotingFrame, WorkFrame, QueueFrame, CoherentFrame, ReachedFrame, PendingFrame,
     OpenFrame, QueueSoundFrame
  DEF OnInitializeEpoch, minijamVars, workVars, queueVars, votingVars, NeverHalted
-----------------------------------------------------------------------------
(* Opening a round *)

(* Updating the status of a work leaves its round alone. *)
LEMMA StatusUpdate ==
    ASSUME NEW r \in WorkRecord, NEW status \in WorkStatus
    PROVE  LET new == [r EXCEPT !.status = status]
           IN  new \in WorkRecord /\ new.status = status /\ new.round = r.round
  BY Zenon DEF WorkRecord

(* Works that stay executable keep the queues sound. *)
LEMMA QueueSoundKept ==
    ASSUME ExecutionQueueSound, \A v : Executable(v) => Executable(v)',
           UNCHANGED <<executionQueue, quarantinedExecutionQueue>>
    PROVE  ExecutionQueueSound'
<1>1. \A v \in Queued(executionQueue) \cup Queued(quarantinedExecutionQueue) : Executable(v)'
  BY Zenon DEF ExecutionQueueSound
<1>2. /\ Queued(executionQueue)' = Queued(executionQueue)
      /\ Queued(quarantinedExecutionQueue)' = Queued(quarantinedExecutionQueue)
  BY Zenon DEF Queued
<1> QED BY Zenon, <1>1, <1>2 DEF ExecutionQueueSound

(* enqueue adds one work to the queue. *)
LEMMA QueuedAppend ==
    ASSUME NEW q \in Seq(ExecutionItem), NEW item \in ExecutionItem
    PROVE  Queued(Append(q, item)) = Queued(q) \cup {item.workId}
<1>1. DOMAIN q = 1..Len(q) /\ DOMAIN Append(q, item) = 1..(Len(q) + 1) /\ Len(q) \in Nat
  OBVIOUS
<1>2. \A i \in 1..Len(q) : Append(q, item)[i] = q[i]
  OBVIOUS
<1>3. Append(q, item)[Len(q) + 1] = item
  OBVIOUS
<1> QED BY <1>1, <1>2, <1>3 DEF Queued

(* A work that is neither settled nor reopened stays in PendingWorks. *)
LEMMA PendingKept ==
    ASSUME PendingWorksExact, pendingWorks' = pendingWorks, DOMAIN works' = DOMAIN works,
           \A v \in DOMAIN works :
              works'[v].status \in PendingStatuses <=> works[v].status \in PendingStatuses
    PROVE  PendingWorksExact'
  BY DEF PendingWorksExact, Distinct, Elements

(* Paying out of a balance that covers the payment, and into one. *)
LEMMA Balances ==
    ASSUME NEW S, NEW f \in [S -> Nat], NEW x \in S, NEW n \in Nat
    PROVE  /\ [f EXCEPT ![x] = f[x] + n] \in [S -> Nat]
           /\ f[x] >= n => [f EXCEPT ![x] = f[x] - n] \in [S -> Nat]
  OBVIOUS

(* assign_work returns registered workers. *)
LEMMA AssignWorkResultsType ==
    ASSUME StakeTypeOK, NEW key, NEW as0, IsMap(as0, RoundKeys, SUBSET Registered)
    PROVE  /\ AssignWorkResults(key, as0) \subseteq SUBSET Registered
           /\ AssignWorkResults(key, as0) = {} => key \notin DOMAIN as0
  BY Zenon DEF AssignWorkResults, Selections, AssignmentCandidates, StakeTypeOK, IsMap

(* assign_work keeps the assignment maps well typed and adds at most the key. *)
LEMMA AssignWorkType ==
    ASSUME StakeTypeOK, AssignmentTypeOK, NEW key \in RoundKeys, NEW as0, NEW epochs0,
           IsMap(as0, RoundKeys, SUBSET Registered), IsMap(epochs0, RoundKeys, Nat),
           DOMAIN epochs0 = DOMAIN as0,
           NEW W \in AssignWorkResults(key, as0), AssignWork(key, W, as0, epochs0),
           UNCHANGED workers
    PROVE  /\ AssignmentTypeOK'
           /\ DOMAIN assignments' = DOMAIN as0 \cup {key}
           /\ DOMAIN assignmentEpochs' = DOMAIN assignments'
<1>1. W \in SUBSET Registered /\ Registered' = Registered
  BY Zenon, AssignWorkResultsType DEF Registered
<1>2. CASE key \in DOMAIN as0
  BY Zenon, <1>1, <1>2 DEF AssignWork, AssignmentTypeOK
<1>3. CASE key \notin DOMAIN as0
  <2>1. /\ assignments' = Insert(as0, key, W)
        /\ assignmentEpochs' = Insert(epochs0, key, currentEpoch)
        /\ assignedWorkCount' = [assignedWorkCount EXCEPT ![key[2]] = @ + 1]
        /\ dutyCounts' = [dutyCounts EXCEPT ![key[2]] =
                              [w \in WorkerIds |-> IF w \in W THEN @[w] + 1 ELSE @[w]]]
    BY Zenon, <1>3 DEF AssignWork
  <2>2. IsMap(assignments', RoundKeys, SUBSET Registered) /\ IsMap(assignmentEpochs', RoundKeys, Nat)
    BY Zenon, <1>1, <2>1, InsertIsMap DEF StakeTypeOK
  <2>3. key[2] \in Rounds
    BY Zenon DEF RoundKeys
  <2>4. assignedWorkCount' \in [Rounds -> Nat]
    BY <2>1, <2>3 DEF AssignmentTypeOK
  <2>5. dutyCounts' \in [Rounds -> [WorkerIds -> Nat]]
    BY <2>1, <2>3 DEF AssignmentTypeOK
  <2>6. DOMAIN assignments' = DOMAIN as0 \cup {key} /\ DOMAIN assignmentEpochs' = DOMAIN assignments'
    BY Zenon, <2>1 DEF Insert
  <2> QED BY Zenon, <1>1, <2>2, <2>4, <2>5, <2>6 DEF AssignmentTypeOK
<1> QED BY Zenon, <1>2, <1>3

(* prepare_round stores the record with a new status, and the round has an    *)
(* assignment exactly when the work awaits its candidate.                     *)
LEMMA PrepareRoundType ==
    ASSUME StakeTypeOK, AssignmentTypeOK, now \in Nat, NEW w \in WorkIds, NEW rec \in WorkRecord,
           NEW as0, NEW epochs0,
           IsMap(as0, RoundKeys, SUBSET Registered), IsMap(epochs0, RoundKeys, Nat),
           DOMAIN epochs0 = DOMAIN as0,
           PrepareRound(w, rec, as0, epochs0), UNCHANGED workers
    PROVE  /\ AssignmentTypeOK'
           /\ DOMAIN assignmentEpochs' = DOMAIN assignments'
           /\ \E new \in WorkRecord :
                /\ works' = Insert(works, w, new)
                /\ new.round = rec.round
                /\ \/ /\ new.status = "AwaitingCandidate"
                      /\ DOMAIN assignments' = DOMAIN as0 \cup {<<w, rec.round>>}
                   \/ /\ new.status = "InsufficientWorkers"
                      /\ DOMAIN assignments' = DOMAIN as0
                      /\ <<w, rec.round>> \notin DOMAIN as0
<1> DEFINE key == <<w, rec.round>>
           awaiting == [rec EXCEPT !.status = "AwaitingCandidate",
                                   !.candidateDeadline = now + ReportSubmissionDeadline]
           insufficient == [rec EXCEPT !.status = "InsufficientWorkers"]
           results == AssignWorkResults(key, as0)
<1>1. key \in RoundKeys
  BY Zenon DEF WorkRecord, RoundKeys
<1>2. /\ awaiting \in WorkRecord /\ awaiting.status = "AwaitingCandidate"
      /\ awaiting.round = rec.round
      /\ insufficient \in WorkRecord /\ insufficient.status = "InsufficientWorkers"
      /\ insufficient.round = rec.round
  <2>1. "AwaitingCandidate" \in WorkStatus /\ "InsufficientWorkers" \in WorkStatus
    BY Zenon DEF WorkStatus, PendingStatuses
  <2>2. now + ReportSubmissionDeadline \in Nat
    BY MiniJamAssumption
  <2>3. awaiting \in WorkRecord /\ awaiting.status = "AwaitingCandidate" /\ awaiting.round = rec.round
    <3>1. PICK n \in Nat : n = now + ReportSubmissionDeadline
      BY Zenon, <2>2
    <3>2. awaiting = [rec EXCEPT !.status = "AwaitingCandidate", !.candidateDeadline = n]
      BY Zenon, <3>1
    <3> HIDE DEF awaiting
    <3> QED BY Zenon, <2>1, <3>2 DEF WorkRecord
  <2>4. /\ insufficient \in WorkRecord /\ insufficient.status = "InsufficientWorkers"
        /\ insufficient.round = rec.round
    BY Zenon, <2>1, StatusUpdate
  <2> QED BY Zenon, <2>3, <2>4
<1>3. \/ \E W \in results : AssignWork(key, W, as0, epochs0) /\ works' = Insert(works, w, awaiting)
      \/ /\ results = {}
         /\ assignments' = as0
         /\ assignmentEpochs' = epochs0
         /\ works' = Insert(works, w, insufficient)
         /\ UNCHANGED <<assignedWorkCount, dutyCounts>>
  BY Zenon DEF PrepareRound
<1> HIDE DEF awaiting, insufficient, key
<1>4. CASE \E W \in results : AssignWork(key, W, as0, epochs0) /\ works' = Insert(works, w, awaiting)
  <2>1. PICK W \in results : AssignWork(key, W, as0, epochs0) /\ works' = Insert(works, w, awaiting)
    BY Zenon, <1>4
  <2> QED BY Zenon, <1>1, <1>2, <2>1, AssignWorkType DEF key
<1>5. CASE /\ results = {}
           /\ assignments' = as0
           /\ assignmentEpochs' = epochs0
           /\ works' = Insert(works, w, insufficient)
           /\ UNCHANGED <<assignedWorkCount, dutyCounts>>
  <2>1. AssignmentTypeOK'
    BY Zenon, <1>5 DEF AssignmentTypeOK, Registered
  <2> QED BY Zenon, <1>2, <1>5, <2>1, AssignWorkResultsType DEF key
<1> QED BY Zenon, <1>3, <1>4, <1>5

(* Storing the record of a work in a round that is still fresh keeps the two  *)
(* pallets in agreement.                                                      *)
LEMMA OpenRound ==
    ASSUME StorageInv, NEW w \in WorkIds, NEW new \in WorkRecord,
           works' = Insert(works, w, new),
           w \in DOMAIN works => /\ works[w].status \in PendingStatuses
                                 /\ works[w].round <= new.round,
           w \notin DOMAIN works => w = NextWorkId /\ Cardinality(0..w) = w + 1,
           <<w, new.round>> \notin DOMAIN candidates \cup DOMAIN roundResults,
           \A key \in DOMAIN votingRounds : key[1] # w,
           \/ /\ new.status = "AwaitingCandidate"
              /\ DOMAIN assignments' = {key \in DOMAIN assignments : key[1] # w}
                                          \cup {<<w, new.round>>}
           \/ /\ new.status = "InsufficientWorkers"
              /\ DOMAIN assignments' = {key \in DOMAIN assignments : key[1] # w},
           DOMAIN assignmentEpochs' = DOMAIN assignments',
           UNCHANGED <<candidates, votingRounds, roundResults, executionQueue,
                       quarantinedExecutionQueue>>
    PROVE  /\ DOMAIN works' \subseteq WorkIds /\ works' \in [DOMAIN works' -> WorkRecord]
           /\ DOMAIN works \subseteq DOMAIN works'
           /\ RoundStateCoherent' /\ RoundsReached' /\ ExecutionQueueSound'
<1> USE DEF StorageInv, TypeOK
<1>1. DOMAIN works' = DOMAIN works \cup {w} /\ works'[w] = new
      /\ \A v \in DOMAIN works \ {w} : works'[v] = works[v]
  BY Zenon DEF Insert
<1>2. DOMAIN works' \subseteq WorkIds /\ works' \in [DOMAIN works' -> WorkRecord]
  BY Zenon, <1>1 DEF WorkTypeOK, Insert
<1>3. RoundStateCoherent'
  <2>1. ASSUME NEW v \in DOMAIN works'
        PROVE  LET key == <<v, works'[v].round>>
               IN  /\ key \in DOMAIN assignments' <=>
                          works'[v].status \in {"AwaitingCandidate", "Voting"}
                   /\ works'[v].status \in {"InsufficientWorkers", "AwaitingCandidate"} =>
                         key \notin DOMAIN candidates \cup DOMAIN votingRounds \cup DOMAIN roundResults
                   /\ works'[v].status = "Voting" =>
                         /\ key \in DOMAIN candidates
                         /\ key \in DOMAIN votingRounds <=> key \notin DOMAIN roundResults
                   /\ works'[v].status \in {"Accepted", "Imported"} => key \in DOMAIN candidates
    <3>1. CASE v = w
      <4>1. works'[v] = new
        BY Zenon, <1>1, <3>1
      <4>2. <<v, new.round>> \notin DOMAIN votingRounds
        BY Zenon, <3>1
      <4> QED BY Zenon, <4>1, <4>2, <3>1
    <3>2. CASE v # w
      <4>1. v \in DOMAIN works /\ works'[v] = works[v]
        BY Zenon, <1>1, <3>2
      <4>2. <<v, works[v].round>> \in DOMAIN assignments' <=>
                <<v, works[v].round>> \in DOMAIN assignments
        BY Zenon, <3>2
      <4> QED BY Zenon, <4>1, <4>2 DEF RoundStateCoherent, RoundOf
    <3> QED BY Zenon, <3>1, <3>2
  <2>2. ASSUME NEW key \in DOMAIN assignments'
        PROVE  key[1] \in DOMAIN works' /\ key = <<key[1], works'[key[1]].round>>
    <3>1. CASE key = <<w, new.round>>
      BY Zenon, <1>1, <3>1
    <3>2. CASE key \in DOMAIN assignments /\ key[1] # w
      BY Zenon, <1>1, <3>2 DEF RoundStateCoherent, RoundOf
    <3> QED BY Zenon, <3>1, <3>2
  <2>3. DOMAIN votingRounds \subseteq DOMAIN assignments'
    BY Zenon DEF RoundStateCoherent
  <2> QED BY Zenon, <2>1, <2>2, <2>3 DEF RoundStateCoherent, RoundOf
<1>4. RoundsReached'
  <2>1. DOMAIN works' = 0..(NextWorkId' - 1)
    <3>1. CASE w \in DOMAIN works
      <4>1. DOMAIN works' = DOMAIN works
        BY Zenon, <1>1, <3>1
      <4>2. NextWorkId' = NextWorkId
        BY Zenon, <4>1 DEF NextWorkId
      <4> QED BY Zenon, <4>1, <4>2 DEF RoundsReached
    <3>2. CASE w \notin DOMAIN works
      <4>1. w \in Nat /\ w = NextWorkId
        BY Zenon, <3>2, MiniJamAssumption
      <4>2. DOMAIN works' = 0..w
        BY <1>1, <4>1 DEF RoundsReached
      <4>3. NextWorkId' = w + 1
        BY Zenon, <3>2, <4>2 DEF NextWorkId
      <4> QED BY <4>1, <4>2, <4>3
    <3> QED BY Zenon, <3>1, <3>2
  <2>2. ASSUME NEW key \in DOMAIN candidates \cup DOMAIN roundResults
        PROVE  key[1] \in DOMAIN works' /\ key[2] <= works'[key[1]].round
    <3>1. key[1] \in DOMAIN works /\ key[2] <= works[key[1]].round
      BY Zenon DEF RoundsReached
    <3>2. key[2] \in Int /\ works[key[1]].round \in Int /\ new.round \in Int
      <4>1. key \in RoundKeys
        BY Zenon DEF WorkTypeOK, VotingTypeOK, IsMap
      <4>2. key[2] \in Rounds
        BY Zenon, <4>1 DEF RoundKeys
      <4>3. works[key[1]].round \in Rounds /\ new.round \in Rounds
        BY Zenon, <3>1 DEF WorkTypeOK, WorkRecord
      <4>4. \A r \in Rounds : r \in Int
        BY WorkersAssumption
      <4> QED BY Zenon, <4>2, <4>3, <4>4
    <3> QED BY <1>1, <3>1, <3>2
  <2> QED BY Zenon, <2>1, <2>2 DEF RoundsReached
<1>5. ExecutionQueueSound'
  <2>1. ASSUME NEW v, Executable(v) PROVE Executable(v)'
    <3>1. v \in DOMAIN works /\ works[v].status = "Accepted" /\ v # w
      BY Zenon, <2>1 DEF Executable, PendingStatuses
    <3> QED BY Zenon, <1>1, <2>1, <3>1 DEF Executable, RoundOf
  <2> QED BY Zenon, <2>1, QueueSoundKept
<1> QED BY Zenon, <1>1, <1>2, <1>3, <1>4, <1>5
-----------------------------------------------------------------------------
(* Submitting a work *)

(* No assignment of a work other than the one of its current round exists. *)
LEMMA OnlyCurrentAssigned ==
    ASSUME StorageInv, NEW w
    PROVE  /\ \A key \in DOMAIN assignments \cup DOMAIN votingRounds :
                 key[1] = w => w \in DOMAIN works /\ key = RoundOf(w)
           /\ w \in DOMAIN works => 
                 DOMAIN assignments \ {RoundOf(w)} = {key \in DOMAIN assignments : key[1] # w}
<1>1. \A key \in DOMAIN assignments \cup DOMAIN votingRounds :
         key[1] = w => w \in DOMAIN works /\ key = RoundOf(w)
  BY Zenon DEF StorageInv, RoundStateCoherent
<1>2. RoundOf(w)[1] = w
  BY Zenon DEF RoundOf
<1> QED BY Zenon, <1>1, <1>2

(* submit_work: the new work has a fresh id, is pending, and opens round 0. *)
LEMMA SubmitWorkStep ==
    ASSUME StorageInv, \A n \in Nat : Cardinality(0..n) = n + 1,
           NEW a \in Accounts, NEW package \in Packages, SubmitWork(a, package)
    PROVE  StorageInv'
<1> USE DEF StorageInv, TypeOK
<1> DEFINE rec == [owner |-> a, package |-> package, round |-> 0,
                   status |-> "InsufficientWorkers", candidateDeadline |-> 0]
<1>1. PICK w \in WorkIds : w = NextWorkId /\ Cardinality(0..w) = w + 1
  BY Zenon, MiniJamAssumption DEF SubmitWork
<1>2. w \notin DOMAIN works
  BY <1>1, MiniJamAssumption DEF RoundsReached
<1>3. rec \in WorkRecord /\ rec.round = 0
  BY MiniJamAssumption DEF WorkRecord, WorkStatus, PendingStatuses
<1>4. PrepareRound(w, rec, assignments, assignmentEpochs)
  BY Zenon, <1>1 DEF SubmitWork
<1> HIDE DEF rec
<1>5. UNCHANGED <<workers, candidates, votingRounds, roundResults, executionQueue,
                  quarantinedExecutionQueue>>
  BY Zenon DEF SubmitWork, stakeVars, votingVars, queueVars
<1>6. /\ \A key \in DOMAIN assignments \cup DOMAIN votingRounds : key[1] # w
      /\ <<w, 0>> \notin DOMAIN candidates \cup DOMAIN roundResults
  BY Zenon, <1>2, OnlyCurrentAssigned DEF RoundsReached
<1>7. /\ now \in Nat /\ IsMap(assignments, RoundKeys, SUBSET Registered)
      /\ IsMap(assignmentEpochs, RoundKeys, Nat) /\ DOMAIN assignmentEpochs = DOMAIN assignments
  BY Zenon DEF BlockTypeOK, AssignmentTypeOK, RoundStateCoherent
<1>8. /\ AssignmentTypeOK'
      /\ DOMAIN assignmentEpochs' = DOMAIN assignments'
      /\ \E new \in WorkRecord :
           /\ works' = Insert(works, w, new)
           /\ new.round = 0
           /\ \/ /\ new.status = "AwaitingCandidate"
                 /\ DOMAIN assignments' = DOMAIN assignments \cup {<<w, 0>>}
              \/ /\ new.status = "InsufficientWorkers"
                 /\ DOMAIN assignments' = DOMAIN assignments
  <2>1. /\ AssignmentTypeOK'
        /\ DOMAIN assignmentEpochs' = DOMAIN assignments'
        /\ \E new \in WorkRecord :
             /\ works' = Insert(works, w, new)
             /\ new.round = rec.round
             /\ \/ /\ new.status = "AwaitingCandidate"
                   /\ DOMAIN assignments' = DOMAIN assignments \cup {<<w, rec.round>>}
                \/ /\ new.status = "InsufficientWorkers"
                   /\ DOMAIN assignments' = DOMAIN assignments
                   /\ <<w, rec.round>> \notin DOMAIN assignments
    <3>1. StakeTypeOK /\ AssignmentTypeOK /\ UNCHANGED workers
      BY Zenon, <1>5
    <3>2. rec \in WorkRecord
      BY Zenon, <1>3
    <3> HIDE DEF StorageInv
    <3> QED BY Zenon, <1>4, <1>7, <3>1, <3>2, PrepareRoundType
  <2> QED BY Zenon, <1>3, <2>1
<1>9. PICK new \in WorkRecord :
           /\ works' = Insert(works, w, new)
           /\ new.round = 0
           /\ \/ /\ new.status = "AwaitingCandidate"
                 /\ DOMAIN assignments' = DOMAIN assignments \cup {<<w, 0>>}
              \/ /\ new.status = "InsufficientWorkers"
                 /\ DOMAIN assignments' = DOMAIN assignments
  BY Zenon, <1>8
<1>10. /\ DOMAIN works' \subseteq WorkIds /\ works' \in [DOMAIN works' -> WorkRecord]
       /\ DOMAIN works \subseteq DOMAIN works'
       /\ RoundStateCoherent' /\ RoundsReached' /\ ExecutionQueueSound'
  <2>1. DOMAIN assignments = {key \in DOMAIN assignments : key[1] # w}
    BY Zenon, <1>6
  <2> QED BY Zenon, <1>1, <1>2, <1>5, <1>6, <1>8, <1>9, <2>1, OpenRound
<1>11. /\ pendingWorks' \in Seq(DOMAIN works') /\ PendingWorksExact'
  <2>1. DOMAIN works' = DOMAIN works \cup {w} /\ works'[w] = new
        /\ \A v \in DOMAIN works \ {w} : works'[v] = works[v]
    BY Zenon, <1>9 DEF Insert
  <2>2. pendingWorks' = Append(pendingWorks, w)
    BY Zenon, <1>1 DEF SubmitWork
  <2>3. pendingWorks \in Seq(DOMAIN works') /\ w \notin Elements(pendingWorks)
    BY Zenon, <1>2, <2>1, SeqMonotone DEF WorkTypeOK, PendingWorksExact
  <2>4. pendingWorks' \in Seq(DOMAIN works') /\ Distinct(pendingWorks')
        /\ Elements(pendingWorks') = Elements(pendingWorks) \cup {w}
    <3>1. Distinct(pendingWorks) /\ w \in DOMAIN works'
      BY Zenon, <2>1 DEF PendingWorksExact
    <3> DEFINE ids == DOMAIN works'
    <3>2. pendingWorks \in Seq(ids) /\ w \in ids
      BY Zenon, <2>3, <3>1
    <3> HIDE DEF ids
    <3>3. /\ Append(pendingWorks, w) \in Seq(ids)
          /\ Elements(Append(pendingWorks, w)) = Elements(pendingWorks) \cup {w}
          /\ Distinct(Append(pendingWorks, w))
      BY <2>3, <3>1, <3>2, ElementsAppend
    <3> QED BY Zenon, <2>2, <3>3 DEF ids
  <2>5. works'[w].status \in PendingStatuses
    BY Zenon, <1>9, <2>1 DEF PendingStatuses
  <2>6. {v \in DOMAIN works' : works'[v].status \in PendingStatuses}
            = {v \in DOMAIN works : works[v].status \in PendingStatuses} \cup {w}
    <3>1. \A v \in DOMAIN works : v # w /\ works'[v] = works[v]
      BY Zenon, <1>2, <2>1
    <3> QED BY Zenon, <2>1, <2>5, <3>1
  <2> QED BY Zenon, <2>4, <2>6 DEF PendingWorksExact
<1>12. WorkTypeOK' /\ free' \in [Accounts -> Nat]
  <2>1. free' \in [Accounts -> Nat] /\ depositHold' \in [Accounts -> Nat]
    <3>1. /\ free[a] >= WorkDeposit
          /\ free' = [free EXCEPT ![a] = @ - WorkDeposit]
          /\ depositHold' = [depositHold EXCEPT ![a] = @ + WorkDeposit]
      BY Zenon DEF SubmitWork
    <3>2. WorkDeposit \in Nat
      BY Zenon, MiniJamAssumption
    <3>3. free \in [Accounts -> Nat] /\ depositHold \in [Accounts -> Nat]
      BY Zenon DEF StakeTypeOK, WorkTypeOK
    <3> QED BY Zenon, <3>1, <3>2, <3>3, Balances
  <2>2. UNCHANGED <<candidates, bondHold>>
    BY Zenon DEF SubmitWork
  <2> QED BY Zenon, <1>10, <1>11, <2>1, <2>2 DEF WorkTypeOK
<1>13. StakeTypeOK'
  <2>1. UNCHANGED <<pool, stakeVars, epochVars>>
    BY Zenon DEF SubmitWork
  <2> QED BY Zenon, <1>12, <2>1 DEF StakeTypeOK, stakeVars, epochVars, Registered, IsMap
<1>14. BlockTypeOK'
  BY Zenon, <1>10, BlockFrame DEF SubmitWork
<1> QED
  BY Zenon, <1>8, <1>10, <1>11, <1>12, <1>13, <1>14, VotingFrame, QueueFrame, OpenFrame
  DEF SubmitWork, votingVars, blockVars, NeverHalted

-----------------------------------------------------------------------------
(* Candidates *)

(* submit_candidate: the candidate, its bond and its open vote appear together. *)
LEMMA SubmitCandidateStep ==
    ASSUME StorageInv, NEW a \in Accounts, NEW w \in DOMAIN works, SubmitCandidate(a, w)
    PROVE  StorageInv'
<1> USE DEF StorageInv, TypeOK
<1> DEFINE key == RoundOf(w)
           deadline == now + VoteWindow
           record == [submitter |-> a, voteDeadline |-> deadline]
           voting == [assignmentEpoch |-> assignmentEpochs[key], deadline |-> deadline,
                      support |-> 0, oppose |-> 0, responses |-> 0, locked |-> Undecided]
<1>1. /\ key \in DOMAIN assignments /\ works[w].status = "AwaitingCandidate"
      /\ key \notin DOMAIN votingRounds /\ key \notin DOMAIN roundResults
      /\ openVoteRounds' = Append(openVoteRounds, key)
      /\ votingRounds' = Insert(votingRounds, key, voting)
      /\ candidates' = Insert(candidates, key, record)
      /\ works' = [works EXCEPT ![w].status = "Voting"]
  BY Zenon DEF SubmitCandidate, OpenVoting
<1>2. UNCHANGED <<blockVars, pool, stakeVars, epochVars, assignmentVars, assignments,
                  assignmentEpochs, equivocations, pendingWorks, depositHold, queueVars,
                  executionQueue, quarantinedExecutionQueue, ingressRelayer, votes, roundResults>>
  BY Zenon DEF SubmitCandidate, OpenVoting, assignmentVars, queueVars
<1>3. key \in RoundKeys /\ key \in DOMAIN assignmentEpochs
  BY Zenon, <1>1 DEF RoundStateCoherent, AssignmentTypeOK, IsMap
<1>4. deadline \in Nat /\ record \in CandidateRecord /\ voting \in VotingRound
  <2>1. deadline \in Nat
    BY MiniJamAssumption DEF BlockTypeOK
  <2>2. assignmentEpochs[key] \in Nat
    BY Zenon, <1>3 DEF AssignmentTypeOK, IsMap
  <2> HIDE DEF deadline
  <2> QED BY Zenon, <2>1, <2>2 DEF CandidateRecord, VotingRound
<1> DEFINE new == [works[w] EXCEPT !.status = "Voting"]
<1>5. new \in WorkRecord /\ new.status = "Voting" /\ new.round = works[w].round
  <2>1. works[w] \in WorkRecord /\ "Voting" \in WorkStatus
    BY Zenon DEF WorkTypeOK, WorkStatus, PendingStatuses
  <2> QED BY Zenon, <2>1, StatusUpdate
<1>6. works' = [works EXCEPT ![w] = new]
  BY Zenon, <1>1
<1> HIDE DEF record, voting, new
<1>7. /\ DOMAIN works' = DOMAIN works /\ works' \in [DOMAIN works -> WorkRecord] /\ works'[w] = new
      /\ \A v \in DOMAIN works \ {w} : works'[v] = works[v]
      /\ \A v \in DOMAIN works : works'[v].round = works[v].round
  BY Zenon, <1>5, <1>6 DEF WorkTypeOK
<1>8. \A v \in DOMAIN works : RoundOf(v)' = RoundOf(v)
  BY Zenon, <1>7 DEF RoundOf
<1>9. /\ DOMAIN votingRounds' = DOMAIN votingRounds \cup {key}
      /\ DOMAIN candidates' = DOMAIN candidates \cup {key}
  BY Zenon, <1>1 DEF Insert
<1>10. \A v \in DOMAIN works : v # w => RoundOf(v) # key
  BY Zenon DEF RoundOf
<1>11. RoundStateCoherent'
  <2>1. ASSUME NEW v \in DOMAIN works'
        PROVE  /\ RoundOf(v) \in DOMAIN assignments <=>
                      works'[v].status \in {"AwaitingCandidate", "Voting"}
               /\ works'[v].status \in {"InsufficientWorkers", "AwaitingCandidate"} =>
                     RoundOf(v) \notin DOMAIN candidates' \cup DOMAIN votingRounds'
                                          \cup DOMAIN roundResults
               /\ works'[v].status = "Voting" =>
                     /\ RoundOf(v) \in DOMAIN candidates'
                     /\ RoundOf(v) \in DOMAIN votingRounds' <=> RoundOf(v) \notin DOMAIN roundResults
               /\ works'[v].status \in {"Accepted", "Imported"} => RoundOf(v) \in DOMAIN candidates'
    <3>1. CASE v = w
      BY Zenon, <1>1, <1>5, <1>7, <1>9, <3>1
    <3>2. CASE v # w
      <4>1. v \in DOMAIN works /\ works'[v] = works[v] /\ RoundOf(v) # key
        BY Zenon, <1>7, <1>10, <3>2
      <4> HIDE DEF key
      <4> QED BY ZenonT(30), <1>9, <4>1 DEF RoundStateCoherent
    <3> QED BY Zenon, <3>1, <3>2
  <2>2. \A k \in DOMAIN assignments : k[1] \in DOMAIN works' /\ k = RoundOf(k[1])'
    BY Zenon, <1>7, <1>8 DEF RoundStateCoherent
  <2>3. DOMAIN votingRounds' \subseteq DOMAIN assignments
    BY Zenon, <1>1, <1>9 DEF RoundStateCoherent
  <2>4. DOMAIN assignmentEpochs = DOMAIN assignments
    BY ZenonT(30) DEF RoundStateCoherent
  <2> QED BY ZenonT(30), <1>2, <1>7, <1>8, <2>1, <2>2, <2>3, <2>4 DEF RoundStateCoherent
<1>12. RoundsReached'
  <2>1. NextWorkId' = NextWorkId
    BY Zenon, <1>7 DEF NextWorkId
  <2>2. key[1] = w /\ key[2] = works[w].round
    BY Zenon DEF RoundOf
  <2>3. works[w].round <= works[w].round
    <3>1. works[w].round \in Rounds
      BY Zenon DEF WorkTypeOK, WorkRecord
    <3>2. \A r \in Rounds : r \in Int
      BY WorkersAssumption
    <3> QED BY <3>1, <3>2
  <2> HIDE DEF key
  <2> QED BY Zenon, <1>2, <1>7, <1>9, <2>1, <2>2, <2>3 DEF RoundsReached
<1>13. ExecutionQueueSound'
  <2>1. ASSUME NEW v, Executable(v) PROVE Executable(v)'
    <3>1. v \in DOMAIN works /\ works[v].status = "Accepted" /\ v # w
      BY Zenon, <1>1, <2>1 DEF Executable
    <3> QED BY Zenon, <1>7, <1>8, <1>9, <2>1, <3>1 DEF Executable
  <2> QED BY Zenon, <1>2, <2>1, QueueSoundKept
<1>14. PendingWorksExact'
  <2>1. \A v \in DOMAIN works :
           works'[v].status \in PendingStatuses <=> works[v].status \in PendingStatuses
    BY Zenon, <1>1, <1>5, <1>7 DEF PendingStatuses
  <2> QED BY Zenon, <1>2, <1>7, <2>1, PendingKept
<1>15. openVoteRounds' \in Seq(RoundKeys) /\ OpenVoteRoundsExact'
  BY <1>1, <1>3, <1>9, ElementsAppend DEF OpenVoteRoundsExact, VotingTypeOK
<1>16. VotingTypeOK'
  <2>1. IsMap(votingRounds', RoundKeys, VotingRound)
    BY Zenon, <1>1, <1>3, <1>4, InsertIsMap DEF VotingTypeOK
  <2> QED BY Zenon, <1>2, <1>15, <2>1 DEF VotingTypeOK, IsMap
<1>17. free' \in [Accounts -> Nat] /\ bondHold' \in [Accounts -> Nat]
  <2>1. /\ free[a] >= CandidateBond
        /\ free' = [free EXCEPT ![a] = @ - CandidateBond]
        /\ bondHold' = [bondHold EXCEPT ![a] = @ + CandidateBond]
    BY Zenon DEF SubmitCandidate
  <2>2. CandidateBond \in Nat
    BY Zenon, MiniJamAssumption
  <2> QED BY <2>1, <2>2 DEF StakeTypeOK, WorkTypeOK
<1>18. WorkTypeOK'
  <2>1. IsMap(candidates', RoundKeys, CandidateRecord)
    BY Zenon, <1>1, <1>3, <1>4, InsertIsMap DEF WorkTypeOK
  <2> QED BY Zenon, <1>2, <1>7, <1>17, <2>1 DEF WorkTypeOK
<1>19. StakeTypeOK' /\ Registered' = Registered
  BY Zenon, <1>2, <1>17 DEF StakeTypeOK, stakeVars, epochVars, Registered, IsMap
<1>20. AssignmentTypeOK' /\ BlockTypeOK' /\ QueueTypeOK' /\ NeverHalted'
  BY Zenon, <1>2, <1>7, <1>19, AssignmentFrame, BlockFrame, QueueFrame DEF NeverHalted, blockVars
<1> QED
  BY Zenon, <1>11, <1>12, <1>13, <1>14, <1>15, <1>16, <1>18, <1>19, <1>20
-----------------------------------------------------------------------------
(* Root calls *)

(* The root calls touch the queues and the relayer only; quarantine_pending moves *)
(* the whole queue.                                                           *)
LEMMA RootCallStep ==
    ASSUME StorageInv,
           \/ \E paused \in BOOLEAN : PauseExecution(paused)
           \/ QuarantinePending
           \/ \E a \in Relayers : SetIngressRelayer(a)
    PROVE  StorageInv'
<1> USE DEF StorageInv, TypeOK
<1>1. UNCHANGED <<blockVars, workersVars, workVars>>
  BY Zenon DEF PauseExecution, QuarantinePending, SetIngressRelayer
<1>2. StakeTypeOK' /\ VotingTypeOK' /\ Registered' = Registered
  BY Zenon, <1>1, StakeFrame, VotingFrame DEF workersVars, stakeVars, Registered
<1>3. AssignmentTypeOK'
  BY Zenon, <1>1, <1>2, AssignmentFrame DEF workersVars
<1>4. WorkTypeOK' /\ BlockTypeOK'
  BY Zenon, <1>1, WorkFrame, BlockFrame DEF workVars
<1>5. \/ UNCHANGED <<executionQueue, quarantinedExecutionQueue>>
      \/ executionQueue' = <<>> /\ quarantinedExecutionQueue' = executionQueue
  BY Zenon DEF PauseExecution, QuarantinePending, SetIngressRelayer, queueVars
<1>6. QueueTypeOK'
  <2>1. reportImportPaused' \in BOOLEAN
    BY Zenon DEF PauseExecution, QuarantinePending, SetIngressRelayer, queueVars, QueueTypeOK
  <2>2. ingressRelayer' \in Accounts
    <3>1. Relayers \subseteq Accounts
      BY Zenon, MiniJamAssumption
    <3> QED BY Zenon, <3>1 DEF PauseExecution, QuarantinePending, SetIngressRelayer, QueueTypeOK
  <2>3. executionQueue' \in Seq(ExecutionItem) /\ quarantinedExecutionQueue' \in Seq(ExecutionItem)
    <3>1. <<>> \in Seq(ExecutionItem)
      OBVIOUS
    <3>2. CASE UNCHANGED <<executionQueue, quarantinedExecutionQueue>>
      BY Zenon, <3>2 DEF QueueTypeOK
    <3>3. CASE executionQueue' = <<>> /\ quarantinedExecutionQueue' = executionQueue
      BY Zenon, <3>1, <3>3 DEF QueueTypeOK
    <3> QED BY Zenon, <1>5, <3>2, <3>3
  <2> QED BY Zenon, <2>1, <2>2, <2>3 DEF QueueTypeOK
<1>7. works' = works /\ candidates' = candidates
  BY Zenon, <1>1 DEF workVars
<1>8. ExecutionQueueSound'
  <2>1. CASE UNCHANGED <<executionQueue, quarantinedExecutionQueue>>
    BY Zenon, <1>7, <2>1, QueueSoundFrame
  <2>2. CASE executionQueue' = <<>> /\ quarantinedExecutionQueue' = executionQueue
    <3>1. Queued(executionQueue') = {} /\ DOMAIN executionQueue' = {}
      BY <2>2 DEF Queued
    <3>2. \A v : Executable(v) => Executable(v)'
      BY Zenon, <1>7 DEF Executable, RoundOf
    <3>3. /\ Queued(quarantinedExecutionQueue') = Queued(executionQueue)
          /\ quarantinedExecutionQueue' = executionQueue
      BY Zenon, <2>2
    <3> QED BY Zenon, <3>1, <3>2, <3>3 DEF ExecutionQueueSound, Queued
  <2> QED BY Zenon, <1>5, <2>1, <2>2
<1> QED
  BY Zenon, <1>1, <1>2, <1>3, <1>4, <1>6, <1>8, CoherentFrame, ReachedFrame, PendingFrame, OpenFrame
  DEF workersVars, workVars, assignmentVars, votingVars, blockVars, NeverHalted

-----------------------------------------------------------------------------
(* Genesis *)

(* Genesis: the workers of the chain specification, and nothing else. *)
LEMMA InitStorage ==
    ASSUME Init, Cardinality({}) = 0
    PROVE  StorageInv
<1>1. /\ Len(GenesisWorkers) \in Nat /\ Len(GenesisWorkers) <= MaxCandidates
      /\ MaxCandidates \in Nat /\ GenesisIds \subseteq WorkerIds
  <2>1. Len(GenesisWorkers) \in Nat /\ Len(GenesisWorkers) <= MaxCandidates
    BY GenesisAssumption
  <2>2. MaxCandidates \in Nat
    BY Zenon, WorkersAssumption
  <2> QED BY <2>1, <2>2 DEF GenesisIds, WorkerIds
<1>2. ASSUME NEW w \in GenesisIds
      PROVE  GenesisWorkers[w + 1][1] \in Accounts /\ GenesisWorkers[w + 1][2] \in Nat
  <2>1. w + 1 \in 1..Len(GenesisWorkers)
    BY <1>1 DEF GenesisIds
  <2>2. GenesisWorkers[w + 1] \in Accounts \X Nat
    BY <2>1, GenesisAssumption
  <2> QED BY Zenon, <2>2
<1>3. StakeTypeOK
  <2>1. /\ free = GenesisFree /\ pool = GenesisPool /\ currentEpoch = 0
        /\ pendingUpdates = <<>> /\ unbonding = <<>> /\ activeWorkers = Top(workers, GenesisIds)
        /\ stakeHold = [w \in GenesisIds |-> GenesisWorkers[w + 1][2]]
        /\ workers = [w \in GenesisIds |->
                        [owner |-> GenesisWorkers[w + 1][1], activeStake |-> GenesisWorkers[w + 1][2],
                         effectiveEpoch |-> 0, suspendedUntil |-> 0]]
    BY Zenon DEF Init, WorkersInit
  <2>2. Registered = GenesisIds
    BY Zenon, <2>1 DEF Registered
  <2>3. ASSUME NEW w \in GenesisIds
        PROVE  [owner |-> GenesisWorkers[w + 1][1], activeStake |-> GenesisWorkers[w + 1][2],
                effectiveEpoch |-> 0, suspendedUntil |-> 0] \in WorkerRecord
    BY Zenon, <1>2 DEF WorkerRecord
  <2>4. workers \in [Registered -> WorkerRecord] /\ stakeHold \in [Registered -> Nat]
    BY Zenon, <1>2, <2>1, <2>2, <2>3
  <2>5. free \in [Accounts -> Nat] /\ pool \in Nat
    BY Zenon, <2>1, GenesisAssumption
  <2>6. activeWorkers \subseteq Registered
    BY Zenon, <2>1, <2>2 DEF Top
  <2>7. \A S, T : IsMap(<<>>, S, T)
    BY DEF IsMap
  <2> QED BY Zenon, <1>1, <2>1, <2>2, <2>4, <2>5, <2>6, <2>7 DEF StakeTypeOK
<1>4. /\ assignments = <<>> /\ assignmentEpochs = <<>> /\ votingRounds = <<>> /\ votes = <<>>
      /\ roundResults = <<>> /\ openVoteRounds = <<>> /\ works = <<>> /\ candidates = <<>>
      /\ pendingWorks = <<>> /\ executionQueue = <<>> /\ quarantinedExecutionQueue = <<>>
      /\ votesTodo = <<>> /\ worksTodo = <<>>
  BY Zenon DEF Init, WorkersInit
<1>5. /\ assignedWorkCount = [r \in Rounds |-> 0] /\ equivocations = {}
      /\ dutyCounts = [r \in Rounds |-> [w \in WorkerIds |-> 0]]
      /\ depositHold = [a \in Accounts |-> 0] /\ bondHold = [a \in Accounts |-> 0]
      /\ reportImportPaused = FALSE /\ ingressRelayer = GenesisRelayer
      /\ now = 1 /\ phase = "workers"
  BY Zenon DEF Init, WorkersInit
<1> DEFINE none == <<>>
<1>6. /\ DOMAIN none = {} /\ \A S, T : IsMap(none, S, T)
      /\ \A S : none \in [{} -> S]
      /\ Elements(none) = {} /\ Distinct(none)
  BY DEF IsMap, Elements, Distinct
<1>7. \A S : none \in Seq(S)
  OBVIOUS
<1> HIDE DEF none
<1>8. /\ assignments = none /\ assignmentEpochs = none /\ votingRounds = none /\ votes = none
      /\ roundResults = none /\ openVoteRounds = none /\ works = none /\ candidates = none
      /\ pendingWorks = none /\ executionQueue = none /\ quarantinedExecutionQueue = none
      /\ votesTodo = none /\ worksTodo = none
  BY Zenon, <1>4 DEF none
<1>9. AssignmentTypeOK
  <2>1. assignedWorkCount \in [Rounds -> Nat] /\ dutyCounts \in [Rounds -> [WorkerIds -> Nat]]
    BY Zenon, <1>5
  <2> QED BY Zenon, <1>6, <1>8, <2>1 DEF AssignmentTypeOK
<1>10. VotingTypeOK
  BY Zenon, <1>5, <1>6, <1>7, <1>8 DEF VotingTypeOK
<1>11. WorkTypeOK /\ BlockTypeOK
  <2>1. depositHold \in [Accounts -> Nat] /\ bondHold \in [Accounts -> Nat] /\ now \in Nat
    BY Zenon, <1>5
  <2> QED BY Zenon, <1>5, <1>6, <1>7, <1>8, <2>1 DEF WorkTypeOK, BlockTypeOK
<1>12. QueueTypeOK
  BY Zenon, <1>5, <1>7, <1>8, MiniJamAssumption DEF QueueTypeOK
<1>13. RoundStateCoherent
  BY Zenon, <1>6, <1>8 DEF RoundStateCoherent
<1>14. RoundsReached
  <2>1. NextWorkId = 0
    BY Zenon, <1>6, <1>8 DEF NextWorkId
  <2>2. 0..(NextWorkId - 1) = {}
    BY <2>1
  <2> QED BY Zenon, <1>6, <1>8, <2>2 DEF RoundsReached
<1>15. PendingWorksExact /\ OpenVoteRoundsExact
  BY Zenon, <1>6, <1>8 DEF PendingWorksExact, OpenVoteRoundsExact
<1>16. ExecutionQueueSound /\ NeverHalted
  <2>1. NeverHalted
    BY Zenon, <1>5 DEF NeverHalted
  <2> QED BY Zenon, <1>6, <1>8, <2>1 DEF ExecutionQueueSound, Queued
<1> QED
  BY Zenon, <1>3, <1>9, <1>10, <1>11, <1>12, <1>13, <1>14, <1>15, <1>16 DEF StorageInv, TypeOK

(* Nothing the two pallets depend on changes in a stuttering step. *)
LEMMA StutterStep ==
    ASSUME StorageInv, UNCHANGED vars
    PROVE  StorageInv'
<1> USE DEF StorageInv, TypeOK
<1>1. UNCHANGED <<blockVars, workersVars, workVars, queueVars, ingressRelayer>>
  BY Zenon DEF vars, minijamVars
<1>2. StakeTypeOK' /\ VotingTypeOK' /\ Registered' = Registered
  BY Zenon, <1>1, StakeFrame, VotingFrame DEF workersVars, stakeVars, Registered
<1>3. AssignmentTypeOK'
  BY Zenon, <1>1, <1>2, AssignmentFrame DEF workersVars
<1>4. BlockTypeOK' /\ NeverHalted'
  BY Zenon, <1>1, BlockFrame DEF workVars, blockVars, NeverHalted
<1>5. WorkTypeOK' /\ QueueTypeOK'
  BY Zenon, <1>1, WorkFrame, QueueFrame
<1> QED
  BY Zenon, <1>1, <1>2, <1>3, <1>4, <1>5, CoherentFrame, ReachedFrame, PendingFrame, OpenFrame,
     QueueSoundFrame
  DEF workersVars, workVars, queueVars, assignmentVars, votingVars
-----------------------------------------------------------------------------
(* Opening another round *)

(* prepare_round for a pending work, in its round or in the next one. *)
LEMMA ReopenRound ==
    ASSUME StorageInv, NEW w \in DOMAIN works, NEW rec \in WorkRecord, NEW as0, NEW epochs0,
           IsMap(as0, RoundKeys, SUBSET Registered), IsMap(epochs0, RoundKeys, Nat),
           DOMAIN epochs0 = DOMAIN as0,
           DOMAIN as0 = {key \in DOMAIN assignments : key[1] # w},
           works[w].status \in PendingStatuses, works[w].round <= rec.round,
           <<w, rec.round>> \notin DOMAIN candidates \cup DOMAIN roundResults,
           RoundOf(w) \notin DOMAIN votingRounds,
           PrepareRound(w, rec, as0, epochs0),
           UNCHANGED <<workers, pendingWorks, candidates, votingRounds, roundResults,
                       executionQueue, quarantinedExecutionQueue>>
    PROVE  /\ AssignmentTypeOK'
           /\ DOMAIN works' = DOMAIN works /\ works' \in [DOMAIN works' -> WorkRecord]
           /\ RoundStateCoherent' /\ RoundsReached' /\ ExecutionQueueSound' /\ PendingWorksExact'
<1>1. w \in WorkIds /\ now \in Nat /\ StakeTypeOK /\ AssignmentTypeOK /\ PendingWorksExact
  BY Zenon DEF StorageInv, TypeOK, WorkTypeOK, BlockTypeOK
<1>2. /\ AssignmentTypeOK'
      /\ DOMAIN assignmentEpochs' = DOMAIN assignments'
      /\ \E new \in WorkRecord :
           /\ works' = Insert(works, w, new)
           /\ new.round = rec.round
           /\ \/ /\ new.status = "AwaitingCandidate"
                 /\ DOMAIN assignments' = DOMAIN as0 \cup {<<w, rec.round>>}
              \/ /\ new.status = "InsufficientWorkers"
                 /\ DOMAIN assignments' = DOMAIN as0
                 /\ <<w, rec.round>> \notin DOMAIN as0
  BY Zenon, <1>1, PrepareRoundType
<1>3. PICK new \in WorkRecord :
           /\ works' = Insert(works, w, new)
           /\ new.round = rec.round
           /\ \/ /\ new.status = "AwaitingCandidate"
                 /\ DOMAIN assignments' = DOMAIN as0 \cup {<<w, rec.round>>}
              \/ /\ new.status = "InsufficientWorkers"
                 /\ DOMAIN assignments' = DOMAIN as0
  BY Zenon, <1>2
<1>4. \A key \in DOMAIN votingRounds : key[1] # w
  BY Zenon, OnlyCurrentAssigned
<1>5. /\ works' \in [DOMAIN works' -> WorkRecord]
      /\ RoundStateCoherent' /\ RoundsReached' /\ ExecutionQueueSound'
  BY Zenon, <1>1, <1>2, <1>3, <1>4, OpenRound
<1>6. DOMAIN works' = DOMAIN works /\ works'[w] = new
      /\ \A v \in DOMAIN works \ {w} : works'[v] = works[v]
  BY Zenon, <1>3 DEF Insert
<1>7. PendingWorksExact'
  <2>1. \A v \in DOMAIN works :
           works'[v].status \in PendingStatuses <=> works[v].status \in PendingStatuses
    BY Zenon, <1>3, <1>6 DEF PendingStatuses
  <2> QED BY Zenon, <1>1, <1>6, <2>1, PendingKept
<1> QED BY Zenon, <1>2, <1>5, <1>6, <1>7

(* on_initialize on a work without workers: the same round is prepared again. *)
LEMMA RetryAssignmentStep ==
    ASSUME StorageInv, NEW w \in DOMAIN works, RetryAssignment(w)
    PROVE  StorageInv'
<1> USE DEF StorageInv, TypeOK
<1>1. /\ PrepareRound(w, works[w], assignments, assignmentEpochs)
      /\ UNCHANGED <<workers, pendingWorks, candidates, votingRounds, roundResults,
                     executionQueue, quarantinedExecutionQueue>>
      /\ works[w].status = "InsufficientWorkers"
  BY Zenon DEF RetryAssignment, stakeVars, votingVars, queueVars
<1>2. /\ works[w] \in WorkRecord /\ works[w].round <= works[w].round
      /\ works[w].status \in PendingStatuses
  <2>1. works[w] \in WorkRecord /\ works[w].round \in Int
    BY MiniJamAssumption DEF WorkTypeOK, WorkRecord
  <2>2. works[w].round <= works[w].round
    BY <2>1
  <2>3. works[w].status \in PendingStatuses
    BY Zenon, <1>1 DEF PendingStatuses
  <2> QED BY Zenon, <2>1, <2>2, <2>3
<1>3. /\ IsMap(assignments, RoundKeys, SUBSET Registered)
      /\ IsMap(assignmentEpochs, RoundKeys, Nat) /\ DOMAIN assignmentEpochs = DOMAIN assignments
  BY Zenon DEF AssignmentTypeOK, RoundStateCoherent
<1>4. /\ RoundOf(w) \notin DOMAIN assignments
      /\ RoundOf(w) \notin DOMAIN candidates \cup DOMAIN votingRounds \cup DOMAIN roundResults
  BY ZenonT(30), <1>1 DEF RoundStateCoherent
<1>5. DOMAIN assignments = {key \in DOMAIN assignments : key[1] # w}
  BY Zenon, <1>4, OnlyCurrentAssigned
<1>6. /\ AssignmentTypeOK'
      /\ DOMAIN works' = DOMAIN works /\ works' \in [DOMAIN works' -> WorkRecord]
      /\ RoundStateCoherent' /\ RoundsReached' /\ ExecutionQueueSound' /\ PendingWorksExact'
  <2> HIDE DEF StorageInv
  <2> QED BY Zenon, <1>1, <1>2, <1>3, <1>4, <1>5, ReopenRound DEF RoundOf
<1>7. WorkTypeOK'
  BY Zenon, <1>6 DEF RetryAssignment, WorkTypeOK, IsMap
<1>8. BlockTypeOK'
  BY Zenon, <1>6, TailIsSeq DEF RetryAssignment, ThisWork, BlockTypeOK
<1> QED
  BY Zenon, <1>6, <1>7, <1>8, StakeFrame, VotingFrame, QueueFrame, OpenFrame
  DEF RetryAssignment, ThisWork, votingVars, NeverHalted
-----------------------------------------------------------------------------
(* Settling a work *)

(* clear_assignment keeps the three maps well typed. *)
LEMMA ClearedType ==
    ASSUME TypeOK, RoundStateCoherent, NEW key
    PROVE  /\ IsMap(ClearedAssignments(key), RoundKeys, SUBSET Registered)
           /\ IsMap(ClearedEpochs(key), RoundKeys, Nat)
           /\ IsMap(ClearedVotes(key), RoundKeys \X WorkerIds, {"Support", "Oppose"})
           /\ DOMAIN ClearedAssignments(key) = DOMAIN assignments \ {key}
           /\ DOMAIN ClearedEpochs(key) = DOMAIN assignments \ {key}
<1>1. IsMap(ClearedAssignments(key), RoundKeys, SUBSET Registered)
  BY Zenon, RemoveIsMap DEF TypeOK, AssignmentTypeOK, ClearedAssignments
<1>2. IsMap(ClearedEpochs(key), RoundKeys, Nat)
  BY Zenon, RemoveIsMap DEF TypeOK, AssignmentTypeOK, ClearedEpochs
<1>3. IsMap(ClearedVotes(key), RoundKeys \X WorkerIds, {"Support", "Oppose"})
  BY Zenon, RemoveIsMap DEF TypeOK, VotingTypeOK, ClearedVotes
<1>4. /\ DOMAIN ClearedAssignments(key) = DOMAIN assignments \ {key}
      /\ DOMAIN ClearedEpochs(key) = DOMAIN assignments \ {key}
  BY Zenon DEF ClearedAssignments, ClearedEpochs, RemoveAll, RoundStateCoherent
<1> QED BY Zenon, <1>1, <1>2, <1>3, <1>4

(* A pending work leaves PendingWorks and loses its assignment. *)
LEMMA SettleWork ==
    ASSUME StorageInv, NEW w \in DOMAIN works, NEW status \in {"Accepted", "Failed"},
           works[w].status \in PendingStatuses,
           RoundOf(w) \notin DOMAIN votingRounds,
           status = "Accepted" => RoundOf(w) \in DOMAIN candidates,
           works' = [works EXCEPT ![w].status = status],
           pendingWorks' = SwapRemove(pendingWorks, w),
           assignments' = ClearedAssignments(RoundOf(w)),
           assignmentEpochs' = ClearedEpochs(RoundOf(w)),
           UNCHANGED <<workers, assignedWorkCount, dutyCounts, candidates, votingRounds, roundResults>>
    PROVE  /\ AssignmentTypeOK'
           /\ DOMAIN works' = DOMAIN works /\ works' \in [DOMAIN works -> WorkRecord]
           /\ pendingWorks' \in Seq(DOMAIN works)
           /\ RoundStateCoherent' /\ RoundsReached' /\ PendingWorksExact'
           /\ \A v : Executable(v) => v # w /\ Executable(v)'
           /\ status = "Accepted" => Executable(w)'
<1> USE DEF StorageInv, TypeOK
<1> DEFINE new == [works[w] EXCEPT !.status = status]
<1>1. new \in WorkRecord /\ new.status = status /\ new.round = works[w].round
  <2>1. works[w] \in WorkRecord /\ status \in WorkStatus
    BY Zenon DEF WorkTypeOK, WorkStatus, PendingStatuses
  <2> QED BY Zenon, <2>1, StatusUpdate
<1>2. works' = [works EXCEPT ![w] = new]
  BY Zenon
<1> HIDE DEF new
<1>3. /\ DOMAIN works' = DOMAIN works /\ works' \in [DOMAIN works -> WorkRecord] /\ works'[w] = new
      /\ \A v \in DOMAIN works \ {w} : works'[v] = works[v]
      /\ \A v \in DOMAIN works : works'[v].round = works[v].round
  BY Zenon, <1>1, <1>2 DEF WorkTypeOK
<1>4. AssignmentTypeOK'
  BY Zenon, ClearedType DEF AssignmentTypeOK, Registered
<1>5. pendingWorks' \in Seq(DOMAIN works) /\ Distinct(pendingWorks')
      /\ Elements(pendingWorks') = Elements(pendingWorks) \ {w}
  BY Zenon, SwapRemoveProperties DEF WorkTypeOK, PendingWorksExact
<1>6. PendingWorksExact'
  <2>1. \A v \in DOMAIN works : works'[v].status \in PendingStatuses <=>
                                   v # w /\ works[v].status \in PendingStatuses
    BY Zenon, <1>1, <1>3 DEF PendingStatuses
  <2> QED BY Zenon, <1>3, <1>5, <2>1 DEF PendingWorksExact
<1>7. RoundsReached'
  <2>1. NextWorkId' = NextWorkId
    BY Zenon, <1>3 DEF NextWorkId
  <2> QED BY Zenon, <1>3, <2>1 DEF RoundsReached
<1>8. \A v \in DOMAIN works : RoundOf(v)' = RoundOf(v)
  BY Zenon, <1>3 DEF RoundOf
<1>9. RoundStateCoherent'
  <2>1. /\ DOMAIN assignments' = DOMAIN assignments \ {RoundOf(w)}
        /\ DOMAIN assignmentEpochs' = DOMAIN assignments'
    BY Zenon, ClearedType
  <2>2. ASSUME NEW v \in DOMAIN works, v # w
        PROVE  RoundOf(v) \in DOMAIN assignments' <=> RoundOf(v) \in DOMAIN assignments
    BY Zenon, <2>1, <2>2 DEF RoundOf
  <2>3. ASSUME NEW v \in DOMAIN works'
        PROVE  LET key == RoundOf(v)
               IN  /\ key \in DOMAIN assignments' <=>
                          works'[v].status \in {"AwaitingCandidate", "Voting"}
                   /\ works'[v].status \in {"InsufficientWorkers", "AwaitingCandidate"} =>
                         key \notin DOMAIN candidates \cup DOMAIN votingRounds \cup DOMAIN roundResults
                   /\ works'[v].status = "Voting" =>
                         /\ key \in DOMAIN candidates
                         /\ key \in DOMAIN votingRounds <=> key \notin DOMAIN roundResults
                   /\ works'[v].status \in {"Accepted", "Imported"} => key \in DOMAIN candidates
    <3>1. CASE v = w
      BY Zenon, <1>1, <1>3, <2>1, <3>1
    <3>2. CASE v # w
      BY Zenon, <1>3, <2>2, <3>2 DEF RoundStateCoherent
    <3> QED BY Zenon, <3>1, <3>2
  <2>4. \A key \in DOMAIN assignments' : key[1] \in DOMAIN works' /\ key = RoundOf(key[1])'
    BY ZenonT(40), <1>3, <1>8, <2>1 DEF RoundStateCoherent
  <2>5. DOMAIN votingRounds \subseteq DOMAIN assignments'
    BY Zenon, <2>1 DEF RoundStateCoherent
  <2> QED BY <1>3, <1>8, <2>1, <2>3, <2>4, <2>5 DEF RoundStateCoherent
<1>10. \A v : Executable(v) => v # w /\ Executable(v)'
  BY Zenon, <1>3, <1>8 DEF Executable, PendingStatuses
<1>11. status = "Accepted" => Executable(w)'
  BY Zenon, <1>1, <1>3, <1>8 DEF Executable
<1> QED BY Zenon, <1>3, <1>4, <1>5, <1>6, <1>7, <1>9, <1>10, <1>11

(* on_initialize on an accepted candidate: the work leaves PendingWorks and the *)
(* assignment goes as it enters the execution queue.                          *)
LEMMA AcceptedCandidateStep ==
    ASSUME StorageInv, NEW w \in DOMAIN works, AcceptedCandidate(w)
    PROVE  StorageInv'
<1> USE DEF StorageInv, TypeOK
<1> DEFINE key == RoundOf(w)
           submitter == candidates[key].submitter
           owner == works[w].owner
           item == [workId |-> w, executeAt |-> now + 1]
<1>1. /\ works[w].status = "Voting" /\ key \in DOMAIN roundResults /\ key \in DOMAIN candidates
      /\ works' = [works EXCEPT ![w].status = "Accepted"]
      /\ executionQueue' = Append(executionQueue, item)
      /\ pendingWorks' = SwapRemove(pendingWorks, w)
      /\ assignments' = ClearedAssignments(key)
      /\ assignmentEpochs' = ClearedEpochs(key)
      /\ votes' = ClearedVotes(key)
      /\ UNCHANGED <<stakeVars, workers, epochVars, assignedWorkCount, dutyCounts, votingRounds,
                     openVoteRounds, roundResults, equivocations, candidates,
                     quarantinedExecutionQueue, reportImportPaused>>
  BY Zenon DEF AcceptedCandidate, AcceptCandidate, CanAccept, ResultAccepts, HasResult, Enqueued,
         stakeVars
<1>2. key \notin DOMAIN votingRounds /\ works[w].status \in PendingStatuses
  BY Zenon, <1>1 DEF RoundStateCoherent, PendingStatuses
<1>3. /\ AssignmentTypeOK'
      /\ DOMAIN works' = DOMAIN works /\ works' \in [DOMAIN works -> WorkRecord]
      /\ pendingWorks' \in Seq(DOMAIN works)
      /\ RoundStateCoherent' /\ RoundsReached' /\ PendingWorksExact'
      /\ \A v : Executable(v) => v # w /\ Executable(v)'
      /\ Executable(w)'
  <2> HIDE DEF StorageInv
  <2> QED BY Zenon, <1>1, <1>2, SettleWork
<1>4. /\ free' \in [Accounts -> Nat] /\ pool' \in Nat
      /\ depositHold' \in [Accounts -> Nat] /\ bondHold' \in [Accounts -> Nat]
  <2>1. submitter \in Accounts /\ owner \in Accounts
    BY Zenon, <1>1 DEF WorkTypeOK, IsMap, CandidateRecord, WorkRecord
  <2>2. /\ bondHold[submitter] >= CandidateBond /\ pool >= AcceptedSubmitterReward
        /\ depositHold[owner] >= WorkDeposit
        /\ bondHold' = [bondHold EXCEPT ![submitter] = @ - CandidateBond]
        /\ pool' = pool - AcceptedSubmitterReward
        /\ depositHold' = [depositHold EXCEPT ![owner] = @ - WorkDeposit]
        /\ free' = [[free EXCEPT ![submitter] = @ + CandidateBond + AcceptedSubmitterReward]
                       EXCEPT ![owner] = @ + WorkDeposit]
    BY Zenon DEF AcceptedCandidate, AcceptCandidate, CanAccept
  <2>3. /\ CandidateBond \in Nat /\ AcceptedSubmitterReward \in Nat /\ WorkDeposit \in Nat
    BY Zenon, MiniJamAssumption
  <2> HIDE DEF submitter, owner
  <2>4. pool' \in Nat /\ depositHold' \in [Accounts -> Nat] /\ bondHold' \in [Accounts -> Nat]
    <3>1. pool \in Nat /\ depositHold \in [Accounts -> Nat] /\ bondHold \in [Accounts -> Nat]
      BY Zenon DEF StakeTypeOK, WorkTypeOK
    <3>2. pool' \in Nat
      BY <2>2, <2>3, <3>1
    <3>3. depositHold' \in [Accounts -> Nat]
      BY <2>1, <2>2, <2>3, <3>1
    <3>4. bondHold' \in [Accounts -> Nat]
      BY <2>1, <2>2, <2>3, <3>1
    <3> QED BY Zenon, <3>2, <3>3, <3>4
  <2>5. free' \in [Accounts -> Nat]
    <3> DEFINE bonded == [free EXCEPT ![submitter] = @ + CandidateBond + AcceptedSubmitterReward]
    <3>1. bonded \in [Accounts -> Nat]
      BY <2>1, <2>3 DEF StakeTypeOK
    <3>2. free' = [bonded EXCEPT ![owner] = @ + WorkDeposit]
      BY Zenon, <2>2
    <3> HIDE DEF bonded
    <3> QED BY <2>1, <2>3, <3>1, <3>2
  <2> QED BY Zenon, <2>4, <2>5
<1>5. StakeTypeOK'
  BY Zenon, <1>1, <1>4 DEF StakeTypeOK, stakeVars, epochVars, Registered, IsMap
<1>6. VotingTypeOK'
  BY Zenon, <1>1, ClearedType DEF VotingTypeOK, IsMap
<1>7. WorkTypeOK'
  BY Zenon, <1>1, <1>3, <1>4 DEF WorkTypeOK, IsMap
<1>8. item \in ExecutionItem /\ item.workId = w
  BY DEF ExecutionItem, WorkTypeOK, BlockTypeOK
<1> HIDE DEF item
<1>9. QueueTypeOK' /\ ExecutionQueueSound'
  <2>1. /\ executionQueue \in Seq(ExecutionItem)
        /\ Len(executionQueue) \in Nat
        /\ executionQueue' \in Seq(ExecutionItem)
        /\ DOMAIN executionQueue = 1..Len(executionQueue)
        /\ DOMAIN executionQueue' = 1..(Len(executionQueue) + 1)
        /\ \A i \in DOMAIN executionQueue : executionQueue'[i] = executionQueue[i]
        /\ executionQueue'[Len(executionQueue) + 1] = item
    BY <1>1, <1>8 DEF QueueTypeOK
  <2>2. QueueTypeOK'
    <3>1. ingressRelayer' = ingressRelayer
      BY Zenon DEF AcceptedCandidate, ThisWork
    <3> QED BY Zenon, <1>1, <2>1, <3>1 DEF QueueTypeOK
  <2>3. Queued(executionQueue)' = Queued(executionQueue) \cup {w}
    <3>1. executionQueue' = Append(executionQueue, item)
      BY Zenon, <1>1
    <3>2. Queued(Append(executionQueue, item)) = Queued(executionQueue) \cup {w}
      BY Zenon, <1>8, <2>1, QueuedAppend
    <3> QED BY Zenon, <3>1, <3>2 DEF Queued
  <2>4. w \notin Queued(executionQueue) \cup Queued(quarantinedExecutionQueue)
    BY Zenon, <1>3 DEF ExecutionQueueSound
  <2>5. \A i, j \in DOMAIN executionQueue' :
           executionQueue'[i].workId = executionQueue'[j].workId => i = j
    <3>1. \A i \in DOMAIN executionQueue : executionQueue[i].workId # w
      BY Zenon, <2>4 DEF Queued
    <3>2. \A i, j \in DOMAIN executionQueue : executionQueue[i].workId = executionQueue[j].workId => i = j
      BY Zenon DEF ExecutionQueueSound
    <3> QED BY <1>8, <2>1, <3>1, <3>2
  <2>6. quarantinedExecutionQueue' = quarantinedExecutionQueue
        /\ Queued(quarantinedExecutionQueue)' = Queued(quarantinedExecutionQueue)
    BY Zenon, <1>1 DEF Queued
  <2> QED BY ZenonT(40), <1>3, <2>2, <2>3, <2>4, <2>5, <2>6 DEF ExecutionQueueSound
<1>10. BlockTypeOK'
  BY Zenon, <1>3, TailIsSeq DEF AcceptedCandidate, ThisWork, BlockTypeOK
<1> QED
  BY Zenon, <1>1, <1>3, <1>5, <1>6, <1>7, <1>9, <1>10, OpenFrame
  DEF AcceptedCandidate, ThisWork, NeverHalted

(* advance_or_fail, for a work whose round has no open vote. *)
LEMMA AdvanceOrFailStep ==
    ASSUME StorageInv, NEW w \in DOMAIN works, NEW rejected \in BOOLEAN,
           works[w].status \in PendingStatuses, RoundOf(w) \notin DOMAIN votingRounds,
           ThisWork(w), AdvanceOrFail(w, rejected)
    PROVE  StorageInv'
<1> USE DEF StorageInv, TypeOK
<1> DEFINE key == RoundOf(w)
           slash == IF rejected THEN RejectionSlash ELSE 0
           deposit == FailureSlash(w)
           submitter == candidates[key].submitter
           owner == works[w].owner
           next == [works[w] EXCEPT !.round = @ + 1, !.status = "InsufficientWorkers"]
<1>1. /\ votes' = ClearedVotes(key)
      /\ UNCHANGED <<stakeVars, workers, epochVars, votingRounds, openVoteRounds, roundResults,
                     equivocations, candidates, queueVars, executionQueue,
                     quarantinedExecutionQueue>>
  BY Zenon DEF AdvanceOrFail, stakeVars, queueVars
<1>2. /\ free' \in [Accounts -> Nat] /\ pool' \in Nat
      /\ depositHold' \in [Accounts -> Nat] /\ bondHold' \in [Accounts -> Nat]
  <2>1. /\ free \in [Accounts -> Nat] /\ pool \in Nat
        /\ depositHold \in [Accounts -> Nat] /\ bondHold \in [Accounts -> Nat]
        /\ owner \in Accounts
    BY Zenon DEF StakeTypeOK, WorkTypeOK, WorkRecord
  <2>2. /\ slash \in Nat /\ slash <= CandidateBond /\ CandidateBond \in Nat
        /\ deposit \in Nat /\ deposit <= depositHold[owner]
    <3>1. CandidateBond \in Nat /\ CandidateRejectionSlash \in Nat /\ WorkDeposit \in Nat
      BY Zenon, MiniJamAssumption
    <3>2. LastRound(w) => depositHold[owner] >= WorkDeposit
      BY Zenon DEF AdvanceOrFail, CanAdvance, CanFailWork
    <3> QED BY <2>1, <3>1, <3>2 DEF RejectionSlash, FailureSlash, Min2
  <2>3. /\ pool' = pool + slash + deposit
        /\ depositHold' = [depositHold EXCEPT ![owner] = @ - deposit]
    BY Zenon DEF AdvanceOrFail
  <2>4. \/ UNCHANGED <<bondHold, free>>
        \/ /\ submitter \in Accounts /\ bondHold[submitter] >= CandidateBond
           /\ bondHold' = [bondHold EXCEPT ![submitter] = @ - CandidateBond]
           /\ free' = [free EXCEPT ![submitter] = @ + (CandidateBond - slash)]
    <3>1. rejected => key \in DOMAIN candidates /\ bondHold[submitter] >= CandidateBond
      BY Zenon DEF AdvanceOrFail, CanAdvance, CanSettleRejected
    <3>2. key \in DOMAIN candidates => submitter \in Accounts
      BY Zenon DEF WorkTypeOK, IsMap, CandidateRecord
    <3> QED BY Zenon, <3>1, <3>2 DEF AdvanceOrFail
  <2> HIDE DEF slash, deposit, submitter, owner
  <2>5. pool' \in Nat /\ depositHold' \in [Accounts -> Nat]
    BY <2>1, <2>2, <2>3
  <2>6. bondHold' \in [Accounts -> Nat]
    BY <2>1, <2>2, <2>4
  <2>7. free' \in [Accounts -> Nat]
    BY <2>1, <2>2, <2>4
  <2> QED BY Zenon, <2>5, <2>6, <2>7
<1>3. /\ AssignmentTypeOK'
      /\ DOMAIN works' = DOMAIN works /\ works' \in [DOMAIN works' -> WorkRecord]
      /\ pendingWorks' \in Seq(DOMAIN works)
      /\ RoundStateCoherent' /\ RoundsReached' /\ PendingWorksExact' /\ ExecutionQueueSound'
  <2>1. CASE LastRound(w)
    <3>1. /\ works' = [works EXCEPT ![w].status = "Failed"]
          /\ pendingWorks' = SwapRemove(pendingWorks, w)
          /\ assignments' = ClearedAssignments(key)
          /\ assignmentEpochs' = ClearedEpochs(key)
          /\ UNCHANGED <<assignedWorkCount, dutyCounts>>
      BY Zenon, <2>1 DEF AdvanceOrFail
    <3>2. /\ AssignmentTypeOK'
          /\ DOMAIN works' = DOMAIN works /\ works' \in [DOMAIN works -> WorkRecord]
          /\ pendingWorks' \in Seq(DOMAIN works)
          /\ RoundStateCoherent' /\ RoundsReached' /\ PendingWorksExact'
          /\ \A v : Executable(v) => v # w /\ Executable(v)'
      <4> HIDE DEF StorageInv
      <4> QED BY Zenon, <1>1, <3>1, SettleWork
    <3>3. ExecutionQueueSound'
      <4>1. /\ executionQueue' = executionQueue
            /\ quarantinedExecutionQueue' = quarantinedExecutionQueue
        BY Zenon, <1>1
      <4>2. \A v : Executable(v) => Executable(v)'
        BY Zenon, <3>2
      <4> QED BY Zenon, <4>1, <4>2, QueueSoundKept
    <3> QED BY Zenon, <3>2, <3>3
  <2>2. CASE ~LastRound(w)
    <3>1. /\ PrepareRound(w, next, ClearedAssignments(key), ClearedEpochs(key))
          /\ UNCHANGED pendingWorks
      BY Zenon, <2>2 DEF AdvanceOrFail
    <3>2. PICK r \in Rounds : r = works[w].round + 1 /\ works[w].round < r /\ works[w].round <= r
      <4>1. works[w].round \in Rounds /\ ~(works[w].round + 1 >= MaxCandidateRounds)
        BY Zenon, <2>2 DEF LastRound, WorkTypeOK, WorkRecord
      <4>2. MaxCandidateRounds \in Nat /\ Rounds = 0..(MaxCandidateRounds - 1)
        BY Zenon, MiniJamAssumption
      <4>3. PICK n \in 0..(MaxCandidateRounds - 1) : n = works[w].round
        BY Zenon, <4>1, <4>2
      <4>4. n + 1 \in 0..(MaxCandidateRounds - 1) /\ n < n + 1 /\ n <= n + 1
        BY <4>1, <4>2, <4>3
      <4> QED BY Zenon, <4>2, <4>3, <4>4
    <3>3. works[w] \in WorkRecord /\ "InsufficientWorkers" \in WorkStatus
      BY Zenon DEF WorkTypeOK, WorkStatus, PendingStatuses
    <3>4. next = [works[w] EXCEPT !.round = r, !.status = "InsufficientWorkers"]
      BY Zenon, <3>2
    <3> HIDE DEF next
    <3>5. next \in WorkRecord /\ next.round = r
      BY Zenon, <3>3, <3>4 DEF WorkRecord
    <3>6. <<w, r>> \notin DOMAIN candidates \cup DOMAIN roundResults
      <4>1. ~(r <= works[w].round)
        BY <3>2, <3>3, MiniJamAssumption DEF WorkRecord
      <4> QED BY Zenon, <4>1 DEF RoundsReached
    <3>7. /\ IsMap(ClearedAssignments(key), RoundKeys, SUBSET Registered)
          /\ IsMap(ClearedEpochs(key), RoundKeys, Nat)
          /\ DOMAIN ClearedEpochs(key) = DOMAIN ClearedAssignments(key)
          /\ DOMAIN ClearedAssignments(key) = {k \in DOMAIN assignments : k[1] # w}
      BY Zenon, ClearedType, OnlyCurrentAssigned
    <3>8. works[w].round <= next.round
      BY Zenon, <3>2, <3>5
    <3>9. /\ AssignmentTypeOK'
          /\ DOMAIN works' = DOMAIN works /\ works' \in [DOMAIN works' -> WorkRecord]
          /\ RoundStateCoherent' /\ RoundsReached' /\ ExecutionQueueSound' /\ PendingWorksExact'
      <4> HIDE DEF StorageInv
      <4> QED BY Zenon, <1>1, <3>1, <3>5, <3>6, <3>7, <3>8, ReopenRound
    <3> QED BY Zenon, <3>1, <3>9 DEF WorkTypeOK
  <2> QED BY Zenon, <2>1, <2>2
<1>4. StakeTypeOK'
  BY Zenon, <1>1, <1>2 DEF StakeTypeOK, stakeVars, epochVars, Registered, IsMap
<1>5. VotingTypeOK'
  BY Zenon, <1>1, ClearedType DEF VotingTypeOK, IsMap
<1>6. WorkTypeOK'
  BY Zenon, <1>1, <1>2, <1>3 DEF WorkTypeOK, IsMap
<1>7. BlockTypeOK'
  BY Zenon, <1>3, TailIsSeq DEF ThisWork, BlockTypeOK
<1> QED
  BY Zenon, <1>1, <1>3, <1>4, <1>5, <1>6, <1>7, QueueFrame, OpenFrame DEF ThisWork, NeverHalted

(* on_initialize on a work whose candidate is overdue. *)
LEMMA MissedCandidateStep ==
    ASSUME StorageInv, NEW w \in DOMAIN works, MissedCandidate(w)
    PROVE  StorageInv'
<1>1. works[w].status = "AwaitingCandidate" /\ ThisWork(w) /\ AdvanceOrFail(w, FALSE)
  BY Zenon DEF MissedCandidate, CandidateOverdue
<1>2. works[w].status \in PendingStatuses /\ RoundOf(w) \notin DOMAIN votingRounds
  BY Zenon, <1>1 DEF StorageInv, RoundStateCoherent, PendingStatuses
<1> QED BY Zenon, <1>1, <1>2, AdvanceOrFailStep

(* on_initialize on a work whose candidate was not accepted. *)
LEMMA RejectedCandidateStep ==
    ASSUME StorageInv, NEW w \in DOMAIN works, RejectedCandidate(w)
    PROVE  StorageInv'
<1>1. /\ works[w].status = "Voting" /\ RoundOf(w) \in DOMAIN roundResults
      /\ ThisWork(w) /\ AdvanceOrFail(w, TRUE)
  BY Zenon DEF RejectedCandidate, ResultRejects, HasResult
<1>2. works[w].status \in PendingStatuses /\ RoundOf(w) \notin DOMAIN votingRounds
  BY ZenonT(30), <1>1 DEF StorageInv, RoundStateCoherent, PendingStatuses
<1> QED BY Zenon, <1>1, <1>2, AdvanceOrFailStep

(* on_initialize on a work it has nothing to do for, or whose transaction rolls *)
(* back.                                                                      *)
LEMMA SkipWorkStep ==
    ASSUME StorageInv, NEW w \in DOMAIN works, SkipWork(w)
    PROVE  StorageInv'
<1> USE DEF StorageInv, TypeOK
<1>1. UNCHANGED <<workersVars, workVars, queueVars, ingressRelayer>> /\ ThisWork(w)
  BY Zenon DEF SkipWork, ThisWork
<1>2. StakeTypeOK' /\ VotingTypeOK' /\ Registered' = Registered
  BY Zenon, <1>1, StakeFrame, VotingFrame DEF workersVars, stakeVars, Registered
<1>3. AssignmentTypeOK'
  BY Zenon, <1>1, <1>2, AssignmentFrame DEF workersVars
<1>4. BlockTypeOK'
  BY Zenon, <1>1, TailIsSeq DEF ThisWork, BlockTypeOK, workVars
<1>5. WorkTypeOK' /\ QueueTypeOK'
  BY Zenon, <1>1, WorkFrame, QueueFrame
<1> QED
  BY Zenon, <1>1, <1>2, <1>3, <1>4, <1>5, CoherentFrame, ReachedFrame, PendingFrame, OpenFrame,
     QueueSoundFrame
  DEF ThisWork, workersVars, workVars, queueVars, assignmentVars, votingVars, NeverHalted
-----------------------------------------------------------------------------
(* The end of the block *)

(* The next block starts well typed and does not halt. *)
LEMMA NextBlockType ==
    ASSUME BlockTypeOK, VotingTypeOK, NextBlock, DOMAIN works' = DOMAIN works
    PROVE  BlockTypeOK' /\ NeverHalted'
  BY DEF BlockTypeOK, VotingTypeOK, NextBlock, NeverHalted

(* on_finalize on a batch the executor refused: nothing but the block number moves. *)
LEMMA YieldBlockStfStep ==
    ASSUME StorageInv, NEW n \in 0..Len(executionQueue), YieldBlockStf(n)
    PROVE  StorageInv'
<1> USE DEF StorageInv, TypeOK
<1>1. UNCHANGED <<workersVars, workVars, queueVars, ingressRelayer>> /\ NextBlock
  BY Zenon DEF YieldBlockStf, minijamVars
<1>2. StakeTypeOK' /\ VotingTypeOK' /\ Registered' = Registered
  BY Zenon, <1>1, StakeFrame, VotingFrame DEF workersVars, stakeVars, Registered
<1>3. AssignmentTypeOK'
  BY Zenon, <1>1, <1>2, AssignmentFrame DEF workersVars
<1>4. BlockTypeOK' /\ NeverHalted'
  BY Zenon, <1>1, NextBlockType DEF workVars
<1>5. WorkTypeOK' /\ QueueTypeOK'
  BY Zenon, <1>1, WorkFrame, QueueFrame
<1> QED
  BY Zenon, <1>1, <1>2, <1>3, <1>4, <1>5, CoherentFrame, ReachedFrame, PendingFrame, OpenFrame,
     QueueSoundFrame
  DEF workersVars, workVars, queueVars, assignmentVars, votingVars

(* on_finalize finds every due work executable, and what it imports is no     *)
(* longer queued anywhere.                                                    *)
LEMMA ExecuteBlockStfStep ==
    ASSUME StorageInv, NEW n \in 0..Len(executionQueue), NEW consumed, ExecuteBlockStf(n, consumed)
    PROVE  StorageInv'
<1> USE DEF StorageInv, TypeOK
<1> DEFINE due == {executionQueue[i].workId : i \in 1..n}
           imported(v) == [works[v] EXCEPT !.status = "Imported"]
<1>1. executionQueue \in Seq(ExecutionItem) /\ DOMAIN executionQueue = 1..Len(executionQueue)
      /\ Len(executionQueue) \in Nat /\ 1..n \subseteq DOMAIN executionQueue
  BY DEF QueueTypeOK
<1>2. \A v \in due : Executable(v) /\ v \in Queued(executionQueue)
  <2>1. due \subseteq Queued(executionQueue)
    BY Zenon, <1>1 DEF Queued
  <2> QED BY Zenon, <2>1 DEF ExecutionQueueSound
<1>3. /\ works' = [v \in DOMAIN works |-> IF v \in consumed THEN imported(v) ELSE works[v]]
      /\ executionQueue' = SubSeq(executionQueue, n + 1, Len(executionQueue))
      /\ NextBlock
      /\ consumed \subseteq due
      /\ UNCHANGED <<workersVars, pendingWorks, candidates, depositHold, bondHold,
                     quarantinedExecutionQueue, reportImportPaused, ingressRelayer>>
  BY Zenon, <1>2 DEF ExecuteBlockStf, Remaining
<1>4. ASSUME NEW v \in DOMAIN works
      PROVE  /\ imported(v) \in WorkRecord /\ imported(v).status = "Imported"
             /\ imported(v).round = works[v].round
  <2>1. works[v] \in WorkRecord /\ "Imported" \in WorkStatus
    BY Zenon DEF WorkTypeOK, WorkStatus, PendingStatuses
  <2> QED BY Zenon, <2>1, StatusUpdate
<1> HIDE DEF imported, due
<1>5. /\ DOMAIN works' = DOMAIN works /\ works' \in [DOMAIN works -> WorkRecord]
      /\ \A v \in DOMAIN works : works'[v].round = works[v].round
      /\ \A v \in DOMAIN works \ consumed : works'[v] = works[v]
      /\ \A v \in DOMAIN works \cap consumed : works'[v].status = "Imported"
  BY Zenon, <1>3, <1>4 DEF WorkTypeOK
<1>6. \A v \in DOMAIN works : RoundOf(v)' = RoundOf(v)
  BY Zenon, <1>5 DEF RoundOf
<1>7. \A v \in consumed : v \in DOMAIN works /\ works[v].status = "Accepted"
                             /\ RoundOf(v) \in DOMAIN candidates
  BY Zenon, <1>2, <1>3 DEF Executable
<1>8. UNCHANGED <<assignments, assignmentEpochs, votingRounds, roundResults, openVoteRounds, workers>>
  BY Zenon, <1>3 DEF workersVars, assignmentVars, votingVars, stakeVars
<1>9. RoundStateCoherent'
  <2>1. ASSUME NEW v \in DOMAIN works'
        PROVE  LET key == RoundOf(v)'
               IN  /\ key \in DOMAIN assignments' <=>
                          works'[v].status \in {"AwaitingCandidate", "Voting"}
                   /\ works'[v].status \in {"InsufficientWorkers", "AwaitingCandidate"} =>
                         key \notin DOMAIN candidates' \cup DOMAIN votingRounds'
                                       \cup DOMAIN roundResults'
                   /\ works'[v].status = "Voting" =>
                         /\ key \in DOMAIN candidates'
                         /\ key \in DOMAIN votingRounds' <=> key \notin DOMAIN roundResults'
                   /\ works'[v].status \in {"Accepted", "Imported"} => key \in DOMAIN candidates'
    <3>1. v \in DOMAIN works /\ RoundOf(v)' = RoundOf(v) /\ candidates' = candidates
      BY Zenon, <1>3, <1>5, <1>6
    <3>2. CASE v \in consumed
      <4>1. /\ works'[v].status = "Imported" /\ works[v].status = "Accepted"
            /\ RoundOf(v) \in DOMAIN candidates
        BY Zenon, <1>5, <1>7, <3>1, <3>2
      <4>2. RoundOf(v) \notin DOMAIN assignments
        BY Zenon, <3>1, <4>1 DEF RoundStateCoherent
      <4> QED BY Zenon, <1>8, <3>1, <4>1, <4>2
    <3>3. CASE v \notin consumed
      <4>1. works'[v] = works[v]
        BY Zenon, <1>5, <3>1, <3>3
      <4> QED BY Zenon, <1>8, <3>1, <4>1 DEF RoundStateCoherent
    <3> QED BY Zenon, <3>2, <3>3
  <2>2. /\ \A k \in DOMAIN assignments' : k[1] \in DOMAIN works' /\ k = RoundOf(k[1])'
        /\ DOMAIN assignmentEpochs' = DOMAIN assignments'
        /\ DOMAIN votingRounds' \subseteq DOMAIN assignments'
    BY Zenon, <1>5, <1>6, <1>8 DEF RoundStateCoherent
  <2> QED BY Zenon, <2>1, <2>2 DEF RoundStateCoherent
<1>10. RoundsReached'
  <2>1. NextWorkId' = NextWorkId
    BY Zenon, <1>5 DEF NextWorkId
  <2> QED BY Zenon, <1>3, <1>5, <1>8, <2>1 DEF RoundsReached
<1>11. PendingWorksExact'
  <2>1. \A v \in DOMAIN works :
           works'[v].status \in PendingStatuses <=> works[v].status \in PendingStatuses
    BY Zenon, <1>5, <1>7 DEF PendingStatuses
  <2>2. pendingWorks' = pendingWorks
    BY Zenon, <1>3
  <2> QED BY Zenon, <1>5, <2>1, <2>2, PendingKept
<1>12. /\ executionQueue' \in Seq(ExecutionItem)
       /\ DOMAIN executionQueue' = 1..(Len(executionQueue) - n)
       /\ \A i \in DOMAIN executionQueue' :
             executionQueue'[i] = executionQueue[n + i] /\ n + i \in DOMAIN executionQueue
  BY Zenon, <1>1, <1>3, SuffixProperties
<1>13. ExecutionQueueSound'
  <2>1. \A i, j \in DOMAIN executionQueue : executionQueue[i].workId = executionQueue[j].workId => i = j
    BY Zenon DEF ExecutionQueueSound
  <2>2. ASSUME NEW i \in DOMAIN executionQueue'
        PROVE  /\ executionQueue'[i].workId \in Queued(executionQueue)
               /\ executionQueue'[i].workId \notin consumed
    <3>1. executionQueue'[i].workId \in Queued(executionQueue)
      BY Zenon, <1>12 DEF Queued
    <3>2. ASSUME NEW k \in 1..n PROVE executionQueue[k].workId # executionQueue[n + i].workId
      <4>1. k # n + i /\ k \in DOMAIN executionQueue /\ n + i \in DOMAIN executionQueue
        BY <1>1, <1>12
      <4> QED BY Zenon, <2>1, <4>1
    <3>3. executionQueue[n + i].workId \notin due
      BY Zenon, <3>2 DEF due
    <3> QED BY Zenon, <1>3, <1>12, <3>1, <3>3
  <2>3. Queued(executionQueue') \subseteq Queued(executionQueue)
        /\ Queued(executionQueue') \cap consumed = {}
    BY Zenon, <2>2 DEF Queued
  <2>4. Queued(quarantinedExecutionQueue') = Queued(quarantinedExecutionQueue)
        /\ Queued(quarantinedExecutionQueue) \cap consumed = {}
    BY Zenon, <1>2, <1>3 DEF ExecutionQueueSound
  <2>5. ASSUME NEW v, Executable(v), v \notin consumed PROVE Executable(v)'
    BY Zenon, <1>3, <1>5, <1>6, <2>5 DEF Executable
  <2>6. \A i, j \in DOMAIN executionQueue' :
           executionQueue'[i].workId = executionQueue'[j].workId => i = j
    <3>1. ASSUME NEW i \in DOMAIN executionQueue', NEW j \in DOMAIN executionQueue',
                 executionQueue'[i].workId = executionQueue'[j].workId
          PROVE  i = j
      <4>1. n + i = n + j
        BY ZenonT(40), <1>12, <2>1, <3>1
      <4> QED BY <1>1, <1>12, <4>1
    <3> QED BY Zenon, <3>1
  <2>7. \A v \in Queued(executionQueue') \cup Queued(quarantinedExecutionQueue') : Executable(v)'
    BY Zenon, <2>3, <2>4, <2>5 DEF ExecutionQueueSound
  <2>8. Queued(executionQueue') \cap Queued(quarantinedExecutionQueue') = {}
    BY Zenon, <2>3, <2>4 DEF ExecutionQueueSound
  <2>9. \A i, j \in DOMAIN quarantinedExecutionQueue' :
           quarantinedExecutionQueue'[i].workId = quarantinedExecutionQueue'[j].workId => i = j
    BY Zenon, <1>3 DEF ExecutionQueueSound
  <2> QED BY Zenon, <2>6, <2>7, <2>8, <2>9 DEF ExecutionQueueSound, Queued
<1>14. StakeTypeOK' /\ VotingTypeOK' /\ Registered' = Registered
  BY Zenon, <1>3, StakeFrame, VotingFrame DEF workersVars, stakeVars, Registered
<1>15. AssignmentTypeOK'
  BY Zenon, <1>3, <1>14, AssignmentFrame DEF workersVars
<1>16. WorkTypeOK'
  BY Zenon, <1>3, <1>5 DEF WorkTypeOK, IsMap
<1>17. QueueTypeOK'
  BY Zenon, <1>3, <1>12 DEF QueueTypeOK
<1>18. BlockTypeOK' /\ NeverHalted'
  BY Zenon, <1>3, <1>5, NextBlockType
<1>19. OpenVoteRoundsExact'
  BY Zenon, <1>8, OpenFrame
<1> QED
  BY Zenon, <1>9, <1>10, <1>11, <1>13, <1>14, <1>15, <1>16, <1>17, <1>18, <1>19
-----------------------------------------------------------------------------
(* The next step *)

(* Every iteration of a hook and every accepted call keeps the storage of the *)
(* two pallets in agreement.                                                  *)
LEMMA StorageStep ==
    ASSUME StorageInv, [Next]_vars, WorkersCountable,
           \A n \in Nat : Cardinality(0..n) = n + 1
    PROVE  StorageInv'
<1>1. CASE UNCHANGED vars
  BY Zenon, <1>1, StutterStep
<1>2. CASE WorkersOnInitialize
  <2>1. CASE FinalizeDueVote /\ UNCHANGED <<phase, worksTodo>>
    <3>1. FinalizeDueVote /\ UNCHANGED <<phase, worksTodo, now, minijamVars>>
      BY Zenon, <1>2, <2>1 DEF WorkersOnInitialize
    <3> QED BY Zenon, <3>1, FinalizeDueVoteStep
  <2>2. CASE /\ OnInitializeEpoch /\ phase' = "minijam" /\ worksTodo' = pendingWorks
             /\ UNCHANGED votesTodo
    <3>1. UNCHANGED <<now, votesTodo, minijamVars>>
      BY Zenon, <1>2, <2>2 DEF WorkersOnInitialize
    <3> QED BY Zenon, <2>2, <3>1, EpochStep
  <2> QED BY Zenon, <1>2, <2>1, <2>2 DEF WorkersOnInitialize
<1>3. CASE MiniJamOnInitialize
  <2>1. PICK w \in DOMAIN works :
           \/ RetryAssignment(w) \/ MissedCandidate(w) \/ RejectedCandidate(w)
           \/ AcceptedCandidate(w) \/ SkipWork(w)
    BY Zenon, <1>3 DEF MiniJamOnInitialize
  <2> QED
    BY Zenon, <2>1, RetryAssignmentStep, MissedCandidateStep, RejectedCandidateStep,
       AcceptedCandidateStep, SkipWorkStep
<1>4. CASE MiniJamOnFinalize
  <2>1. PICK n \in 0..Len(executionQueue) :
           (\E consumed \in SUBSET WorkIds : ExecuteBlockStf(n, consumed)) \/ YieldBlockStf(n)
    BY Zenon, <1>4 DEF MiniJamOnFinalize
  <2>2. CASE YieldBlockStf(n)
    BY Zenon, <2>2, YieldBlockStfStep
  <2>3. ASSUME NEW consumed \in SUBSET WorkIds, ExecuteBlockStf(n, consumed) PROVE StorageInv'
    BY Zenon, <2>3, ExecuteBlockStfStep
  <2> QED BY Zenon, <2>1, <2>2, <2>3
<1>5. CASE WorkersCall
  <2>1. UNCHANGED <<blockVars, minijamVars>>
    BY Zenon, <1>5 DEF WorkersCall
  <2>2. ASSUME NEW a \in Accounts, NEW stake \in StakeAmounts, Register(a, stake)
        PROVE  StorageInv'
    BY Zenon, <2>1, <2>2, RegisterStep
  <2>3. ASSUME NEW w \in Registered, NEW stake \in StakeAmounts \cup {NoStake},
               ScheduleUpdate(w, stake)
        PROVE  StorageInv'
    BY Zenon, <2>1, <2>3, ScheduleUpdateStep
  <2>4. ASSUME NEW key \in DOMAIN votingRounds, NEW w \in Registered,
               NEW verdict \in {"Support", "Oppose"}, SubmitVote(key, w, verdict)
        PROVE  StorageInv'
    BY Zenon, <2>1, <2>4, SubmitVoteStep
  <2>5. ASSUME NEW key \in DOMAIN assignments, NEW w \in Registered, SubmitEquivocation(key, w)
        PROVE  StorageInv'
    BY Zenon, <2>1, <2>5, SubmitEquivocationStep
  <2> QED BY Zenon, <1>5, <2>2, <2>3, <2>4, <2>5 DEF WorkersCall
<1>6. CASE MiniJamCall
  <2>1. ASSUME NEW a \in Accounts, NEW package \in Packages, SubmitWork(a, package)
        PROVE  StorageInv'
    BY Zenon, <2>1, SubmitWorkStep
  <2>2. ASSUME NEW a \in Accounts, NEW w \in DOMAIN works, SubmitCandidate(a, w)
        PROVE  StorageInv'
    BY Zenon, <2>2, SubmitCandidateStep
  <2>3. ASSUME \/ \E paused \in BOOLEAN : PauseExecution(paused)
               \/ QuarantinePending
               \/ \E a \in Relayers : SetIngressRelayer(a)
        PROVE  StorageInv'
    BY Zenon, <2>3, RootCallStep
  <2> QED BY Zenon, <1>6, <2>1, <2>2, <2>3 DEF MiniJamCall
<1> QED BY Zenon, <1>1, <1>2, <1>3, <1>4, <1>5, <1>6 DEF Next, Hooks
=============================================================================
