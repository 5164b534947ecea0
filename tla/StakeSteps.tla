----------------------------- MODULE StakeSteps -----------------------------
(* What a step of the two pallets may do to duties, stake and the execution   *)
(* queue, and what follows from it for workers. The facts about cardinalities *)
(* are assumptions here and are proved in MiniJamProofs.                      *)
EXTENDS WorkSteps, StorageSteps

-----------------------------------------------------------------------------
(* Duties *)

(* Assignments may be cleared; no counter changes *)
ClearEffect ==
    /\ DOMAIN assignments' \subseteq DOMAIN assignments
    /\ \A key \in DOMAIN assignments' : KeepsAssignment(key)
    /\ UNCHANGED <<assignedWorkCount, dutyCounts, currentEpoch>>

(* The round key is given to the workers W; others may be cleared *)
AssignEffect(key, W) ==
    /\ DOMAIN assignments' \subseteq DOMAIN assignments \cup {key}
    /\ \A k \in DOMAIN assignments' \ {key} : KeepsAssignment(k)
    /\ assignments'[key] = W
    /\ assignmentEpochs'[key] = currentEpoch
    /\ W \subseteq AssignmentCandidates(key[2])
    /\ Cardinality(W) = WorkersPerWork
    /\ assignedWorkCount[key[2]] < MaxWorksPerRound
    /\ assignedWorkCount' = [assignedWorkCount EXCEPT ![key[2]] = @ + 1]
    /\ dutyCounts' = [dutyCounts EXCEPT ![key[2]] =
                          [w \in WorkerIds |-> IF w \in W THEN @[w] + 1 ELSE @[w]]]
    /\ UNCHANGED currentEpoch

(* An epoch begins and all counters with it *)
NewEpochEffect ==
    /\ currentEpoch' = currentEpoch + 1
    /\ assignedWorkCount' = [r \in Rounds |-> 0]
    /\ dutyCounts' = [r \in Rounds |-> [w \in WorkerIds |-> 0]]
    /\ UNCHANGED <<assignments, assignmentEpochs>>

DutyEffect ==
    \/ ClearEffect
    \/ \E key \in RoundKeys, W \in SUBSET WorkerIds : AssignEffect(key, W)
    \/ NewEpochEffect

(* A step that leaves assignments alone clears none. *)
LEMMA QuietDuties ==
    ASSUME UNCHANGED <<assignmentVars, currentEpoch>>
    PROVE  ClearEffect
  BY Zenon DEF assignmentVars, ClearEffect, KeepsAssignment

(* prepare_round assigns the round or leaves what was cleared. *)
LEMMA PrepareDuties ==
    ASSUME StorageInv, NEW w, NEW rec, NEW as0, NEW epochs0, PrepareRound(w, rec, as0, epochs0),
           <<w, rec.round>> \in RoundKeys, UNCHANGED currentEpoch,
           DOMAIN as0 \subseteq DOMAIN assignments, DOMAIN epochs0 = DOMAIN as0,
           \A key \in DOMAIN as0 : as0[key] = assignments[key] /\ epochs0[key] = assignmentEpochs[key]
    PROVE  DutyEffect
<1>1. PICK key : key = <<w, rec.round>> /\ key \in RoundKeys
  BY Zenon
<1>2. CASE assignments' = as0 /\ assignmentEpochs' = epochs0 /\ UNCHANGED <<assignedWorkCount, dutyCounts>>
  BY Zenon, <1>2 DEF ClearEffect, KeepsAssignment, DutyEffect
<1>3. ASSUME NEW W \in AssignWorkResults(key, as0), key \notin DOMAIN as0, AssignWork(key, W, as0, epochs0)
      PROVE  DutyEffect
  <2>1. CanAssign(key[2]) /\ W \in Selections(key[2])
    BY Zenon, <1>3 DEF AssignWorkResults
  <2>2. /\ W \subseteq AssignmentCandidates(key[2]) /\ Cardinality(W) = WorkersPerWork
        /\ assignedWorkCount[key[2]] < MaxWorksPerRound
    BY Zenon, <2>1 DEF CanAssign, Selections
  <2>3. W \in SUBSET WorkerIds
    BY Zenon, <2>2 DEF AssignmentCandidates, StorageInv, TypeOK, StakeTypeOK
  <2>4. /\ assignments' = Insert(as0, key, W)
        /\ assignmentEpochs' = Insert(epochs0, key, currentEpoch)
        /\ assignedWorkCount' = [assignedWorkCount EXCEPT ![key[2]] = @ + 1]
        /\ dutyCounts' = [dutyCounts EXCEPT ![key[2]] =
                              [v \in WorkerIds |-> IF v \in W THEN @[v] + 1 ELSE @[v]]]
    BY Zenon, <1>3 DEF AssignWork
  <2>5. /\ DOMAIN assignments' \subseteq DOMAIN assignments \cup {key}
        /\ \A k \in DOMAIN assignments' \ {key} : KeepsAssignment(k)
        /\ assignments'[key] = W
        /\ assignmentEpochs'[key] = currentEpoch
    BY Zenon, <2>4 DEF Insert, KeepsAssignment
  <2>6. AssignEffect(key, W)
    BY Zenon, <2>2, <2>4, <2>5 DEF AssignEffect
  <2> QED BY Zenon, <1>1, <2>3, <2>6 DEF DutyEffect
<1>4. ASSUME NEW W, key \in DOMAIN as0, AssignWork(key, W, as0, epochs0)
      PROVE  assignments' = as0 /\ assignmentEpochs' = epochs0 /\ UNCHANGED <<assignedWorkCount, dutyCounts>>
  BY Zenon, <1>4 DEF AssignWork
<1>5. \/ \E W \in AssignWorkResults(key, as0) : AssignWork(key, W, as0, epochs0)
      \/ assignments' = as0 /\ assignmentEpochs' = epochs0 /\ UNCHANGED <<assignedWorkCount, dutyCounts>>
  BY Zenon, <1>1 DEF PrepareRound
<1> QED BY Zenon, <1>2, <1>3, <1>4, <1>5

(* What clear_assignment leaves is what was there. *)
LEMMA ClearedKept ==
    ASSUME StorageInv, NEW key
    PROVE  /\ DOMAIN ClearedAssignments(key) \subseteq DOMAIN assignments
           /\ DOMAIN ClearedEpochs(key) = DOMAIN ClearedAssignments(key)
           /\ \A k \in DOMAIN ClearedAssignments(key) :
                 /\ ClearedAssignments(key)[k] = assignments[k]
                 /\ ClearedEpochs(key)[k] = assignmentEpochs[k]
<1>1. DOMAIN assignmentEpochs = DOMAIN assignments
  BY Zenon DEF StorageInv, RoundStateCoherent
<1> QED BY Zenon, <1>1 DEF ClearedAssignments, ClearedEpochs, RemoveAll

(* The round advance_or_fail moves a work to is a round of the pallet. *)
LEMMA NextRoundKey ==
    ASSUME StorageInv, NEW w \in DOMAIN works, ~LastRound(w)
    PROVE  /\ [works[w] EXCEPT !.round = @ + 1, !.status = "InsufficientWorkers"].round = works[w].round + 1
           /\ <<w, works[w].round + 1>> \in RoundKeys
<1>1. works[w] \in WorkRecord /\ w \in WorkIds
  BY Zenon DEF StorageInv, TypeOK, WorkTypeOK
<1>2. works[w].round \in Rounds /\ [works[w] EXCEPT !.round = @ + 1, !.status = "InsufficientWorkers"].round = works[w].round + 1
  BY Zenon, <1>1 DEF WorkRecord
<1>3. works[w].round + 1 \in Rounds
  <2>1. ~(works[w].round + 1 >= MaxCandidateRounds)
    BY Zenon DEF LastRound
  <2> QED BY ONLY <1>2, <2>1, MiniJamAssumption
<1> QED BY Zenon, <1>1, <1>2, <1>3 DEF RoundKeys

(* Every step has one of these effects on duties. *)
LEMMA NextDutyEffect == StorageInv /\ [Next]_vars => DutyEffect
<1> SUFFICES ASSUME StorageInv, [Next]_vars PROVE DutyEffect
  BY Zenon
<1>0. UNCHANGED <<assignmentVars, currentEpoch>> => DutyEffect
  BY Zenon, QuietDuties DEF DutyEffect
<1>1. CASE UNCHANGED vars
  BY Zenon, <1>0, <1>1 DEF vars, workersVars, epochVars
<1>2. CASE WorkersOnInitialize
  <2>1. CASE FinalizeDueVote
    BY Zenon, <1>0, <2>1 DEF FinalizeDueVote, epochVars
  <2>2. CASE OnInitializeEpoch
    BY Zenon, <1>0, <2>2
    DEF OnInitializeEpoch, EpochTransition, epochVars, assignmentVars, NewEpochEffect, DutyEffect
  <2> QED BY Zenon, <1>2, <2>1, <2>2 DEF WorkersOnInitialize
<1>3. CASE WorkersCall
  BY Zenon, <1>0, <1>3
  DEF WorkersCall, Register, ScheduleUpdate, SubmitVote, SubmitEquivocation, epochVars
<1>4. CASE MiniJamOnInitialize
  <2>1. PICK w \in DOMAIN works :
           \/ RetryAssignment(w) \/ MissedCandidate(w) \/ RejectedCandidate(w)
           \/ AcceptedCandidate(w) \/ SkipWork(w)
    BY Zenon, <1>4 DEF MiniJamOnInitialize
  <2>2. CASE SkipWork(w)
    BY Zenon, <1>0, <2>2 DEF SkipWork, workersVars, epochVars
  <2>3. CASE RetryAssignment(w)
    <3>1. PrepareRound(w, works[w], assignments, assignmentEpochs) /\ UNCHANGED currentEpoch
      BY Zenon, <2>3 DEF RetryAssignment, epochVars
    <3>2. <<w, works[w].round>> \in RoundKeys
      BY Zenon DEF StorageInv, TypeOK, WorkTypeOK, WorkRecord, RoundKeys
    <3>3. DOMAIN assignmentEpochs = DOMAIN assignments
      BY Zenon DEF StorageInv, RoundStateCoherent
    <3> QED BY Zenon, <3>1, <3>2, <3>3, PrepareDuties
  <2>4. ASSUME NEW rejected \in BOOLEAN, AdvanceOrFail(w, rejected) PROVE DutyEffect
    <3>1. PICK key : key = RoundOf(w)
      BY Zenon
    <3>2. UNCHANGED currentEpoch
      BY Zenon, <2>4 DEF AdvanceOrFail, epochVars
    <3>3. CASE LastRound(w)
      <4>1. /\ assignments' = ClearedAssignments(key) /\ assignmentEpochs' = ClearedEpochs(key)
            /\ UNCHANGED <<assignedWorkCount, dutyCounts>>
        BY Zenon, <2>4, <3>1, <3>3 DEF AdvanceOrFail
      <4> QED BY Zenon, <3>2, <4>1, ClearedKept DEF ClearEffect, KeepsAssignment, DutyEffect
    <3>4. CASE ~LastRound(w)
      <4>1. PICK rec : rec = [works[w] EXCEPT !.round = @ + 1, !.status = "InsufficientWorkers"]
        BY Zenon
      <4>2. PrepareRound(w, rec, ClearedAssignments(key), ClearedEpochs(key))
        BY Zenon, <2>4, <3>1, <3>4, <4>1 DEF AdvanceOrFail
      <4>3. <<w, rec.round>> \in RoundKeys
        BY Zenon, <3>4, <4>1, NextRoundKey
      <4> QED BY <3>2, <4>2, <4>3, ClearedKept, PrepareDuties
    <3> QED BY Zenon, <3>3, <3>4
  <2>5. CASE MissedCandidate(w) \/ RejectedCandidate(w)
    BY Zenon, <2>4, <2>5 DEF MissedCandidate, RejectedCandidate
  <2>6. CASE AcceptedCandidate(w)
    <3>1. PICK key : key = RoundOf(w)
      BY Zenon
    <3>2. /\ assignments' = ClearedAssignments(key) /\ assignmentEpochs' = ClearedEpochs(key)
          /\ UNCHANGED <<assignedWorkCount, dutyCounts, currentEpoch>>
      BY Zenon, <2>6, <3>1 DEF AcceptedCandidate, AcceptCandidate, epochVars
    <3> QED BY Zenon, <3>2, ClearedKept DEF ClearEffect, KeepsAssignment, DutyEffect
  <2> QED BY Zenon, <2>1, <2>2, <2>3, <2>5, <2>6
<1>5. CASE MiniJamOnFinalize
  BY Zenon, <1>0, <1>5 DEF MiniJamOnFinalize, ExecuteBlockStf, YieldBlockStf, workersVars, epochVars
<1>6. CASE MiniJamCall
  <2>1. ASSUME NEW a \in Accounts, NEW p \in Packages, SubmitWork(a, p) PROVE DutyEffect
    <3>1. PICK rec : rec = [owner |-> a, package |-> p, round |-> 0,
                            status |-> "InsufficientWorkers", candidateDeadline |-> 0]
      BY Zenon
    <3>2. /\ PrepareRound(NextWorkId, rec, assignments, assignmentEpochs)
          /\ NextWorkId \in WorkIds /\ UNCHANGED currentEpoch
      BY Zenon, <2>1, <3>1 DEF SubmitWork, epochVars
    <3>3. <<NextWorkId, rec.round>> \in RoundKeys
      BY <3>1, <3>2, MiniJamAssumption DEF RoundKeys
    <3>4. DOMAIN assignmentEpochs = DOMAIN assignments
      BY Zenon DEF StorageInv, RoundStateCoherent
    <3> QED BY Zenon, <3>2, <3>3, <3>4, PrepareDuties
  <2>2. ASSUME NEW a \in Accounts, NEW w \in DOMAIN works, SubmitCandidate(a, w) PROVE DutyEffect
    BY Zenon, <1>0, <2>2 DEF SubmitCandidate, epochVars
  <2>3. CASE \/ \E paused \in BOOLEAN : PauseExecution(paused)
             \/ QuarantinePending
             \/ \E a \in Relayers : SetIngressRelayer(a)
    BY Zenon, <1>0, <2>3 DEF PauseExecution, QuarantinePending, SetIngressRelayer, workersVars, epochVars
  <2> QED BY Zenon, <1>6, <2>1, <2>2, <2>3 DEF MiniJamCall
<1> QED BY Zenon, <1>1, <1>2, <1>3, <1>4, <1>5, <1>6 DEF Next, Hooks

(* The duties of an epoch and round, of everybody or of one worker, never     *)
(* outnumber the counters, and the counters never pass their limits.          *)
LEMMA DutiesBoundedStep ==
    ASSUME StorageInv, StorageInv', Counts(RoundKeys), DutiesBounded, DutyEffect
    PROVE  DutiesBounded'
<1> DEFINE Has(r, w) == {key \in LiveDuties(r) : w \in assignments[key]}
<1>0. /\ currentEpoch \in Nat /\ currentEpoch' \in Nat
      /\ DOMAIN assignments \subseteq RoundKeys /\ DOMAIN assignments' \subseteq RoundKeys
      /\ \A key \in DOMAIN assignments : assignmentEpochs[key] \in Nat
      /\ \A key \in DOMAIN assignments' : assignments'[key] \subseteq Registered'
      /\ assignedWorkCount \in [Rounds -> Nat] /\ dutyCounts \in [Rounds -> [WorkerIds -> Nat]]
      /\ MaxWorksPerRound \in Nat /\ MaxDutiesPerWorkerPerRound \in Nat
  BY Zenon, WorkersAssumption
  DEF StorageInv, TypeOK, StakeTypeOK, AssignmentTypeOK, IsMap, RoundStateCoherent
<1>1. /\ \A key \in DOMAIN assignments :
            Cardinality(assignments[key]) = WorkersPerWork /\ assignmentEpochs[key] <= currentEpoch
      /\ \A r \in Rounds :
            /\ Cardinality(LiveDuties(r)) <= assignedWorkCount[r]
            /\ assignedWorkCount[r] <= MaxWorksPerRound
            /\ \A w \in WorkerIds : /\ Cardinality(Has(r, w)) <= dutyCounts[r][w]
                                    /\ dutyCounts[r][w] <= MaxDutiesPerWorkerPerRound
  BY Zenon DEF DutiesBounded
<1>2. ASSUME \A key \in DOMAIN assignments' :
                /\ Cardinality(assignments'[key]) = WorkersPerWork
                /\ assignmentEpochs'[key] <= currentEpoch',
             \A r \in Rounds :
                /\ Cardinality(LiveDuties(r)') <= assignedWorkCount'[r]
                /\ assignedWorkCount'[r] <= MaxWorksPerRound
                /\ \A w \in WorkerIds : /\ Cardinality(Has(r, w)') <= dutyCounts'[r][w]
                                        /\ dutyCounts'[r][w] <= MaxDutiesPerWorkerPerRound
      PROVE  DutiesBounded'
  BY Zenon, <1>0, <1>2 DEF DutiesBounded
<1>3. \A r : LiveDuties(r) \in SUBSET RoundKeys /\ \A w : Has(r, w) \in SUBSET RoundKeys
  BY Zenon, <1>0 DEF LiveDuties
<1>4. CASE ClearEffect
  <2>1. \A key \in DOMAIN assignments' :
           /\ key \in DOMAIN assignments /\ assignments'[key] = assignments[key]
           /\ assignmentEpochs'[key] = assignmentEpochs[key]
    BY Zenon, <1>4 DEF ClearEffect, KeepsAssignment
  <2>2. UNCHANGED <<assignedWorkCount, dutyCounts, currentEpoch>>
    BY Zenon, <1>4 DEF ClearEffect
  <2>3. ASSUME NEW r \in Rounds
        PROVE  LiveDuties(r)' \subseteq LiveDuties(r) /\ \A w : Has(r, w)' \subseteq Has(r, w)
    BY Zenon, <2>1, <2>2 DEF LiveDuties
  <2> HIDE DEF Has
  <2>4. ASSUME NEW r \in Rounds
        PROVE  /\ Cardinality(LiveDuties(r)') <= assignedWorkCount'[r]
               /\ assignedWorkCount'[r] <= MaxWorksPerRound
    <3>1. /\ Cardinality(LiveDuties(r)') <= Cardinality(LiveDuties(r))
          /\ Cardinality(LiveDuties(r)) \in Nat /\ Cardinality(LiveDuties(r)') \in Nat
      BY Zenon, <1>3, <2>3 DEF Counts
    <3> QED BY <1>0, <1>1, <2>2, <3>1
  <2>5. ASSUME NEW r \in Rounds, NEW w \in WorkerIds
        PROVE  /\ Cardinality(Has(r, w)') <= dutyCounts'[r][w]
               /\ dutyCounts'[r][w] <= MaxDutiesPerWorkerPerRound
    <3>1. /\ Cardinality(Has(r, w)') <= Cardinality(Has(r, w))
          /\ Cardinality(Has(r, w)) \in Nat /\ Cardinality(Has(r, w)') \in Nat
      BY Zenon, <1>3, <2>3 DEF Counts
    <3> QED BY <1>0, <1>1, <2>2, <3>1
  <2>6. \A key \in DOMAIN assignments' :
           /\ Cardinality(assignments'[key]) = WorkersPerWork
           /\ assignmentEpochs'[key] <= currentEpoch'
    BY Zenon, <1>1, <2>1, <2>2
  <2> QED BY Zenon, <1>2, <2>4, <2>5, <2>6
<1>5. ASSUME NEW key \in RoundKeys, NEW W \in SUBSET WorkerIds, AssignEffect(key, W)
      PROVE  DutiesBounded'
  <2>1. /\ \A k \in DOMAIN assignments' \ {key} :
              /\ k \in DOMAIN assignments /\ assignments'[k] = assignments[k]
              /\ assignmentEpochs'[k] = assignmentEpochs[k]
        /\ assignments'[key] = W /\ assignmentEpochs'[key] = currentEpoch
        /\ UNCHANGED currentEpoch
    BY Zenon, <1>5 DEF AssignEffect, KeepsAssignment
  <2>2. key[2] \in Rounds
    BY Zenon DEF RoundKeys
  <2>3. /\ assignedWorkCount'[key[2]] = assignedWorkCount[key[2]] + 1
        /\ assignedWorkCount[key[2]] < MaxWorksPerRound
        /\ \A r \in Rounds \ {key[2]} : /\ assignedWorkCount'[r] = assignedWorkCount[r]
                                        /\ dutyCounts'[r] = dutyCounts[r]
        /\ \A w \in WorkerIds :
              dutyCounts'[key[2]][w] = IF w \in W THEN dutyCounts[key[2]][w] + 1
                                                  ELSE dutyCounts[key[2]][w]
        /\ \A w \in W : dutyCounts[key[2]][w] < MaxDutiesPerWorkerPerRound
    BY Zenon, <1>0, <1>5, <2>2 DEF AssignEffect, AssignmentCandidates, Duty
  <2>4. ASSUME NEW r \in Rounds
        PROVE  /\ LiveDuties(r)' \subseteq LiveDuties(r) \cup {key}
               /\ r # key[2] => LiveDuties(r)' \subseteq LiveDuties(r)
               /\ \A w : /\ Has(r, w)' \subseteq Has(r, w) \cup {key}
                         /\ r # key[2] \/ w \notin W => Has(r, w)' \subseteq Has(r, w)
    BY Zenon, <2>1 DEF LiveDuties
  <2> HIDE DEF Has
  <2>5. ASSUME NEW S \in SUBSET RoundKeys, NEW T, T \subseteq S \cup {key}
        PROVE  /\ Cardinality(S) \in Nat /\ Cardinality(T) \in Nat
               /\ Cardinality(T) <= Cardinality(S) + 1
               /\ T \subseteq S => Cardinality(T) <= Cardinality(S)
    <3>1. S \cup {key} \in SUBSET RoundKeys /\ T \in SUBSET (S \cup {key})
      BY Zenon, <2>5
    <3>2. /\ Cardinality(T) <= Cardinality(S \cup {key})
          /\ Cardinality(S) \in Nat /\ Cardinality(T) \in Nat
          /\ T \subseteq S => Cardinality(T) <= Cardinality(S)
      BY Zenon, <3>1 DEF Counts
    <3>3. CASE key \in S
      <4>1. S \cup {key} = S
        BY Zenon, <3>3
      <4> QED BY <3>2, <4>1
    <3>4. CASE key \notin S
      <4>1. Cardinality(S \cup {key}) = Cardinality(S) + 1
        BY Zenon, <3>4, CountAdd
      <4> QED BY Zenon, <3>2, <4>1
    <3> QED BY Zenon, <3>3, <3>4
  <2>6. ASSUME NEW r \in Rounds
        PROVE  /\ Cardinality(LiveDuties(r)') <= assignedWorkCount'[r]
               /\ assignedWorkCount'[r] <= MaxWorksPerRound
    <3>1. /\ Cardinality(LiveDuties(r)) \in Nat /\ Cardinality(LiveDuties(r)') \in Nat
          /\ Cardinality(LiveDuties(r)') <= Cardinality(LiveDuties(r)) + 1
          /\ r # key[2] => Cardinality(LiveDuties(r)') <= Cardinality(LiveDuties(r))
      BY Zenon, <1>3, <2>4, <2>5
    <3>2. /\ Cardinality(LiveDuties(r)) <= assignedWorkCount[r]
          /\ assignedWorkCount[r] <= MaxWorksPerRound /\ assignedWorkCount[r] \in Nat
      BY Zenon, <1>0, <1>1
    <3> QED BY <1>0, <2>3, <3>1, <3>2
  <2>7. ASSUME NEW r \in Rounds, NEW w \in WorkerIds
        PROVE  /\ Cardinality(Has(r, w)') <= dutyCounts'[r][w]
               /\ dutyCounts'[r][w] <= MaxDutiesPerWorkerPerRound
    <3>1. /\ Cardinality(Has(r, w)) \in Nat /\ Cardinality(Has(r, w)') \in Nat
          /\ Cardinality(Has(r, w)') <= Cardinality(Has(r, w)) + 1
          /\ r # key[2] \/ w \notin W => Cardinality(Has(r, w)') <= Cardinality(Has(r, w))
      BY Zenon, <1>3, <2>4, <2>5
    <3>2. /\ Cardinality(Has(r, w)) <= dutyCounts[r][w]
          /\ dutyCounts[r][w] <= MaxDutiesPerWorkerPerRound /\ dutyCounts[r][w] \in Nat
      BY Zenon, <1>0, <1>1
    <3> QED BY <1>0, <2>3, <3>1, <3>2
  <2>8. \A k \in DOMAIN assignments' :
           /\ Cardinality(assignments'[k]) = WorkersPerWork
           /\ assignmentEpochs'[k] <= currentEpoch'
    BY <1>0, <1>1, <1>5, <2>1 DEF AssignEffect
  <2> QED BY Zenon, <1>2, <2>6, <2>7, <2>8
<1>6. CASE NewEpochEffect
  <2>1. /\ UNCHANGED <<assignments, assignmentEpochs>>
        /\ currentEpoch' = currentEpoch + 1
        /\ \A r \in Rounds : /\ assignedWorkCount'[r] = 0
                             /\ \A w \in WorkerIds : dutyCounts'[r][w] = 0
    BY Zenon, <1>6 DEF NewEpochEffect
  <2>2. \A k \in DOMAIN assignments :
           assignmentEpochs[k] # currentEpoch + 1 /\ assignmentEpochs[k] <= currentEpoch + 1
    BY <1>0, <1>1
  <2>3. \A r : LiveDuties(r)' = {} /\ \A w : Has(r, w)' = {}
    BY Zenon, <2>1, <2>2 DEF LiveDuties
  <2>4. Cardinality({}) = 0
    BY Zenon DEF Counts
  <2>5. \A k \in DOMAIN assignments' :
           /\ Cardinality(assignments'[k]) = WorkersPerWork
           /\ assignmentEpochs'[k] <= currentEpoch'
    BY Zenon, <1>1, <2>1, <2>2
  <2> HIDE DEF Has
  <2>6. ASSUME NEW r \in Rounds
        PROVE  /\ Cardinality(LiveDuties(r)') <= assignedWorkCount'[r]
               /\ assignedWorkCount'[r] <= MaxWorksPerRound
    <3>1. LiveDuties(r)' = {} /\ assignedWorkCount'[r] = 0
      BY Zenon, <2>1, <2>3
    <3> QED BY <1>0, <2>4, <3>1
  <2>7. ASSUME NEW r \in Rounds, NEW w \in WorkerIds
        PROVE  /\ Cardinality(Has(r, w)') <= dutyCounts'[r][w]
               /\ dutyCounts'[r][w] <= MaxDutiesPerWorkerPerRound
    <3>1. Has(r, w)' = {} /\ dutyCounts'[r][w] = 0
      BY Zenon, <2>1, <2>3
    <3> QED BY <1>0, <2>4, <3>1
  <2> QED BY Zenon, <1>2, <2>5, <2>6, <2>7
<1> QED BY ZenonT(40), <1>4, <1>5, <1>6 DEF DutyEffect

(* New work goes to active workers only. *)
LEMMA HonoursSuspensionStep ==
    ASSUME ActiveNotSuspended, DutyEffect
    PROVE  HonoursSuspension
<1> SUFFICES ASSUME NEW k \in DOMAIN assignments' \ DOMAIN assignments
             PROVE  \A w \in assignments'[k] : NotSuspendedBefore(w)
  BY Zenon DEF HonoursSuspension
<1>1. PICK key \in RoundKeys, W \in SUBSET WorkerIds : AssignEffect(key, W)
  BY Zenon DEF DutyEffect, ClearEffect, NewEpochEffect
<1>2. k = key /\ assignments'[k] \subseteq activeWorkers
  BY Zenon, <1>1 DEF AssignEffect, AssignmentCandidates
<1> QED BY Zenon, <1>2 DEF ActiveNotSuspended
-----------------------------------------------------------------------------
(* Stake *)

(* The workers of W lose some of their stake, each no more than it has *)
SlashEffect(W) ==
    /\ DOMAIN workers' = Registered
    /\ \A w \in Registered \ W : workers'[w] = workers[w] /\ stakeHold'[w] = stakeHold[w]
    /\ \A w \in Registered \cap W :
          \E x \in Nat : /\ x <= workers[w].activeStake /\ x <= stakeHold[w]
                         /\ workers'[w].activeStake = workers[w].activeStake - x
                         /\ stakeHold'[w] = stakeHold[w] - x
    /\ UNCHANGED <<pendingUpdates, unbonding, epochVars>>

(* w equivocated and is suspended *)
EquivocationEffect(key, w) ==
    /\ SlashEffect({w})
    /\ workers'[w].suspendedUntil = currentEpoch + EquivocationSuspension
    /\ <<key, w>> \in equivocations' \ equivocations

(* The round key closes and those who missed it are slashed *)
AbsenceEffect(key, W) ==
    /\ SlashEffect(W)
    /\ \A w \in Registered : workers'[w].suspendedUntil = workers[w].suspendedUntil
    /\ key \in DOMAIN votingRounds \ DOMAIN votingRounds'
    /\ \A w \in W : /\ w \in assignments[key] /\ <<key, w>> \notin DOMAIN votes
                    /\ now > votingRounds[key].deadline

StakeEffect ==
    \/ UNCHANGED <<stakeVars, epochVars>>
    \/ \E a \in Accounts, stake \in StakeAmounts : Register(a, stake)
    \/ \E w \in Registered, stake \in StakeAmounts \cup {NoStake} : ScheduleUpdate(w, stake)
    \/ \E key \in RoundKeys, w \in Registered : EquivocationEffect(key, w)
    \/ \E key \in RoundKeys, W \in SUBSET WorkerIds : AbsenceEffect(key, W)
    \/ EpochTransition(currentEpoch + 1)

(* finalize_voting slashes the absentees and nobody else. *)
LEMMA FinalizeSlashes ==
    ASSUME StorageInv, NEW key \in DOMAIN votingRounds, NEW voters, NEW decision,
           FinalizeVoting(key, voters, decision), UNCHANGED <<pendingUpdates, unbonding, epochVars>>
    PROVE  /\ SlashEffect(assignments[key] \ voters)
           /\ \A w \in Registered : workers'[w].suspendedUntil = workers[w].suspendedUntil
<1> DEFINE absent == assignments[key] \ voters
<1>1. /\ stakeHold' = [w \in DOMAIN stakeHold |->
                          IF w \in absent THEN stakeHold[w] - ActualAbsenceSlash(w) ELSE stakeHold[w]]
      /\ workers' = [w \in Registered |->
                        IF w \in absent
                        THEN [workers[w] EXCEPT !.activeStake = @ - ActualAbsenceSlash(w)]
                        ELSE workers[w]]
  BY Zenon DEF FinalizeVoting
<1>2. StakeTypeOK /\ DOMAIN stakeHold = Registered /\ \A w \in Registered : workers[w] \in WorkerRecord
  BY Zenon DEF StorageInv, TypeOK, StakeTypeOK
<1> HIDE DEF absent
<1>3. DOMAIN workers' = Registered
      /\ \A w \in Registered \ absent : workers'[w] = workers[w] /\ stakeHold'[w] = stakeHold[w]
  BY Zenon, <1>1, <1>2
<1>4. ASSUME NEW w \in Registered \cap absent
      PROVE  /\ workers'[w].activeStake = workers[w].activeStake - ActualAbsenceSlash(w)
             /\ workers'[w].suspendedUntil = workers[w].suspendedUntil
             /\ stakeHold'[w] = stakeHold[w] - ActualAbsenceSlash(w)
             /\ ActualAbsenceSlash(w) \in Nat
             /\ ActualAbsenceSlash(w) <= workers[w].activeStake
             /\ ActualAbsenceSlash(w) <= stakeHold[w]
  <2>1. workers'[w] = [workers[w] EXCEPT !.activeStake = @ - ActualAbsenceSlash(w)]
    BY Zenon, <1>1
  <2>2. /\ workers'[w].activeStake = workers[w].activeStake - ActualAbsenceSlash(w)
        /\ workers'[w].suspendedUntil = workers[w].suspendedUntil
    BY Zenon, <1>2, <2>1 DEF WorkerRecord
  <2> QED BY Zenon, <1>1, <1>2, <2>2, ActualSlashBounds
<1>5. SlashEffect(absent)
  BY Zenon, <1>3, <1>4 DEF SlashEffect
<1> QED BY Zenon, <1>3, <1>4, <1>5 DEF absent

(* The vote that completes a round leaves no absentee. *)
LEMMA CompleteRound ==
    ASSUME StorageInv, Counts(WorkerIds), VotingRoundExact, NEW key \in DOMAIN votingRounds,
           NEW w \in Registered, NEW verdict \in {"Support", "Oppose"}, VoteEffect(key, w, verdict),
           AfterVote(key, verdict).responses >= Cardinality(assignments[key])
    PROVE  assignments[key] \ (Voters(key) \cup {w}) = {}
<1>1. PICK new : new = AfterVote(key, verdict)
  BY Zenon
<1>2. RoundExact(key)
  BY Zenon DEF VotingRoundExact
<1>3. new.responses = Cardinality(Voters(key)')
  BY Zenon, <1>1, <1>2, VoteExact
<1>4. Voters(key)' = Voters(key) \cup {w} /\ Voters(key)' \subseteq assignments[key]
  BY VoteRecorded
<1>5. assignments[key] \in SUBSET WorkerIds
  BY Zenon, OpenRoundIsVoting DEF StorageInv, TypeOK, StakeTypeOK
<1>6. Cardinality(Voters(key) \cup {w}) >= Cardinality(assignments[key])
  BY Zenon, <1>1, <1>3, <1>4
<1>7. Voters(key) \cup {w} = assignments[key]
  BY <1>4, <1>5, <1>6, CountAll
<1> QED BY Zenon, <1>7

(* A vote slashes nobody. *)
LEMMA VoteStake ==
    ASSUME StorageInv, Counts(WorkerIds), VotingRoundExact, NEW key \in DOMAIN votingRounds,
           NEW w \in Registered, NEW verdict \in {"Support", "Oppose"}, VoteEffect(key, w, verdict)
    PROVE  StakeEffect
<1>1. UNCHANGED <<pendingUpdates, unbonding, epochVars>>
  BY Zenon DEF VoteEffect, SubmitVote
<1>2. PICK new : new = AfterVote(key, verdict)
  BY Zenon
<1>3. CASE UNCHANGED <<stakeHold, workers>>
  BY Zenon, <1>1, <1>3 DEF stakeVars, StakeEffect
<1>4. CASE /\ new.responses >= Cardinality(assignments[key])
           /\ FinalizeVoting(key, Voters(key) \cup {w}, new.locked)
  <2>1. assignments[key] \ (Voters(key) \cup {w}) = {}
    BY <1>2, <1>4, CompleteRound
  <2>2. /\ SlashEffect({})
        /\ \A v \in Registered : workers'[v].suspendedUntil = workers[v].suspendedUntil
    BY Zenon, <1>1, <1>4, <2>1, FinalizeSlashes
  <2>3. key \in DOMAIN votingRounds \ DOMAIN votingRounds' /\ key \in RoundKeys
    BY Zenon, <1>4, FinalizeMoves, OpenRoundIsVoting
  <2>4. AbsenceEffect(key, {})
    BY Zenon, <2>2, <2>3 DEF AbsenceEffect
  <2> QED BY Zenon, <2>3, <2>4 DEF StakeEffect
<1>5. \/ /\ new.responses >= Cardinality(assignments[key])
         /\ FinalizeVoting(key, Voters(key) \cup {w}, new.locked)
      \/ UNCHANGED <<stakeHold, workers>>
  BY Zenon, <1>2, VoteOutcome
<1> QED BY Zenon, <1>3, <1>4, <1>5

(* A vote that ends at its deadline slashes those who missed it. *)
LEMMA DueStake ==
    ASSUME StorageInv, NEW key \in DOMAIN votingRounds, DueEffect(key),
           UNCHANGED <<pendingUpdates, unbonding, epochVars>>
    PROVE  StakeEffect
<1>1. PICK W : W = assignments[key] \ Voters(key)
  BY Zenon
<1>2. /\ SlashEffect(W)
      /\ \A w \in Registered : workers'[w].suspendedUntil = workers[w].suspendedUntil
  BY Zenon, <1>1, FinalizeSlashes DEF DueEffect
<1>3. key \in DOMAIN votingRounds \ DOMAIN votingRounds' /\ key \in RoundKeys
  <2>1. FinalizeVoting(key, Voters(key), votingRounds[key].locked)
    BY Zenon DEF DueEffect
  <2>2. DOMAIN votingRounds' = DOMAIN votingRounds \ {key}
    BY Zenon, <2>1, FinalizeMoves
  <2> QED BY Zenon, <2>2, OpenRoundIsVoting
<1>4. W \in SUBSET WorkerIds
  BY Zenon, <1>1, OpenRoundIsVoting DEF StorageInv, TypeOK, StakeTypeOK
<1>5. \A w \in W : /\ w \in assignments[key] /\ <<key, w>> \notin DOMAIN votes
                   /\ now > votingRounds[key].deadline
  BY Zenon, <1>1 DEF DueEffect, Voters
<1>6. AbsenceEffect(key, W)
  BY Zenon, <1>2, <1>3, <1>5 DEF AbsenceEffect
<1> QED BY Zenon, <1>3, <1>4, <1>6 DEF StakeEffect

(* A reported equivocation slashes and suspends its worker alone. *)
LEMMA EquivocationStake ==
    ASSUME StorageInv, NEW key \in DOMAIN assignments, NEW w \in Registered, SubmitEquivocation(key, w)
    PROVE  StakeEffect
<1>1. PICK actual : actual = Min2((EquivocationSlash * workers[w].activeStake) \div 100, stakeHold[w])
  BY Zenon
<1>2. /\ stakeHold' = [stakeHold EXCEPT ![w] = @ - actual]
      /\ workers' = [workers EXCEPT ![w] =
                        [workers[w] EXCEPT !.activeStake = @ - actual,
                                           !.suspendedUntil = currentEpoch + EquivocationSuspension]]
      /\ <<key, w>> \in equivocations' \ equivocations
      /\ UNCHANGED <<pendingUpdates, unbonding, epochVars>>
  BY Zenon, <1>1 DEF SubmitEquivocation
<1>3. /\ workers[w].activeStake \in Nat /\ stakeHold[w] \in Nat /\ DOMAIN stakeHold = Registered
      /\ workers[w] \in WorkerRecord /\ key \in RoundKeys
  BY Zenon DEF StorageInv, TypeOK, StakeTypeOK, WorkerRecord, AssignmentTypeOK, IsMap
<1>4. (EquivocationSlash * workers[w].activeStake) \div 100 \in 0..workers[w].activeStake
  BY Zenon, <1>3, WorkersAssumption, PercentBounds
<1>5. actual \in Nat /\ actual <= workers[w].activeStake /\ actual <= stakeHold[w]
  BY <1>1, <1>3, <1>4 DEF Min2
<1>6. /\ workers'[w] = [workers[w] EXCEPT !.activeStake = @ - actual,
                                          !.suspendedUntil = currentEpoch + EquivocationSuspension]
      /\ stakeHold'[w] = stakeHold[w] - actual
      /\ DOMAIN workers' = Registered
      /\ \A v \in Registered \ {w} : workers'[v] = workers[v] /\ stakeHold'[v] = stakeHold[v]
  BY Zenon, <1>2, <1>3 DEF Registered
<1>7. /\ workers'[w].activeStake = workers[w].activeStake - actual
      /\ workers'[w].suspendedUntil = currentEpoch + EquivocationSuspension
  BY Zenon, <1>3, <1>6 DEF WorkerRecord
<1>8. SlashEffect({w})
  BY <1>2, <1>5, <1>6, <1>7 DEF SlashEffect
<1> QED BY Zenon, <1>2, <1>3, <1>7, <1>8 DEF EquivocationEffect, StakeEffect

(* Every step has one of these effects on stake. *)
LEMMA NextStakeEffect ==
    ASSUME StorageInv, Counts(WorkerIds), VotingRoundExact, [Next]_vars
    PROVE  StakeEffect
<1>0. UNCHANGED <<stakeVars, epochVars>> => StakeEffect
  BY Zenon DEF StakeEffect
<1>1. CASE UNCHANGED vars
  BY Zenon, <1>0, <1>1 DEF vars, workersVars
<1>2. CASE WorkersOnInitialize
  <2>1. UNCHANGED <<works, candidates, now>>
    BY Zenon, <1>2 DEF WorkersOnInitialize, minijamVars, workVars
  <2>2. CASE FinalizeDueVote
    <3>1. UNCHANGED <<assignments, assignmentEpochs, epochVars>>
      BY Zenon, <2>2 DEF FinalizeDueVote, assignmentVars
    <3>2. CASE UNCHANGED stakeVars
      BY Zenon, <1>0, <3>1, <3>2
    <3>3. CASE ~UNCHANGED stakeVars
      <4>1. DueEffect(Head(votesTodo)) /\ UNCHANGED <<pendingUpdates, unbonding>>
        BY Zenon, <2>1, <2>2, <3>1, <3>3 DEF FinalizeDueVote, DueEffect
      <4>2. PICK key : key = Head(votesTodo)
        BY Zenon
      <4>3. key \in DOMAIN votingRounds /\ DueEffect(key)
        BY Zenon, <4>1, <4>2 DEF DueEffect
      <4> QED BY Zenon, <3>1, <4>1, <4>3, DueStake
    <3> QED BY Zenon, <3>2, <3>3
  <2>3. CASE OnInitializeEpoch
    BY Zenon, <1>0, <2>3 DEF OnInitializeEpoch, StakeEffect
  <2> QED BY Zenon, <1>2, <2>2, <2>3 DEF WorkersOnInitialize
<1>3. CASE WorkersCall
  <2>1. UNCHANGED <<works, candidates>>
    BY Zenon, <1>3 DEF WorkersCall, minijamVars, workVars
  <2>2. ASSUME NEW a \in Accounts, NEW stake \in StakeAmounts, Register(a, stake) PROVE StakeEffect
    BY Zenon, <2>2 DEF StakeEffect
  <2>3. ASSUME NEW w \in Registered, NEW stake \in StakeAmounts \cup {NoStake}, ScheduleUpdate(w, stake)
        PROVE  StakeEffect
    BY Zenon, <2>3 DEF StakeEffect
  <2>4. ASSUME NEW key \in DOMAIN votingRounds, NEW w \in Registered,
               NEW verdict \in {"Support", "Oppose"}, SubmitVote(key, w, verdict)
        PROVE  StakeEffect
    <3>1. VoteEffect(key, w, verdict)
      BY Zenon, <2>1, <2>4 DEF VoteEffect
    <3> QED BY Zenon, <3>1, VoteStake
  <2>5. ASSUME NEW key \in DOMAIN assignments, NEW w \in Registered, SubmitEquivocation(key, w)
        PROVE  StakeEffect
    BY Zenon, <2>5, EquivocationStake
  <2> QED BY Zenon, <1>3, <2>2, <2>3, <2>4, <2>5 DEF WorkersCall
<1>4. CASE MiniJamOnInitialize
  <2>1. PICK w \in DOMAIN works :
           \/ RetryAssignment(w) \/ MissedCandidate(w) \/ RejectedCandidate(w)
           \/ AcceptedCandidate(w) \/ SkipWork(w)
    BY Zenon, <1>4 DEF MiniJamOnInitialize
  <2> QED
    BY Zenon, <1>0, <2>1 DEF RetryAssignment, MissedCandidate, RejectedCandidate, AdvanceOrFail,
                      AcceptedCandidate, AcceptCandidate, SkipWork, workersVars
<1>5. CASE MiniJamOnFinalize
  BY Zenon, <1>0, <1>5 DEF MiniJamOnFinalize, ExecuteBlockStf, YieldBlockStf, workersVars
<1>6. CASE MiniJamCall
  BY Zenon, <1>0, <1>6
  DEF MiniJamCall, SubmitWork, SubmitCandidate, PauseExecution, QuarantinePending,
      SetIngressRelayer, workersVars
<1> QED BY Zenon, <1>1, <1>2, <1>3, <1>4, <1>5, <1>6 DEF Next, Hooks

(* A new worker takes a new id. *)
LEMMA NewWorkerId ==
    ASSUME StorageInv, Counts(WorkerIds), StakeNeverOverHeld
    PROVE  WorkerCount \in Nat /\ WorkerCount \notin Registered
<1>1. WorkerCount \in Nat
  BY Zenon DEF StorageInv, TypeOK, StakeTypeOK, Counts, WorkerCount
<1> QED BY <1>1 DEF StakeNeverOverHeld

(* Active stake shrinks for a cause. *)
LEMMA SlashesForCauseStep ==
    ASSUME StorageInv, Counts(WorkerIds), StakeNeverOverHeld, StakeEffect
    PROVE  SlashesForCause
<1> SUFFICES ASSUME NEW w \in Registered, workers'[w].activeStake < workers[w].activeStake
             PROVE  \/ w \in DOMAIN pendingUpdates \ DOMAIN pendingUpdates'
                    \/ \E key \in RoundKeys : <<key, w>> \in equivocations' \ equivocations
                    \/ \E key \in DOMAIN votingRounds \ DOMAIN votingRounds' :
                          /\ w \in assignments[key]
                          /\ <<key, w>> \notin DOMAIN votes
                          /\ now > votingRounds[key].deadline
  BY Zenon DEF SlashesForCause
<1>1. workers[w].activeStake \in Nat
  BY Zenon DEF StorageInv, TypeOK, StakeTypeOK, WorkerRecord
<1>2. workers'[w] # workers[w]
  BY <1>1
<1>3. CASE EpochTransition(currentEpoch + 1)
  <2>1. /\ workers' = UpdatedWorkers(currentEpoch + 1)
        /\ pendingUpdates' = RemoveAll(pendingUpdates, Applied(currentEpoch + 1))
    BY Zenon, <1>3 DEF EpochTransition
  <2>2. w \in Applied(currentEpoch + 1)
    BY Zenon, <1>2, <2>1 DEF UpdatedWorkers
  <2> QED BY Zenon, <2>1, <2>2 DEF Applied, RemoveAll
<1>4. ASSUME NEW key \in RoundKeys, NEW v \in Registered, EquivocationEffect(key, v)
      PROVE  \E k \in RoundKeys : <<k, w>> \in equivocations' \ equivocations
  BY Zenon, <1>2, <1>4 DEF EquivocationEffect, SlashEffect
<1>5. ASSUME NEW key \in RoundKeys, NEW W \in SUBSET WorkerIds, AbsenceEffect(key, W)
      PROVE  \E k \in DOMAIN votingRounds \ DOMAIN votingRounds' :
                /\ w \in assignments[k]
                /\ <<k, w>> \notin DOMAIN votes
                /\ now > votingRounds[k].deadline
  BY Zenon, <1>2, <1>5 DEF AbsenceEffect, SlashEffect
<1>6. ASSUME NEW a \in Accounts, NEW stake \in StakeAmounts, Register(a, stake) PROVE FALSE
  <2>1. w # WorkerCount
    BY Zenon, NewWorkerId
  <2> QED BY Zenon, <1>2, <1>6, <2>1 DEF Register, Registered, Insert
<1>7. ASSUME NEW v, NEW stake, ScheduleUpdate(v, stake) PROVE FALSE
  BY Zenon, <1>2, <1>7 DEF ScheduleUpdate
<1>8. CASE UNCHANGED <<stakeVars, epochVars>>
  BY Zenon, <1>2, <1>8 DEF stakeVars
<1> QED BY Zenon, <1>3, <1>4, <1>5, <1>6, <1>7, <1>8 DEF StakeEffect

(* A suspension that is running was imposed in this epoch, or the worker is   *)
(* not active.                                                                *)
LEMMA ActiveNotSuspendedStep ==
    ASSUME StorageInv, ActiveNotSuspended, StakeEffect
    PROVE  ActiveNotSuspended'
<1>0. /\ currentEpoch \in Nat /\ activeWorkers \subseteq Registered
      /\ workers \in [Registered -> WorkerRecord]
  BY Zenon DEF StorageInv, TypeOK, StakeTypeOK
<1> SUFFICES ASSUME NEW w \in activeWorkers'
             PROVE  workers'[w].suspendedUntil \in
                        0..currentEpoch' \cup {currentEpoch' + EquivocationSuspension}
  BY Zenon DEF ActiveNotSuspended, NotSuspendedBefore
<1>1. ASSUME UNCHANGED epochVars,
             \/ workers'[w].suspendedUntil = workers[w].suspendedUntil
             \/ workers'[w].suspendedUntil \in {0, currentEpoch + EquivocationSuspension}
      PROVE  workers'[w].suspendedUntil \in
                 0..currentEpoch' \cup {currentEpoch' + EquivocationSuspension}
  BY <1>0, <1>1 DEF epochVars, ActiveNotSuspended, NotSuspendedBefore
<1>2. CASE UNCHANGED <<stakeVars, epochVars>>
  BY Zenon, <1>1, <1>2 DEF stakeVars
<1>3. ASSUME NEW a \in Accounts, NEW stake \in StakeAmounts, Register(a, stake)
      PROVE  workers'[w].suspendedUntil \in
                 0..currentEpoch' \cup {currentEpoch' + EquivocationSuspension}
  <2>1. UNCHANGED epochVars
    BY Zenon, <1>3 DEF Register
  <2>2. w \in Registered
    BY Zenon, <1>0, <2>1 DEF epochVars
  <2>3. workers'[w] = workers[w] \/ workers'[w].suspendedUntil = 0
    BY Zenon, <1>3, <2>2 DEF Register, Registered, Insert
  <2> QED BY Zenon, <1>1, <2>1, <2>3
<1>4. ASSUME NEW v, NEW stake, ScheduleUpdate(v, stake)
      PROVE  workers'[w].suspendedUntil \in
                 0..currentEpoch' \cup {currentEpoch' + EquivocationSuspension}
  BY Zenon, <1>1, <1>4 DEF ScheduleUpdate
<1>5. ASSUME NEW key \in RoundKeys, NEW v \in Registered, EquivocationEffect(key, v)
      PROVE  workers'[w].suspendedUntil \in
                 0..currentEpoch' \cup {currentEpoch' + EquivocationSuspension}
  <2>1. UNCHANGED epochVars /\ w \in Registered
    BY Zenon, <1>0, <1>5 DEF EquivocationEffect, SlashEffect, epochVars
  <2>2. workers'[w] = workers[w] \/ workers'[w].suspendedUntil = currentEpoch + EquivocationSuspension
    BY Zenon, <1>5, <2>1 DEF EquivocationEffect, SlashEffect
  <2> QED BY Zenon, <1>1, <2>1, <2>2
<1>6. ASSUME NEW key \in RoundKeys, NEW W \in SUBSET WorkerIds, AbsenceEffect(key, W)
      PROVE  workers'[w].suspendedUntil \in
                 0..currentEpoch' \cup {currentEpoch' + EquivocationSuspension}
  <2>1. UNCHANGED epochVars /\ w \in Registered
    BY Zenon, <1>0, <1>6 DEF AbsenceEffect, SlashEffect, epochVars
  <2>2. workers'[w].suspendedUntil = workers[w].suspendedUntil
    BY Zenon, <1>6, <2>1 DEF AbsenceEffect
  <2> QED BY Zenon, <1>1, <2>1, <2>2
<1>7. CASE EpochTransition(currentEpoch + 1)
  <2>1. PICK epoch : epoch = currentEpoch + 1
    BY Zenon
  <2>2. /\ currentEpoch' = epoch /\ workers' = UpdatedWorkers(epoch)
        /\ activeWorkers' = Top(UpdatedWorkers(epoch), Eligible(UpdatedWorkers(epoch), epoch))
    BY Zenon, <1>7, <2>1 DEF EpochTransition
  <2>3. w \in DOMAIN UpdatedWorkers(epoch) /\ UpdatedWorkers(epoch)[w].suspendedUntil <= epoch
    BY Zenon, <2>2 DEF Top, Eligible
  <2>4. epoch \in Nat /\ StakeTypeOK
    BY <1>0, <2>1 DEF StorageInv, TypeOK
  <2>5. UpdatedWorkers(epoch) \in [Registered -> WorkerRecord]
    BY Zenon, <2>4, UpdatesType
  <2>6. UpdatedWorkers(epoch)[w].suspendedUntil \in Nat
    BY Zenon, <2>3, <2>5 DEF WorkerRecord
  <2> QED BY <2>2, <2>3, <2>4, <2>6
<1> QED BY Zenon, <1>2, <1>3, <1>4, <1>5, <1>6, <1>7 DEF StakeEffect

(* Claims after an update, a slash and an epoch, as numbers. *)
LEMMA ClaimArithmetic ==
    ASSUME NEW h \in Nat, NEW s \in Nat, NEW p \in Nat
    PROVE  /\ h <= s => h + Max2(p - s, 0) <= Max2(s, p)
           /\ \A x \in Nat : x <= h /\ x <= s =>
                 /\ h <= Max2(s, p) => h - x <= Max2(s - x, p)
                 /\ h <= s + p => h - x <= (s - x) + p
                 /\ h <= s => h - x <= s - x
  BY DEF Max2

(* A slash takes from the hold what it takes from the active stake. *)
LEMMA SlashClaims ==
    ASSUME StorageInv, StakeNeverOverHeld, NEW W, SlashEffect(W)
    PROVE  StakeNeverOverHeld'
<1>1. /\ Registered' = Registered /\ WorkerCount' = WorkerCount
      /\ UNCHANGED <<pendingUpdates, unbonding>>
  BY Zenon DEF SlashEffect, Registered, WorkerCount
<1>2. ASSUME NEW w \in Registered PROVE stakeHold'[w] <= StakeClaim(w)'
  <2>1. stakeHold[w] <= StakeClaim(w)
    BY Zenon DEF StakeNeverOverHeld
  <2>2. /\ workers[w].activeStake \in Nat /\ stakeHold[w] \in Nat
        /\ w \in DOMAIN pendingUpdates => pendingUpdates[w].stake \in Nat
        /\ w \in DOMAIN unbonding => unbonding[w].amount \in Nat
    BY Zenon DEF StorageInv, TypeOK, StakeTypeOK, WorkerRecord, IsMap, PendingWorkerUpdate, UnbondingChunk
  <2>3. CASE w \notin W
    BY Zenon, <1>1, <2>1, <2>3 DEF SlashEffect, StakeClaim
  <2>4. CASE w \in W
    <3>1. PICK x \in Nat : /\ x <= workers[w].activeStake /\ x <= stakeHold[w]
                           /\ workers'[w].activeStake = workers[w].activeStake - x
                           /\ stakeHold'[w] = stakeHold[w] - x
      BY Zenon, <2>4 DEF SlashEffect
    <3>2. CASE w \in DOMAIN pendingUpdates
      BY ZenonT(40), <1>1, <2>1, <2>2, <3>1, <3>2, ClaimArithmetic DEF StakeClaim
    <3>3. CASE w \notin DOMAIN pendingUpdates /\ w \in DOMAIN unbonding
      BY Zenon, <1>1, <2>1, <2>2, <3>1, <3>3, ClaimArithmetic DEF StakeClaim
    <3>4. CASE w \notin DOMAIN pendingUpdates /\ w \notin DOMAIN unbonding
      BY <1>1, <2>1, <2>2, <3>1, <3>4 DEF StakeClaim
    <3> QED BY Zenon, <3>2, <3>3, <3>4
  <2> QED BY Zenon, <2>3, <2>4
<1> QED BY Zenon, <1>1, <1>2 DEF StakeNeverOverHeld

(* A new worker is held what it staked, under an id of its own. *)
LEMMA RegisterClaims ==
    ASSUME StorageInv, Counts(WorkerIds), StakeNeverOverHeld,
           \A n \in Nat : Cardinality(0..n) = n + 1,
           NEW a \in Accounts, NEW stake \in StakeAmounts, Register(a, stake)
    PROVE  StakeNeverOverHeld'
<1>1. WorkerCount \in Nat /\ WorkerCount \notin Registered /\ Registered = 0..(WorkerCount - 1)
  BY Zenon, NewWorkerId DEF StakeNeverOverHeld
<1>2. PICK n \in Nat : n = WorkerCount
  BY Zenon, <1>1
<1>3. /\ DOMAIN workers' = Registered \cup {n}
      /\ workers'[n].activeStake = stake /\ stakeHold'[n] = stake
      /\ \A w \in Registered : workers'[w] = workers[w] /\ stakeHold'[w] = stakeHold[w]
      /\ UNCHANGED <<pendingUpdates, unbonding>>
  <2>1. /\ workers' = Insert(workers, n, [owner |-> a, activeStake |-> stake,
                                          effectiveEpoch |-> currentEpoch + 1, suspendedUntil |-> 0])
        /\ stakeHold' = Insert(stakeHold, n, stake)
        /\ UNCHANGED <<pendingUpdates, unbonding>>
    BY Zenon, <1>2 DEF Register
  <2>2. DOMAIN stakeHold = Registered /\ DOMAIN workers = Registered /\ n \notin Registered
    BY Zenon, <1>1, <1>2 DEF Registered, StorageInv, TypeOK, StakeTypeOK
  <2> QED BY Zenon, <2>1, <2>2 DEF Insert
<1>4. Registered' = 0..n /\ WorkerCount' = n + 1
  <2>1. (0..(n - 1)) \cup {n} = 0..n
    OBVIOUS
  <2>2. DOMAIN workers' = 0..n
    BY Zenon, <1>1, <1>2, <1>3, <2>1
  <2> QED BY Zenon, <2>2 DEF Registered, WorkerCount
<1>5. n \notin DOMAIN pendingUpdates /\ n \notin DOMAIN unbonding
  BY Zenon, <1>1, <1>2 DEF StorageInv, TypeOK, StakeTypeOK, IsMap
<1>6. stakeHold'[n] <= StakeClaim(n)'
  BY <1>3, <1>5, WorkersAssumption DEF StakeClaim
<1>7. ASSUME NEW w \in Registered PROVE stakeHold'[w] <= StakeClaim(w)'
  BY Zenon, <1>3 DEF StakeNeverOverHeld, StakeClaim
<1> QED BY <1>1, <1>2, <1>3, <1>4, <1>6, <1>7 DEF StakeNeverOverHeld, Registered

(* An update holds what it adds. *)
LEMMA UpdateClaims ==
    ASSUME StorageInv, StakeNeverOverHeld, NEW w \in Registered,
           NEW stake \in StakeAmounts \cup {NoStake}, ScheduleUpdate(w, stake)
    PROVE  StakeNeverOverHeld'
<1>1. /\ w \notin DOMAIN pendingUpdates /\ w \notin DOMAIN unbonding
      /\ stakeHold' = [stakeHold EXCEPT ![w] = @ + Max2(stake - workers[w].activeStake, 0)]
      /\ pendingUpdates' = Insert(pendingUpdates, w, [stake |-> stake, effectiveEpoch |-> currentEpoch + 1])
      /\ UNCHANGED <<workers, unbonding>>
  BY Zenon DEF ScheduleUpdate, CanUpdate
<1>2. /\ DOMAIN pendingUpdates' = DOMAIN pendingUpdates \cup {w} /\ pendingUpdates'[w].stake = stake
      /\ \A v \in DOMAIN pendingUpdates : pendingUpdates'[v] = pendingUpdates[v]
  BY Zenon, <1>1 DEF Insert
<1>3. /\ stakeHold[w] \in Nat /\ workers[w].activeStake \in Nat /\ stake \in Nat
      /\ DOMAIN stakeHold = Registered
  BY WorkersAssumption DEF StorageInv, TypeOK, StakeTypeOK, WorkerRecord, NoStake
<1>4. stakeHold[w] <= workers[w].activeStake
  BY Zenon, <1>1 DEF StakeNeverOverHeld, StakeClaim
<1>5. stakeHold'[w] <= StakeClaim(w)'
  <2>1. stakeHold'[w] = stakeHold[w] + Max2(stake - workers[w].activeStake, 0)
    BY Zenon, <1>1, <1>3
  <2>2. StakeClaim(w)' = Max2(workers[w].activeStake, stake)
    BY Zenon, <1>1, <1>2 DEF StakeClaim
  <2> QED BY Zenon, <1>3, <1>4, <2>1, <2>2, ClaimArithmetic
<1>6. ASSUME NEW v \in Registered \ {w} PROVE stakeHold'[v] <= StakeClaim(v)'
  BY Zenon, <1>1, <1>2, <1>3 DEF StakeNeverOverHeld, StakeClaim
<1>7. Registered' = Registered /\ WorkerCount' = WorkerCount
  BY Zenon, <1>1 DEF Registered, WorkerCount
<1> QED BY Zenon, <1>1, <1>2, <1>5, <1>6, <1>7 DEF StakeNeverOverHeld

(* An epoch turns a reduction into a chunk of the same size, and releases no  *)
(* more of a chunk than there is.                                             *)
LEMMA EpochClaims ==
    ASSUME StorageInv, StakeNeverOverHeld, EpochTransition(currentEpoch + 1)
    PROVE  StakeNeverOverHeld'
<1>1. PICK epoch : epoch = currentEpoch + 1
  BY Zenon
<1>2. /\ workers' = UpdatedWorkers(epoch)
      /\ pendingUpdates' = RemoveAll(pendingUpdates, Applied(epoch))
      /\ unbonding' = RemoveAll(UpdatedUnbonding(epoch), Released(epoch))
      /\ stakeHold' = [w \in DOMAIN stakeHold |->
                          IF w \in Released(epoch)
                          THEN stakeHold[w] - UpdatedUnbonding(epoch)[w].amount ELSE stakeHold[w]]
  BY Zenon, <1>1 DEF EpochTransition
<1>3. PICK reduced : reduced = {w \in Applied(epoch) : UpdatedStake(w) < workers[w].activeStake}
  BY Zenon
<1>4. /\ DOMAIN UpdatedUnbonding(epoch) = DOMAIN unbonding \cup reduced
      /\ \A w \in reduced : UpdatedUnbonding(epoch)[w] =
             [amount |-> workers[w].activeStake - UpdatedStake(w), unlockEpoch |-> epoch + 2]
      /\ \A w \in DOMAIN unbonding \ reduced : UpdatedUnbonding(epoch)[w] = unbonding[w]
  BY Zenon, <1>3 DEF UpdatedUnbonding
<1>5. StakeTypeOK /\ epoch \in Nat /\ DOMAIN stakeHold = Registered
  BY <1>1 DEF StorageInv, TypeOK, StakeTypeOK
<1>6. /\ Registered' = Registered /\ WorkerCount' = WorkerCount
  BY Zenon, <1>2 DEF UpdatedWorkers, Registered, WorkerCount
<1>7. /\ DOMAIN pendingUpdates' = DOMAIN pendingUpdates \ Applied(epoch)
      /\ \A w \in DOMAIN pendingUpdates' : pendingUpdates'[w] = pendingUpdates[w]
      /\ DOMAIN unbonding' = (DOMAIN unbonding \cup reduced) \ Released(epoch)
      /\ \A w \in DOMAIN unbonding' : unbonding'[w] = UpdatedUnbonding(epoch)[w]
  BY Zenon, <1>2, <1>4 DEF RemoveAll
<1>8. DOMAIN pendingUpdates' \cap DOMAIN unbonding' = {}
  BY Zenon, <1>3, <1>7 DEF StakeNeverOverHeld
<1>9. Released(epoch) \cap reduced = {} /\ Released(epoch) \subseteq DOMAIN unbonding
  <2>1. ASSUME NEW w \in Released(epoch), w \in reduced PROVE FALSE
    <3>1. UpdatedUnbonding(epoch)[w].unlockEpoch = epoch + 2
      BY <1>4, <2>1
    <3>2. UpdatedUnbonding(epoch)[w].unlockEpoch <= epoch
      BY Zenon DEF Released
    <3> QED BY <1>5, <3>1, <3>2
  <2> QED BY Zenon, <1>4, <2>1 DEF Released
<1>10. ASSUME NEW w \in Registered PROVE stakeHold'[w] <= StakeClaim(w)'
  <2>1. stakeHold[w] <= StakeClaim(w)
    BY Zenon DEF StakeNeverOverHeld
  <2>2. /\ workers[w].activeStake \in Nat /\ stakeHold[w] \in Nat
        /\ w \in DOMAIN pendingUpdates => pendingUpdates[w].stake \in Nat
        /\ w \in DOMAIN unbonding => unbonding[w].amount \in Nat
        /\ workers[w] \in WorkerRecord
    BY Zenon, <1>5 DEF StakeTypeOK, WorkerRecord, IsMap, PendingWorkerUpdate, UnbondingChunk
  <2>3. CASE w \in Applied(epoch)
    <3>1. /\ w \in DOMAIN pendingUpdates /\ w \notin DOMAIN unbonding /\ w \notin DOMAIN pendingUpdates'
          /\ w \notin Released(epoch)
      BY Zenon, <1>7, <1>9, <2>3 DEF Applied, StakeNeverOverHeld
    <3>2. stakeHold'[w] = stakeHold[w]
      BY Zenon, <1>2, <1>5, <3>1
    <3>3. stakeHold[w] <= Max2(workers[w].activeStake, pendingUpdates[w].stake)
      BY Zenon, <2>1, <3>1 DEF StakeClaim
    <3>4. workers'[w].activeStake = UpdatedStake(w)
      BY Zenon, <1>2, <2>2, <2>3 DEF UpdatedWorkers, WorkerRecord
    <3>5. CASE w \in reduced
      <4>1. /\ w \in DOMAIN unbonding'
            /\ unbonding'[w].amount = workers[w].activeStake - UpdatedStake(w)
        BY <1>4, <1>7, <3>1, <3>5
      <4>2. StakeClaim(w)' = UpdatedStake(w) + (workers[w].activeStake - UpdatedStake(w))
        BY Zenon, <3>1, <3>4, <4>1 DEF StakeClaim
      <4>3. UpdatedStake(w) < workers[w].activeStake
        BY Zenon, <1>3, <3>5
      <4> QED BY <2>2, <3>1, <3>2, <3>3, <4>2, <4>3 DEF UpdatedStake, Max2
    <3>6. CASE w \notin reduced
      <4>1. w \notin DOMAIN unbonding'
        BY Zenon, <1>7, <3>1, <3>6
      <4>2. StakeClaim(w)' = UpdatedStake(w)
        BY Zenon, <3>1, <3>4, <4>1 DEF StakeClaim
      <4>3. ~(UpdatedStake(w) < workers[w].activeStake)
        BY Zenon, <1>3, <2>3, <3>6
      <4> QED BY <2>2, <3>1, <3>2, <3>3, <4>2, <4>3 DEF UpdatedStake, Max2, NoStake
    <3> QED BY Zenon, <3>5, <3>6
  <2>4. CASE w \notin Applied(epoch)
    <3>1. workers'[w] = workers[w] /\ w \notin reduced
      BY Zenon, <1>2, <1>3, <2>4 DEF UpdatedWorkers
    <3>2. CASE w \in Released(epoch)
      <4>1. /\ w \in DOMAIN unbonding /\ w \notin DOMAIN pendingUpdates
            /\ w \notin DOMAIN unbonding' /\ w \notin DOMAIN pendingUpdates'
        BY Zenon, <1>7, <1>9, <3>2 DEF StakeNeverOverHeld
      <4>2. stakeHold'[w] = stakeHold[w] - unbonding[w].amount
        BY Zenon, <1>2, <1>4, <1>5, <3>1, <3>2, <4>1
      <4>3. stakeHold[w] <= workers[w].activeStake + unbonding[w].amount
        BY Zenon, <2>1, <4>1 DEF StakeClaim
      <4>4. StakeClaim(w)' = workers[w].activeStake
        BY Zenon, <3>1, <4>1 DEF StakeClaim
      <4> QED BY <2>2, <4>1, <4>2, <4>3, <4>4
    <3>3. CASE w \notin Released(epoch)
      <4>1. /\ w \in DOMAIN unbonding' <=> w \in DOMAIN unbonding
            /\ w \in DOMAIN unbonding => unbonding'[w] = unbonding[w]
            /\ w \in DOMAIN pendingUpdates' <=> w \in DOMAIN pendingUpdates
            /\ w \in DOMAIN pendingUpdates => pendingUpdates'[w] = pendingUpdates[w]
        BY Zenon, <1>4, <1>7, <2>4, <3>1, <3>3
      <4>2. stakeHold'[w] = stakeHold[w]
        BY Zenon, <1>2, <1>5, <3>3
      <4>3. StakeClaim(w)' = StakeClaim(w)
        BY Zenon, <3>1, <4>1 DEF StakeClaim
      <4> QED BY Zenon, <2>1, <4>2, <4>3
    <3> QED BY Zenon, <3>2, <3>3
  <2> QED BY Zenon, <2>3, <2>4
<1> QED BY Zenon, <1>6, <1>8, <1>10 DEF StakeNeverOverHeld

(* Whatever happens to a worker, its hold is accounted for. *)
LEMMA StakeNeverOverHeldStep ==
    ASSUME StorageInv, Counts(WorkerIds), StakeNeverOverHeld,
           \A n \in Nat : Cardinality(0..n) = n + 1, StakeEffect
    PROVE  StakeNeverOverHeld'
<1>1. CASE UNCHANGED <<stakeVars, epochVars>>
  BY Zenon, <1>1 DEF stakeVars, StakeNeverOverHeld, StakeClaim, Registered, WorkerCount
<1>2. ASSUME NEW key, NEW w, EquivocationEffect(key, w) PROVE StakeNeverOverHeld'
  BY Zenon, <1>2, SlashClaims DEF EquivocationEffect
<1>3. ASSUME NEW key, NEW W, AbsenceEffect(key, W) PROVE StakeNeverOverHeld'
  BY Zenon, <1>3, SlashClaims DEF AbsenceEffect
<1> QED BY Zenon, <1>1, <1>2, <1>3, RegisterClaims, UpdateClaims, EpochClaims DEF StakeEffect

-----------------------------------------------------------------------------
(* The execution queue *)

(* The queue loses a prefix, or all of it, or takes one item due next block *)
QueueEffect ==
    \/ UNCHANGED <<executionQueue, now>>
    \/ UNCHANGED now /\ executionQueue' = <<>>
    \/ UNCHANGED now /\ \E w \in WorkIds : executionQueue' = Enqueued(w)
    \/ now' = now + 1 /\ UNCHANGED executionQueue
    \/ now' = now + 1 /\ \E n \in 0..Len(executionQueue) : executionQueue' = Remaining(n)

(* Every step has one of these effects on the execution queue. *)
LEMMA NextQueueEffect == StorageInv /\ [Next]_vars => QueueEffect
<1> SUFFICES ASSUME StorageInv, [Next]_vars PROVE QueueEffect
  BY Zenon
<1>0. UNCHANGED <<now, queueVars>> => QueueEffect
  BY Zenon DEF QueueEffect, queueVars
<1>1. CASE UNCHANGED vars
  BY Zenon, <1>0, <1>1 DEF vars, minijamVars, blockVars
<1>2. CASE WorkersOnInitialize
  BY Zenon, <1>0, <1>2 DEF WorkersOnInitialize, minijamVars
<1>3. CASE WorkersCall
  BY Zenon, <1>0, <1>3 DEF WorkersCall, minijamVars, blockVars
<1>4. CASE MiniJamOnInitialize
  <2>1. PICK w \in DOMAIN works :
           \/ RetryAssignment(w) \/ MissedCandidate(w) \/ RejectedCandidate(w)
           \/ AcceptedCandidate(w) \/ SkipWork(w)
    BY Zenon, <1>4 DEF MiniJamOnInitialize
  <2>2. CASE RetryAssignment(w) \/ MissedCandidate(w) \/ RejectedCandidate(w) \/ SkipWork(w)
    BY Zenon, <1>0, <2>2
    DEF RetryAssignment, MissedCandidate, RejectedCandidate, AdvanceOrFail, SkipWork, ThisWork
  <2>3. CASE AcceptedCandidate(w)
    <3>1. w \in WorkIds
      BY Zenon DEF StorageInv, TypeOK, WorkTypeOK
    <3> QED BY Zenon, <2>3, <3>1 DEF AcceptedCandidate, AcceptCandidate, ThisWork, QueueEffect
  <2> QED BY Zenon, <2>1, <2>2, <2>3
<1>5. CASE MiniJamOnFinalize
  <2>1. PICK n \in 0..Len(executionQueue) :
           (\E consumed \in SUBSET WorkIds : ExecuteBlockStf(n, consumed)) \/ YieldBlockStf(n)
    BY Zenon, <1>5 DEF MiniJamOnFinalize
  <2> QED BY Zenon, <2>1 DEF ExecuteBlockStf, YieldBlockStf, NextBlock, minijamVars, queueVars, QueueEffect
<1>6. CASE MiniJamCall
  BY Zenon, <1>6 DEF MiniJamCall, SubmitWork, SubmitCandidate, PauseExecution, QuarantinePending,
              SetIngressRelayer, blockVars, queueVars, QueueEffect
<1> QED BY Zenon, <1>1, <1>2, <1>3, <1>4, <1>5, <1>6 DEF Next, Hooks

(* The queue stays in the order in which its items fall due. *)
LEMMA QueueInOrderStep ==
    ASSUME StorageInv, QueueInOrder, QueueEffect
    PROVE  QueueInOrder'
<1>0. /\ executionQueue \in Seq(ExecutionItem) /\ now \in Nat
      /\ \A i \in DOMAIN executionQueue : executionQueue[i].executeAt \in Nat
  <2>1. executionQueue \in Seq(ExecutionItem) /\ now \in Nat
    BY Zenon DEF StorageInv, TypeOK, QueueTypeOK, BlockTypeOK
  <2>2. \A i \in DOMAIN executionQueue : executionQueue[i] \in ExecutionItem
    BY <2>1
  <2> QED BY Zenon, <2>1, <2>2 DEF ExecutionItem
<1>1. CASE UNCHANGED <<executionQueue, now>>
  BY Zenon, <1>1 DEF QueueInOrder
<1>2. CASE UNCHANGED now /\ executionQueue' = <<>>
  BY <1>2 DEF QueueInOrder
<1>3. CASE now' = now + 1 /\ UNCHANGED executionQueue
  BY <1>0, <1>3 DEF QueueInOrder
<1>4. ASSUME NEW w \in WorkIds, UNCHANGED now, executionQueue' = Enqueued(w) PROVE QueueInOrder'
  <2>1. PICK item : item = [workId |-> w, executeAt |-> now + 1]
    BY Zenon
  <2>2. item.executeAt = now + 1 /\ executionQueue' = Append(executionQueue, item)
    BY Zenon, <1>4, <2>1 DEF Enqueued
  <2>3. /\ DOMAIN executionQueue = 1..Len(executionQueue) /\ Len(executionQueue) \in Nat
        /\ DOMAIN executionQueue' = 1..(Len(executionQueue) + 1)
        /\ \A i \in DOMAIN executionQueue : executionQueue'[i] = executionQueue[i]
        /\ executionQueue'[Len(executionQueue) + 1] = item
    BY <1>0, <2>2
  <2>4. \A i \in DOMAIN executionQueue' : executionQueue'[i].executeAt <= now' + 1
    BY <1>0, <1>4, <2>2, <2>3 DEF QueueInOrder
  <2>5. ASSUME NEW i \in DOMAIN executionQueue', NEW j \in DOMAIN executionQueue', i < j
        PROVE  executionQueue'[i].executeAt <= executionQueue'[j].executeAt
    <3>1. i \in DOMAIN executionQueue
      BY <2>3, <2>5
    <3>2. CASE j \in DOMAIN executionQueue
      BY Zenon, <2>3, <2>5, <3>1, <3>2 DEF QueueInOrder
    <3>3. CASE j \notin DOMAIN executionQueue
      <4>1. j = Len(executionQueue) + 1
        BY <2>3, <3>3
      <4> QED BY Zenon, <1>4, <2>2, <2>3, <2>4, <4>1
    <3> QED BY Zenon, <3>2, <3>3
  <2> QED BY Zenon, <2>4, <2>5 DEF QueueInOrder
<1>5. ASSUME NEW n \in 0..Len(executionQueue), now' = now + 1, executionQueue' = Remaining(n)
      PROVE  QueueInOrder'
  <2>1. /\ \A i \in DOMAIN executionQueue' :
              executionQueue'[i] = executionQueue[n + i] /\ n + i \in DOMAIN executionQueue
        /\ DOMAIN executionQueue' \subseteq Nat
    BY <1>0, <1>5, SuffixProperties DEF Remaining
  <2>2. \A i \in DOMAIN executionQueue' : executionQueue'[i].executeAt <= now' + 1
    BY <1>0, <1>5, <2>1 DEF QueueInOrder
  <2>3. ASSUME NEW i \in DOMAIN executionQueue', NEW j \in DOMAIN executionQueue', i < j
        PROVE  executionQueue'[i].executeAt <= executionQueue'[j].executeAt
    <3>1. n + i < n + j
      BY <2>1, <2>3
    <3> QED BY Zenon, <2>1, <3>1 DEF QueueInOrder
  <2> QED BY Zenon, <2>2, <2>3 DEF QueueInOrder
<1> QED BY Zenon, <1>1, <1>2, <1>3, <1>4, <1>5 DEF QueueEffect
=============================================================================
