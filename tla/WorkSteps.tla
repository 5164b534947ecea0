----------------------------- MODULE WorkSteps ------------------------------
(* What a step of the two pallets may do to works, candidates and holds, to   *)
(* assignments, votes and results, to deadlines and to what the worker engine *)
(* would see of a round, and what follows from it for the life of a work, the *)
(* money held for it and its rounds. The facts about cardinalities are        *)
(* assumptions here and are proved in MiniJamProofs.                          *)
EXTENDS EngineRounds, TLAPS

-----------------------------------------------------------------------------
(* Counting *)

(* Subsets of T can be counted: what a proof needs of a finite set T *)
Counts(T) ==
    /\ Cardinality({}) = 0
    /\ \A S \in SUBSET T :
          /\ Cardinality(S) \in Nat
          /\ \A x \in T \ S : Cardinality(S \cup {x}) = Cardinality(S) + 1
          /\ \A R \in SUBSET S : Cardinality(R) <= Cardinality(S)

(* One element more counts one more. *)
LEMMA CountAdd ==
    ASSUME NEW T, Counts(T), NEW S \in SUBSET T, NEW x \in T, x \notin S
    PROVE  Cardinality(S) \in Nat /\ Cardinality(S \cup {x}) = Cardinality(S) + 1
  BY Zenon DEF Counts

(* One element less counts one less. *)
LEMMA CountRemove ==
    ASSUME NEW T, Counts(T), NEW S \in SUBSET T, NEW x \in S
    PROVE  /\ Cardinality(S \ {x}) \in Nat
           /\ Cardinality(S) = Cardinality(S \ {x}) + 1
<1>1. S \ {x} \in SUBSET T /\ x \in T \ (S \ {x}) /\ (S \ {x}) \cup {x} = S
  OBVIOUS
<1>2. Cardinality((S \ {x}) \cup {x}) = Cardinality(S \ {x}) + 1 /\ Cardinality(S \ {x}) \in Nat
  BY <1>1 DEF Counts
<1> QED BY Zenon, <1>1, <1>2

(* A part that counts as much as the whole is the whole. *)
LEMMA CountAll ==
    ASSUME NEW T, Counts(T), NEW S \in SUBSET T, NEW R \in SUBSET S,
           Cardinality(R) >= Cardinality(S)
    PROVE  R = S
<1> SUFFICES ASSUME NEW x \in S, x \notin R PROVE FALSE
  OBVIOUS
<1>1. S \ {x} \in SUBSET T /\ R \in SUBSET (S \ {x})
  OBVIOUS
<1>2. Cardinality(R) <= Cardinality(S \ {x}) /\ Cardinality(R) \in Nat
  BY <1>1 DEF Counts
<1>3. Cardinality(S \ {x}) \in Nat /\ Cardinality(S) = Cardinality(S \ {x}) + 1
  BY CountRemove
<1> QED BY <1>2, <1>3

(* One hold more or less is one amount more or less. *)
LEMMA OneMore ==
    ASSUME NEW d \in Nat, NEW n \in Nat
    PROVE  d * (n + 1) = d * n + d /\ d * n \in Nat
  OBVIOUS
-----------------------------------------------------------------------------


-----------------------------------------------------------------------------
(* Effects *)

moneyVars == <<works, candidates, depositHold, bondHold>>

(* Only the record of w changes, and it keeps its owner and its package *)
OnlyWork(w) ==
    /\ DOMAIN works' = DOMAIN works
    /\ \A v \in DOMAIN works \ {w} : works'[v] = works[v]
    /\ works'[w].owner = works[w].owner
    /\ works'[w].package = works[w].package

(* Account a submits package p *)
SubmitEffect(a, p) ==
    /\ NextWorkId \in WorkIds \ DOMAIN works
    /\ \A v \in DOMAIN works : works[v].package # p
    /\ DOMAIN works' = DOMAIN works \cup {NextWorkId}
    /\ \A v \in DOMAIN works : works'[v] = works[v]
    /\ works'[NextWorkId].owner = a
    /\ works'[NextWorkId].package = p
    /\ works'[NextWorkId].status \in {"InsufficientWorkers", "AwaitingCandidate"}
    /\ depositHold' = [depositHold EXCEPT ![a] = @ + WorkDeposit]
    /\ UNCHANGED <<candidates, bondHold>>

(* Account a submits the candidate of w *)
CandidateEffect(a, w) ==
    /\ works[w].status = "AwaitingCandidate"
    /\ works'[w].status = "Voting"
    /\ works'[w].round = works[w].round
    /\ OnlyWork(w)
    /\ DOMAIN candidates' = DOMAIN candidates \cup {RoundOf(w)}
    /\ \A key \in DOMAIN candidates \ {RoundOf(w)} : candidates'[key] = candidates[key]
    /\ candidates'[RoundOf(w)].submitter = a
    /\ bondHold' = [bondHold EXCEPT ![a] = @ + CandidateBond]
    /\ UNCHANGED depositHold

(* A hook gives w to workers, moves it to its next round, fails or accepts it *)
MoveEffect(w) ==
    LET old == works[w].status
        new == works'[w].status
    IN  /\ OnlyWork(w)
        /\ \/ /\ old = "InsufficientWorkers"
              /\ new \in {"InsufficientWorkers", "AwaitingCandidate"}
              /\ works'[w].round = works[w].round
           \/ /\ CandidateOverdue(w) \/ ResultRejects(w)
              /\ ~LastRound(w)
              /\ new \in {"InsufficientWorkers", "AwaitingCandidate"}
              /\ works'[w].round = works[w].round + 1
           \/ /\ CandidateOverdue(w) \/ ResultRejects(w)
              /\ LastRound(w)
              /\ new = "Failed"
              /\ works'[w].round = works[w].round
           \/ /\ ResultAccepts(w)
              /\ new = "Accepted"
              /\ works'[w].round = works[w].round
        /\ depositHold' = IF new \in PendingStatuses THEN depositHold
                          ELSE [depositHold EXCEPT ![works[w].owner] = @ - WorkDeposit]
        /\ bondHold' = IF old # "Voting" THEN bondHold
                       ELSE [bondHold EXCEPT ![candidates[RoundOf(w)].submitter] = @ - CandidateBond]
        /\ UNCHANGED candidates

(* on_finalize imports the works of C *)
ImportEffect(C) ==
    /\ DOMAIN works' = DOMAIN works
    /\ \A v \in DOMAIN works \ C : works'[v] = works[v]
    /\ \A v \in C : /\ works[v].status = "Accepted"
                    /\ works'[v].status = "Imported"
                    /\ works'[v].round = works[v].round
                    /\ works'[v].owner = works[v].owner
                    /\ works'[v].package = works[v].package
    /\ UNCHANGED <<candidates, depositHold, bondHold>>

WorkEffect ==
    \/ UNCHANGED moneyVars
    \/ \E a \in Accounts, p \in Packages : SubmitEffect(a, p)
    \/ \E a \in Accounts, w \in DOMAIN works : CandidateEffect(a, w)
    \/ \E w \in DOMAIN works : MoveEffect(w)
    \/ \E C \in SUBSET DOMAIN works : ImportEffect(C)

(* A round that is not the last one has a next. *)
LEMMA RoundAfter ==
    ASSUME NEW r \in Rounds, ~(r + 1 >= MaxCandidateRounds)
    PROVE  r + 1 \in Rounds
  BY MiniJamAssumption

(* An update of status, deadline or round leaves owner and package alone. *)
LEMMA RecordUpdate ==
    ASSUME NEW r \in WorkRecord, NEW s, NEW d, NEW n
    PROVE  /\ [r EXCEPT !.status = s].status = s
           /\ [r EXCEPT !.status = s].round = r.round
           /\ [r EXCEPT !.status = s].owner = r.owner
           /\ [r EXCEPT !.status = s].package = r.package
           /\ [r EXCEPT !.status = s, !.candidateDeadline = d].status = s
           /\ [r EXCEPT !.status = s, !.candidateDeadline = d].round = r.round
           /\ [r EXCEPT !.status = s, !.candidateDeadline = d].owner = r.owner
           /\ [r EXCEPT !.status = s, !.candidateDeadline = d].package = r.package
           /\ [r EXCEPT !.round = n, !.status = s].round = n
           /\ [r EXCEPT !.round = n, !.status = s].owner = r.owner
           /\ [r EXCEPT !.round = n, !.status = s].package = r.package
  BY Zenon DEF WorkRecord

(* prepare_round stores a record that awaits a candidate or workers. *)
LEMMA PrepareEffect ==
    ASSUME NEW w, NEW rec \in WorkRecord, NEW as0, NEW epochs0,
           PrepareRound(w, rec, as0, epochs0)
    PROVE  /\ DOMAIN works' = DOMAIN works \cup {w}
           /\ \A v \in DOMAIN works \ {w} : works'[v] = works[v]
           /\ works'[w].owner = rec.owner
           /\ works'[w].package = rec.package
           /\ works'[w].round = rec.round
           /\ works'[w].status \in {"InsufficientWorkers", "AwaitingCandidate"}
<1> DEFINE awaiting == [rec EXCEPT !.status = "AwaitingCandidate",
                                   !.candidateDeadline = now + ReportSubmissionDeadline]
           insufficient == [rec EXCEPT !.status = "InsufficientWorkers"]
<1>1. works' = Insert(works, w, awaiting) \/ works' = Insert(works, w, insufficient)
  BY Zenon DEF PrepareRound
<1>2. /\ awaiting.status = "AwaitingCandidate" /\ insufficient.status = "InsufficientWorkers"
      /\ \A r \in {awaiting, insufficient} :
            r.owner = rec.owner /\ r.package = rec.package /\ r.round = rec.round
  BY RecordUpdate
<1> HIDE DEF awaiting, insufficient
<1> QED BY Zenon, <1>1, <1>2 DEF Insert

(* submit_work gives the package a new id and holds one deposit. *)
LEMMA SubmitWorkEffect ==
    ASSUME StorageInv, NEW a \in Accounts, NEW p \in Packages, SubmitWork(a, p)
    PROVE  SubmitEffect(a, p)
<1> DEFINE rec == [owner |-> a, package |-> p, round |-> 0,
                   status |-> "InsufficientWorkers", candidateDeadline |-> 0]
<1>1. PrepareRound(NextWorkId, rec, assignments, assignmentEpochs)
  BY Zenon DEF SubmitWork
<1>2. NextWorkId \in WorkIds \ DOMAIN works
  BY MiniJamAssumption DEF SubmitWork, StorageInv, RoundsReached
<1>3. rec \in WorkRecord
  BY MiniJamAssumption DEF WorkRecord, WorkStatus, PendingStatuses
<1>4. rec.owner = a /\ rec.package = p
  BY Zenon
<1> HIDE DEF rec
<1>5. UNCHANGED <<candidates, bondHold>>
  BY Zenon DEF SubmitWork
<1>6. depositHold' = [depositHold EXCEPT ![a] = @ + WorkDeposit]
      /\ \A v \in DOMAIN works : works[v].package # p
  BY Zenon DEF SubmitWork
<1>7. /\ DOMAIN works' = DOMAIN works \cup {NextWorkId}
      /\ \A v \in DOMAIN works \ {NextWorkId} : works'[v] = works[v]
      /\ works'[NextWorkId].owner = rec.owner
      /\ works'[NextWorkId].package = rec.package
      /\ works'[NextWorkId].status \in {"InsufficientWorkers", "AwaitingCandidate"}
  BY Zenon, <1>1, <1>3, PrepareEffect
<1> QED BY Zenon, <1>2, <1>4, <1>5, <1>6, <1>7 DEF SubmitEffect

(* submit_candidate puts the work to the vote and holds one bond. *)
LEMMA SubmitCandidateEffect ==
    ASSUME StorageInv, NEW a \in Accounts, NEW w \in DOMAIN works, SubmitCandidate(a, w)
    PROVE  CandidateEffect(a, w)
<1>1. works[w] \in WorkRecord /\ works \in [DOMAIN works -> WorkRecord]
  BY Zenon DEF StorageInv, TypeOK, WorkTypeOK
<1>2. works' = [works EXCEPT ![w] = [works[w] EXCEPT !.status = "Voting"]]
  BY Zenon DEF SubmitCandidate
<1> DEFINE rec == [works[w] EXCEPT !.status = "Voting"]
<1>3. /\ rec.status = "Voting" /\ rec.round = works[w].round
      /\ rec.owner = works[w].owner /\ rec.package = works[w].package
  BY ZenonT(40), <1>1, RecordUpdate
<1> HIDE DEF rec
<1>4. works'[w] = rec /\ OnlyWork(w)
  BY Zenon, <1>1, <1>2, <1>3 DEF OnlyWork, rec
<1>5. /\ works[w].status = "AwaitingCandidate"
      /\ bondHold' = [bondHold EXCEPT ![a] = @ + CandidateBond]
      /\ UNCHANGED depositHold
      /\ candidates' = Insert(candidates, RoundOf(w),
                              [submitter |-> a, voteDeadline |-> now + VoteWindow])
  BY Zenon DEF SubmitCandidate
<1>6. /\ DOMAIN candidates' = DOMAIN candidates \cup {RoundOf(w)}
      /\ \A key \in DOMAIN candidates \ {RoundOf(w)} : candidates'[key] = candidates[key]
      /\ candidates'[RoundOf(w)].submitter = a
  BY Zenon, <1>5 DEF Insert
<1> QED BY Zenon, <1>3, <1>4, <1>5, <1>6 DEF CandidateEffect

(* A work that has no workers stays in its round. *)
LEMMA RetryEffect ==
    ASSUME StorageInv, NEW w \in DOMAIN works, RetryAssignment(w)
    PROVE  MoveEffect(w)
<1>1. works[w] \in WorkRecord
  BY Zenon DEF StorageInv, TypeOK, WorkTypeOK
<1>2. PrepareRound(w, works[w], assignments, assignmentEpochs)
  BY Zenon DEF RetryAssignment
<1>3. works[w].status = "InsufficientWorkers" /\ UNCHANGED <<candidates, depositHold, bondHold>>
  BY Zenon DEF RetryAssignment
<1>4. OnlyWork(w) /\ works'[w].round = works[w].round
      /\ works'[w].status \in {"InsufficientWorkers", "AwaitingCandidate"}
  BY Zenon, <1>1, <1>2, PrepareEffect DEF OnlyWork
<1> QED BY Zenon, <1>3, <1>4 DEF MoveEffect, PendingStatuses

(* advance_or_fail settles the bond of a rejected candidate, and the deposit  *)
(* when the round was the last.                                               *)
LEMMA AdvanceEffect ==
    ASSUME StorageInv, NEW w \in DOMAIN works, NEW rejected \in BOOLEAN,
           IF rejected THEN ResultRejects(w) ELSE CandidateOverdue(w),
           AdvanceOrFail(w, rejected)
    PROVE  MoveEffect(w)
<1>1. /\ works[w] \in WorkRecord /\ works \in [DOMAIN works -> WorkRecord]
      /\ depositHold \in [Accounts -> Nat] /\ works[w].owner \in Accounts
  BY Zenon DEF StorageInv, TypeOK, WorkTypeOK, WorkRecord
<1>2. CandidateOverdue(w) \/ ResultRejects(w)
  BY Zenon
<1>3. bondHold' = IF works[w].status # "Voting" THEN bondHold
                  ELSE [bondHold EXCEPT ![candidates[RoundOf(w)].submitter] = @ - CandidateBond]
  BY Zenon DEF AdvanceOrFail, ResultRejects, HasResult, CandidateOverdue
<1>4. UNCHANGED candidates
  BY Zenon DEF AdvanceOrFail
<1>5. depositHold' = [depositHold EXCEPT ![works[w].owner] = @ - FailureSlash(w)]
  BY Zenon DEF AdvanceOrFail
<1>6. CASE LastRound(w)
  <2> DEFINE rec == [works[w] EXCEPT !.status = "Failed"]
  <2>1. works' = [works EXCEPT ![w] = rec]
    BY Zenon, <1>6 DEF AdvanceOrFail
  <2>2. /\ rec.status = "Failed" /\ rec.round = works[w].round
        /\ rec.owner = works[w].owner /\ rec.package = works[w].package
    BY <1>1, RecordUpdate
  <2> HIDE DEF rec
  <2>3. works'[w] = rec /\ OnlyWork(w)
    BY Zenon, <1>1, <2>1, <2>2 DEF OnlyWork
  <2>4. depositHold' = [depositHold EXCEPT ![works[w].owner] = @ - WorkDeposit]
    BY Zenon, <1>5, <1>6 DEF FailureSlash
  <2> QED BY Zenon, <1>2, <1>3, <1>4, <1>6, <2>2, <2>3, <2>4 DEF MoveEffect, PendingStatuses
<1>7. CASE ~LastRound(w)
  <2> DEFINE rec == [works[w] EXCEPT !.round = @ + 1, !.status = "InsufficientWorkers"]
  <2>1. PrepareRound(w, rec, ClearedAssignments(RoundOf(w)), ClearedEpochs(RoundOf(w)))
    BY Zenon, <1>7 DEF AdvanceOrFail
  <2>2. works[w].round + 1 \in Rounds
    BY Zenon, <1>1, <1>7, RoundAfter DEF LastRound, WorkRecord
  <2>3. rec \in WorkRecord
    BY Zenon, <1>1, <2>2 DEF WorkRecord, WorkStatus, PendingStatuses
  <2>4. /\ rec.round = works[w].round + 1
        /\ rec.owner = works[w].owner /\ rec.package = works[w].package
    BY <1>1, RecordUpdate
  <2> HIDE DEF rec
  <2>5. OnlyWork(w) /\ works'[w].round = works[w].round + 1
        /\ works'[w].status \in {"InsufficientWorkers", "AwaitingCandidate"}
    BY Zenon, <2>1, <2>3, <2>4, PrepareEffect DEF OnlyWork
  <2>6. depositHold' = depositHold
    BY <1>1, <1>5, <1>7 DEF FailureSlash
  <2> QED BY Zenon, <1>2, <1>3, <1>4, <1>7, <2>5, <2>6 DEF MoveEffect, PendingStatuses
<1> QED BY Zenon, <1>6, <1>7

(* accept_candidate returns bond and deposit. *)
LEMMA AcceptEffect ==
    ASSUME StorageInv, NEW w \in DOMAIN works, AcceptedCandidate(w)
    PROVE  MoveEffect(w)
<1>1. works[w] \in WorkRecord /\ works \in [DOMAIN works -> WorkRecord]
  BY Zenon DEF StorageInv, TypeOK, WorkTypeOK
<1> DEFINE rec == [works[w] EXCEPT !.status = "Accepted"]
<1>2. /\ works' = [works EXCEPT ![w] = rec]
      /\ bondHold' = [bondHold EXCEPT ![candidates[RoundOf(w)].submitter] = @ - CandidateBond]
      /\ depositHold' = [depositHold EXCEPT ![works[w].owner] = @ - WorkDeposit]
      /\ UNCHANGED candidates
  BY Zenon DEF AcceptedCandidate, AcceptCandidate
<1>3. /\ rec.status = "Accepted" /\ rec.round = works[w].round
      /\ rec.owner = works[w].owner /\ rec.package = works[w].package
  BY ZenonT(40), <1>1, RecordUpdate
<1> HIDE DEF rec
<1>4. works'[w] = rec /\ OnlyWork(w)
  BY Zenon, <1>1, <1>2, <1>3 DEF OnlyWork
<1>5. ResultAccepts(w) /\ works[w].status = "Voting"
  BY Zenon DEF AcceptedCandidate, ResultAccepts, HasResult
<1> QED BY Zenon, <1>2, <1>3, <1>4, <1>5 DEF MoveEffect, PendingStatuses

(* on_finalize imports accepted works only. *)
LEMMA ExecuteEffect ==
    ASSUME StorageInv, NEW n \in 0..Len(executionQueue), NEW consumed, ExecuteBlockStf(n, consumed)
    PROVE  UNCHANGED moneyVars \/ \E C \in SUBSET DOMAIN works : ImportEffect(C)
<1> DEFINE due == {executionQueue[i].workId : i \in 1..n}
<1>1. UNCHANGED <<candidates, depositHold, bondHold>> /\ consumed \subseteq due
  BY Zenon DEF ExecuteBlockStf
<1>2. CASE \A w \in due : Executable(w)
  <2>1. works' = [w \in DOMAIN works |->
                     IF w \in consumed THEN [works[w] EXCEPT !.status = "Imported"] ELSE works[w]]
    BY Zenon, <1>2 DEF ExecuteBlockStf
  <2>2. \A v \in consumed : v \in DOMAIN works /\ works[v].status = "Accepted"
    BY Zenon, <1>1, <1>2 DEF Executable
  <2>3. ASSUME NEW v \in consumed
        PROVE  /\ works'[v].status = "Imported" /\ works'[v].round = works[v].round
               /\ works'[v].owner = works[v].owner /\ works'[v].package = works[v].package
    <3>1. works[v] \in WorkRecord
      BY Zenon, <2>2 DEF StorageInv, TypeOK, WorkTypeOK
    <3>2. works'[v] = [works[v] EXCEPT !.status = "Imported"]
      BY Zenon, <2>1, <2>2
    <3> QED BY <3>1, <3>2, RecordUpdate
  <2>4. DOMAIN works' = DOMAIN works /\ \A v \in DOMAIN works \ consumed : works'[v] = works[v]
    BY Zenon, <2>1
  <2> QED BY Zenon, <1>1, <2>2, <2>3, <2>4 DEF ImportEffect
<1>3. CASE ~\A w \in due : Executable(w)
  BY Zenon, <1>1, <1>3 DEF ExecuteBlockStf, moneyVars
<1> QED BY Zenon, <1>2, <1>3

(* Every step has one of these effects on works, candidates and holds. *)
LEMMA NextWorkEffect == StorageInv /\ [Next]_vars => WorkEffect
<1> SUFFICES ASSUME StorageInv, [Next]_vars PROVE WorkEffect
  BY Zenon
<1>1. CASE UNCHANGED vars
  BY Zenon, <1>1 DEF vars, minijamVars, workVars, WorkEffect, moneyVars
<1>2. CASE WorkersOnInitialize \/ WorkersCall
  BY Zenon, <1>2 DEF WorkersOnInitialize, WorkersCall, minijamVars, workVars, WorkEffect, moneyVars
<1>3. CASE MiniJamOnInitialize
  <2>1. PICK w \in DOMAIN works :
           \/ RetryAssignment(w) \/ MissedCandidate(w) \/ RejectedCandidate(w)
           \/ AcceptedCandidate(w) \/ SkipWork(w)
    BY Zenon, <1>3 DEF MiniJamOnInitialize
  <2>2. CASE SkipWork(w)
    BY Zenon, <2>2 DEF SkipWork, workVars, WorkEffect, moneyVars
  <2>3. CASE MissedCandidate(w)
    BY Zenon, <2>3, AdvanceEffect DEF MissedCandidate, WorkEffect
  <2>4. CASE RejectedCandidate(w)
    BY Zenon, <2>4, AdvanceEffect DEF RejectedCandidate, WorkEffect
  <2> QED BY Zenon, <2>1, <2>2, <2>3, <2>4, RetryEffect, AcceptEffect DEF WorkEffect
<1>4. CASE MiniJamOnFinalize
  <2>1. PICK n \in 0..Len(executionQueue) :
           (\E consumed \in SUBSET WorkIds : ExecuteBlockStf(n, consumed)) \/ YieldBlockStf(n)
    BY Zenon, <1>4 DEF MiniJamOnFinalize
  <2>2. CASE YieldBlockStf(n)
    BY Zenon, <2>2 DEF YieldBlockStf, minijamVars, workVars, WorkEffect, moneyVars
  <2> QED BY Zenon, <2>1, <2>2, ExecuteEffect DEF WorkEffect
<1>5. CASE MiniJamCall
  <2>1. CASE \/ \E paused \in BOOLEAN : PauseExecution(paused)
             \/ QuarantinePending
             \/ \E a \in Relayers : SetIngressRelayer(a)
    BY Zenon, <2>1 DEF PauseExecution, QuarantinePending, SetIngressRelayer, workVars, WorkEffect, moneyVars
  <2> QED BY Zenon, <1>5, <2>1, SubmitWorkEffect, SubmitCandidateEffect DEF MiniJamCall, WorkEffect
<1> QED BY Zenon, <1>1, <1>2, <1>3, <1>4, <1>5 DEF Next, Hooks
-----------------------------------------------------------------------------
(* The life of a work *)

(* A settled work never changes but for the import of an accepted one. *)
LEMMA ImportsOnceStep ==
    ASSUME WorkEffect
    PROVE  ImportsOnce
<1>1. CASE UNCHANGED moneyVars
  BY Zenon, <1>1 DEF moneyVars, ImportsOnce
<1>2. ASSUME NEW a \in Accounts, NEW p \in Packages, SubmitEffect(a, p) PROVE ImportsOnce
  BY Zenon, <1>2 DEF SubmitEffect, ImportsOnce
<1>3. ASSUME NEW a \in Accounts, NEW w \in DOMAIN works, CandidateEffect(a, w) PROVE ImportsOnce
  BY Zenon, <1>3 DEF CandidateEffect, OnlyWork, ImportsOnce
<1>4. ASSUME NEW w \in DOMAIN works, MoveEffect(w) PROVE ImportsOnce
  BY Zenon, <1>4
  DEF MoveEffect, OnlyWork, ImportsOnce, CandidateOverdue, ResultRejects, ResultAccepts, HasResult
<1>5. ASSUME NEW C \in SUBSET DOMAIN works, ImportEffect(C) PROVE ImportsOnce
  BY Zenon, <1>5 DEF ImportEffect, ImportsOnce
<1> QED BY Zenon, <1>1, <1>2, <1>3, <1>4, <1>5 DEF WorkEffect

(* A work leaves its round only when the round is lost, and fails only in the *)
(* last one.                                                                  *)
LEMMA AdvancesWhenDueStep ==
    ASSUME StorageInv, WorkEffect
    PROVE  AdvancesWhenDue
<1> USE DEF AdvancesWhenDue
<1>0. ASSUME NEW w \in DOMAIN works
      PROVE  works[w].round \in Int /\ (LastRound(w) <=> works[w].round = MaxCandidateRounds - 1)
  <2>1. works[w].round \in 0..(MaxCandidateRounds - 1) /\ MaxCandidateRounds \in Nat
    BY Zenon, MiniJamAssumption DEF StorageInv, TypeOK, WorkTypeOK, WorkRecord
  <2> QED BY <2>1 DEF LastRound
<1>1. CASE UNCHANGED moneyVars
  BY Zenon, <1>1 DEF moneyVars
<1>2. ASSUME NEW a \in Accounts, NEW p \in Packages, SubmitEffect(a, p) PROVE AdvancesWhenDue
  BY Zenon, <1>2 DEF SubmitEffect
<1>3. ASSUME NEW a \in Accounts, NEW w \in DOMAIN works, CandidateEffect(a, w)
      PROVE  AdvancesWhenDue
  BY Zenon, <1>3 DEF CandidateEffect, OnlyWork
<1>4. ASSUME NEW w \in DOMAIN works, MoveEffect(w) PROVE AdvancesWhenDue
  BY Zenon, <1>0, <1>4 DEF MoveEffect, OnlyWork
<1>5. ASSUME NEW C \in SUBSET DOMAIN works, ImportEffect(C) PROVE AdvancesWhenDue
  BY Zenon, <1>5 DEF ImportEffect
<1> QED BY Zenon, <1>1, <1>2, <1>3, <1>4, <1>5 DEF WorkEffect

(* A package is submitted once. *)
LEMMA PackagesStep ==
    ASSUME PackagesDistinct, WorkEffect
    PROVE  PackagesDistinct'
<1> USE DEF PackagesDistinct
<1>1. CASE UNCHANGED moneyVars
  BY Zenon, <1>1 DEF moneyVars
<1>2. ASSUME NEW a \in Accounts, NEW p \in Packages, SubmitEffect(a, p) PROVE PackagesDistinct'
  BY Zenon, <1>2 DEF SubmitEffect
<1>3. ASSUME NEW a \in Accounts, NEW w \in DOMAIN works, CandidateEffect(a, w)
      PROVE  PackagesDistinct'
  BY <1>3 DEF CandidateEffect, OnlyWork
<1>4. ASSUME NEW w \in DOMAIN works, MoveEffect(w) PROVE PackagesDistinct'
  <2>1. OnlyWork(w)
    BY Zenon, <1>4 DEF MoveEffect
  <2> QED BY <2>1 DEF OnlyWork
<1>5. ASSUME NEW C \in SUBSET DOMAIN works, ImportEffect(C) PROVE PackagesDistinct'
  BY <1>5 DEF ImportEffect
<1> QED BY Zenon, <1>1, <1>2, <1>3, <1>4, <1>5 DEF WorkEffect
-----------------------------------------------------------------------------
(* Deposits *)

(* One deposit is held for each unsettled work. *)
LEMMA DepositsStep ==
    ASSUME StorageInv, Counts(WorkIds), DepositsExact, WorkEffect
    PROVE  DepositsExact'
<1> SUFFICES ASSUME NEW a \in Accounts
             PROVE  depositHold'[a] = WorkDeposit * Cardinality(UnsettledOf(a)')
  BY Zenon DEF DepositsExact
<1>0. /\ DOMAIN works \subseteq WorkIds /\ depositHold \in [Accounts -> Nat]
      /\ \A w \in DOMAIN works : works[w].owner \in Accounts
      /\ WorkDeposit \in Nat
      /\ depositHold[a] = WorkDeposit * Cardinality(UnsettledOf(a))
      /\ UnsettledOf(a) \in SUBSET WorkIds
  BY Zenon, MiniJamAssumption
  DEF StorageInv, TypeOK, WorkTypeOK, WorkRecord, DepositsExact, UnsettledOf
<1> DEFINE same == UnsettledOf(a)' = UnsettledOf(a) /\ depositHold'[a] = depositHold[a]
<1>1. CASE UNCHANGED moneyVars
  <2>1. same
    BY Zenon, <1>1 DEF moneyVars, UnsettledOf
  <2> QED BY Zenon, <1>0, <2>1
<1>2. ASSUME NEW b \in Accounts, NEW p \in Packages, SubmitEffect(b, p)
      PROVE  depositHold'[a] = WorkDeposit * Cardinality(UnsettledOf(a)')
  <2>1. PICK n : n = NextWorkId
    BY Zenon
  <2>2. /\ DOMAIN works' = DOMAIN works \cup {n} /\ n \notin DOMAIN works
        /\ \A v \in DOMAIN works : works'[v] = works[v]
        /\ works'[n].owner = b /\ works'[n].status \in PendingStatuses
    BY Zenon, <1>2, <2>1 DEF SubmitEffect, PendingStatuses
  <2>3. depositHold' = [depositHold EXCEPT ![b] = @ + WorkDeposit]
    BY Zenon, <1>2 DEF SubmitEffect
  <2>4. CASE a # b
    <3>1. same
      BY Zenon, <1>0, <2>2, <2>3, <2>4 DEF UnsettledOf
    <3> QED BY Zenon, <1>0, <3>1
  <2>5. CASE a = b
    <3>1. UnsettledOf(a)' = UnsettledOf(a) \cup {n} /\ n \notin UnsettledOf(a)
      BY Zenon, <2>2, <2>5 DEF UnsettledOf
    <3>2. n \in WorkIds
      BY Zenon, <1>2, <2>1 DEF SubmitEffect
    <3>3. Cardinality(UnsettledOf(a)) \in Nat
          /\ Cardinality(UnsettledOf(a) \cup {n}) = Cardinality(UnsettledOf(a)) + 1
      BY Zenon, <1>0, <3>1, <3>2, CountAdd
    <3> QED BY <1>0, <2>3, <2>5, <3>1, <3>3, OneMore
  <2> QED BY Zenon, <2>4, <2>5
<1>3. ASSUME NEW b \in Accounts, NEW w \in DOMAIN works, CandidateEffect(b, w)
      PROVE  depositHold'[a] = WorkDeposit * Cardinality(UnsettledOf(a)')
  <2>1. same
    BY <1>3 DEF CandidateEffect, OnlyWork, UnsettledOf, PendingStatuses
  <2> QED BY Zenon, <1>0, <2>1
<1>4. ASSUME NEW w \in DOMAIN works, MoveEffect(w)
      PROVE  depositHold'[a] = WorkDeposit * Cardinality(UnsettledOf(a)')
  <2>1. OnlyWork(w) /\ works[w].status \in PendingStatuses
    BY Zenon, <1>4 DEF MoveEffect, PendingStatuses, CandidateOverdue, ResultRejects, ResultAccepts, HasResult
  <2>2. CASE works'[w].status \in PendingStatuses
    <3>1. same
      BY Zenon, <1>4, <2>1, <2>2 DEF MoveEffect, OnlyWork, UnsettledOf
    <3> QED BY Zenon, <1>0, <3>1
  <2>3. CASE works'[w].status \notin PendingStatuses
    <3>1. depositHold' = [depositHold EXCEPT ![works[w].owner] = @ - WorkDeposit]
      BY Zenon, <1>4, <2>3 DEF MoveEffect
    <3>2. CASE a # works[w].owner
      <4>1. same
        BY Zenon, <1>0, <2>1, <2>3, <3>1, <3>2 DEF OnlyWork, UnsettledOf
      <4> QED BY Zenon, <1>0, <4>1
    <3>3. CASE a = works[w].owner
      <4>1. UnsettledOf(a)' = UnsettledOf(a) \ {w} /\ w \in UnsettledOf(a)
        BY Zenon, <2>1, <2>3, <3>3 DEF OnlyWork, UnsettledOf
      <4>2. /\ Cardinality(UnsettledOf(a) \ {w}) \in Nat
            /\ Cardinality(UnsettledOf(a)) = Cardinality(UnsettledOf(a) \ {w}) + 1
        BY Zenon, <1>0, <4>1, CountRemove
      <4> QED BY <1>0, <3>1, <3>3, <4>1, <4>2, OneMore
    <3> QED BY Zenon, <3>2, <3>3
  <2> QED BY Zenon, <2>2, <2>3
<1>5. ASSUME NEW C \in SUBSET DOMAIN works, ImportEffect(C)
      PROVE  depositHold'[a] = WorkDeposit * Cardinality(UnsettledOf(a)')
  <2>1. same
    BY Zenon, <1>5 DEF ImportEffect, UnsettledOf, PendingStatuses
  <2> QED BY Zenon, <1>0, <2>1
<1> QED BY Zenon, <1>1, <1>2, <1>3, <1>4, <1>5 DEF WorkEffect
-----------------------------------------------------------------------------
(* Bonds *)

(* One bond is held for each candidate that is being voted on. *)
LEMMA BondsStep ==
    ASSUME StorageInv, Counts(WorkIds), BondsExact, WorkEffect
    PROVE  BondsExact'
<1> SUFFICES ASSUME NEW a \in Accounts
             PROVE  bondHold'[a] = CandidateBond * Cardinality(VotingOf(a)')
  BY Zenon DEF BondsExact
<1>0. /\ DOMAIN works \subseteq WorkIds /\ bondHold \in [Accounts -> Nat]
      /\ CandidateBond \in Nat
      /\ bondHold[a] = CandidateBond * Cardinality(VotingOf(a))
      /\ VotingOf(a) \in SUBSET WorkIds
  BY Zenon, MiniJamAssumption DEF StorageInv, TypeOK, WorkTypeOK, BondsExact, VotingOf
<1>6. \A w \in DOMAIN works : works[w].status = "Voting" =>
         RoundOf(w) \in DOMAIN candidates /\ candidates[RoundOf(w)].submitter \in Accounts
  BY Zenon DEF StorageInv, TypeOK, WorkTypeOK, IsMap, CandidateRecord, RoundStateCoherent
<1> DEFINE same == VotingOf(a)' = VotingOf(a) /\ bondHold'[a] = bondHold[a]
<1>1. CASE UNCHANGED moneyVars
  <2>1. same
    BY Zenon, <1>1 DEF moneyVars, VotingOf, RoundOf
  <2> QED BY Zenon, <1>0, <2>1
<1>2. ASSUME NEW b \in Accounts, NEW p \in Packages, SubmitEffect(b, p)
      PROVE  bondHold'[a] = CandidateBond * Cardinality(VotingOf(a)')
  <2>1. same
    BY Zenon, <1>2 DEF SubmitEffect, VotingOf, RoundOf
  <2> QED BY Zenon, <1>0, <2>1
<1>3. ASSUME NEW b \in Accounts, NEW w \in DOMAIN works, CandidateEffect(b, w)
      PROVE  bondHold'[a] = CandidateBond * Cardinality(VotingOf(a)')
  <2>1. /\ OnlyWork(w) /\ works[w].status # "Voting" /\ works'[w].status = "Voting"
        /\ RoundOf(w)' = RoundOf(w)
        /\ \A v \in DOMAIN works \ {w} : RoundOf(v)' = RoundOf(v) /\ RoundOf(v) # RoundOf(w)
    BY Zenon, <1>3 DEF CandidateEffect, OnlyWork, RoundOf
  <2>2. /\ \A key \in DOMAIN candidates \ {RoundOf(w)} : candidates'[key] = candidates[key]
        /\ candidates'[RoundOf(w)].submitter = b
        /\ bondHold' = [bondHold EXCEPT ![b] = @ + CandidateBond]
    BY Zenon, <1>3 DEF CandidateEffect
  <2>3. ASSUME NEW v \in DOMAIN works, v # w
        PROVE  v \in VotingOf(a)' <=> v \in VotingOf(a)
    BY Zenon, <1>6, <2>1, <2>2, <2>3 DEF OnlyWork, VotingOf
  <2>4. w \notin VotingOf(a) /\ (w \in VotingOf(a)' <=> a = b)
    BY Zenon, <2>1, <2>2 DEF OnlyWork, VotingOf
  <2>5. VotingOf(a) \subseteq DOMAIN works /\ VotingOf(a)' \subseteq DOMAIN works
    BY Zenon, <2>1 DEF OnlyWork, VotingOf
  <2>6. CASE a # b
    <3>1. same
      BY <1>0, <2>2, <2>3, <2>4, <2>5, <2>6
    <3> QED BY Zenon, <1>0, <3>1
  <2>7. CASE a = b
    <3>1. VotingOf(a)' = VotingOf(a) \cup {w}
      BY Zenon, <2>3, <2>4, <2>5, <2>7
    <3>2. Cardinality(VotingOf(a)) \in Nat
          /\ Cardinality(VotingOf(a) \cup {w}) = Cardinality(VotingOf(a)) + 1
      BY Zenon, <1>0, <2>4, CountAdd
    <3> QED BY <1>0, <2>2, <2>7, <3>1, <3>2, OneMore
  <2> QED BY Zenon, <2>6, <2>7
<1>4. ASSUME NEW w \in DOMAIN works, MoveEffect(w)
      PROVE  bondHold'[a] = CandidateBond * Cardinality(VotingOf(a)')
  <2>1. OnlyWork(w) /\ works'[w].status # "Voting" /\ UNCHANGED candidates
    BY Zenon, <1>4 DEF MoveEffect
  <2>2. VotingOf(a)' = VotingOf(a) \ {w}
    BY Zenon, <2>1 DEF OnlyWork, VotingOf, RoundOf
  <2>3. CASE works[w].status # "Voting" \/ candidates[RoundOf(w)].submitter # a
    <3>1. w \notin VotingOf(a)
      BY Zenon, <2>3 DEF VotingOf
    <3>2. bondHold'[a] = bondHold[a]
      BY Zenon, <1>0, <1>4, <1>6, <2>3 DEF MoveEffect
    <3> QED BY Zenon, <1>0, <2>2, <3>1, <3>2
  <2>4. CASE works[w].status = "Voting" /\ candidates[RoundOf(w)].submitter = a
    <3>1. w \in VotingOf(a)
      BY Zenon, <2>4 DEF VotingOf
    <3>2. /\ Cardinality(VotingOf(a) \ {w}) \in Nat
          /\ Cardinality(VotingOf(a)) = Cardinality(VotingOf(a) \ {w}) + 1
      BY Zenon, <1>0, <3>1, CountRemove
    <3>3. bondHold'[a] = bondHold[a] - CandidateBond
      BY Zenon, <1>0, <1>4, <2>4 DEF MoveEffect
    <3> QED BY <1>0, <2>2, <3>2, <3>3, OneMore
  <2> QED BY Zenon, <2>3, <2>4
<1>5. ASSUME NEW C \in SUBSET DOMAIN works, ImportEffect(C)
      PROVE  bondHold'[a] = CandidateBond * Cardinality(VotingOf(a)')
  <2>1. same
    BY <1>5 DEF ImportEffect, VotingOf, RoundOf
  <2> QED BY Zenon, <1>0, <2>1
<1> QED BY Zenon, <1>1, <1>2, <1>3, <1>4, <1>5 DEF WorkEffect
-----------------------------------------------------------------------------
(* Refinement of WorkLife *)

(* What WorkLife sees of the packages that some work carries, and of the rest *)
LifeSeen ==
    /\ DOMAIN lifeOf = Packages /\ DOMAIN ownerOf = Submitted /\ Submitted \subseteq Packages
    /\ \A p \in Packages \ Submitted : lifeOf[p] = "unknown"
    /\ \A w \in DOMAIN works : /\ works[w].package \in Submitted
                               /\ lifeOf[works[w].package] = StageOf(works[w].status)
                               /\ ownerOf[works[w].package] = works[w].owner

(* The work that carries a package is the only one that does, so WorkLife     *)
(* sees its status and its owner.                                             *)
LEMMA LifeIsSeen == WorkTypeOK /\ PackagesDistinct => LifeSeen
<1> SUFFICES ASSUME WorkTypeOK, PackagesDistinct PROVE LifeSeen
  BY Zenon
<1>1. \A w \in DOMAIN works : works[w].package \in Packages
  BY Zenon DEF WorkTypeOK, WorkRecord
<1>2. Submitted \subseteq Packages /\ \A w \in DOMAIN works : works[w].package \in Submitted
  BY Zenon, <1>1 DEF Submitted
<1>3. ASSUME NEW w \in DOMAIN works PROVE WorkOf(works[w].package) = w
  BY Zenon DEF WorkOf, PackagesDistinct
<1>4. DOMAIN lifeOf = Packages /\ DOMAIN ownerOf = Submitted
  BY Zenon DEF lifeOf, ownerOf
<1>5. \A p \in Packages : lifeOf[p] = IF p \in Submitted THEN StageOf(works[WorkOf(p)].status)
                                                         ELSE "unknown"
  BY Zenon DEF lifeOf
<1>6. \A p \in Submitted : ownerOf[p] = works[WorkOf(p)].owner
  BY Zenon DEF ownerOf
<1> QED BY Zenon, <1>1, <1>2, <1>3, <1>4, <1>5, <1>6 DEF LifeSeen

(* The same after a step. *)
LEMMA LifeIsSeenNext == (WorkTypeOK /\ PackagesDistinct => LifeSeen)'
  BY LifeIsSeen, PTL

(* A work that does not change is not seen to change. *)
LEMMA SeenSame ==
    ASSUME LifeSeen, LifeSeen', NEW v \in DOMAIN works, v \in DOMAIN works', works'[v] = works[v]
    PROVE  /\ lifeOf'[works[v].package] = lifeOf[works[v].package]
           /\ ownerOf'[works[v].package] = ownerOf[works[v].package]
  BY DEF LifeSeen

(* A package that no other work carries is seen to change with its work only. *)
LEMMA LifeElsewhere ==
    ASSUME LifeSeen, LifeSeen', NEW w, OnlyWork(w), NEW p \in Packages,
           w \in DOMAIN works, p # works[w].package
    PROVE  lifeOf'[p] = lifeOf[p]
<1>1. Submitted' = Submitted
  BY Zenon DEF Submitted, OnlyWork
<1>2. CASE p \notin Submitted
  BY Zenon, <1>1, <1>2 DEF LifeSeen
<1>3. CASE p \in Submitted
  <2>1. PICK v \in DOMAIN works : works[v].package = p
    BY Zenon, <1>3 DEF Submitted
  <2>2. works'[v] = works[v] /\ v \in DOMAIN works'
    BY Zenon, <2>1 DEF OnlyWork
  <2> QED BY Zenon, <2>1, <2>2, SeenSame
<1> QED BY Zenon, <1>2, <1>3

(* Owners are seen to stay while works keep theirs. *)
LEMMA OwnersKept ==
    ASSUME LifeSeen, LifeSeen', DOMAIN works' = DOMAIN works,
           \A v \in DOMAIN works : /\ works'[v].owner = works[v].owner
                                   /\ works'[v].package = works[v].package
    PROVE  ownerOf' = ownerOf
<1>1. Submitted' = Submitted
  BY Zenon DEF Submitted
<1>2. ASSUME NEW p \in Submitted PROVE ownerOf'[p] = ownerOf[p]
  <2>1. PICK v \in DOMAIN works : works[v].package = p
    BY Zenon DEF Submitted
  <2> QED BY Zenon, <2>1 DEF LifeSeen
<1>3. ownerOf = [p \in Submitted |-> ownerOf[p]] /\ ownerOf' = [p \in Submitted |-> ownerOf'[p]]
  BY Zenon, <1>1 DEF ownerOf
<1> QED BY Zenon, <1>2, <1>3

(* A step of one work is a settlement of its package, or is not seen. *)
LEMMA LifeOfMove ==
    ASSUME LifeSeen, LifeSeen', NEW w \in DOMAIN works, OnlyWork(w),
           works[w].status \in PendingStatuses, works'[w].status \in WorkStatus \ {"Imported"},
           depositHold' = IF works'[w].status \in PendingStatuses THEN depositHold
                          ELSE [depositHold EXCEPT ![works[w].owner] = @ - WorkDeposit]
    PROVE  [Life!LifeNext]_(Life!lifeVars)
<1>1. PICK p \in Packages : p = works[w].package
  BY Zenon DEF LifeSeen
<1>2. /\ lifeOf[p] = "pending" /\ ownerOf[p] = works[w].owner
      /\ lifeOf'[p] = StageOf(works'[w].status)
  BY ZenonT(40), <1>1 DEF LifeSeen, StageOf, OnlyWork
<1>3. UNCHANGED ownerOf
  BY Zenon, OwnersKept DEF OnlyWork
<1>4. \A q \in Packages \ {p} : lifeOf'[q] = lifeOf[q]
  BY Zenon, <1>1, LifeElsewhere
<1>5. /\ DOMAIN lifeOf = Packages /\ lifeOf = [q \in Packages |-> lifeOf[q]]
      /\ lifeOf' = [q \in Packages |-> lifeOf'[q]]
  BY Zenon DEF lifeOf
<1>6. CASE works'[w].status \in PendingStatuses
  <2>1. lifeOf'[p] = "pending" /\ UNCHANGED depositHold
    BY Zenon, <1>2, <1>6 DEF StageOf
  <2>2. UNCHANGED lifeOf
    BY <1>2, <1>4, <1>5, <2>1
  <2> QED BY Zenon, <1>3, <2>1, <2>2 DEF Life!lifeVars
<1>7. CASE works'[w].status \notin PendingStatuses
  <2>1. PICK stage \in {"accepted", "failed"} : lifeOf'[p] = stage
    BY Zenon, <1>2, <1>7 DEF StageOf, WorkStatus
  <2>2. lifeOf' = [lifeOf EXCEPT ![p] = stage]
    BY Zenon, <1>4, <1>5, <2>1
  <2>3. depositHold' = [depositHold EXCEPT ![ownerOf[p]] = @ - WorkDeposit]
    BY Zenon, <1>2, <1>7
  <2>4. Life!Settle(p, stage)
    BY Zenon, <1>2, <1>3, <2>2, <2>3 DEF Life!Settle
  <2> QED BY Zenon, <2>1, <2>4 DEF Life!LifeNext
<1> QED BY Zenon, <1>6, <1>7

(* A submission is seen as the submission of its package. *)
LEMMA LifeOfSubmit ==
    ASSUME LifeSeen, LifeSeen', NEW a \in Accounts, NEW p \in Packages, SubmitEffect(a, p)
    PROVE  Life!LifeNext
<1>1. PICK n : n = NextWorkId
  BY Zenon
<1>2. /\ DOMAIN works' = DOMAIN works \cup {n} /\ n \notin DOMAIN works
      /\ \A v \in DOMAIN works : works'[v] = works[v] /\ works[v].package # p
      /\ works'[n].owner = a /\ works'[n].package = p /\ works'[n].status \in PendingStatuses
      /\ depositHold' = [depositHold EXCEPT ![a] = @ + WorkDeposit]
  BY Zenon, <1>1 DEF SubmitEffect, PendingStatuses
<1>3. Submitted' = Submitted \cup {p} /\ p \notin Submitted
  BY Zenon, <1>2 DEF Submitted
<1>4. lifeOf[p] = "unknown" /\ lifeOf'[p] = "pending" /\ ownerOf'[p] = a
  BY Zenon, <1>2, <1>3 DEF LifeSeen, StageOf
<1>5. ASSUME NEW q \in Packages \ {p} PROVE lifeOf'[q] = lifeOf[q]
  <2>1. CASE q \notin Submitted
    BY Zenon, <1>3, <2>1 DEF LifeSeen
  <2>2. CASE q \in Submitted
    <3>1. PICK v \in DOMAIN works : works[v].package = q
      BY Zenon, <2>2 DEF Submitted
    <3>2. works'[v] = works[v] /\ v \in DOMAIN works'
      BY Zenon, <1>2, <3>1
    <3> QED BY Zenon, <3>1, <3>2, SeenSame
  <2> QED BY Zenon, <2>1, <2>2
<1>6. ASSUME NEW q \in Submitted PROVE ownerOf'[q] = ownerOf[q]
  <2>1. PICK v \in DOMAIN works : works[v].package = q
    BY Zenon DEF Submitted
  <2>2. works'[v] = works[v] /\ v \in DOMAIN works'
    BY Zenon, <1>2, <2>1
  <2> QED BY Zenon, <2>1, <2>2, SeenSame
<1>7. lifeOf = [q \in Packages |-> lifeOf[q]] /\ lifeOf' = [q \in Packages |-> lifeOf'[q]]
  BY Zenon DEF lifeOf
<1>8. ownerOf' = [q \in Submitted \cup {p} |-> ownerOf'[q]] /\ DOMAIN ownerOf = Submitted
  BY Zenon, <1>3 DEF ownerOf
<1>9. lifeOf' = [lifeOf EXCEPT ![p] = "pending"]
  BY Zenon, <1>4, <1>5, <1>7
<1>10. ownerOf' = [q \in DOMAIN ownerOf \cup {p} |-> IF q = p THEN a ELSE ownerOf[q]]
  BY Zenon, <1>3, <1>4, <1>6, <1>8
<1>11. Life!Submit(p, a)
  BY Zenon, <1>2, <1>4, <1>9, <1>10 DEF Life!Submit
<1> QED BY Zenon, <1>11 DEF Life!LifeNext

(* The works that a block imports are seen as the import of their packages. *)
LEMMA LifeOfImport ==
    ASSUME LifeSeen, LifeSeen', PackagesDistinct, NEW C \in SUBSET DOMAIN works, ImportEffect(C)
    PROVE  Life!LifeNext
<1> DEFINE P == {works[v].package : v \in C}
<1>1. /\ DOMAIN works' = DOMAIN works
      /\ \A v \in DOMAIN works \ C : works'[v] = works[v]
      /\ \A v \in C : works[v].status = "Accepted" /\ works'[v].status = "Imported"
      /\ \A v \in DOMAIN works : /\ works'[v].owner = works[v].owner
                                 /\ works'[v].package = works[v].package
      /\ UNCHANGED depositHold
  BY Zenon DEF ImportEffect
<1>2. P \in SUBSET Packages
  BY Zenon DEF LifeSeen
<1>3. UNCHANGED ownerOf /\ Submitted' = Submitted
  BY <1>1, OwnersKept DEF Submitted
<1>4. ASSUME NEW p \in P PROVE lifeOf[p] = "accepted" /\ lifeOf'[p] = "imported"
  <2>1. PICK v \in C : works[v].package = p
    BY Zenon
  <2> QED BY <1>1, <2>1 DEF LifeSeen, StageOf, PendingStatuses
<1>5. ASSUME NEW p \in Packages \ P PROVE lifeOf'[p] = lifeOf[p]
  <2>1. CASE p \notin Submitted
    BY Zenon, <1>3, <2>1 DEF LifeSeen
  <2>2. CASE p \in Submitted
    <3>1. PICK v \in DOMAIN works : works[v].package = p
      BY Zenon, <2>2 DEF Submitted
    <3>2. v \notin C
      BY Zenon, <3>1
    <3>3. works'[v] = works[v] /\ v \in DOMAIN works'
      BY Zenon, <1>1, <3>1, <3>2
    <3> QED BY Zenon, <3>1, <3>3, SeenSame
  <2> QED BY Zenon, <2>1, <2>2
<1>6. lifeOf' = [p \in Packages |-> lifeOf'[p]]
  BY Zenon DEF lifeOf
<1> HIDE DEF P
<1>7. lifeOf' = [p \in Packages |-> IF p \in P THEN "imported" ELSE lifeOf[p]]
  BY Zenon, <1>2, <1>4, <1>5, <1>6
<1>8. Life!Import(P)
  BY Zenon, <1>1, <1>3, <1>4, <1>7 DEF Life!Import
<1> QED BY Zenon, <1>2, <1>8 DEF Life!LifeNext

(* Every step of the two pallets is a step of WorkLife, or is not seen. *)
LEMMA LifeStep ==
    ASSUME StorageInv, StorageInv', PackagesDistinct, PackagesDistinct', WorkEffect
    PROVE  [Life!LifeNext]_(Life!lifeVars)
<1>1. LifeSeen /\ LifeSeen'
  BY Zenon, LifeIsSeen, LifeIsSeenNext DEF StorageInv, TypeOK
<1>2. CASE UNCHANGED moneyVars
  BY <1>2 DEF moneyVars, lifeOf, ownerOf, Submitted, WorkOf, Life!lifeVars
<1>3. ASSUME NEW a \in Accounts, NEW w \in DOMAIN works, CandidateEffect(a, w)
      PROVE  [Life!LifeNext]_(Life!lifeVars)
  <2>1. /\ OnlyWork(w) /\ works[w].status \in PendingStatuses
        /\ works'[w].status \in PendingStatuses /\ works'[w].status \in WorkStatus \ {"Imported"}
        /\ UNCHANGED depositHold
    BY Zenon, <1>3 DEF CandidateEffect, WorkStatus, PendingStatuses
  <2> QED BY Zenon, <1>1, <2>1, LifeOfMove
<1>4. ASSUME NEW w \in DOMAIN works, MoveEffect(w) PROVE [Life!LifeNext]_(Life!lifeVars)
  <2>1. /\ OnlyWork(w) /\ works[w].status \in PendingStatuses
        /\ works'[w].status \in WorkStatus \ {"Imported"}
    BY Zenon, <1>4 DEF MoveEffect, PendingStatuses, WorkStatus, CandidateOverdue, ResultRejects,
                ResultAccepts, HasResult
  <2>2. depositHold' = IF works'[w].status \in PendingStatuses THEN depositHold
                       ELSE [depositHold EXCEPT ![works[w].owner] = @ - WorkDeposit]
    BY Zenon, <1>4 DEF MoveEffect
  <2> QED BY Zenon, <1>1, <2>1, <2>2, LifeOfMove
<1> QED BY Zenon, <1>1, <1>2, <1>3, <1>4, LifeOfSubmit, LifeOfImport DEF WorkEffect
-----------------------------------------------------------------------------
(* Effects on rounds *)

roundVars == <<works, candidates, assignments, assignmentEpochs, votingRounds, votes, roundResults>>

(* The assignment of key and the epoch it was made in stay *)
KeepsAssignment(key) ==
    /\ key \in DOMAIN assignments'
    /\ assignments'[key] = assignments[key]
    /\ assignmentEpochs'[key] = assignmentEpochs[key]

(* A round of w begins or ends; the other works are left alone *)
ReassignEffect(w) ==
    /\ DOMAIN works' = DOMAIN works \cup {w}
    /\ \A v \in DOMAIN works \ {w} : works'[v] = works[v]
    /\ \A key \in DOMAIN assignments : key[1] # w => KeepsAssignment(key)
    /\ UNCHANGED <<votingRounds, roundResults, candidates>>
    /\ \/ /\ w \notin DOMAIN works \/ works[w].status = "InsufficientWorkers"
          /\ UNCHANGED votes
       \/ /\ w \in DOMAIN works
          /\ CandidateOverdue(w) \/ HasResult(w)
          /\ votes' = ClearedVotes(RoundOf(w))
    /\ ResultAccepts(w) => works'[w].status = "Accepted" /\ works'[w].round = works[w].round
    /\ works'[w].status # "Voting"

(* The candidate of w is put to the vote *)
OpenEffect(a, w) ==
    /\ CandidateEffect(a, w)
    /\ OpenVoting(RoundOf(w), now + VoteWindow)
    /\ candidates'[RoundOf(w)].voteDeadline = now + VoteWindow
    /\ UNCHANGED <<assignments, assignmentEpochs>>

(* A worker votes *)
VoteEffect(key, w, verdict) ==
    /\ SubmitVote(key, w, verdict)
    /\ UNCHANGED <<works, candidates>>

(* A vote ends at its deadline *)
DueEffect(key) ==
    /\ key \in DOMAIN votingRounds
    /\ now > votingRounds[key].deadline
    /\ FinalizeVoting(key, Voters(key), votingRounds[key].locked)
    /\ UNCHANGED <<votes, works, candidates, assignments, assignmentEpochs>>

RoundEffect ==
    \/ UNCHANGED roundVars
    \/ \E C \in SUBSET DOMAIN works :
          ImportEffect(C) /\ UNCHANGED <<assignments, assignmentEpochs, votingVars>>
    \/ \E w \in WorkIds : ReassignEffect(w)
    \/ \E a \in Accounts, w \in DOMAIN works : OpenEffect(a, w)
    \/ \E key \in DOMAIN votingRounds, w \in Registered, verdict \in {"Support", "Oppose"} :
          VoteEffect(key, w, verdict)
    \/ \E key \in DOMAIN votingRounds : DueEffect(key)

(* prepare_round touches the assignment of the new round only. *)
LEMMA PrepareKeeps ==
    ASSUME NEW w, NEW rec, NEW as0, NEW epochs0, PrepareRound(w, rec, as0, epochs0),
           NEW key, key # <<w, rec.round>>, key \in DOMAIN as0, key \in DOMAIN epochs0,
           as0[key] = assignments[key], epochs0[key] = assignmentEpochs[key]
    PROVE  KeepsAssignment(key)
<1>1. CASE assignments' = as0 /\ assignmentEpochs' = epochs0
  BY Zenon, <1>1 DEF KeepsAssignment
<1>2. ASSUME NEW W, assignments' = Insert(as0, <<w, rec.round>>, W),
             assignmentEpochs' = Insert(epochs0, <<w, rec.round>>, currentEpoch)
      PROVE  KeepsAssignment(key)
  BY Zenon, <1>2 DEF KeepsAssignment, Insert
<1> QED BY Zenon, <1>1, <1>2 DEF PrepareRound, AssignWork

(* A new work and a work that had no workers begin a round. *)
LEMMA BeginEffect ==
    ASSUME StorageInv, NEW w \in WorkIds, NEW rec \in WorkRecord,
           PrepareRound(w, rec, assignments, assignmentEpochs),
           \/ w \notin DOMAIN works
           \/ w \in DOMAIN works /\ works[w].status = "InsufficientWorkers" /\ rec.round = works[w].round,
           UNCHANGED <<votingVars, candidates>>
    PROVE  ReassignEffect(w)
<1>1. /\ DOMAIN works' = DOMAIN works \cup {w}
      /\ \A v \in DOMAIN works \ {w} : works'[v] = works[v]
      /\ works'[w].status \in {"InsufficientWorkers", "AwaitingCandidate"}
  BY Zenon, PrepareEffect
<1>2. ASSUME NEW key \in DOMAIN assignments, key[1] # w PROVE KeepsAssignment(key)
  <2>1. key \in DOMAIN assignmentEpochs /\ key # <<w, rec.round>>
    BY Zenon, <1>2 DEF StorageInv, RoundStateCoherent
  <2> QED BY Zenon, <2>1, PrepareKeeps
<1>3. ~ResultAccepts(w)
  <2>1. CASE w \in DOMAIN works
    BY Zenon, <2>1 DEF ResultAccepts, HasResult
  <2>2. CASE w \notin DOMAIN works
    BY <2>2 DEF ResultAccepts, HasResult, StorageInv, RoundsReached, RoundOf
  <2> QED BY Zenon, <2>1, <2>2
<1>4. works'[w].status # "Voting" /\ UNCHANGED <<votes, votingRounds, roundResults, candidates>>
  BY Zenon, <1>1 DEF votingVars
<1> QED BY Zenon, <1>1, <1>2, <1>3, <1>4 DEF ReassignEffect

(* advance_or_fail ends a round and begins the next one or none. *)
LEMMA AdvanceRoundEffect ==
    ASSUME StorageInv, NEW w \in DOMAIN works, NEW rejected \in BOOLEAN,
           IF rejected THEN ResultRejects(w) ELSE CandidateOverdue(w),
           AdvanceOrFail(w, rejected)
    PROVE  ReassignEffect(w)
<1>1. MoveEffect(w)
  BY Zenon, AdvanceEffect
<1>2. /\ DOMAIN works' = DOMAIN works \cup {w}
      /\ \A v \in DOMAIN works \ {w} : works'[v] = works[v]
      /\ works'[w].status # "Voting"
  BY Zenon, <1>1 DEF MoveEffect, OnlyWork
<1>3. /\ votes' = ClearedVotes(RoundOf(w))
      /\ UNCHANGED <<votingRounds, roundResults, candidates>>
  BY Zenon DEF AdvanceOrFail
<1>4. CandidateOverdue(w) \/ HasResult(w)
  BY Zenon DEF ResultRejects
<1>5. ~ResultAccepts(w)
  BY Zenon DEF ResultRejects, ResultAccepts, HasResult, CandidateOverdue
<1>6. ASSUME NEW key \in DOMAIN assignments, key[1] # w PROVE KeepsAssignment(key)
  <2>1. key \in DOMAIN assignmentEpochs /\ key # RoundOf(w)
    BY Zenon, <1>6 DEF StorageInv, RoundStateCoherent, RoundOf
  <2>2. /\ key \in DOMAIN ClearedAssignments(RoundOf(w))
        /\ key \in DOMAIN ClearedEpochs(RoundOf(w))
        /\ ClearedAssignments(RoundOf(w))[key] = assignments[key]
        /\ ClearedEpochs(RoundOf(w))[key] = assignmentEpochs[key]
    BY Zenon, <2>1 DEF ClearedAssignments, ClearedEpochs, RemoveAll
  <2>3. CASE LastRound(w)
    BY Zenon, <2>2, <2>3 DEF AdvanceOrFail, KeepsAssignment
  <2>4. CASE ~LastRound(w)
    <3> DEFINE rec == [works[w] EXCEPT !.round = @ + 1, !.status = "InsufficientWorkers"]
    <3>1. PrepareRound(w, rec, ClearedAssignments(RoundOf(w)), ClearedEpochs(RoundOf(w)))
      BY Zenon, <2>4 DEF AdvanceOrFail
    <3>2. key # <<w, rec.round>>
      BY <1>6
    <3> HIDE DEF rec
    <3> QED BY Zenon, <2>2, <3>1, <3>2, PrepareKeeps
  <2> QED BY Zenon, <2>3, <2>4
<1> QED BY Zenon, <1>2, <1>3, <1>4, <1>5, <1>6 DEF ReassignEffect

(* accept_candidate ends the last round of a work. *)
LEMMA AcceptRoundEffect ==
    ASSUME StorageInv, NEW w \in DOMAIN works, AcceptedCandidate(w)
    PROVE  ReassignEffect(w)
<1>1. MoveEffect(w) /\ ResultAccepts(w) /\ HasResult(w)
  BY Zenon, AcceptEffect DEF AcceptedCandidate, ResultAccepts
<1>2. /\ DOMAIN works' = DOMAIN works \cup {w}
      /\ \A v \in DOMAIN works \ {w} : works'[v] = works[v]
      /\ works'[w].status = "Accepted" /\ works'[w].round = works[w].round
  BY Zenon, <1>1
  DEF MoveEffect, OnlyWork, ResultAccepts, ResultRejects, HasResult, CandidateOverdue
<1>3. /\ votes' = ClearedVotes(RoundOf(w))
      /\ assignments' = ClearedAssignments(RoundOf(w))
      /\ assignmentEpochs' = ClearedEpochs(RoundOf(w))
      /\ UNCHANGED <<votingRounds, roundResults, candidates>>
  BY Zenon DEF AcceptedCandidate, AcceptCandidate
<1>4. ASSUME NEW key \in DOMAIN assignments, key[1] # w PROVE KeepsAssignment(key)
  <2>1. key \in DOMAIN assignmentEpochs /\ key # RoundOf(w)
    BY Zenon, <1>4 DEF StorageInv, RoundStateCoherent, RoundOf
  <2> QED BY Zenon, <1>3, <2>1 DEF KeepsAssignment, ClearedAssignments, ClearedEpochs, RemoveAll
<1> QED BY Zenon, <1>1, <1>2, <1>3, <1>4 DEF ReassignEffect

(* Every step has one of these effects on rounds. *)
LEMMA NextRoundEffect == StorageInv /\ [Next]_vars => RoundEffect
<1> SUFFICES ASSUME StorageInv, [Next]_vars PROVE RoundEffect
  BY Zenon
<1>1. CASE UNCHANGED vars
  BY Zenon, <1>1 DEF vars, workersVars, minijamVars, workVars, assignmentVars, votingVars, roundVars,
              RoundEffect
<1>2. CASE WorkersOnInitialize
  <2>1. UNCHANGED <<works, candidates, now>>
    BY Zenon, <1>2 DEF WorkersOnInitialize, minijamVars, workVars
  <2>2. CASE OnInitializeEpoch
    <3>1. UNCHANGED <<assignments, assignmentEpochs, votingVars>>
      BY Zenon, <2>2 DEF OnInitializeEpoch
    <3> QED BY Zenon, <2>1, <3>1 DEF votingVars, roundVars, RoundEffect
  <2>3. CASE FinalizeDueVote
    <3>1. UNCHANGED <<assignments, assignmentEpochs>>
      BY Zenon, <2>3 DEF FinalizeDueVote, assignmentVars
    <3>2. CASE UNCHANGED votingVars
      BY Zenon, <2>1, <3>1, <3>2 DEF votingVars, roundVars, RoundEffect
    <3>3. CASE ~UNCHANGED votingVars
      <4>1. DueEffect(Head(votesTodo))
        BY Zenon, <2>1, <2>3, <3>1, <3>3 DEF FinalizeDueVote, DueEffect
      <4> QED BY Zenon, <4>1 DEF DueEffect, RoundEffect
    <3> QED BY Zenon, <3>2, <3>3
  <2> QED BY Zenon, <1>2, <2>2, <2>3 DEF WorkersOnInitialize
<1>3. CASE WorkersCall
  <2>1. UNCHANGED <<works, candidates>>
    BY Zenon, <1>3 DEF WorkersCall, minijamVars, workVars
  <2>2. ASSUME NEW key \in DOMAIN votingRounds, NEW w \in Registered,
               NEW verdict \in {"Support", "Oppose"}, SubmitVote(key, w, verdict)
        PROVE  RoundEffect
    BY Zenon, <2>1, <2>2 DEF VoteEffect, RoundEffect
  <2>3. CASE UNCHANGED <<assignmentVars, votingVars>>
    BY Zenon, <2>1, <2>3 DEF assignmentVars, votingVars, roundVars, RoundEffect
  <2>4. ASSUME NEW a, NEW stake, Register(a, stake) PROVE UNCHANGED <<assignmentVars, votingVars>>
    BY Zenon, <2>4 DEF Register
  <2>5. ASSUME NEW w, NEW stake, ScheduleUpdate(w, stake)
        PROVE  UNCHANGED <<assignmentVars, votingVars>>
    BY Zenon, <2>5 DEF ScheduleUpdate
  <2>6. ASSUME NEW key, NEW w, SubmitEquivocation(key, w)
        PROVE  UNCHANGED <<assignmentVars, votingVars>>
    BY Zenon, <2>6 DEF SubmitEquivocation
  <2> QED BY Zenon, <1>3, <2>2, <2>3, <2>4, <2>5, <2>6 DEF WorkersCall
<1>4. CASE MiniJamOnInitialize
  <2>1. PICK w \in DOMAIN works :
           \/ RetryAssignment(w) \/ MissedCandidate(w) \/ RejectedCandidate(w)
           \/ AcceptedCandidate(w) \/ SkipWork(w)
    BY Zenon, <1>4 DEF MiniJamOnInitialize
  <2>2. CASE SkipWork(w)
    BY Zenon, <2>2 DEF SkipWork, workersVars, workVars, assignmentVars, votingVars, roundVars, RoundEffect
  <2>3. w \in WorkIds /\ works[w] \in WorkRecord
    BY Zenon DEF StorageInv, TypeOK, WorkTypeOK
  <2>4. CASE RetryAssignment(w)
    <3>1. ReassignEffect(w)
      BY Zenon, <2>3, <2>4, BeginEffect DEF RetryAssignment
    <3> QED BY Zenon, <2>3, <3>1 DEF RoundEffect
  <2>5. CASE MissedCandidate(w)
    <3>1. ReassignEffect(w)
      BY Zenon, <2>5, AdvanceRoundEffect DEF MissedCandidate
    <3> QED BY Zenon, <2>3, <3>1 DEF RoundEffect
  <2>6. CASE RejectedCandidate(w)
    <3>1. ReassignEffect(w)
      BY Zenon, <2>6, AdvanceRoundEffect DEF RejectedCandidate
    <3> QED BY Zenon, <2>3, <3>1 DEF RoundEffect
  <2>7. CASE AcceptedCandidate(w)
    BY Zenon, <2>3, <2>7, AcceptRoundEffect DEF RoundEffect
  <2> QED BY Zenon, <2>1, <2>2, <2>4, <2>5, <2>6, <2>7
<1>5. CASE MiniJamOnFinalize
  <2>1. PICK n \in 0..Len(executionQueue) :
           (\E consumed \in SUBSET WorkIds : ExecuteBlockStf(n, consumed)) \/ YieldBlockStf(n)
    BY Zenon, <1>5 DEF MiniJamOnFinalize
  <2>2. UNCHANGED workersVars
    BY Zenon, <2>1 DEF ExecuteBlockStf, YieldBlockStf
  <2>3. CASE UNCHANGED moneyVars
    BY Zenon, <2>2, <2>3 DEF workersVars, assignmentVars, votingVars, moneyVars, roundVars, RoundEffect
  <2>4. UNCHANGED moneyVars \/ \E C \in SUBSET DOMAIN works : ImportEffect(C)
    BY Zenon, <2>1, ExecuteEffect DEF YieldBlockStf, minijamVars, workVars, moneyVars
  <2>5. UNCHANGED <<assignments, assignmentEpochs, votingVars>>
    BY Zenon, <2>2 DEF workersVars, assignmentVars
  <2> QED BY Zenon, <2>3, <2>4, <2>5 DEF RoundEffect
<1>6. CASE MiniJamCall
  <2>1. CASE \/ \E paused \in BOOLEAN : PauseExecution(paused)
             \/ QuarantinePending
             \/ \E a \in Relayers : SetIngressRelayer(a)
    <3>1. UNCHANGED <<workersVars, workVars>>
      BY Zenon, <2>1 DEF PauseExecution, QuarantinePending, SetIngressRelayer
    <3> QED BY Zenon, <3>1 DEF workersVars, workVars, assignmentVars, votingVars, roundVars, RoundEffect
  <2>2. ASSUME NEW a \in Accounts, NEW p \in Packages, SubmitWork(a, p) PROVE RoundEffect
    <3> DEFINE rec == [owner |-> a, package |-> p, round |-> 0,
                       status |-> "InsufficientWorkers", candidateDeadline |-> 0]
    <3>1. rec \in WorkRecord
      BY MiniJamAssumption DEF WorkRecord, WorkStatus, PendingStatuses
    <3>2. /\ PrepareRound(NextWorkId, rec, assignments, assignmentEpochs)
          /\ UNCHANGED <<votingVars, candidates>>
      BY Zenon, <2>2 DEF SubmitWork
    <3>3. NextWorkId \in WorkIds /\ NextWorkId \notin DOMAIN works
      BY Zenon, <2>2, SubmitWorkEffect DEF SubmitEffect
    <3> HIDE DEF rec
    <3>4. ReassignEffect(NextWorkId)
      BY Zenon, <3>1, <3>2, <3>3, BeginEffect
    <3> QED BY Zenon, <3>3, <3>4 DEF RoundEffect
  <2>3. ASSUME NEW a \in Accounts, NEW w \in DOMAIN works, SubmitCandidate(a, w) PROVE RoundEffect
    <3>1. CandidateEffect(a, w)
      BY Zenon, <2>3, SubmitCandidateEffect
    <3>2. OpenVoting(RoundOf(w), now + VoteWindow) /\ UNCHANGED <<assignments, assignmentEpochs>>
      BY Zenon, <2>3 DEF SubmitCandidate, assignmentVars
    <3>3. candidates'[RoundOf(w)].voteDeadline = now + VoteWindow
      BY Zenon, <2>3 DEF SubmitCandidate, Insert
    <3> QED BY Zenon, <3>1, <3>2, <3>3 DEF OpenEffect, RoundEffect
  <2> QED BY Zenon, <1>6, <2>1, <2>2, <2>3 DEF MiniJamCall
<1> QED BY Zenon, <1>1, <1>2, <1>3, <1>4, <1>5, <1>6 DEF Next, Hooks
-----------------------------------------------------------------------------
(* Votes *)

(* A round that is open for votes is the current round of a work in Voting. *)
LEMMA OpenRoundIsVoting ==
    ASSUME StorageInv, NEW key \in DOMAIN votingRounds
    PROVE  /\ key \in DOMAIN assignments /\ assignments[key] \subseteq Registered
           /\ key[1] \in DOMAIN works /\ key = RoundOf(key[1])
           /\ works[key[1]].status = "Voting"
           /\ key \in DOMAIN candidates /\ key \notin DOMAIN roundResults
           /\ votingRounds[key] \in VotingRound /\ key \in RoundKeys
<1>1. key \in DOMAIN assignments /\ key[1] \in DOMAIN works /\ key = RoundOf(key[1])
  BY Zenon DEF StorageInv, RoundStateCoherent
<1>2. works[key[1]].status \in {"AwaitingCandidate", "Voting"}
  BY Zenon, <1>1 DEF StorageInv, RoundStateCoherent
<1>3. works[key[1]].status = "Voting"
  BY Zenon, <1>1, <1>2 DEF StorageInv, RoundStateCoherent
<1>4. key \in DOMAIN candidates /\ key \notin DOMAIN roundResults
  BY Zenon, <1>1, <1>3 DEF StorageInv, RoundStateCoherent
<1>5. assignments[key] \subseteq Registered
  BY Zenon, <1>1 DEF StorageInv, TypeOK, AssignmentTypeOK, IsMap
<1>6. votingRounds[key] \in VotingRound /\ key \in RoundKeys
  BY Zenon DEF StorageInv, TypeOK, VotingTypeOK, IsMap
<1> QED BY Zenon, <1>1, <1>3, <1>4, <1>5, <1>6

(* A work whose round begins or ends is not open for votes. *)
LEMMA ReassignNotOpen ==
    ASSUME StorageInv, NEW w, ReassignEffect(w), NEW key \in DOMAIN votingRounds
    PROVE  key[1] # w
<1>1. /\ key[1] \in DOMAIN works /\ key = RoundOf(key[1]) /\ works[key[1]].status = "Voting"
      /\ key \notin DOMAIN roundResults
  BY Zenon, OpenRoundIsVoting
<1> QED BY Zenon, <1>1 DEF ReassignEffect, CandidateOverdue, HasResult

(* Ending a round takes its votes out of storage and no others. *)
LEMMA ReassignVotes ==
    ASSUME StorageInv, VotesCurrent, NEW w, ReassignEffect(w)
    PROVE  /\ \A vote \in DOMAIN votes' :
                vote \in DOMAIN votes /\ votes'[vote] = votes[vote] /\ vote[1][1] # w
           /\ \A vote \in DOMAIN votes : vote[1][1] # w => vote \in DOMAIN votes'
<1>1. \A vote \in DOMAIN votes :
         /\ vote[1] \in DOMAIN assignments /\ vote[2] \in assignments[vote[1]]
         /\ works[vote[1][1]].status = "Voting"
  BY Zenon DEF VotesCurrent
<1>2. \A vote \in DOMAIN votes :
         /\ vote[1][1] \in DOMAIN works /\ vote[1] = RoundOf(vote[1][1])
         /\ vote = <<vote[1], vote[2]>>
  BY <1>1 DEF StorageInv, TypeOK, VotingTypeOK, IsMap, RoundStateCoherent
<1>3. CASE UNCHANGED votes /\ (w \notin DOMAIN works \/ works[w].status = "InsufficientWorkers")
  BY Zenon, <1>1, <1>2, <1>3
<1>4. CASE /\ w \in DOMAIN works
           /\ CandidateOverdue(w) \/ HasResult(w)
           /\ votes' = ClearedVotes(RoundOf(w))
  <2>1. works[w].status \in {"AwaitingCandidate", "Voting"}
    BY Zenon, <1>4 DEF CandidateOverdue, HasResult
  <2>2. RoundOf(w) \in DOMAIN assignments
    BY Zenon, <1>4, <2>1 DEF StorageInv, RoundStateCoherent
  <2>3. votes' = RemoveAll(votes, {RoundOf(w)} \X assignments[RoundOf(w)])
    BY Zenon, <1>4, <2>2 DEF ClearedVotes
  <2>4. ASSUME NEW vote \in DOMAIN votes
        PROVE  vote \in {RoundOf(w)} \X assignments[RoundOf(w)] <=> vote[1][1] = w
    <3>1. vote = <<vote[1], vote[2]>> /\ vote[1] = RoundOf(vote[1][1])
          /\ vote[2] \in assignments[vote[1]]
      BY Zenon, <1>1, <1>2
    <3>2. RoundOf(w)[1] = w
      BY Zenon DEF RoundOf
    <3> QED BY Zenon, <3>1, <3>2
  <2> QED BY Zenon, <2>3, <2>4 DEF RemoveAll
<1> QED BY Zenon, <1>3, <1>4 DEF ReassignEffect

(* No vote is left behind when a round ends. *)
LEMMA VotesCurrentStep ==
    ASSUME StorageInv, VotesCurrent, RoundEffect
    PROVE  VotesCurrent'
<1>0. \A vote \in DOMAIN votes : vote[1] \in DOMAIN assignments /\ vote[1][1] \in DOMAIN works
  BY Zenon DEF VotesCurrent, StorageInv, RoundStateCoherent
<1>1. CASE UNCHANGED roundVars
  BY Zenon, <1>1 DEF roundVars, VotesCurrent
<1>2. ASSUME NEW C \in SUBSET DOMAIN works, ImportEffect(C),
             UNCHANGED <<assignments, assignmentEpochs, votingVars>>
      PROVE  VotesCurrent'
  BY ZenonT(40), <1>0, <1>2 DEF ImportEffect, VotesCurrent, votingVars
<1>3. ASSUME NEW w \in WorkIds, ReassignEffect(w) PROVE VotesCurrent'
  <2> SUFFICES ASSUME NEW vote \in DOMAIN votes'
               PROVE  /\ vote[1] \in DOMAIN assignments' /\ vote[2] \in assignments'[vote[1]]
                      /\ works'[vote[1][1]].status = "Voting"
    BY Zenon DEF VotesCurrent
  <2>1. vote \in DOMAIN votes /\ vote[1][1] # w
    BY Zenon, <1>3, ReassignVotes
  <2>2. KeepsAssignment(vote[1]) /\ works'[vote[1][1]] = works[vote[1][1]]
    BY Zenon, <1>0, <1>3, <2>1 DEF ReassignEffect
  <2> QED BY Zenon, <2>1, <2>2 DEF KeepsAssignment, VotesCurrent
<1>4. ASSUME NEW a \in Accounts, NEW w \in DOMAIN works, OpenEffect(a, w) PROVE VotesCurrent'
  BY ZenonT(40), <1>0, <1>4 DEF OpenEffect, CandidateEffect, OnlyWork, OpenVoting, VotesCurrent
<1>5. ASSUME NEW key \in DOMAIN votingRounds, NEW w \in Registered,
             NEW verdict \in {"Support", "Oppose"}, VoteEffect(key, w, verdict)
      PROVE  VotesCurrent'
  <2>1. UNCHANGED <<works, assignments>> /\ w \in assignments[key]
    BY Zenon, <1>5 DEF VoteEffect, SubmitVote, assignmentVars
  <2>2. DOMAIN votes' = DOMAIN votes \cup {<<key, w>>}
    BY Zenon, <1>5 DEF VoteEffect, SubmitVote, Insert
  <2>3. key \in DOMAIN assignments /\ works[key[1]].status = "Voting"
    BY Zenon, OpenRoundIsVoting
  <2> QED BY <2>1, <2>2, <2>3 DEF VotesCurrent
<1>6. ASSUME NEW key \in DOMAIN votingRounds, DueEffect(key) PROVE VotesCurrent'
  BY Zenon, <1>6 DEF DueEffect, VotesCurrent
<1> QED BY Zenon, <1>1, <1>2, <1>3, <1>4, <1>5, <1>6 DEF RoundEffect

(* The votes of the round key stay as they are *)
KeepsVotes(key) ==
    \A w \in assignments[key] :
        /\ <<key, w>> \in DOMAIN votes' <=> <<key, w>> \in DOMAIN votes
        /\ <<key, w>> \in DOMAIN votes => votes'[<<key, w>>] = votes[<<key, w>>]

(* A round whose assignment and votes stay has the same voters. *)
LEMMA VotersKept ==
    ASSUME NEW key, assignments'[key] = assignments[key], KeepsVotes(key)
    PROVE  /\ Voters(key)' = Voters(key)
           /\ \A verdict : VotersFor(key, verdict)' = VotersFor(key, verdict)
<1>1. Voters(key)' = Voters(key)
  BY Zenon DEF Voters, KeepsVotes
<1>2. \A w \in Voters(key) : votes'[<<key, w>>] = votes[<<key, w>>]
  BY Zenon DEF Voters, KeepsVotes
<1>3. ASSUME NEW verdict PROVE VotersFor(key, verdict)' = VotersFor(key, verdict)
  BY Zenon, <1>1, <1>2 DEF VotersFor
<1> QED BY Zenon, <1>1, <1>3

(* A round that nothing touches stays exact. *)
LEMMA ExactKept ==
    ASSUME NEW key, RoundExact(key), KeepsAssignment(key), KeepsVotes(key),
           votingRounds'[key] = votingRounds[key], candidates'[key] = candidates[key]
    PROVE  RoundExact(key)'
<1>1. /\ assignments'[key] = assignments[key] /\ assignmentEpochs'[key] = assignmentEpochs[key]
      /\ Voters(key)' = Voters(key)
      /\ \A verdict : VotersFor(key, verdict)' = VotersFor(key, verdict)
  BY Zenon, VotersKept DEF KeepsAssignment
<1> QED BY Zenon, <1>1 DEF RoundExact

(* The record of the round key after the vote of a worker has been counted *)
AfterVote(key, verdict) ==
    LET counted == Counted(votingRounds[key], verdict)
    IN  [counted EXCEPT !.locked = Locked(counted)]

(* Counting a vote adds one to its verdict and to the responses, and locks a  *)
(* decision when a threshold is met, for good.                                *)
LEMMA CountedFields ==
    ASSUME NEW key, votingRounds[key] \in VotingRound, NEW verdict \in {"Support", "Oppose"}
    PROVE  LET old == votingRounds[key]
               new == AfterVote(key, verdict)
           IN  /\ new.support = IF verdict = "Support" THEN old.support + 1 ELSE old.support
               /\ new.oppose = IF verdict = "Oppose" THEN old.oppose + 1 ELSE old.oppose
               /\ new.responses = old.responses + 1
               /\ new.deadline = old.deadline
               /\ new.assignmentEpoch = old.assignmentEpoch
               /\ old.locked # Undecided => new.locked = old.locked
               /\ old.locked = Undecided =>
                     new.locked = IF new.support >= SupportThreshold THEN "Accepted"
                                  ELSE IF new.oppose >= OpposeThreshold THEN "Rejected"
                                  ELSE Undecided
<1> DEFINE old == votingRounds[key]
           counted == Counted(old, verdict)
           new == [counted EXCEPT !.locked = Locked(counted)]
<1>1. /\ counted.support = IF verdict = "Support" THEN old.support + 1 ELSE old.support
      /\ counted.oppose = IF verdict = "Oppose" THEN old.oppose + 1 ELSE old.oppose
      /\ counted.responses = old.responses + 1
      /\ counted.deadline = old.deadline /\ counted.assignmentEpoch = old.assignmentEpoch
      /\ counted.locked = old.locked
      /\ DOMAIN counted = {"assignmentEpoch", "deadline", "support", "oppose", "responses", "locked"}
  BY Zenon DEF Counted, VotingRound
<1> HIDE DEF counted
<1>2. /\ new.support = counted.support /\ new.oppose = counted.oppose
      /\ new.responses = counted.responses /\ new.deadline = counted.deadline
      /\ new.assignmentEpoch = counted.assignmentEpoch
      /\ new.locked = Locked(counted)
  BY Zenon, <1>1
<1>3. AfterVote(key, verdict) = new
  BY Zenon DEF AfterVote, counted
<1> HIDE DEF new
<1>4. /\ counted.locked # Undecided => new.locked = counted.locked
      /\ counted.locked = Undecided =>
            new.locked = IF counted.support >= SupportThreshold THEN "Accepted"
                         ELSE IF counted.oppose >= OpposeThreshold THEN "Rejected"
                         ELSE Undecided
  BY Zenon, <1>2 DEF Locked
<1> QED BY Zenon, <1>1, <1>2, <1>3, <1>4

(* A vote adds its worker to the voters of its verdict, and only there. *)
LEMMA VoteRecorded ==
    ASSUME StorageInv, Counts(WorkerIds), NEW key \in DOMAIN votingRounds, NEW w \in Registered,
           NEW verdict \in {"Support", "Oppose"}, VoteEffect(key, w, verdict)
    PROVE  /\ Voters(key)' = Voters(key) \cup {w}
           /\ Cardinality(Voters(key)') = Cardinality(Voters(key)) + 1
           /\ \A d \in {"Support", "Oppose"} :
                 Cardinality(VotersFor(key, d)') =
                     IF d = verdict THEN Cardinality(VotersFor(key, d)) + 1
                                    ELSE Cardinality(VotersFor(key, d))
           /\ \A k \in DOMAIN assignments \ {key} : KeepsAssignment(k) /\ KeepsVotes(k)
           /\ KeepsAssignment(key) /\ Voters(key)' \subseteq assignments[key]
<1>1. UNCHANGED <<assignments, assignmentEpochs>>
  BY Zenon DEF VoteEffect, SubmitVote, assignmentVars
<1>2. /\ key \in DOMAIN assignments /\ w \in assignments[key] /\ <<key, w>> \notin DOMAIN votes
      /\ votes' = Insert(votes, <<key, w>>, verdict)
  BY Zenon DEF VoteEffect, SubmitVote
<1>3. /\ DOMAIN votes' = DOMAIN votes \cup {<<key, w>>}
      /\ votes'[<<key, w>>] = verdict
      /\ \A vote \in DOMAIN votes : votes'[vote] = votes[vote]
  BY Zenon, <1>2 DEF Insert
<1>4. Voters(key)' = Voters(key) \cup {w} /\ w \notin Voters(key)
  BY Zenon, <1>1, <1>2, <1>3 DEF Voters
<1>5. ASSUME NEW d
      PROVE  /\ VotersFor(key, d)' = IF d = verdict THEN VotersFor(key, d) \cup {w}
                                                    ELSE VotersFor(key, d)
             /\ w \notin VotersFor(key, d)
  BY Zenon, <1>1, <1>2, <1>3, <1>4 DEF VotersFor, Voters
<1>6. w \in WorkerIds /\ assignments[key] \subseteq WorkerIds
  BY Zenon, OpenRoundIsVoting DEF StorageInv, TypeOK, StakeTypeOK
<1>7. Voters(key) \in SUBSET WorkerIds /\ \A d : VotersFor(key, d) \in SUBSET WorkerIds
  BY Zenon, <1>6 DEF Voters, VotersFor
<1>8. Cardinality(Voters(key) \cup {w}) = Cardinality(Voters(key)) + 1
  BY Zenon, <1>4, <1>6, <1>7, CountAdd
<1>9. ASSUME NEW d \in {"Support", "Oppose"}
      PROVE  Cardinality(VotersFor(key, d)') =
                 IF d = verdict THEN Cardinality(VotersFor(key, d)) + 1
                                ELSE Cardinality(VotersFor(key, d))
  <2>1. Cardinality(VotersFor(key, d) \cup {w}) = Cardinality(VotersFor(key, d)) + 1
    BY Zenon, <1>5, <1>6, <1>7, CountAdd
  <2> QED BY Zenon, <1>5, <2>1
<1>10. ASSUME NEW k \in DOMAIN assignments \ {key} PROVE KeepsAssignment(k) /\ KeepsVotes(k)
  BY Zenon, <1>1, <1>3 DEF KeepsAssignment, KeepsVotes
<1>11. KeepsAssignment(key) /\ Voters(key)' \subseteq assignments[key]
  BY Zenon, <1>1, <1>2 DEF KeepsAssignment, Voters
<1> QED BY Zenon, <1>4, <1>8, <1>9, <1>10, <1>11

(* The counters of a round, while it takes votes. *)
LEMMA VoteExact ==
    ASSUME StorageInv, Counts(WorkerIds), NEW key \in DOMAIN votingRounds, NEW w \in Registered,
           NEW verdict \in {"Support", "Oppose"}, VoteEffect(key, w, verdict), RoundExact(key)
    PROVE  LET new == AfterVote(key, verdict)
           IN  /\ new.support = Cardinality(VotersFor(key, "Support")')
               /\ new.oppose = Cardinality(VotersFor(key, "Oppose")')
               /\ new.responses = Cardinality(Voters(key)')
               /\ new.locked = "Accepted" => new.support >= SupportThreshold
               /\ new.locked = "Rejected" => new.oppose >= OpposeThreshold
               /\ new.locked = Undecided => /\ new.support < SupportThreshold
                                            /\ new.oppose < OpposeThreshold
<1> DEFINE old == votingRounds[key]
<1>1. PICK new : new = AfterVote(key, verdict)
  BY Zenon
<1>2. old \in VotingRound
  BY Zenon, OpenRoundIsVoting
<1>3. /\ new.support = IF verdict = "Support" THEN old.support + 1 ELSE old.support
      /\ new.oppose = IF verdict = "Oppose" THEN old.oppose + 1 ELSE old.oppose
      /\ new.responses = old.responses + 1
      /\ old.locked # Undecided => new.locked = old.locked
      /\ old.locked = Undecided =>
            new.locked = IF new.support >= SupportThreshold THEN "Accepted"
                         ELSE IF new.oppose >= OpposeThreshold THEN "Rejected"
                         ELSE Undecided
  BY Zenon, <1>1, <1>2, CountedFields
<1>4. /\ Cardinality(Voters(key)') = Cardinality(Voters(key)) + 1
      /\ \A d \in {"Support", "Oppose"} :
            Cardinality(VotersFor(key, d)') =
                IF d = verdict THEN Cardinality(VotersFor(key, d)) + 1
                               ELSE Cardinality(VotersFor(key, d))
  BY Zenon, VoteRecorded
<1>5. /\ old.support = Cardinality(VotersFor(key, "Support"))
      /\ old.oppose = Cardinality(VotersFor(key, "Oppose"))
      /\ old.responses = Cardinality(Voters(key))
      /\ old.locked = "Accepted" => old.support >= SupportThreshold
      /\ old.locked = "Rejected" => old.oppose >= OpposeThreshold
      /\ old.locked = Undecided => /\ old.support < SupportThreshold
                                   /\ old.oppose < OpposeThreshold
  BY Zenon DEF RoundExact
<1>6. /\ old.support \in Nat /\ old.oppose \in Nat /\ old.responses \in Nat
      /\ old.locked \in {Undecided, "Accepted", "Rejected"}
      /\ SupportThreshold \in Nat /\ OpposeThreshold \in Nat
  BY Zenon, <1>2, WorkersAssumption DEF VotingRound
<1>7. /\ new.support = Cardinality(VotersFor(key, "Support")')
      /\ new.oppose = Cardinality(VotersFor(key, "Oppose")')
      /\ new.responses = Cardinality(Voters(key)')
  BY Zenon, <1>3, <1>4, <1>5
<1>8. /\ new.locked = "Accepted" => new.support >= SupportThreshold
      /\ new.locked = "Rejected" => new.oppose >= OpposeThreshold
      /\ new.locked = Undecided => /\ new.support < SupportThreshold
                                   /\ new.oppose < OpposeThreshold
  <2>1. /\ new.support >= old.support /\ new.oppose >= old.oppose
        /\ new.support \in Nat /\ new.oppose \in Nat
    BY <1>3, <1>6
  <2> QED BY <1>3, <1>5, <1>6, <2>1 DEF Undecided
<1> QED BY Zenon, <1>1, <1>7, <1>8

(* A vote ends or goes on; what finalize_voting and the counter leave *)
LEMMA VoteOutcome ==
    ASSUME NEW key \in DOMAIN votingRounds, NEW w, NEW verdict, VoteEffect(key, w, verdict)
    PROVE  LET new == AfterVote(key, verdict)
           IN  \/ /\ new.responses >= Cardinality(assignments[key])
                  /\ FinalizeVoting(key, Voters(key) \cup {w}, new.locked)
               \/ /\ ~(new.responses >= Cardinality(assignments[key]))
                  /\ votingRounds' = [votingRounds EXCEPT ![key] = new]
                  /\ UNCHANGED <<stakeHold, workers, roundResults>>
  BY Zenon DEF VoteEffect, SubmitVote, AfterVote

(* finalize_voting moves the round from VotingRounds to RoundResults. *)
LEMMA FinalizeMoves ==
    ASSUME NEW key, NEW voters, NEW decision, FinalizeVoting(key, voters, decision)
    PROVE  /\ DOMAIN votingRounds' = DOMAIN votingRounds \ {key}
           /\ \A k \in DOMAIN votingRounds \ {key} : votingRounds'[k] = votingRounds[k]
           /\ DOMAIN roundResults' = DOMAIN roundResults \cup {key}
           /\ \A k \in DOMAIN roundResults \ {key} : roundResults'[k] = roundResults[k]
           /\ roundResults'[key].decision = decision
<1>1. votingRounds' = RemoveAll(votingRounds, {key})
      /\ roundResults' = Insert(roundResults, key,
                            [decision |-> decision, absentees |-> assignments[key] \ voters])
  BY Zenon DEF FinalizeVoting
<1> QED BY Zenon, <1>1 DEF RemoveAll, Insert

(* Counters, votes and decision of an open round stay in agreement. *)
LEMMA VotingRoundExactStep ==
    ASSUME StorageInv, Counts(WorkerIds), VotingRoundExact, VotesCurrent, RoundEffect,
           \A k \in DOMAIN assignments : Cardinality(assignments[k]) = WorkersPerWork
    PROVE  VotingRoundExact'
<1> SUFFICES ASSUME NEW key \in DOMAIN votingRounds' PROVE RoundExact(key)'
  BY Zenon DEF VotingRoundExact
<1>0. \A k \in DOMAIN votingRounds :
         RoundExact(k) /\ k \in DOMAIN assignments /\ k[1] \in DOMAIN works
  BY Zenon, OpenRoundIsVoting DEF VotingRoundExact
<1>1. CASE UNCHANGED roundVars
  <2>1. key \in DOMAIN votingRounds /\ UNCHANGED <<votingRounds, candidates>>
    BY Zenon, <1>1 DEF roundVars
  <2>2. KeepsAssignment(key) /\ KeepsVotes(key)
    BY Zenon, <1>0, <1>1, <2>1 DEF roundVars, KeepsAssignment, KeepsVotes
  <2> QED BY Zenon, <1>0, <2>1, <2>2, ExactKept
<1>2. ASSUME NEW C \in SUBSET DOMAIN works, ImportEffect(C),
             UNCHANGED <<assignments, assignmentEpochs, votingVars>>
      PROVE  RoundExact(key)'
  <2>1. key \in DOMAIN votingRounds /\ UNCHANGED <<votingRounds, votes, candidates>>
    BY Zenon, <1>2 DEF votingVars, ImportEffect
  <2>2. KeepsAssignment(key) /\ KeepsVotes(key)
    BY Zenon, <1>0, <1>2, <2>1 DEF KeepsAssignment, KeepsVotes
  <2> QED BY Zenon, <1>0, <2>1, <2>2, ExactKept
<1>3. ASSUME NEW w \in WorkIds, ReassignEffect(w) PROVE RoundExact(key)'
  <2>1. key \in DOMAIN votingRounds /\ UNCHANGED <<votingRounds, candidates>>
    BY Zenon, <1>3 DEF ReassignEffect
  <2>2. key[1] # w /\ KeepsAssignment(key)
    BY Zenon, <1>0, <1>3, <2>1, ReassignNotOpen DEF ReassignEffect
  <2>3. /\ \A vote \in DOMAIN votes' : vote \in DOMAIN votes /\ votes'[vote] = votes[vote]
        /\ \A vote \in DOMAIN votes : vote[1][1] # w => vote \in DOMAIN votes'
    BY Zenon, <1>3, ReassignVotes
  <2>4. KeepsVotes(key)
    BY Zenon, <2>2, <2>3 DEF KeepsVotes
  <2> QED BY Zenon, <1>0, <2>1, <2>2, <2>4, ExactKept
<1>4. ASSUME NEW a \in Accounts, NEW w \in DOMAIN works, OpenEffect(a, w) PROVE RoundExact(key)'
  <2> DEFINE new == RoundOf(w)
  <2>1. /\ new \in DOMAIN assignments /\ new \notin DOMAIN votingRounds
        /\ UNCHANGED <<votes, assignments, assignmentEpochs>>
        /\ votingRounds' = Insert(votingRounds, new,
               [assignmentEpoch |-> assignmentEpochs[new], deadline |-> now + VoteWindow,
                support |-> 0, oppose |-> 0, responses |-> 0, locked |-> Undecided])
        /\ candidates'[new].voteDeadline = now + VoteWindow
        /\ works[w].status = "AwaitingCandidate"
        /\ \A k \in DOMAIN candidates \ {new} : candidates'[k] = candidates[k]
    BY Zenon, <1>4 DEF OpenEffect, OpenVoting, CandidateEffect
  <2>2. CASE key # new
    <3>1. key \in DOMAIN votingRounds /\ votingRounds'[key] = votingRounds[key]
      BY Zenon, <2>1, <2>2 DEF Insert
    <3>2. KeepsAssignment(key) /\ KeepsVotes(key)
      BY Zenon, <1>0, <2>1, <3>1 DEF KeepsAssignment, KeepsVotes
    <3>3. candidates'[key] = candidates[key]
      BY ZenonT(40), <2>1, <2>2, <3>1, OpenRoundIsVoting
    <3> QED BY Zenon, <1>0, <3>1, <3>2, <3>3, ExactKept
  <2>3. CASE key = new
    <3>1. votingRounds'[key] =
             [assignmentEpoch |-> assignmentEpochs[key], deadline |-> now + VoteWindow,
              support |-> 0, oppose |-> 0, responses |-> 0, locked |-> Undecided]
      BY Zenon, <2>1, <2>3 DEF Insert
    <3>2. \A v : <<key, v>> \notin DOMAIN votes
      BY Zenon, <2>1, <2>3 DEF VotesCurrent, RoundOf
    <3>3. Voters(key)' = {} /\ \A d : VotersFor(key, d)' = {}
      BY Zenon, <2>1, <3>2 DEF Voters, VotersFor
    <3>4. Cardinality({}) = 0 /\ Cardinality(assignments'[key]) > 0
      BY <2>1, <2>3, WorkersAssumption DEF Counts
    <3>5. /\ assignmentEpochs'[key] = assignmentEpochs[key]
          /\ candidates'[key].voteDeadline = now + VoteWindow
          /\ SupportThreshold > 0 /\ OpposeThreshold > 0
      BY <2>1, <2>3, WorkersAssumption
    <3> QED BY <3>1, <3>3, <3>4, <3>5 DEF RoundExact, Undecided
  <2> QED BY Zenon, <2>2, <2>3
<1>5. ASSUME NEW k \in DOMAIN votingRounds, NEW w \in Registered,
             NEW verdict \in {"Support", "Oppose"}, VoteEffect(k, w, verdict)
      PROVE  RoundExact(key)'
  <2>1. UNCHANGED candidates
    BY Zenon, <1>5 DEF VoteEffect
  <2>2. /\ \A i \in DOMAIN assignments \ {k} : KeepsAssignment(i) /\ KeepsVotes(i)
        /\ KeepsAssignment(k)
    BY ZenonT(40), <1>5, VoteRecorded
  <2>3. CASE key # k
    <3>1. key \in DOMAIN votingRounds /\ votingRounds'[key] = votingRounds[key]
      BY Zenon, <1>5, <2>3, VoteOutcome, FinalizeMoves
    <3> QED BY Zenon, <1>0, <2>1, <2>2, <2>3, <3>1, ExactKept
  <2>4. CASE key = k
    <3>1. PICK new : new = AfterVote(key, verdict)
      BY Zenon
    <3>2. votingRounds'[key] = new /\ ~(new.responses >= Cardinality(assignments[key]))
      <4>1. ~FinalizeVoting(k, Voters(k) \cup {w}, new.locked)
        BY Zenon, <2>4, FinalizeMoves
      <4>2. \/ FinalizeVoting(k, Voters(k) \cup {w}, new.locked)
            \/ /\ ~(new.responses >= Cardinality(assignments[k]))
               /\ votingRounds' = [votingRounds EXCEPT ![k] = new]
        BY Zenon, <1>5, <2>4, <3>1, VoteOutcome
      <4> QED BY Zenon, <2>4, <4>1, <4>2
    <3>3. /\ new.support = Cardinality(VotersFor(key, "Support")')
          /\ new.oppose = Cardinality(VotersFor(key, "Oppose")')
          /\ new.responses = Cardinality(Voters(key)')
          /\ new.locked = "Accepted" => new.support >= SupportThreshold
          /\ new.locked = "Rejected" => new.oppose >= OpposeThreshold
          /\ new.locked = Undecided => /\ new.support < SupportThreshold
                                       /\ new.oppose < OpposeThreshold
      BY Zenon, <1>0, <1>5, <2>4, <3>1, VoteExact
    <3>4. /\ new.deadline = votingRounds[key].deadline /\ new.responses = votingRounds[key].responses + 1
          /\ new.assignmentEpoch = votingRounds[key].assignmentEpoch
          /\ votingRounds[key].responses \in Nat
      BY Zenon, <2>4, <3>1, CountedFields, OpenRoundIsVoting DEF VotingRound
    <3>5. /\ votingRounds[key].deadline = candidates'[key].voteDeadline
          /\ votingRounds[key].assignmentEpoch = assignmentEpochs'[key]
          /\ assignments'[key] = assignments[key]
      BY Zenon, <1>0, <2>1, <2>2, <2>4 DEF RoundExact, KeepsAssignment
    <3>6. new.responses < Cardinality(assignments'[key])
      <4>1. Cardinality(assignments[key]) \in Nat
        BY Zenon, <1>0, <2>4, WorkersAssumption
      <4> QED BY <3>2, <3>4, <3>5, <4>1
    <3> QED BY Zenon, <3>2, <3>3, <3>4, <3>5, <3>6 DEF RoundExact
  <2> QED BY Zenon, <2>3, <2>4
<1>6. ASSUME NEW k \in DOMAIN votingRounds, DueEffect(k) PROVE RoundExact(key)'
  <2>1. /\ key \in DOMAIN votingRounds /\ votingRounds'[key] = votingRounds[key]
        /\ UNCHANGED <<votes, candidates, assignments, assignmentEpochs>>
    BY Zenon, <1>6, FinalizeMoves DEF DueEffect
  <2>2. KeepsAssignment(key) /\ KeepsVotes(key)
    BY Zenon, <1>0, <2>1 DEF KeepsAssignment, KeepsVotes
  <2> QED BY Zenon, <1>0, <2>1, <2>2, ExactKept
<1> QED BY Zenon, <1>1, <1>2, <1>3, <1>4, <1>5, <1>6 DEF RoundEffect

-----------------------------------------------------------------------------
(* Decisions *)

(* The round key closes with a decision; no other round is touched *)
Closes(key, decision) ==
    /\ DOMAIN votingRounds' = DOMAIN votingRounds \ {key}
    /\ \A k \in DOMAIN votingRounds \ {key} : votingRounds'[k] = votingRounds[k]
    /\ DOMAIN roundResults' = DOMAIN roundResults \cup {key}
    /\ \A k \in DOMAIN roundResults \ {key} : roundResults'[k] = roundResults[k]
    /\ roundResults'[key].decision = decision

(* A vote closes its round with the decision it locks, or leaves it open. *)
LEMMA VoteCloses ==
    ASSUME NEW key \in DOMAIN votingRounds, NEW w, NEW verdict, VoteEffect(key, w, verdict),
           NEW new, new = AfterVote(key, verdict)
    PROVE  \/ Closes(key, new.locked)
           \/ /\ votingRounds' = [votingRounds EXCEPT ![key] = new]
              /\ UNCHANGED roundResults
<1>1. \/ FinalizeVoting(key, Voters(key) \cup {w}, new.locked)
      \/ /\ votingRounds' = [votingRounds EXCEPT ![key] = new]
         /\ UNCHANGED roundResults
  BY Zenon, VoteOutcome
<1> QED BY Zenon, <1>1, FinalizeMoves DEF Closes

(* The support of a round that has won stays while its work is left alone. *)
LEMMA SupportKept ==
    ASSUME AcceptedWithSupport, NEW w \in DOMAIN works, ResultAccepts(w),
           NEW key, key = RoundOf(w), KeepsAssignment(key), KeepsVotes(key)
    PROVE  Cardinality(VotersFor(key, "Support")') >= SupportThreshold
<1>1. VotersFor(key, "Support")' = VotersFor(key, "Support")
  BY Zenon, VotersKept DEF KeepsAssignment
<1>2. Cardinality(VotersFor(key, "Support")) >= SupportThreshold
  BY Zenon DEF AcceptedWithSupport
<1> QED BY Zenon, <1>1, <1>2

(* The votes that win a round are in storage until its work is accepted. *)
LEMMA AcceptedWithSupportStep ==
    ASSUME StorageInv, Counts(WorkerIds), VotingRoundExact, VotesCurrent, AcceptedWithSupport,
           RoundEffect
    PROVE  AcceptedWithSupport'
<1> SUFFICES ASSUME NEW w \in DOMAIN works', ResultAccepts(w)', NEW key, key = RoundOf(w)'
             PROVE  Cardinality(VotersFor(key, "Support")') >= SupportThreshold
  BY Zenon DEF AcceptedWithSupport
<1>1. /\ works'[w].status = "Voting" /\ key \in DOMAIN roundResults'
      /\ roundResults'[key].decision = "Accepted"
      /\ key = <<w, works'[w].round>>
  BY Zenon DEF ResultAccepts, HasResult, RoundOf
<1>2. ASSUME w \in DOMAIN works, works'[w] = works[w], key \in DOMAIN roundResults,
             roundResults'[key] = roundResults[key],
             key \in DOMAIN assignments => KeepsAssignment(key) /\ KeepsVotes(key)
      PROVE  Cardinality(VotersFor(key, "Support")') >= SupportThreshold
  <2>1. key = RoundOf(w) /\ ResultAccepts(w)
    BY Zenon, <1>1, <1>2 DEF RoundOf, ResultAccepts, HasResult
  <2>2. key \in DOMAIN assignments
    BY Zenon, <1>1, <1>2, <2>1 DEF StorageInv, RoundStateCoherent
  <2> QED BY Zenon, <1>2, <2>1, <2>2, SupportKept
<1>3. CASE UNCHANGED roundVars
  <2>1. /\ w \in DOMAIN works /\ works'[w] = works[w] /\ key \in DOMAIN roundResults
        /\ roundResults'[key] = roundResults[key]
    BY Zenon, <1>1, <1>3 DEF roundVars
  <2>2. key \in DOMAIN assignments => KeepsAssignment(key) /\ KeepsVotes(key)
    BY Zenon, <1>3 DEF roundVars, KeepsAssignment, KeepsVotes
  <2> QED BY Zenon, <1>2, <2>1, <2>2
<1>4. ASSUME NEW C \in SUBSET DOMAIN works, ImportEffect(C),
             UNCHANGED <<assignments, assignmentEpochs, votingVars>>
      PROVE  Cardinality(VotersFor(key, "Support")') >= SupportThreshold
  <2>1. /\ w \in DOMAIN works /\ works'[w] = works[w] /\ key \in DOMAIN roundResults
        /\ roundResults'[key] = roundResults[key]
    BY Zenon, <1>1, <1>4 DEF ImportEffect, votingVars
  <2>2. key \in DOMAIN assignments => KeepsAssignment(key) /\ KeepsVotes(key)
    BY Zenon, <1>4 DEF votingVars, KeepsAssignment, KeepsVotes
  <2> QED BY Zenon, <1>2, <2>1, <2>2
<1>5. ASSUME NEW v \in WorkIds, ReassignEffect(v)
      PROVE  Cardinality(VotersFor(key, "Support")') >= SupportThreshold
  <2>1. /\ w \in DOMAIN works /\ w # v /\ works'[w] = works[w] /\ key \in DOMAIN roundResults
        /\ roundResults'[key] = roundResults[key]
    BY Zenon, <1>1, <1>5 DEF ReassignEffect
  <2>2. key[1] = w
    BY <1>1
  <2>3. ASSUME key \in DOMAIN assignments PROVE KeepsAssignment(key) /\ KeepsVotes(key)
    <3>1. KeepsAssignment(key)
      BY Zenon, <1>5, <2>1, <2>2, <2>3 DEF ReassignEffect
    <3>2. /\ \A vote \in DOMAIN votes' : vote \in DOMAIN votes /\ votes'[vote] = votes[vote]
          /\ \A vote \in DOMAIN votes : vote[1][1] # v => vote \in DOMAIN votes'
      BY Zenon, <1>5, ReassignVotes
    <3> QED BY Zenon, <2>1, <2>2, <3>1, <3>2 DEF KeepsVotes
  <2> QED BY Zenon, <1>2, <2>1, <2>3
<1>6. ASSUME NEW a \in Accounts, NEW v \in DOMAIN works, OpenEffect(a, v)
      PROVE  Cardinality(VotersFor(key, "Support")') >= SupportThreshold
  <2>1. /\ UNCHANGED <<votes, roundResults, assignments, assignmentEpochs>>
        /\ RoundOf(v) \notin DOMAIN roundResults
        /\ works'[v].round = works[v].round
        /\ DOMAIN works' = DOMAIN works
        /\ \A u \in DOMAIN works \ {v} : works'[u] = works[u]
    BY Zenon, <1>6 DEF OpenEffect, OpenVoting, CandidateEffect, OnlyWork
  <2>2. w # v
    BY Zenon, <1>1, <2>1 DEF RoundOf
  <2>3. key \in DOMAIN assignments => KeepsAssignment(key) /\ KeepsVotes(key)
    BY Zenon, <2>1 DEF KeepsAssignment, KeepsVotes
  <2> QED BY Zenon, <1>1, <1>2, <2>1, <2>2, <2>3
<1>7. ASSUME NEW k \in DOMAIN votingRounds, NEW v \in Registered,
             NEW verdict \in {"Support", "Oppose"}, VoteEffect(k, v, verdict)
      PROVE  Cardinality(VotersFor(key, "Support")') >= SupportThreshold
  <2>1. UNCHANGED works
    BY Zenon, <1>7 DEF VoteEffect
  <2>2. PICK new : new = AfterVote(k, verdict)
    BY Zenon
  <2>3. \/ Closes(k, new.locked)
        \/ votingRounds' = [votingRounds EXCEPT ![k] = new] /\ UNCHANGED roundResults
    BY Zenon, <1>7, <2>2, VoteCloses
  <2>4. CASE key = k
    <3>1. new.locked = "Accepted"
      BY Zenon, <1>1, <2>3, <2>4, OpenRoundIsVoting DEF Closes
    <3>2. RoundExact(k)
      BY Zenon DEF VotingRoundExact
    <3>3. /\ new.support = Cardinality(VotersFor(key, "Support")')
          /\ new.locked = "Accepted" => new.support >= SupportThreshold
      BY Zenon, <1>7, <2>2, <2>4, <3>2, VoteExact
    <3> QED BY Zenon, <3>1, <3>3
  <2>5. CASE key # k
    <3>1. key \in DOMAIN roundResults /\ roundResults'[key] = roundResults[key]
      BY Zenon, <1>1, <2>3, <2>5 DEF Closes
    <3>2. key \in DOMAIN assignments => KeepsAssignment(key) /\ KeepsVotes(key)
      BY Zenon, <1>7, <2>5, VoteRecorded
    <3> QED BY Zenon, <1>2, <2>1, <3>1, <3>2
  <2> QED BY Zenon, <2>4, <2>5
<1>8. ASSUME NEW k \in DOMAIN votingRounds, DueEffect(k)
      PROVE  Cardinality(VotersFor(key, "Support")') >= SupportThreshold
  <2>1. UNCHANGED <<votes, works, candidates, assignments, assignmentEpochs>>
    BY Zenon, <1>8 DEF DueEffect
  <2>2. Closes(k, votingRounds[k].locked)
    BY Zenon, <1>8, FinalizeMoves DEF DueEffect, Closes
  <2>3. KeepsAssignment(key) \/ key \notin DOMAIN assignments
    BY Zenon, <2>1 DEF KeepsAssignment
  <2>4. KeepsVotes(key)
    BY Zenon, <2>1 DEF KeepsVotes
  <2>5. CASE key = k
    <3>1. votingRounds[k].locked = "Accepted" /\ RoundExact(k) /\ k \in DOMAIN assignments
      BY Zenon, <1>1, <2>2, <2>5, OpenRoundIsVoting DEF Closes, VotingRoundExact
    <3>2. VotersFor(key, "Support")' = VotersFor(key, "Support")
      BY Zenon, <2>1, <2>4, VotersKept
    <3> QED BY Zenon, <2>5, <3>1, <3>2 DEF RoundExact
  <2>6. CASE key # k
    BY ZenonT(40), <1>1, <1>2, <2>1, <2>2, <2>3, <2>4, <2>6 DEF Closes
  <2> QED BY Zenon, <2>5, <2>6
<1> QED BY Zenon, <1>3, <1>4, <1>5, <1>6, <1>7, <1>8 DEF RoundEffect

(* A round that was accepted stays the last round of its work. *)
LEMMA AcceptedRoundIsFinalStep ==
    ASSUME StorageInv, AcceptedRoundIsFinal, RoundEffect
    PROVE  AcceptedRoundIsFinal'
<1> SUFFICES ASSUME NEW key \in DOMAIN roundResults', roundResults'[key].decision = "Accepted"
             PROVE  /\ key = <<key[1], works'[key[1]].round>>
                    /\ works'[key[1]].status \in {"Voting", "Accepted", "Imported"}
  BY Zenon DEF AcceptedRoundIsFinal, RoundOf
<1> DEFINE w == key[1]
<1>1. ASSUME key \in DOMAIN roundResults, roundResults'[key] = roundResults[key]
      PROVE  /\ w \in DOMAIN works /\ key = RoundOf(w) /\ key = <<w, works[w].round>>
             /\ works[w].status \in {"Voting", "Accepted", "Imported"}
  BY Zenon, <1>1 DEF AcceptedRoundIsFinal, StorageInv, RoundsReached, RoundOf
<1>2. CASE UNCHANGED roundVars
  BY Zenon, <1>1, <1>2 DEF roundVars
<1>3. ASSUME NEW C \in SUBSET DOMAIN works, ImportEffect(C),
             UNCHANGED <<assignments, assignmentEpochs, votingVars>>
      PROVE  /\ key = <<w, works'[w].round>>
             /\ works'[w].status \in {"Voting", "Accepted", "Imported"}
  BY Zenon, <1>1, <1>3 DEF ImportEffect, votingVars
<1>4. ASSUME NEW v \in WorkIds, ReassignEffect(v)
      PROVE  /\ key = <<w, works'[w].round>>
             /\ works'[w].status \in {"Voting", "Accepted", "Imported"}
  <2>1. key \in DOMAIN roundResults /\ roundResults'[key] = roundResults[key]
    BY Zenon, <1>4 DEF ReassignEffect
  <2>2. CASE w # v
    BY Zenon, <1>1, <1>4, <2>1, <2>2 DEF ReassignEffect
  <2>3. CASE w = v
    <3>1. HasResult(w)
      BY Zenon, <1>1, <1>4, <2>1, <2>3 DEF ReassignEffect, CandidateOverdue
    <3>2. ResultAccepts(w)
      BY Zenon, <1>1, <2>1, <3>1 DEF ResultAccepts
    <3> QED BY Zenon, <1>1, <1>4, <2>1, <2>3, <3>2 DEF ReassignEffect
  <2> QED BY Zenon, <2>2, <2>3
<1>5. ASSUME NEW a \in Accounts, NEW v \in DOMAIN works, OpenEffect(a, v)
      PROVE  /\ key = <<w, works'[w].round>>
             /\ works'[w].status \in {"Voting", "Accepted", "Imported"}
  <2>1. /\ UNCHANGED roundResults /\ works[v].status = "AwaitingCandidate"
        /\ \A u \in DOMAIN works \ {v} : works'[u] = works[u]
    BY Zenon, <1>5 DEF OpenEffect, OpenVoting, CandidateEffect, OnlyWork
  <2> QED BY Zenon, <1>1, <2>1
<1>6. ASSUME NEW k \in DOMAIN votingRounds, NEW decision, Closes(k, decision), UNCHANGED works
      PROVE  /\ key = <<w, works'[w].round>>
             /\ works'[w].status \in {"Voting", "Accepted", "Imported"}
  <2>1. CASE key = k
    BY Zenon, <1>6, <2>1, OpenRoundIsVoting DEF RoundOf
  <2>2. CASE key # k
    BY Zenon, <1>1, <1>6, <2>2 DEF Closes
  <2> QED BY Zenon, <2>1, <2>2
<1>7. ASSUME NEW k \in DOMAIN votingRounds, NEW v \in Registered,
             NEW verdict \in {"Support", "Oppose"}, VoteEffect(k, v, verdict)
      PROVE  /\ key = <<w, works'[w].round>>
             /\ works'[w].status \in {"Voting", "Accepted", "Imported"}
  <2>1. UNCHANGED works
    BY Zenon, <1>7 DEF VoteEffect
  <2>2. (\E decision : Closes(k, decision)) \/ UNCHANGED roundResults
    BY Zenon, <1>7, VoteCloses
  <2> QED BY Zenon, <1>1, <1>6, <2>1, <2>2
<1>8. ASSUME NEW k \in DOMAIN votingRounds, DueEffect(k)
      PROVE  /\ key = <<w, works'[w].round>>
             /\ works'[w].status \in {"Voting", "Accepted", "Imported"}
  <2>1. Closes(k, votingRounds[k].locked) /\ UNCHANGED works
    BY Zenon, <1>8, FinalizeMoves DEF DueEffect, Closes
  <2> QED BY Zenon, <1>6, <2>1
<1> QED BY Zenon, <1>2, <1>3, <1>4, <1>5, <1>7, <1>8 DEF RoundEffect

(* A decision that is locked stays. *)
LEMMA KeepsDecisionsStep ==
    ASSUME StorageInv, RoundEffect
    PROVE  KeepsDecisions
<1> SUFFICES ASSUME NEW key \in RoundKeys, DecisionOf(key) # Undecided
             PROVE  DecisionOf(key)' = DecisionOf(key)
  BY Zenon DEF KeepsDecisions
<1>1. CASE UNCHANGED <<votingRounds, roundResults>>
  BY Zenon, <1>1 DEF DecisionOf
<1>2. ASSUME NEW k, NEW decision, Closes(k, decision), k \in DOMAIN votingRounds,
             votingRounds[k].locked # Undecided => decision = votingRounds[k].locked
      PROVE  DecisionOf(key)' = DecisionOf(key)
  <2>1. CASE key = k
    BY Zenon, <1>2, <2>1 DEF Closes, DecisionOf
  <2>2. CASE key # k
    BY Zenon, <1>2, <2>2 DEF Closes, DecisionOf
  <2> QED BY Zenon, <2>1, <2>2
<1>3. ASSUME NEW a \in Accounts, NEW w \in DOMAIN works, OpenEffect(a, w)
      PROVE  DecisionOf(key)' = DecisionOf(key)
  <2>1. PICK new, rec : /\ new = RoundOf(w) /\ new \notin DOMAIN votingRounds
                        /\ new \notin DOMAIN roundResults
                        /\ votingRounds' = Insert(votingRounds, new, rec) /\ UNCHANGED roundResults
    BY Zenon, <1>3 DEF OpenEffect, OpenVoting
  <2>2. key # new
    BY Zenon, <2>1 DEF DecisionOf
  <2> QED BY Zenon, <2>1, <2>2 DEF DecisionOf, Insert
<1>4. ASSUME NEW k \in DOMAIN votingRounds, NEW w \in Registered,
             NEW verdict \in {"Support", "Oppose"}, VoteEffect(k, w, verdict)
      PROVE  DecisionOf(key)' = DecisionOf(key)
  <2>1. PICK new : new = AfterVote(k, verdict)
    BY Zenon
  <2>2. votingRounds[k].locked # Undecided => new.locked = votingRounds[k].locked
    BY Zenon, <2>1, CountedFields, OpenRoundIsVoting
  <2>3. CASE Closes(k, new.locked)
    BY Zenon, <1>2, <2>2, <2>3
  <2>4. CASE votingRounds' = [votingRounds EXCEPT ![k] = new] /\ UNCHANGED roundResults
    BY Zenon, <2>2, <2>4 DEF DecisionOf
  <2> QED BY Zenon, <1>4, <2>1, <2>3, <2>4, VoteCloses
<1>5. ASSUME NEW k \in DOMAIN votingRounds, DueEffect(k) PROVE DecisionOf(key)' = DecisionOf(key)
  <2>1. Closes(k, votingRounds[k].locked)
    BY Zenon, <1>5, FinalizeMoves DEF DueEffect, Closes
  <2> QED BY Zenon, <1>2, <2>1
<1> QED BY Zenon, <1>1, <1>3, <1>4, <1>5 DEF RoundEffect, roundVars, votingVars, ReassignEffect

(* A work is accepted with the support of its workers. *)
LEMMA AcceptsBySupportStep ==
    ASSUME AcceptedWithSupport, WorkEffect
    PROVE  AcceptsBySupport
<1> SUFFICES ASSUME NEW w \in DOMAIN works, works[w].status # "Accepted", works'[w].status = "Accepted"
             PROVE  ResultAccepts(w)
  BY Zenon DEF AcceptsBySupport, AcceptedWithSupport
<1> QED BY Zenon DEF WorkEffect, moneyVars, SubmitEffect, CandidateEffect, MoveEffect, ImportEffect, OnlyWork
-----------------------------------------------------------------------------
(* Assignments and deadlines *)

(* Round key of w has just been given its workers *)
NewlyAssigned(w, key) ==
    /\ key \notin DOMAIN assignments
    /\ key = <<w, works'[w].round>>
    /\ works'[w].candidateDeadline = now + ReportSubmissionDeadline
    /\ assignments'[key] \in SUBSET WorkerIds
    /\ Cardinality(assignments'[key]) = WorkersPerWork

(* Whatever w was assigned to is cleared, and at most one round assigned anew *)
AssignedAnew(w) ==
    /\ \A key \in DOMAIN assignments' : key[1] = w => NewlyAssigned(w, key)
    /\ \A key : key[1] # w => (key \in DOMAIN assignments' <=> key \in DOMAIN assignments)
    /\ works'[w].status = "AwaitingCandidate" =>
          works'[w].candidateDeadline = now + ReportSubmissionDeadline

(* Nothing is assigned, no deadline moves and no vote is dropped; a vote      *)
(* opens in time                                                              *)
KeepsDeadlines ==
    /\ UNCHANGED assignments
    /\ DOMAIN works' = DOMAIN works
    /\ \A v \in DOMAIN works :
          /\ works'[v].candidateDeadline = works[v].candidateDeadline
          /\ works'[v].status = "AwaitingCandidate" => works'[v] = works[v]
    /\ \A key \in DOMAIN votingRounds' \ DOMAIN votingRounds :
          now <= works[key[1]].candidateDeadline
    /\ \A vote \in DOMAIN votes : vote \in DOMAIN votes' /\ votes'[vote] = votes[vote]

(* prepare_round assigns the new round to WorkersPerWork active workers, or   *)
(* leaves the work without an assignment.                                     *)
LEMMA PrepareAssigns ==
    ASSUME StorageInv, NEW w, NEW rec \in WorkRecord, NEW as0, NEW epochs0,
           PrepareRound(w, rec, as0, epochs0), <<w, rec.round>> \notin DOMAIN assignments,
           \A key \in DOMAIN as0 : key \in DOMAIN assignments /\ key[1] # w,
           \A key \in DOMAIN assignments : key[1] # w => key \in DOMAIN as0
    PROVE  AssignedAnew(w)
<1>1. PICK new : new = <<w, rec.round>>
  BY Zenon
<1>2. new[1] = w /\ new[2] = rec.round /\ new \notin DOMAIN as0 /\ new \notin DOMAIN assignments
  BY <1>1
<1>3. CASE /\ assignments' = as0
           /\ works' = Insert(works, w, [rec EXCEPT !.status = "InsufficientWorkers"])
  <2>1. works'[w].status = "InsufficientWorkers"
    BY Zenon, <1>3 DEF Insert, WorkRecord
  <2> QED BY Zenon, <1>3, <2>1 DEF AssignedAnew
<1>4. ASSUME NEW W \in Selections(rec.round), assignments' = Insert(as0, new, W),
             works' = Insert(works, w,
                        [rec EXCEPT !.status = "AwaitingCandidate",
                                    !.candidateDeadline = now + ReportSubmissionDeadline])
      PROVE  AssignedAnew(w)
  <2>1. /\ works'[w].round = rec.round
        /\ works'[w].candidateDeadline = now + ReportSubmissionDeadline
    BY Zenon, <1>4 DEF Insert, WorkRecord
  <2>2. W \in SUBSET WorkerIds /\ Cardinality(W) = WorkersPerWork
    BY Zenon, <1>4 DEF Selections, AssignmentCandidates, StorageInv, TypeOK, StakeTypeOK
  <2>3. DOMAIN assignments' = DOMAIN as0 \cup {new} /\ assignments'[new] = W
    BY Zenon, <1>4 DEF Insert
  <2>4. NewlyAssigned(w, new)
    BY Zenon, <1>1, <1>2, <2>1, <2>2, <2>3 DEF NewlyAssigned
  <2>5. \A key \in DOMAIN assignments' : key[1] = w => key = new
    BY Zenon, <2>3
  <2>6. \A key : key[1] # w => (key \in DOMAIN assignments' <=> key \in DOMAIN assignments)
    BY Zenon, <1>2, <2>3
  <2> QED BY Zenon, <2>1, <2>4, <2>5, <2>6 DEF AssignedAnew
<1>5. \/ /\ assignments' = as0
         /\ works' = Insert(works, w, [rec EXCEPT !.status = "InsufficientWorkers"])
      \/ \E W \in Selections(rec.round) :
            /\ assignments' = Insert(as0, new, W)
            /\ works' = Insert(works, w,
                          [rec EXCEPT !.status = "AwaitingCandidate",
                                      !.candidateDeadline = now + ReportSubmissionDeadline])
  BY Zenon, <1>1, <1>2 DEF PrepareRound, AssignWork, AssignWorkResults
<1> QED BY Zenon, <1>3, <1>4, <1>5

(* A work begins its first round, or the round that had no workers. *)
LEMMA BeginAssigns ==
    ASSUME StorageInv, NEW w, NEW rec \in WorkRecord,
           PrepareRound(w, rec, assignments, assignmentEpochs),
           \/ w \notin DOMAIN works
           \/ w \in DOMAIN works /\ works[w].status = "InsufficientWorkers"
    PROVE  AssignedAnew(w)
<1>1. \A key \in DOMAIN assignments : key[1] # w
  BY Zenon DEF StorageInv, RoundStateCoherent
<1>2. <<w, rec.round>> \notin DOMAIN assignments
  BY Zenon, <1>1
<1> QED BY Zenon, <1>1, <1>2, PrepareAssigns

(* clear_assignment leaves w nothing and the others what they had. *)
LEMMA ClearedDomain ==
    ASSUME StorageInv, NEW w \in DOMAIN works
    PROVE  /\ \A key \in DOMAIN ClearedAssignments(RoundOf(w)) :
                 key \in DOMAIN assignments /\ key[1] # w
           /\ \A key \in DOMAIN assignments :
                 key[1] # w => key \in DOMAIN ClearedAssignments(RoundOf(w))
<1>1. \A key \in DOMAIN assignments : key = RoundOf(key[1])
  BY Zenon DEF StorageInv, RoundStateCoherent
<1>2. DOMAIN ClearedAssignments(RoundOf(w)) = DOMAIN assignments \ {RoundOf(w)}
  BY Zenon DEF ClearedAssignments, RemoveAll
<1>3. RoundOf(w)[1] = w
  BY Zenon DEF RoundOf
<1> QED BY Zenon, <1>1, <1>2, <1>3

(* advance_or_fail clears the round and assigns the next one, if there is one. *)
LEMMA AdvanceAssigns ==
    ASSUME StorageInv, NEW w \in DOMAIN works, NEW rejected, AdvanceOrFail(w, rejected)
    PROVE  AssignedAnew(w)
<1>0. /\ \A key \in DOMAIN ClearedAssignments(RoundOf(w)) :
            key \in DOMAIN assignments /\ key[1] # w
      /\ \A key \in DOMAIN assignments :
            key[1] # w => key \in DOMAIN ClearedAssignments(RoundOf(w))
  BY Zenon, ClearedDomain
<1>1. CASE LastRound(w)
  <2>1. /\ assignments' = ClearedAssignments(RoundOf(w))
        /\ works' = [works EXCEPT ![w].status = "Failed"]
    BY Zenon, <1>1 DEF AdvanceOrFail
  <2>2. works'[w].status = "Failed"
    BY Zenon, <2>1 DEF StorageInv, TypeOK, WorkTypeOK, WorkRecord
  <2> QED BY Zenon, <1>0, <2>1, <2>2 DEF AssignedAnew
<1>2. CASE ~LastRound(w)
  <2> DEFINE rec == [works[w] EXCEPT !.round = @ + 1, !.status = "InsufficientWorkers"]
  <2>1. PrepareRound(w, rec, ClearedAssignments(RoundOf(w)), ClearedEpochs(RoundOf(w)))
    BY Zenon, <1>2 DEF AdvanceOrFail
  <2>2. works[w] \in WorkRecord
    BY Zenon DEF StorageInv, TypeOK, WorkTypeOK
  <2>3. works[w].round + 1 \in Rounds /\ works[w].round + 1 # works[w].round
    <3>1. works[w].round \in Rounds /\ Rounds \subseteq Nat
      BY Zenon, <2>2, WorkersAssumption DEF WorkRecord
    <3>2. works[w].round + 1 \in Rounds
      BY Zenon, <1>2, <3>1, RoundAfter DEF LastRound
    <3>3. \A n \in Nat : n + 1 # n
      OBVIOUS
    <3> QED BY Zenon, <3>1, <3>2, <3>3
  <2>4. rec \in WorkRecord /\ rec.round = works[w].round + 1
    BY Zenon, <2>2, <2>3 DEF WorkRecord, WorkStatus, PendingStatuses
  <2> HIDE DEF rec
  <2>5. <<w, rec.round>> \notin DOMAIN assignments
    <3>1. \A key \in DOMAIN assignments : key = RoundOf(key[1])
      BY Zenon DEF StorageInv, RoundStateCoherent
    <3> QED BY <2>3, <2>4, <3>1 DEF RoundOf
  <2> QED BY Zenon, <1>0, <2>1, <2>4, <2>5, PrepareAssigns
<1> QED BY Zenon, <1>1, <1>2

(* accept_candidate clears the round and assigns none. *)
LEMMA AcceptAssigns ==
    ASSUME StorageInv, NEW w \in DOMAIN works, AcceptCandidate(w)
    PROVE  AssignedAnew(w)
<1>1. /\ assignments' = ClearedAssignments(RoundOf(w))
      /\ works' = [works EXCEPT ![w].status = "Accepted"]
  BY Zenon DEF AcceptCandidate
<1>2. works'[w].status = "Accepted"
  BY Zenon, <1>1 DEF StorageInv, TypeOK, WorkTypeOK, WorkRecord
<1>3. /\ \A key \in DOMAIN ClearedAssignments(RoundOf(w)) :
            key \in DOMAIN assignments /\ key[1] # w
      /\ \A key \in DOMAIN assignments :
            key[1] # w => key \in DOMAIN ClearedAssignments(RoundOf(w))
  BY Zenon, ClearedDomain
<1> QED BY Zenon, <1>1, <1>2, <1>3 DEF AssignedAnew

(* A step that leaves works and rounds alone moves no deadline. *)
LEMMA QuietDeadlines ==
    ASSUME UNCHANGED <<works, assignments, votingRounds, votes>>
    PROVE  KeepsDeadlines
  BY Zenon DEF KeepsDeadlines

(* Every step either begins or ends a round of one work, or leaves            *)
(* assignments and deadlines alone and opens votes in time.                   *)
LEMMA NextAssigns ==
    ASSUME StorageInv, [Next]_vars
    PROVE  KeepsDeadlines \/ \E w \in WorkIds : ReassignEffect(w) /\ AssignedAnew(w)
<1>1. CASE UNCHANGED vars
  BY Zenon, <1>1, QuietDeadlines DEF vars, workersVars, assignmentVars, votingVars, minijamVars, workVars
<1>2. CASE WorkersOnInitialize
  <2>1. UNCHANGED works
    BY Zenon, <1>2 DEF WorkersOnInitialize, minijamVars, workVars
  <2>2. CASE OnInitializeEpoch
    BY Zenon, <2>1, <2>2, QuietDeadlines DEF OnInitializeEpoch, votingVars
  <2>3. CASE FinalizeDueVote
    <3>1. UNCHANGED assignments
      BY Zenon, <2>3 DEF FinalizeDueVote, assignmentVars
    <3>2. CASE UNCHANGED votingVars
      BY Zenon, <2>1, <3>1, <3>2, QuietDeadlines DEF votingVars
    <3>3. ASSUME NEW key, FinalizeVoting(key, Voters(key), votingRounds[key].locked), UNCHANGED votes
          PROVE  KeepsDeadlines
      BY Zenon, <2>1, <3>1, <3>3, FinalizeMoves DEF KeepsDeadlines
    <3> QED BY Zenon, <2>3, <3>2, <3>3 DEF FinalizeDueVote
  <2> QED BY Zenon, <1>2, <2>2, <2>3 DEF WorkersOnInitialize
<1>3. CASE WorkersCall
  <2>1. UNCHANGED works
    BY Zenon, <1>3 DEF WorkersCall, minijamVars, workVars
  <2>2. ASSUME NEW key \in DOMAIN votingRounds, NEW w \in Registered,
               NEW verdict \in {"Support", "Oppose"}, SubmitVote(key, w, verdict)
        PROVE  KeepsDeadlines
    <3>1. UNCHANGED assignments
      BY Zenon, <2>2 DEF SubmitVote, assignmentVars
    <3>2. DOMAIN votingRounds' \subseteq DOMAIN votingRounds
      <4>1. ASSUME NEW voters, NEW decision, FinalizeVoting(key, voters, decision)
            PROVE  DOMAIN votingRounds' \subseteq DOMAIN votingRounds
        BY Zenon, <4>1, FinalizeMoves
      <4>2. ASSUME NEW voting, votingRounds' = [votingRounds EXCEPT ![key] = voting]
            PROVE  DOMAIN votingRounds' \subseteq DOMAIN votingRounds
        BY Zenon, <4>2
      <4> QED BY Zenon, <2>2, <4>1, <4>2 DEF SubmitVote
    <3>3. \A vote \in DOMAIN votes : vote \in DOMAIN votes' /\ votes'[vote] = votes[vote]
      BY Zenon, <2>2 DEF SubmitVote, Insert
    <3> QED BY Zenon, <2>1, <3>1, <3>2, <3>3 DEF KeepsDeadlines
  <2>3. CASE UNCHANGED <<assignmentVars, votingVars>>
    BY Zenon, <2>1, <2>3, QuietDeadlines DEF assignmentVars, votingVars
  <2> QED BY Zenon, <1>3, <2>2, <2>3 DEF WorkersCall, Register, ScheduleUpdate, SubmitEquivocation
<1>4. CASE MiniJamOnInitialize
  <2>1. PICK w \in DOMAIN works :
           \/ RetryAssignment(w) \/ MissedCandidate(w) \/ RejectedCandidate(w)
           \/ AcceptedCandidate(w) \/ SkipWork(w)
    BY Zenon, <1>4 DEF MiniJamOnInitialize
  <2>2. w \in WorkIds /\ works[w] \in WorkRecord
    BY Zenon DEF StorageInv, TypeOK, WorkTypeOK
  <2>3. CASE SkipWork(w)
    BY Zenon, <2>3, QuietDeadlines DEF SkipWork, workersVars, workVars, assignmentVars, votingVars
  <2>4. CASE RetryAssignment(w)
    BY Zenon, <2>2, <2>4, BeginEffect, BeginAssigns DEF RetryAssignment
  <2>5. CASE MissedCandidate(w)
    BY Zenon, <2>2, <2>5, AdvanceRoundEffect, AdvanceAssigns DEF MissedCandidate
  <2>6. CASE RejectedCandidate(w)
    BY Zenon, <2>2, <2>6, AdvanceRoundEffect, AdvanceAssigns DEF RejectedCandidate
  <2>7. CASE AcceptedCandidate(w)
    BY Zenon, <2>2, <2>7, AcceptRoundEffect, AcceptAssigns DEF AcceptedCandidate
  <2> QED BY ZenonT(40), <2>1, <2>3, <2>4, <2>5, <2>6, <2>7
<1>5. CASE MiniJamOnFinalize
  <2>1. PICK n \in 0..Len(executionQueue) :
           (\E consumed \in SUBSET WorkIds : ExecuteBlockStf(n, consumed)) \/ YieldBlockStf(n)
    BY Zenon, <1>5 DEF MiniJamOnFinalize
  <2>2. UNCHANGED <<assignments, votingRounds, votes>>
    BY Zenon, <2>1 DEF ExecuteBlockStf, YieldBlockStf, workersVars, assignmentVars, votingVars
  <2>3. CASE UNCHANGED works
    BY Zenon, <2>2, <2>3, QuietDeadlines
  <2>4. ASSUME NEW C, works' = [v \in DOMAIN works |->
                                   IF v \in C THEN [works[v] EXCEPT !.status = "Imported"] ELSE works[v]]
        PROVE  KeepsDeadlines
    <3>1. \A v \in DOMAIN works : works[v] \in WorkRecord
      BY Zenon DEF StorageInv, TypeOK, WorkTypeOK
    <3>2. ASSUME NEW v \in DOMAIN works
          PROVE  /\ works'[v].candidateDeadline = works[v].candidateDeadline
                 /\ works'[v].status = "AwaitingCandidate" => works'[v] = works[v]
      BY Zenon, <2>4, <3>1 DEF WorkRecord
    <3> QED BY Zenon, <2>2, <2>4, <3>2 DEF KeepsDeadlines
  <2> QED BY ZenonT(40), <2>1, <2>3, <2>4 DEF ExecuteBlockStf, YieldBlockStf, minijamVars, workVars
<1>6. CASE MiniJamCall
  <2>1. CASE \/ \E paused \in BOOLEAN : PauseExecution(paused)
             \/ QuarantinePending
             \/ \E a \in Relayers : SetIngressRelayer(a)
    BY Zenon, <2>1, QuietDeadlines
    DEF PauseExecution, QuarantinePending, SetIngressRelayer, workersVars, workVars, assignmentVars, votingVars
  <2>2. ASSUME NEW a \in Accounts, NEW p \in Packages, SubmitWork(a, p)
        PROVE  \E w \in WorkIds : ReassignEffect(w) /\ AssignedAnew(w)
    <3> DEFINE rec == [owner |-> a, package |-> p, round |-> 0,
                       status |-> "InsufficientWorkers", candidateDeadline |-> 0]
    <3>1. rec \in WorkRecord
      BY MiniJamAssumption DEF WorkRecord, WorkStatus, PendingStatuses
    <3>2. /\ PrepareRound(NextWorkId, rec, assignments, assignmentEpochs)
          /\ UNCHANGED <<votingVars, candidates>>
      BY Zenon, <2>2 DEF SubmitWork
    <3>3. NextWorkId \in WorkIds /\ NextWorkId \notin DOMAIN works
      BY Zenon, <2>2, SubmitWorkEffect DEF SubmitEffect
    <3> HIDE DEF rec
    <3> QED BY ZenonT(40), <3>1, <3>2, <3>3, BeginEffect, BeginAssigns
  <2>3. ASSUME NEW a \in Accounts, NEW w \in DOMAIN works, SubmitCandidate(a, w) PROVE KeepsDeadlines
    <3>1. /\ UNCHANGED <<assignments, votes>> /\ works' = [works EXCEPT ![w].status = "Voting"]
          /\ now <= works[w].candidateDeadline
          /\ DOMAIN votingRounds' = DOMAIN votingRounds \cup {RoundOf(w)}
      BY Zenon, <2>3 DEF SubmitCandidate, OpenVoting, assignmentVars, Insert
    <3>2. works[w] \in WorkRecord /\ RoundOf(w)[1] = w
      BY Zenon DEF StorageInv, TypeOK, WorkTypeOK, RoundOf
    <3>3. /\ DOMAIN works' = DOMAIN works
          /\ \A v \in DOMAIN works \ {w} : works'[v] = works[v]
          /\ works'[w].candidateDeadline = works[w].candidateDeadline
          /\ works'[w].status = "Voting"
      BY Zenon, <3>1, <3>2 DEF WorkRecord
    <3> QED BY Zenon, <3>1, <3>2, <3>3 DEF KeepsDeadlines
  <2> QED BY Zenon, <1>6, <2>1, <2>2, <2>3 DEF MiniJamCall
<1> QED BY ZenonT(40), <1>1, <1>2, <1>3, <1>4, <1>5, <1>6 DEF Next, Hooks
-----------------------------------------------------------------------------
(* Overdue votes and candidates *)

(* A hold covers what it settles: a work whose candidate is overdue or        *)
(* rejected can be moved on or failed                                         *)
RoundsCanAdvance ==
    \A w \in DOMAIN works :
        /\ CandidateOverdue(w) => CanAdvance(w, FALSE)
        /\ ResultRejects(w) => CanAdvance(w, TRUE)

(* The pool can pay the voters of a round *)
PoolPaysVoters == pool >= TimelyVoteReward * WorkersPerWork

(* What is overdue is still ahead of the hook that deals with it *)
VotesTimely ==
    \A key \in DOMAIN votingRounds :
        \/ now <= votingRounds[key].deadline
        \/ phase = "workers" /\ key \in Elements(votesTodo)

CandidatesTimely ==
    \A w \in DOMAIN works :
        CandidateOverdue(w) => phase = "workers" \/ w \in Elements(worksTodo)

(* What a step does to the block and to what its hooks have left to do *)
HookEffect ==
    \/ UNCHANGED <<now, phase, votesTodo, worksTodo>>
    \/ /\ now' = now + 1
       /\ phase' = "workers"
       /\ votesTodo' = openVoteRounds
       /\ UNCHANGED votingRounds
    \/ /\ FinalizeDueVote
       /\ UNCHANGED <<now, phase, works, worksTodo>>
    \/ /\ votesTodo = <<>>
       /\ worksTodo' = pendingWorks
       /\ UNCHANGED <<now, works, votingRounds>>
    \/ \E w \in DOMAIN works : ThisWork(w) /\ ~CandidateOverdue(w)'

(* What is on a list and not at its front is on the rest of it. *)
LEMMA TailElements ==
    ASSUME NEW S, NEW s \in Seq(S), s # <<>>, NEW x \in Elements(s), x # Head(s)
    PROVE  x \in Elements(Tail(s))
<1>1. PICK i \in DOMAIN s : s[i] = x
  BY Zenon DEF Elements
<1>2. i # 1 /\ i \in 1..Len(s)
  BY <1>1
<1>3. i - 1 \in DOMAIN Tail(s) /\ Tail(s)[i - 1] = x
  BY <1>1, <1>2
<1> QED BY Zenon, <1>3 DEF Elements

(* A later deadline is not yet over. *)
LEMMA InTime ==
    ASSUME now \in Nat, NEW d \in Nat
    PROVE  now <= now + d /\ ~(now > now + d)
  OBVIOUS

(* The work that a hook has dealt with is not overdue. *)
LEMMA DealtWith ==
    ASSUME StorageInv, NEW w, ReassignEffect(w), AssignedAnew(w), UNCHANGED now
    PROVE  ~CandidateOverdue(w)'
<1>1. now \in Nat /\ ReportSubmissionDeadline \in Nat
  BY Zenon, MiniJamAssumption DEF StorageInv, TypeOK, BlockTypeOK
<1>2. ~(now > now + ReportSubmissionDeadline)
  BY Zenon, <1>1, InTime
<1> QED BY Zenon, <1>2 DEF CandidateOverdue, AssignedAnew

(* Every step has one of these effects on the block and its hooks. *)
LEMMA NextHookEffect ==
    ASSUME StorageInv, NeverHalted', RoundsCanAdvance, [Next]_vars
    PROVE  HookEffect
<1>1. CASE UNCHANGED vars
  BY Zenon, <1>1 DEF vars, blockVars, HookEffect
<1>2. CASE WorkersOnInitialize
  <2>1. UNCHANGED <<now, works>>
    BY Zenon, <1>2 DEF WorkersOnInitialize, minijamVars, workVars
  <2>2. CASE OnInitializeEpoch /\ votesTodo = <<>> /\ worksTodo' = pendingWorks
    BY Zenon, <2>1, <2>2 DEF OnInitializeEpoch, votingVars, HookEffect
  <2> QED BY Zenon, <1>2, <2>1, <2>2 DEF WorkersOnInitialize, HookEffect
<1>3. CASE WorkersCall
  BY Zenon, <1>3 DEF WorkersCall, blockVars, HookEffect
<1>4. CASE MiniJamOnInitialize
  <2>1. PICK w \in DOMAIN works :
           \/ RetryAssignment(w) \/ MissedCandidate(w) \/ RejectedCandidate(w)
           \/ AcceptedCandidate(w) \/ SkipWork(w)
    BY Zenon, <1>4 DEF MiniJamOnInitialize
  <2>2. ThisWork(w) /\ UNCHANGED now
    BY Zenon, <2>1
    DEF RetryAssignment, MissedCandidate, RejectedCandidate, AcceptedCandidate, SkipWork, ThisWork
  <2>3. w \in WorkIds /\ works[w] \in WorkRecord
    BY Zenon DEF StorageInv, TypeOK, WorkTypeOK
  <2>4. CASE SkipWork(w)
    <3>1. ~CandidateOverdue(w) /\ UNCHANGED works
      BY Zenon, <2>4 DEF SkipWork, workVars, RoundsCanAdvance
    <3>2. ~CandidateOverdue(w)'
      BY Zenon, <2>2, <3>1 DEF CandidateOverdue
    <3> QED BY Zenon, <2>2, <3>2 DEF HookEffect
  <2>5. CASE ReassignEffect(w) /\ AssignedAnew(w)
    BY Zenon, <2>2, <2>5, DealtWith DEF HookEffect
  <2>6. CASE RetryAssignment(w)
    BY Zenon, <2>3, <2>5, <2>6, BeginEffect, BeginAssigns DEF RetryAssignment
  <2>7. CASE MissedCandidate(w)
    BY ZenonT(40), <2>3, <2>5, <2>7, AdvanceRoundEffect, AdvanceAssigns DEF MissedCandidate
  <2>8. CASE RejectedCandidate(w)
    BY ZenonT(40), <2>3, <2>5, <2>8, AdvanceRoundEffect, AdvanceAssigns DEF RejectedCandidate
  <2>9. CASE AcceptedCandidate(w)
    BY ZenonT(40), <2>3, <2>5, <2>9, AcceptRoundEffect, AcceptAssigns DEF AcceptedCandidate
  <2> QED BY ZenonT(40), <2>1, <2>4, <2>6, <2>7, <2>8, <2>9
<1>5. CASE MiniJamOnFinalize
  <2>1. PICK n \in 0..Len(executionQueue) :
           (\E consumed \in SUBSET WorkIds : ExecuteBlockStf(n, consumed)) \/ YieldBlockStf(n)
    BY Zenon, <1>5 DEF MiniJamOnFinalize
  <2>2. UNCHANGED votingRounds
    BY Zenon, <2>1 DEF ExecuteBlockStf, YieldBlockStf, workersVars, votingVars
  <2>3. NextBlock
    BY Zenon, <2>1 DEF ExecuteBlockStf, YieldBlockStf, NeverHalted
  <2> QED BY Zenon, <2>2, <2>3 DEF NextBlock, HookEffect
<1>6. CASE MiniJamCall
  BY ZenonT(40), <1>6 DEF MiniJamCall, SubmitWork, SubmitCandidate, PauseExecution, QuarantinePending,
              SetIngressRelayer, blockVars, HookEffect
<1> QED BY ZenonT(40), <1>1, <1>2, <1>3, <1>4, <1>5, <1>6 DEF Next, Hooks

(* A voting round keeps its deadline; a new one has VoteWindow blocks left. *)
LEMMA VoteDeadlines ==
    ASSUME StorageInv, RoundEffect, NEW key \in DOMAIN votingRounds'
    PROVE  \/ /\ key \in DOMAIN votingRounds
              /\ votingRounds'[key].deadline = votingRounds[key].deadline
           \/ votingRounds'[key].deadline = now + VoteWindow
<1>1. CASE UNCHANGED votingRounds
  BY Zenon, <1>1
<1>2. ASSUME NEW a, NEW w \in DOMAIN works, OpenEffect(a, w)
      PROVE  \/ /\ key \in DOMAIN votingRounds
                /\ votingRounds'[key].deadline = votingRounds[key].deadline
             \/ votingRounds'[key].deadline = now + VoteWindow
  <2> DEFINE new == [assignmentEpoch |-> assignmentEpochs[RoundOf(w)], deadline |-> now + VoteWindow,
                     support |-> 0, oppose |-> 0, responses |-> 0, locked |-> Undecided]
  <2>1. votingRounds' = Insert(votingRounds, RoundOf(w), new)
    BY Zenon, <1>2 DEF OpenEffect, OpenVoting
  <2>2. new.deadline = now + VoteWindow
    BY Zenon
  <2> HIDE DEF new
  <2> QED BY Zenon, <2>1, <2>2 DEF Insert
<1>3. ASSUME NEW k \in DOMAIN votingRounds, NEW w \in Registered,
             NEW verdict \in {"Support", "Oppose"}, VoteEffect(k, w, verdict)
      PROVE  /\ key \in DOMAIN votingRounds
             /\ votingRounds'[key].deadline = votingRounds[key].deadline
  <2>1. AfterVote(k, verdict).deadline = votingRounds[k].deadline
    BY Zenon, OpenRoundIsVoting, CountedFields
  <2>2. \/ Closes(k, AfterVote(k, verdict).locked)
        \/ votingRounds' = [votingRounds EXCEPT ![k] = AfterVote(k, verdict)]
    BY Zenon, <1>3, VoteCloses
  <2> QED BY Zenon, <2>1, <2>2 DEF Closes
<1>4. ASSUME NEW k \in DOMAIN votingRounds, DueEffect(k)
      PROVE  /\ key \in DOMAIN votingRounds
             /\ votingRounds'[key].deadline = votingRounds[key].deadline
  BY Zenon, <1>4, FinalizeMoves DEF DueEffect
<1> QED BY Zenon, <1>1, <1>2, <1>3, <1>4 DEF RoundEffect, roundVars, votingVars, ReassignEffect

(* A pool that covers everybody's reward covers the reward of the voters. *)
LEMMA RewardCovered ==
    ASSUME NEW d \in Nat, NEW m \in Nat, NEW n \in Nat, m <= n
    PROVE  d * m <= d * n
<1>1. PICK k \in Nat : n = m + k
  <2>1. n - m \in Nat /\ n = m + (n - m)
    OBVIOUS
  <2> QED BY Zenon, <2>1
<1>2. d * (m + k) = d * m + d * k /\ d * k \in Nat /\ d * m \in Nat
  OBVIOUS
<1> QED BY <1>1, <1>2

(* finalize_voting does not roll back when the pool covers the rewards. *)
LEMMA FinalizePays ==
    ASSUME StorageInv, Counts(WorkerIds), PoolPaysVoters, NEW key \in DOMAIN votingRounds,
           Cardinality(assignments[key]) = WorkersPerWork
    PROVE  ~FinalizeVotingFails(Voters(key))
<1>1. assignments[key] \in SUBSET WorkerIds /\ Voters(key) \in SUBSET assignments[key]
  BY Zenon, OpenRoundIsVoting DEF StorageInv, TypeOK, StakeTypeOK, Voters
<1>2. PICK m \in Nat : m = Cardinality(Voters(key)) /\ m <= WorkersPerWork
  <2>1. Cardinality(Voters(key)) \in Nat /\ Cardinality(Voters(key)) <= Cardinality(assignments[key])
    BY ZenonT(40), <1>1 DEF Counts
  <2> QED BY Zenon, <2>1
<1>3. TimelyVoteReward \in Nat /\ WorkersPerWork \in Nat /\ pool \in Nat
  BY WorkersAssumption DEF StorageInv, TypeOK, StakeTypeOK
<1>4. TimelyVoteReward * m <= TimelyVoteReward * WorkersPerWork
  BY Zenon, <1>2, <1>3, RewardCovered
<1>5. TimelyVoteReward * m \in Nat /\ TimelyVoteReward * WorkersPerWork \in Nat
  BY <1>2, <1>3
<1> QED BY <1>2, <1>3, <1>4, <1>5 DEF FinalizeVotingFails, PoolPaysVoters

(* No vote is overdue that finalize_due_votes does not have before it. *)
LEMMA VotesTimelyStep ==
    ASSUME StorageInv, Counts(WorkerIds), PoolPaysVoters, VotesTimely, RoundEffect, HookEffect,
           \A k \in DOMAIN assignments : Cardinality(assignments[k]) = WorkersPerWork
    PROVE  VotesTimely'
<1> SUFFICES ASSUME NEW key \in DOMAIN votingRounds'
             PROVE  \/ now' <= votingRounds'[key].deadline
                    \/ phase' = "workers" /\ key \in Elements(votesTodo')
  BY Zenon DEF VotesTimely
<1>1. ASSUME UNCHANGED now, UNCHANGED <<phase, votesTodo>>
      PROVE  \/ now' <= votingRounds'[key].deadline
             \/ phase' = "workers" /\ key \in Elements(votesTodo')
  <2>1. now \in Nat /\ VoteWindow \in Nat
    BY MiniJamAssumption DEF StorageInv, TypeOK, BlockTypeOK
  <2>2. now <= now + VoteWindow
    BY Zenon, <2>1, InTime
  <2> QED BY Zenon, <1>1, <2>2, VoteDeadlines DEF VotesTimely
<1>2. CASE /\ now' = now + 1
           /\ phase' = "workers"
           /\ votesTodo' = openVoteRounds
           /\ UNCHANGED votingRounds
  BY Zenon, <1>2 DEF StorageInv, OpenVoteRoundsExact
<1>3. CASE FinalizeDueVote /\ UNCHANGED <<now, phase>>
  <2>1. PICK k : k = Head(votesTodo)
    BY Zenon
  <2>2. votesTodo # <<>> /\ votesTodo' = Tail(votesTodo) /\ votesTodo \in Seq(RoundKeys)
    BY Zenon, <1>3 DEF FinalizeDueVote, StorageInv, TypeOK, BlockTypeOK
  <2>3. \A x \in Elements(votesTodo) : x # k => x \in Elements(votesTodo')
    BY Zenon, <2>1, <2>2, TailElements
  <2>5. CASE /\ UNCHANGED votingVars
             /\ k \in DOMAIN votingRounds /\ now > votingRounds[k].deadline =>
                   FinalizeVotingFails(Voters(k))
    <3>1. UNCHANGED votingRounds
      BY Zenon, <2>5 DEF votingVars
    <3>2. k \in DOMAIN votingRounds => ~(now > votingRounds[k].deadline)
      BY ZenonT(40), <2>5, FinalizePays, OpenRoundIsVoting
    <3>3. k \in DOMAIN votingRounds => now <= votingRounds[k].deadline
      <4>1. now \in Nat
        BY Zenon DEF StorageInv, TypeOK, BlockTypeOK
      <4>2. k \in DOMAIN votingRounds => votingRounds[k].deadline \in Nat
        BY Zenon, OpenRoundIsVoting DEF VotingRound
      <4> QED BY <3>2, <4>1, <4>2
    <3> QED BY ZenonT(40), <1>3, <2>3, <3>1, <3>3 DEF VotesTimely
  <2>6. \/ /\ k \in DOMAIN votingRounds /\ now > votingRounds[k].deadline
           /\ FinalizeVoting(k, Voters(k), votingRounds[k].locked)
        \/ /\ UNCHANGED votingVars
           /\ k \in DOMAIN votingRounds /\ now > votingRounds[k].deadline =>
                 FinalizeVotingFails(Voters(k))
    BY Zenon, <1>3, <2>1 DEF FinalizeDueVote
  <2>7. ASSUME k \in DOMAIN votingRounds, FinalizeVoting(k, Voters(k), votingRounds[k].locked)
        PROVE  \/ now' <= votingRounds'[key].deadline
               \/ phase' = "workers" /\ key \in Elements(votesTodo')
    BY Zenon, <1>3, <2>3, <2>7, FinalizeMoves DEF VotesTimely
  <2> QED BY Zenon, <2>5, <2>6, <2>7
<1>4. CASE votesTodo = <<>> /\ UNCHANGED <<now, votingRounds>>
  <2>1. Elements(votesTodo) = {}
    BY <1>4 DEF Elements
  <2> QED BY Zenon, <1>4, <2>1 DEF VotesTimely
<1>5. ASSUME NEW w, ThisWork(w) PROVE UNCHANGED now /\ UNCHANGED <<phase, votesTodo>>
  BY Zenon, <1>5 DEF ThisWork
<1> QED BY ZenonT(40), <1>1, <1>2, <1>3, <1>4, <1>5 DEF HookEffect

(* No candidate is overdue that on_initialize does not have before it. *)
LEMMA CandidatesTimelyStep ==
    ASSUME StorageInv, CandidatesTimely, HookEffect,
           KeepsDeadlines \/ \E w \in WorkIds : ReassignEffect(w) /\ AssignedAnew(w)
    PROVE  CandidatesTimely'
<1> SUFFICES ASSUME NEW v \in DOMAIN works', CandidateOverdue(v)'
             PROVE  phase' = "workers" \/ v \in Elements(worksTodo')
  BY Zenon DEF CandidatesTimely
<1>1. ASSUME UNCHANGED now PROVE v \in DOMAIN works /\ CandidateOverdue(v)
  <2>1. CASE KeepsDeadlines
    BY Zenon, <1>1, <2>1 DEF KeepsDeadlines, CandidateOverdue
  <2>2. ASSUME NEW w \in WorkIds, ReassignEffect(w), AssignedAnew(w)
        PROVE  v \in DOMAIN works /\ CandidateOverdue(v)
    <3>1. v # w
      BY Zenon, <1>1, <2>2, DealtWith
    <3>2. v \in DOMAIN works /\ works'[v] = works[v]
      BY Zenon, <2>2, <3>1 DEF ReassignEffect
    <3> QED BY Zenon, <1>1, <3>2 DEF CandidateOverdue
  <2> QED BY Zenon, <2>1, <2>2
<1>2. UNCHANGED now => phase = "workers" \/ v \in Elements(worksTodo)
  BY Zenon, <1>1 DEF CandidatesTimely
<1>3. CASE UNCHANGED <<now, phase, votesTodo, worksTodo>>
  BY Zenon, <1>2, <1>3
<1>4. CASE phase' = "workers"
  BY Zenon, <1>4
<1>5. CASE FinalizeDueVote /\ UNCHANGED <<now, phase, works, worksTodo>>
  <2>1. phase = "workers" \/ v \in Elements(worksTodo)
    BY Zenon, <1>2, <1>5
  <2> QED BY Zenon, <1>5, <2>1
<1>6. CASE worksTodo' = pendingWorks /\ UNCHANGED <<now, works>>
  <2>1. v \in DOMAIN works /\ works[v].status = "AwaitingCandidate"
    BY Zenon, <1>1, <1>6 DEF CandidateOverdue
  <2> QED BY Zenon, <1>6, <2>1 DEF StorageInv, PendingWorksExact, PendingStatuses
<1>7. ASSUME NEW w \in DOMAIN works, ThisWork(w), ~CandidateOverdue(w)'
      PROVE  v \in Elements(worksTodo')
  <2>1. v # w /\ w = Head(worksTodo) /\ worksTodo # <<>> /\ worksTodo' = Tail(worksTodo)
    BY Zenon, <1>7 DEF ThisWork
  <2>2. UNCHANGED now /\ phase = "minijam"
    BY Zenon, <1>7 DEF ThisWork
  <2>3. v \in Elements(worksTodo)
    BY <1>2, <2>2
  <2>4. worksTodo \in Seq(DOMAIN works)
    BY Zenon DEF StorageInv, TypeOK, BlockTypeOK
  <2> QED BY Zenon, <2>1, <2>3, <2>4, TailElements
<1> QED BY ZenonT(40), <1>3, <1>4, <1>5, <1>6, <1>7 DEF HookEffect

(* One hold for each of several things covers the hold for one of them. *)
LEMMA HoldCovers ==
    ASSUME NEW T, Counts(T), NEW S \in SUBSET T, NEW x \in S, NEW d \in Nat
    PROVE  d * Cardinality(S) >= d
<1>1. PICK n \in Nat : Cardinality(S) = n + 1
  BY Zenon, CountRemove
<1>2. d * (n + 1) = d * n + d /\ d * n \in Nat
  BY Zenon, OneMore
<1> QED BY <1>1, <1>2

(* A hold covers what it settles: holds that are exact let a lost round be    *)
(* settled.                                                                   *)
LEMMA HoldsLetAdvance ==
    ASSUME StorageInv, HoldsExact, Counts(WorkIds)
    PROVE  RoundsCanAdvance
<1> SUFFICES ASSUME NEW w \in DOMAIN works
             PROVE  /\ CandidateOverdue(w) => CanAdvance(w, FALSE)
                    /\ ResultRejects(w) => CanAdvance(w, TRUE)
  BY Zenon DEF RoundsCanAdvance
<1>1. DOMAIN works \subseteq WorkIds /\ works[w].owner \in Accounts
  BY Zenon DEF StorageInv, TypeOK, WorkTypeOK, WorkRecord
<1>2. ASSUME works[w].status \in PendingStatuses PROVE CanFailWork(w)
  <2>1. PICK a \in Accounts : a = works[w].owner
    BY Zenon, <1>1
  <2>2. UnsettledOf(a) \in SUBSET WorkIds /\ w \in UnsettledOf(a)
    BY Zenon, <1>1, <1>2, <2>1 DEF UnsettledOf
  <2>3. WorkDeposit * Cardinality(UnsettledOf(a)) >= WorkDeposit
    BY Zenon, <2>2, HoldCovers, MiniJamAssumption
  <2>4. depositHold[a] = WorkDeposit * Cardinality(UnsettledOf(a))
    BY Zenon DEF HoldsExact, DepositsExact
  <2> QED BY Zenon, <2>1, <2>3, <2>4 DEF CanFailWork
<1>3. ASSUME works[w].status = "Voting" PROVE CanSettleRejected(RoundOf(w))
  <2>1. RoundOf(w) \in DOMAIN candidates
    BY Zenon, <1>3 DEF StorageInv, RoundStateCoherent
  <2>2. PICK a \in Accounts : a = candidates[RoundOf(w)].submitter
    BY Zenon, <2>1 DEF StorageInv, TypeOK, WorkTypeOK, IsMap, CandidateRecord
  <2>3. VotingOf(a) \in SUBSET WorkIds /\ w \in VotingOf(a)
    BY Zenon, <1>1, <1>3, <2>2 DEF VotingOf
  <2>4. CandidateBond * Cardinality(VotingOf(a)) >= CandidateBond
    BY Zenon, <2>3, HoldCovers, MiniJamAssumption
  <2>5. bondHold[a] = CandidateBond * Cardinality(VotingOf(a))
    BY Zenon DEF HoldsExact, BondsExact
  <2> QED BY Zenon, <2>1, <2>2, <2>4, <2>5 DEF CanSettleRejected
<1>4. CandidateOverdue(w) => CanAdvance(w, FALSE)
  BY Zenon, <1>2 DEF CandidateOverdue, CanAdvance, PendingStatuses
<1>5. ResultRejects(w) => CanAdvance(w, TRUE)
  BY Zenon, <1>2, <1>3 DEF ResultRejects, HasResult, CanAdvance, PendingStatuses
<1> QED BY Zenon, <1>4, <1>5

(* Overdue votes and candidates are always ahead of the hooks *)
OverdueAhead == VotesTimely /\ CandidatesTimely

(* A step leaves nothing overdue behind the hooks. *)
LEMMA OverdueAheadStep ==
    ASSUME StorageInv, StorageInv', Counts(WorkerIds), DutiesBounded, RoundsCanAdvance,
           PoolPaysVoters, OverdueAhead, [Next]_vars
    PROVE  OverdueAhead'
<1>1. /\ NeverHalted'
      /\ \A key \in DOMAIN assignments : Cardinality(assignments[key]) = WorkersPerWork
  BY Zenon DEF DutiesBounded, StorageInv
<1>2. HookEffect /\ RoundEffect
  BY Zenon, <1>1, NextHookEffect, NextRoundEffect
<1>3. KeepsDeadlines \/ \E w \in WorkIds : ReassignEffect(w) /\ AssignedAnew(w)
  BY Zenon, <1>1, NextAssigns
<1>4. VotesTimely'
  BY Zenon, <1>1, <1>2, VotesTimelyStep DEF OverdueAhead
<1>5. CandidatesTimely'
  BY Zenon, <1>1, <1>2, <1>3, CandidatesTimelyStep DEF OverdueAhead
<1> QED BY Zenon, <1>4, <1>5 DEF OverdueAhead

(* At genesis there is no vote and no work. *)
LEMMA InitOverdueAhead ==
    ASSUME Init
    PROVE  OverdueAhead
<1>1. votingRounds = <<>> /\ works = <<>>
  BY Zenon DEF Init, WorkersInit
<1>2. DOMAIN votingRounds = {} /\ DOMAIN works = {}
  BY <1>1
<1> QED BY Zenon, <1>2 DEF OverdueAhead, VotesTimely, CandidatesTimely

(* Once the hooks have run, nothing is ahead of them. *)
LEMMA AheadNotOverdue ==
    ASSUME OverdueAhead
    PROVE  NothingOverdue
<1> SUFFICES ASSUME Dispatching
             PROVE  /\ \A key \in DOMAIN votingRounds : now <= votingRounds[key].deadline
                    /\ \A w \in DOMAIN works : ~CandidateOverdue(w)
  BY Zenon DEF NothingOverdue
<1>1. phase # "workers" /\ Elements(worksTodo) = {}
  BY DEF Dispatching, Elements
<1> QED BY Zenon, <1>1 DEF OverdueAhead, VotesTimely, CandidatesTimely
-----------------------------------------------------------------------------
(* The rounds of the worker engine *)

(* The two thresholds cannot both be met *)
ThresholdsApart == SupportThreshold + OpposeThreshold > WorkersPerWork

(* Sets that are apart count apart *)
CountsApart(T) ==
    \A R, S \in SUBSET T :
        R \cap S = {} => Cardinality(R \cup S) = Cardinality(R) + Cardinality(S)

(* Nothing that the engine sees of round key changes *)
SameRound(key) ==
    /\ key \in DOMAIN roundResults' <=> key \in DOMAIN roundResults
    /\ key \in DOMAIN roundResults => roundResults'[key] = roundResults[key]
    /\ key \in DOMAIN votingRounds' <=> key \in DOMAIN votingRounds
    /\ key \in DOMAIN votingRounds => votingRounds'[key] = votingRounds[key]
    /\ key \in DOMAIN assignments' <=> key \in DOMAIN assignments
    /\ key \in DOMAIN assignments =>
          /\ assignments'[key] = assignments[key]
          /\ KeepsVotes(key)
          /\ works'[key[1]].candidateDeadline = works[key[1]].candidateDeadline

(* The engine counts as the pallets do. *)
LEMMA EngineCounts ==
    ASSUME NEW key, NEW S
    PROVE  Engine(key)!Cardinality(S) = Cardinality(S)
  BY DEF Engine!Cardinality, Cardinality, Engine!IsFiniteSet, IsFiniteSet

(* The engine keeps its votes in a map, as the pallets do. *)
LEMMA EngineInserts ==
    ASSUME NEW key, NEW map, NEW x, NEW y
    PROVE  Engine(key)!Insert(map, x, y) = Insert(map, x, y)
  BY Zenon DEF Engine!Insert, Insert

(* Votes that stay are the same verdicts. *)
LEMMA VerdictsKept ==
    ASSUME NEW key, assignments'[key] = assignments[key], KeepsVotes(key)
    PROVE  Verdicts(key)' = Verdicts(key)
<1>1. Voters(key)' = Voters(key)
  BY Zenon, VotersKept
<1>2. \A w \in Voters(key) : votes'[<<key, w>>] = votes[<<key, w>>]
  BY Zenon DEF Voters, KeepsVotes
<1> QED BY Zenon, <1>1, <1>2 DEF Verdicts

(* A round of which nothing changes looks the same to the engine. *)
LEMMA SameView ==
    ASSUME StorageInv, NEW key, SameRound(key)
    PROVE  UNCHANGED RoundView(key)
<1>1. CASE key \in DOMAIN roundResults
  BY Zenon, <1>1 DEF SameRound, RoundView
<1>2. CASE key \notin DOMAIN roundResults /\ key \in DOMAIN votingRounds
  <2>1. key \in DOMAIN assignments
    BY Zenon, <1>2 DEF StorageInv, RoundStateCoherent
  <2>2. Verdicts(key)' = Verdicts(key)
    BY Zenon, <2>1, VerdictsKept DEF SameRound
  <2> QED BY Zenon, <1>2, <2>1, <2>2 DEF SameRound, RoundView
<1>3. CASE /\ key \notin DOMAIN roundResults /\ key \notin DOMAIN votingRounds
           /\ key \in DOMAIN assignments
  BY Zenon, <1>3 DEF SameRound, RoundView
<1>4. CASE /\ key \notin DOMAIN roundResults /\ key \notin DOMAIN votingRounds
           /\ key \notin DOMAIN assignments
  BY Zenon, <1>4 DEF SameRound, RoundView
<1> QED BY Zenon, <1>1, <1>2, <1>3, <1>4

(* A round looks open to the engine exactly while it is open for votes. *)
LEMMA OpenView ==
    ASSUME StorageInv, NEW key \in DOMAIN votingRounds
    PROVE  RoundView(key) =
               [stage |-> "voting", assigned |-> assignments[key],
                voteDeadline |-> votingRounds[key].deadline, votes |-> Verdicts(key),
                locked |-> votingRounds[key].locked]
<1>1. key \notin DOMAIN roundResults
  BY Zenon, OpenRoundIsVoting
<1> QED BY Zenon, <1>1 DEF RoundView

(* A round that begins or ends is started or dropped by the engine, or it has *)
(* its outcome and keeps it.                                                  *)
LEMMA ReassignFollows ==
    ASSUME StorageInv, VotesCurrent, NEW w, ReassignEffect(w), AssignedAnew(w), NEW key \in RoundKeys
    PROVE  Engine(key)!RoundNext \/ UNCHANGED RoundView(key)
<1>1. UNCHANGED <<votingRounds, roundResults>>
  BY Zenon DEF ReassignEffect
<1>2. CASE key[1] # w
  <2>1. key \in DOMAIN assignments' <=> key \in DOMAIN assignments
    BY Zenon, <1>2 DEF AssignedAnew
  <2>2. ASSUME key \in DOMAIN assignments
        PROVE  /\ assignments'[key] = assignments[key]
               /\ KeepsVotes(key)
               /\ works'[key[1]].candidateDeadline = works[key[1]].candidateDeadline
    <3>1. KeepsAssignment(key) /\ works'[key[1]] = works[key[1]]
      BY Zenon, <1>2, <2>2 DEF ReassignEffect, StorageInv, RoundStateCoherent
    <3>2. KeepsVotes(key)
      <4>1. /\ \A vote \in DOMAIN votes' : vote \in DOMAIN votes /\ votes'[vote] = votes[vote]
            /\ \A vote \in DOMAIN votes : vote[1][1] # w => vote \in DOMAIN votes'
        BY Zenon, ReassignVotes
      <4> QED BY Zenon, <1>2, <4>1 DEF KeepsVotes
    <3> QED BY Zenon, <3>1, <3>2 DEF KeepsAssignment
  <2>3. SameRound(key)
    BY Zenon, <1>1, <2>1, <2>2 DEF SameRound
  <2> QED BY Zenon, <2>3, SameView
<1>3. CASE key[1] = w /\ key \in DOMAIN roundResults
  BY Zenon, <1>1, <1>3 DEF RoundView
<1>4. CASE key[1] = w /\ key \notin DOMAIN roundResults
  <2>1. key \notin DOMAIN votingRounds
    BY Zenon, <1>4, ReassignNotOpen
  <2>2. CASE key \in DOMAIN assignments
    <3>1. key \notin DOMAIN assignments'
      BY Zenon, <1>4, <2>2 DEF AssignedAnew, NewlyAssigned
    <3>2. w \in DOMAIN works /\ key = RoundOf(w)
      BY ZenonT(40), <1>4, <2>2 DEF StorageInv, RoundStateCoherent
    <3>3. works[w].status = "AwaitingCandidate"
      BY ZenonT(40), <1>4, <2>1, <2>2, <3>2 DEF StorageInv, RoundStateCoherent
    <3>4. now > works[key[1]].candidateDeadline
      BY Zenon, <1>4, <3>2, <3>3 DEF ReassignEffect, HasResult, CandidateOverdue
    <3>5. RoundView(key) = [stage |-> "assigned", assigned |-> assignments[key],
                            reportDeadline |-> works[key[1]].candidateDeadline]
      BY Zenon, <1>4, <2>1, <2>2 DEF RoundView
    <3>6. RoundView(key)' = [stage |-> "none"]
      BY ZenonT(40), <1>1, <1>4, <2>1, <3>1 DEF RoundView
    <3>7. Engine(key)!Drop
      BY <3>4, <3>5, <3>6 DEF Engine!Drop, Engine!NoRound
    <3> QED BY Zenon, <3>7 DEF Engine!RoundNext
  <2>3. CASE key \notin DOMAIN assignments
    <3>1. RoundView(key) = [stage |-> "none"]
      BY Zenon, <1>4, <2>1, <2>3 DEF RoundView
    <3>2. CASE key \notin DOMAIN assignments'
      <4>1. RoundView(key)' = [stage |-> "none"]
        BY Zenon, <1>1, <1>4, <2>1, <3>2 DEF RoundView
      <4> QED BY Zenon, <3>1, <4>1
    <3>3. CASE key \in DOMAIN assignments'
      <4>1. NewlyAssigned(w, key)
        BY Zenon, <1>4, <3>3 DEF AssignedAnew
      <4>2. RoundView(key)' = [stage |-> "assigned", assigned |-> assignments'[key],
                               reportDeadline |-> works'[key[1]].candidateDeadline]
        BY Zenon, <1>1, <1>4, <2>1, <3>3 DEF RoundView
      <4>3. works'[key[1]].candidateDeadline = now + ReportSubmissionDeadline
        BY Zenon, <1>4, <4>1 DEF NewlyAssigned
      <4>4. /\ assignments'[key] \in SUBSET WorkerIds
            /\ Cardinality(assignments'[key]) = WorkersPerWork
        BY Zenon, <4>1 DEF NewlyAssigned
      <4>5. RoundView(key)' = [stage |-> "assigned", assigned |-> assignments'[key],
                               reportDeadline |-> now + ReportSubmissionDeadline]
        BY ZenonT(40), <4>2, <4>3
      <4>6. Engine(key)!Start
        BY ONLY <3>1, <4>4, <4>5, EngineCounts DEF Engine!Start, Engine!New
      <4> QED BY Zenon, <4>6 DEF Engine!RoundNext
    <3> QED BY Zenon, <3>2, <3>3
  <2> QED BY Zenon, <2>2, <2>3
<1> QED BY Zenon, <1>2, <1>3, <1>4

(* submit_candidate opens the round of its work as the engine does. *)
LEMMA OpenFollows ==
    ASSUME StorageInv, VotesCurrent, KeepsDeadlines, NEW a, NEW w \in DOMAIN works, OpenEffect(a, w),
           NEW key \in RoundKeys
    PROVE  Engine(key)!RoundNext \/ UNCHANGED RoundView(key)
<1> DEFINE new == RoundOf(w)
<1>1. /\ new \in DOMAIN assignments /\ new \notin DOMAIN votingRounds
      /\ new \notin DOMAIN roundResults
      /\ UNCHANGED <<votes, assignments, roundResults>>
      /\ votingRounds' = Insert(votingRounds, new,
             [assignmentEpoch |-> assignmentEpochs[new], deadline |-> now + VoteWindow,
              support |-> 0, oppose |-> 0, responses |-> 0, locked |-> Undecided])
      /\ works[w].status = "AwaitingCandidate"
      /\ new[1] = w
  BY Zenon DEF OpenEffect, OpenVoting, CandidateEffect, RoundOf
<1> HIDE DEF new
<1>2. /\ DOMAIN votingRounds' = DOMAIN votingRounds \cup {new}
      /\ \A k \in DOMAIN votingRounds : votingRounds'[k] = votingRounds[k]
      /\ votingRounds'[new].deadline = now + VoteWindow /\ votingRounds'[new].locked = Undecided
  BY Zenon, <1>1 DEF Insert
<1>3. CASE key # new
  <2>1. KeepsVotes(key)
    BY Zenon, <1>1 DEF KeepsVotes
  <2>2. key \in DOMAIN assignments =>
           works'[key[1]].candidateDeadline = works[key[1]].candidateDeadline
    BY Zenon DEF KeepsDeadlines, StorageInv, RoundStateCoherent
  <2>3. SameRound(key)
    BY ZenonT(40), <1>1, <1>2, <1>3, <2>1, <2>2 DEF SameRound
  <2> QED BY Zenon, <2>3, SameView
<1>4. CASE key = new
  <2>1. RoundView(key) = [stage |-> "assigned", assigned |-> assignments[key],
                          reportDeadline |-> works[key[1]].candidateDeadline]
    BY Zenon, <1>1, <1>4 DEF RoundView
  <2>2. now <= works[key[1]].candidateDeadline
    BY ZenonT(40), <1>1, <1>2, <1>4 DEF KeepsDeadlines
  <2>3. Verdicts(key)' = <<>>
    <3>1. \A v : <<key, v>> \notin DOMAIN votes
      BY Zenon, <1>1, <1>4 DEF VotesCurrent
    <3>2. Voters(key)' = {}
      BY Zenon, <1>1, <3>1 DEF Voters
    <3> QED BY <3>2 DEF Verdicts
  <2>4. RoundView(key)' = [stage |-> "voting", assigned |-> assignments'[key],
                           voteDeadline |-> votingRounds'[key].deadline, votes |-> Verdicts(key)',
                           locked |-> votingRounds'[key].locked]
    BY Zenon, <1>1, <1>2, <1>4 DEF RoundView
  <2>5. RoundView(key)' = [stage |-> "voting", assigned |-> assignments[key],
                           voteDeadline |-> now + VoteWindow, votes |-> <<>>, locked |-> "None"]
    BY ZenonT(40), <1>1, <1>2, <1>4, <2>3, <2>4 DEF Undecided
  <2>6. /\ RoundView(key).stage = "assigned" /\ now <= RoundView(key).reportDeadline
        /\ RoundView(key).assigned = assignments[key]
    BY ONLY <2>1, <2>2
  <2>7. Engine(key)!OpenCandidate
    BY ONLY <2>5, <2>6 DEF Engine!OpenCandidate, Engine!Opened
  <2> QED BY Zenon, <2>7 DEF Engine!RoundNext
<1> QED BY Zenon, <1>3, <1>4

(* A vote that ends at its deadline is settled by the engine with the same    *)
(* outcome and the same absentees.                                            *)
LEMMA DueFollows ==
    ASSUME StorageInv, NEW k \in DOMAIN votingRounds, DueEffect(k), NEW key \in RoundKeys
    PROVE  Engine(key)!RoundNext \/ UNCHANGED RoundView(key)
<1>1. /\ DOMAIN votingRounds' = DOMAIN votingRounds \ {k}
      /\ \A i \in DOMAIN votingRounds \ {k} : votingRounds'[i] = votingRounds[i]
      /\ DOMAIN roundResults' = DOMAIN roundResults \cup {k}
      /\ \A i \in DOMAIN roundResults \ {k} : roundResults'[i] = roundResults[i]
      /\ roundResults'[k] = [decision |-> votingRounds[k].locked,
                             absentees |-> assignments[k] \ Voters(k)]
  <2>1. FinalizeVoting(k, Voters(k), votingRounds[k].locked)
    BY Zenon DEF DueEffect
  <2>2. roundResults'[k] = [decision |-> votingRounds[k].locked,
                            absentees |-> assignments[k] \ Voters(k)]
    BY Zenon, <2>1 DEF FinalizeVoting, Insert
  <2> QED BY Zenon, <2>1, <2>2, FinalizeMoves
<1>2. UNCHANGED <<votes, works, assignments>> /\ now > votingRounds[k].deadline
  BY Zenon DEF DueEffect
<1>3. CASE key # k
  <2>1. SameRound(key)
    BY Zenon, <1>1, <1>2, <1>3 DEF SameRound, KeepsVotes
  <2> QED BY Zenon, <2>1, SameView
<1>4. CASE key = k
  <2>1. RoundView(key) = [stage |-> "voting", assigned |-> assignments[key],
                          voteDeadline |-> votingRounds[key].deadline, votes |-> Verdicts(key),
                          locked |-> votingRounds[key].locked]
    BY Zenon, <1>4, OpenView
  <2>2. RoundView(key)' =
           [stage |-> "final",
            outcome |-> IF votingRounds[key].locked = "Accepted" THEN "Accepted" ELSE "Rejected",
            absent |-> assignments[key] \ Voters(key)]
    <3>1. /\ key \in DOMAIN roundResults'
          /\ roundResults'[key] = [decision |-> votingRounds[key].locked,
                                   absentees |-> assignments[key] \ Voters(key)]
      BY <1>1, <1>4, ZenonT(40)
    <3>2. /\ roundResults'[key].decision = votingRounds[key].locked
          /\ roundResults'[key].absentees = assignments[key] \ Voters(key)
      BY ONLY <3>1
    <3> QED BY Zenon, <3>1, <3>2 DEF RoundView
  <2>3. DOMAIN Verdicts(key) = Voters(key)
    BY Zenon DEF Verdicts
  <2>4. now >= votingRounds[key].deadline
    <3>1. now \in Nat /\ votingRounds[key].deadline \in Nat
      BY ZenonT(40), <1>4, OpenRoundIsVoting DEF StorageInv, TypeOK, BlockTypeOK, VotingRound
    <3> QED BY <1>2, <1>4, <3>1
  <2>5. Engine(key)!Settle
    BY <2>1, <2>2, <2>3, <2>4 DEF Engine!Settle, Engine!ReadyToFinalize, Engine!Final
  <2> QED BY Zenon, <2>5 DEF Engine!RoundNext
<1> QED BY Zenon, <1>3, <1>4

(* A count that falls short of a threshold is not at it, and votes that meet  *)
(* one threshold leave too few to meet the other.                             *)
LEMMA OneThreshold ==
    ASSUME NEW s \in Nat, NEW o \in Nat, NEW S \in Nat, NEW O \in Nat, NEW W \in Nat,
           s + o <= W, S + O > W
    PROVE  /\ o >= O => ~(s >= S)
           /\ s < S => ~(s >= S)
           /\ o < O => ~(o >= O)
  OBVIOUS

(* The engine locks the decision that the pallet locks: with thresholds that  *)
(* cannot both be met, recomputing it from all votes gives the same.          *)
LEMMA LockFollows ==
    ASSUME StorageInv, Counts(WorkerIds), CountsApart(WorkerIds), ThresholdsApart,
           NEW key \in DOMAIN votingRounds, NEW w \in Registered,
           NEW verdict \in {"Support", "Oppose"}, VoteEffect(key, w, verdict), RoundExact(key),
           Cardinality(assignments[key]) = WorkersPerWork,
           NEW ballots, DOMAIN ballots = Voters(key)',
           \A v \in Voters(key)' : ballots[v] = votes'[<<key, v>>]
    PROVE  Engine(key)!LockedOutcome(ballots, votingRounds[key].locked) = AfterVote(key, verdict).locked
<1>1. PICK new : new = AfterVote(key, verdict)
  BY Zenon
<1>2. ASSUME NEW d PROVE Engine(key)!Count(ballots, d) = Cardinality(VotersFor(key, d)')
  <2>1. {v \in DOMAIN ballots : ballots[v] = d} = VotersFor(key, d)'
    BY Zenon DEF VotersFor
  <2> QED BY Zenon, <2>1, EngineCounts DEF Engine!Count
<1>3. /\ new.support = Cardinality(VotersFor(key, "Support")')
      /\ new.oppose = Cardinality(VotersFor(key, "Oppose")')
      /\ new.locked = "Accepted" => new.support >= SupportThreshold
      /\ new.locked = "Rejected" => new.oppose >= OpposeThreshold
      /\ new.locked = Undecided => /\ new.support < SupportThreshold
                                   /\ new.oppose < OpposeThreshold
  BY Zenon, <1>1, VoteExact
<1>4. votingRounds[key] \in VotingRound
  BY Zenon, OpenRoundIsVoting
<1>5. /\ votingRounds[key].locked # Undecided => new.locked = votingRounds[key].locked
      /\ new.locked \in {Undecided, "Accepted", "Rejected"}
  <2>1. /\ votingRounds[key].locked # Undecided => new.locked = votingRounds[key].locked
        /\ votingRounds[key].locked = Undecided =>
              new.locked = IF new.support >= SupportThreshold THEN "Accepted"
                           ELSE IF new.oppose >= OpposeThreshold THEN "Rejected"
                           ELSE Undecided
    BY Zenon, <1>1, <1>4, CountedFields
  <2>2. votingRounds[key].locked \in {Undecided, "Accepted", "Rejected"}
    BY Zenon, <1>4 DEF VotingRound
  <2> QED BY Zenon, <2>1, <2>2
<1>6. new.support \in Nat /\ new.oppose \in Nat /\ new.support + new.oppose <= WorkersPerWork
  <2>1. Voters(key)' \subseteq assignments[key] /\ assignments[key] \in SUBSET WorkerIds
    <3>1. Voters(key)' \subseteq assignments[key]
      BY Zenon, VoteRecorded
    <3>2. assignments[key] \in SUBSET WorkerIds
      BY Zenon, OpenRoundIsVoting DEF StorageInv, TypeOK, StakeTypeOK
    <3> QED BY Zenon, <3>1, <3>2
  <2>2. PICK S, O : S = VotersFor(key, "Support")' /\ O = VotersFor(key, "Oppose")'
    BY Zenon
  <2>3. S \subseteq Voters(key)' /\ O \subseteq Voters(key)' /\ S \cap O = {}
    BY Zenon, <2>2 DEF VotersFor
  <2>4. /\ S \in SUBSET WorkerIds /\ O \in SUBSET WorkerIds
        /\ S \cup O \in SUBSET assignments[key]
    BY Zenon, <2>1, <2>3
  <2>5. /\ Cardinality(S \cup O) = Cardinality(S) + Cardinality(O)
        /\ Cardinality(S \cup O) <= Cardinality(assignments[key])
        /\ Cardinality(S) \in Nat /\ Cardinality(O) \in Nat
    BY Zenon, <2>1, <2>3, <2>4 DEF Counts, CountsApart
  <2> QED BY Zenon, <1>3, <2>2, <2>5
<1>7. /\ new.locked = "Accepted" => new.support >= SupportThreshold
      /\ new.locked = "Rejected" => ~(new.support >= SupportThreshold) /\ new.oppose >= OpposeThreshold
      /\ new.locked = Undecided => ~(new.support >= SupportThreshold) /\ ~(new.oppose >= OpposeThreshold)
  <2>1. SupportThreshold \in Nat /\ OpposeThreshold \in Nat /\ WorkersPerWork \in Nat
    BY Zenon, WorkersAssumption
  <2> QED BY ZenonT(40), <1>3, <1>6, <2>1, OneThreshold DEF ThresholdsApart
<1>8. /\ Engine(key)!Count(ballots, "Support") = new.support
      /\ Engine(key)!Count(ballots, "Oppose") = new.oppose
  BY ZenonT(40), <1>2, <1>3
<1>9. Engine(key)!LockedOutcome(ballots, votingRounds[key].locked) = new.locked
  BY <1>5, <1>7, <1>8 DEF Engine!LockedOutcome
<1> QED BY Zenon, <1>1, <1>9

(* The record the engine keeps of a round once the vote of w is recorded. *)
LEMMA VotedView ==
    ASSUME StorageInv, Counts(WorkerIds), CountsApart(WorkerIds), ThresholdsApart,
           NEW key \in DOMAIN votingRounds, NEW w \in Registered,
           NEW verdict \in {"Support", "Oppose"}, VoteEffect(key, w, verdict), RoundExact(key),
           Cardinality(assignments[key]) = WorkersPerWork
    PROVE  /\ Engine(key)!Voted(w, verdict) =
                 [stage |-> "voting", assigned |-> assignments[key],
                  voteDeadline |-> votingRounds[key].deadline, votes |-> Verdicts(key)',
                  locked |-> AfterVote(key, verdict).locked]
           /\ DOMAIN Verdicts(key)' = Voters(key)'
<1>1. PICK ballots : ballots = Insert(Verdicts(key), w, verdict)
  BY Zenon
<1>2. /\ Voters(key)' = Voters(key) \cup {w} /\ w \notin Voters(key)
      /\ votes'[<<key, w>>] = verdict
      /\ \A v \in Voters(key) : votes'[<<key, v>>] = votes[<<key, v>>]
  <2>1. <<key, w>> \notin DOMAIN votes /\ votes' = Insert(votes, <<key, w>>, verdict)
    BY Zenon DEF VoteEffect, SubmitVote
  <2>2. Voters(key)' = Voters(key) \cup {w}
    BY Zenon, VoteRecorded
  <2>3. w \notin Voters(key) /\ \A v \in Voters(key) : <<key, v>> \in DOMAIN votes
    BY Zenon, <2>1 DEF Voters
  <2>4. /\ votes'[<<key, w>>] = verdict
        /\ \A vote \in DOMAIN votes : votes'[vote] = votes[vote]
    BY Zenon, <2>1 DEF Insert
  <2> QED BY Zenon, <2>2, <2>3, <2>4
<1>3. /\ DOMAIN Verdicts(key) = Voters(key)
      /\ \A v \in Voters(key) : Verdicts(key)[v] = votes[<<key, v>>]
  BY Zenon DEF Verdicts
<1>4. ballots = [v \in Voters(key)' |-> IF v = w THEN verdict ELSE Verdicts(key)[v]]
  BY Zenon, <1>1, <1>2, <1>3 DEF Insert
<1>5. DOMAIN ballots = Voters(key)' /\ \A v \in Voters(key)' : ballots[v] = votes'[<<key, v>>]
  BY Zenon, <1>2, <1>3, <1>4
<1>6. ballots = Verdicts(key)'
  <2>1. \A v \in Voters(key)' :
           (IF v = w THEN verdict ELSE Verdicts(key)[v]) = votes'[<<key, v>>]
    BY Zenon, <1>2, <1>3
  <2> QED BY Zenon, <1>4, <2>1 DEF Verdicts
<1>7. Engine(key)!LockedOutcome(ballots, votingRounds[key].locked) = AfterVote(key, verdict).locked
  BY Zenon, <1>5, LockFollows
<1>8. RoundView(key) =
         [stage |-> "voting", assigned |-> assignments[key],
          voteDeadline |-> votingRounds[key].deadline, votes |-> Verdicts(key),
          locked |-> votingRounds[key].locked]
  BY Zenon, OpenView
<1>9. Engine(key)!Voted(w, verdict) =
         [RoundView(key) EXCEPT
             !.votes = ballots,
             !.locked = Engine(key)!LockedOutcome(ballots, RoundView(key).locked)]
  <2>1. ballots = Engine(key)!Insert(RoundView(key).votes, w, verdict)
    <3>1. RoundView(key).votes = Verdicts(key)
      BY <1>8
    <3> QED BY ZenonT(40), <1>1, <3>1, EngineInserts
  <2> QED BY Zenon, <2>1 DEF Engine!Voted
<1>10. Engine(key)!Voted(w, verdict) =
          [stage |-> "voting", assigned |-> assignments[key],
           voteDeadline |-> votingRounds[key].deadline, votes |-> ballots,
           locked |-> AfterVote(key, verdict).locked]
  <2>1. RoundView(key).locked = votingRounds[key].locked
    BY <1>8
  <2>2. Engine(key)!Voted(w, verdict) =
           [RoundView(key) EXCEPT !.votes = ballots, !.locked = AfterVote(key, verdict).locked]
    BY Zenon, <1>7, <1>9, <2>1
  <2>3. [RoundView(key) EXCEPT !.votes = ballots, !.locked = AfterVote(key, verdict).locked] =
           [stage |-> "voting", assigned |-> assignments[key],
            voteDeadline |-> votingRounds[key].deadline, votes |-> ballots,
            locked |-> AfterVote(key, verdict).locked]
    <3>1. PICK r : r = RoundView(key)
      BY Zenon
    <3>2. PICK y : y = AfterVote(key, verdict).locked
      BY Zenon
    <3>3. [r EXCEPT !.votes = ballots, !.locked = y] =
             [stage |-> "voting", assigned |-> assignments[key],
              voteDeadline |-> votingRounds[key].deadline, votes |-> ballots, locked |-> y]
      <4>1. PICK r1 : r1 = [r EXCEPT !.votes = ballots]
        BY Zenon
      <4>2. r1 = [stage |-> "voting", assigned |-> assignments[key],
                  voteDeadline |-> votingRounds[key].deadline, votes |-> ballots,
                  locked |-> votingRounds[key].locked]
        BY ONLY <1>8, <3>1, <4>1
      <4>3. PICK r2 : r2 = [r1 EXCEPT !.locked = y]
        BY Zenon
      <4>4. r2 = [stage |-> "voting", assigned |-> assignments[key],
                  voteDeadline |-> votingRounds[key].deadline, votes |-> ballots, locked |-> y]
        BY ONLY <4>2, <4>3
      <4>5. [r EXCEPT !.votes = ballots, !.locked = y] = r2
        BY ONLY Zenon, <4>1, <4>3
      <4> QED BY ONLY Zenon, <4>4, <4>5
    <3> QED BY ONLY ZenonT(40), <3>1, <3>2, <3>3
  <2> QED BY ONLY ZenonT(40), <2>2, <2>3
<1> QED BY Zenon, <1>5, <1>6, <1>10

(* submit_vote records the vote, and settles the round that it completes, as  *)
(* the engine does.                                                           *)
LEMMA VoteFollows ==
    ASSUME StorageInv, Counts(WorkerIds), CountsApart(WorkerIds), ThresholdsApart,
           VotingRoundExact, NEW k \in DOMAIN votingRounds, NEW w \in Registered,
           NEW verdict \in {"Support", "Oppose"}, VoteEffect(k, w, verdict),
           Cardinality(assignments[k]) = WorkersPerWork, NEW key \in RoundKeys
    PROVE  Engine(key)!RoundNext \/ UNCHANGED RoundView(key)
<1>1. /\ UNCHANGED <<works, assignments>> /\ now <= votingRounds[k].deadline
      /\ w \in assignments[k] /\ <<k, w>> \notin DOMAIN votes
  BY Zenon DEF VoteEffect, SubmitVote, assignmentVars
<1>2. /\ Voters(k)' = Voters(k) \cup {w} /\ Voters(k)' \subseteq assignments[k]
      /\ \A i \in DOMAIN assignments \ {k} : KeepsVotes(i)
  <2>1. Voters(k)' = Voters(k) \cup {w} /\ Voters(k)' \subseteq assignments[k]
    BY VoteRecorded
  <2>2. \A i \in DOMAIN assignments \ {k} : KeepsVotes(i)
    BY ZenonT(40), VoteRecorded
  <2> QED BY ZenonT(40), <2>1, <2>2
<1>3. PICK new : new = AfterVote(k, verdict)
  BY Zenon
<1>4. CASE key # k
  <2>1. \/ Closes(k, new.locked)
        \/ votingRounds' = [votingRounds EXCEPT ![k] = new] /\ UNCHANGED roundResults
    BY Zenon, <1>3, VoteCloses
  <2>2. /\ key \in DOMAIN roundResults' <=> key \in DOMAIN roundResults
        /\ key \in DOMAIN roundResults => roundResults'[key] = roundResults[key]
        /\ key \in DOMAIN votingRounds' <=> key \in DOMAIN votingRounds
        /\ key \in DOMAIN votingRounds => votingRounds'[key] = votingRounds[key]
    BY Zenon, <1>4, <2>1 DEF Closes
  <2>3. SameRound(key)
    BY ZenonT(40), <1>1, <1>2, <1>4, <2>2 DEF SameRound
  <2> QED BY Zenon, <2>3, SameView
<1>5. CASE key = k
  <2>1. RoundExact(key)
    BY Zenon, <1>5 DEF VotingRoundExact
  <2>2. PICK voted : voted = [stage |-> "voting", assigned |-> assignments[key],
                              voteDeadline |-> votingRounds[key].deadline, votes |-> Verdicts(key)',
                              locked |-> new.locked]
    BY Zenon
  <2>3. Engine(key)!Voted(w, verdict) = voted /\ DOMAIN Verdicts(key)' = Voters(key)'
    BY ZenonT(40), <1>3, <1>5, <2>1, <2>2, VotedView
  <2>4. RoundView(key) =
           [stage |-> "voting", assigned |-> assignments[key],
            voteDeadline |-> votingRounds[key].deadline, votes |-> Verdicts(key),
            locked |-> votingRounds[key].locked]
    BY Zenon, <1>5, OpenView
  <2>5. w \in assignments[key] \ DOMAIN Verdicts(key)
    BY ZenonT(40), <1>1, <1>5 DEF Verdicts, Voters
  <2>6. /\ RoundView(key).stage = "voting"
        /\ now <= RoundView(key).voteDeadline
        /\ w \in RoundView(key).assigned \ DOMAIN RoundView(key).votes
    BY ONLY <1>1, <1>5, <2>4, <2>5
  <2>7. ASSUME votingRounds' = [votingRounds EXCEPT ![k] = new], UNCHANGED roundResults
        PROVE  Engine(key)!RecordVote(w, verdict)
    <3>1. /\ key \in DOMAIN votingRounds' /\ key \notin DOMAIN roundResults'
          /\ votingRounds'[key] = new
      BY Zenon, <1>5, <2>7, OpenRoundIsVoting
    <3>2. new.deadline = votingRounds[key].deadline
      BY ZenonT(40), <1>3, <1>5, OpenRoundIsVoting, CountedFields
    <3>3. RoundView(key)' = voted
      BY ZenonT(40), <1>1, <2>2, <3>1, <3>2 DEF RoundView
    <3> QED BY <2>3, <2>6, <3>3 DEF Engine!RecordVote
  <2>8. ASSUME new.responses >= Cardinality(assignments[k]),
               FinalizeVoting(k, Voters(k) \cup {w}, new.locked)
        PROVE  Engine(key)!RecordVote(w, verdict)
    <3>1. /\ key \in DOMAIN roundResults'
          /\ roundResults'[key] = [decision |-> new.locked, absentees |-> assignments[key] \ Voters(key)']
      BY ZenonT(40), <1>2, <1>5, <2>8 DEF FinalizeVoting, Insert
    <3>2. RoundView(key)' =
             [stage |-> "final",
              outcome |-> IF new.locked = "Accepted" THEN "Accepted" ELSE "Rejected",
              absent |-> assignments[key] \ Voters(key)']
      <4>1. /\ roundResults'[key].decision = new.locked
            /\ roundResults'[key].absentees = assignments[key] \ Voters(key)'
        BY ONLY <3>1
      <4> QED BY ZenonT(40), <3>1, <4>1 DEF RoundView
    <3>3. Voters(key)' = assignments[key]
      <4>1. new.responses = Cardinality(Voters(key)')
        BY ZenonT(40), <1>3, <1>5, <2>1, VoteExact
      <4>2. assignments[key] \in SUBSET WorkerIds
        BY ZenonT(40), <1>5, OpenRoundIsVoting DEF StorageInv, TypeOK, StakeTypeOK
      <4>3. Voters(key)' \in SUBSET assignments[key]
        BY Zenon, <1>2, <1>5
      <4>4. Cardinality(Voters(key)') >= Cardinality(assignments[key])
        BY ZenonT(40), <1>5, <2>8, <4>1
      <4>5. Counts(WorkerIds)
        BY ZenonT(40)
      <4> QED BY ONLY <4>2, <4>3, <4>4, <4>5, CountAll
    <3>4. Engine(key)!ReadyToFinalize(voted)
      BY ONLY <2>2, <2>3, <3>3 DEF Engine!ReadyToFinalize
    <3>5. RoundView(key)' = Engine(key)!Final(voted)
      BY <2>2, <2>3, <3>2 DEF Engine!Final
    <3> QED BY Zenon, <2>3, <2>6, <3>4, <3>5 DEF Engine!RecordVote
  <2>9. \/ /\ new.responses >= Cardinality(assignments[k])
           /\ FinalizeVoting(k, Voters(k) \cup {w}, new.locked)
        \/ /\ votingRounds' = [votingRounds EXCEPT ![k] = new]
           /\ UNCHANGED roundResults
    BY Zenon, <1>3, VoteOutcome
  <2>10. Engine(key)!RecordVote(w, verdict)
    BY Zenon, <2>7, <2>8, <2>9
  <2>11. w \in WorkerIds
    BY Zenon DEF StorageInv, TypeOK, StakeTypeOK
  <2> QED BY Zenon, <2>10, <2>11 DEF Engine!RoundNext
<1> QED BY Zenon, <1>4, <1>5

(* Every step of the two pallets is, for every round, a step of the engine or *)
(* none.                                                                      *)
LEMMA FollowsEngineStep ==
    ASSUME StorageInv, Counts(WorkerIds), CountsApart(WorkerIds), ThresholdsApart,
           VotingRoundExact, VotesCurrent, RoundEffect,
           \A k \in DOMAIN assignments : Cardinality(assignments[k]) = WorkersPerWork,
           KeepsDeadlines \/ \E w \in WorkIds : ReassignEffect(w) /\ AssignedAnew(w)
    PROVE  FollowsEngine
<1> SUFFICES ASSUME NEW key \in RoundKeys
             PROVE  Engine(key)!RoundNext \/ UNCHANGED RoundView(key)
  BY Zenon DEF FollowsEngine
<1>1. ASSUME NEW w, ReassignEffect(w), AssignedAnew(w)
      PROVE  Engine(key)!RoundNext \/ UNCHANGED RoundView(key)
  BY Zenon, <1>1, ReassignFollows
<1>2. CASE KeepsDeadlines
  <2>1. UNCHANGED assignments
    BY Zenon, <1>2 DEF KeepsDeadlines
  <2>2. key \in DOMAIN assignments =>
           works'[key[1]].candidateDeadline = works[key[1]].candidateDeadline
    BY Zenon, <1>2 DEF KeepsDeadlines, StorageInv, RoundStateCoherent
  <2>3. CASE UNCHANGED <<votes, votingRounds, roundResults>>
    <3>1. SameRound(key)
      BY Zenon, <2>1, <2>2, <2>3 DEF SameRound, KeepsVotes
    <3> QED BY Zenon, <3>1, SameView
  <2>4. ASSUME NEW w \in WorkIds, ReassignEffect(w) PROVE UNCHANGED RoundView(key)
    <3>1. SameRound(key)
      <4>1. UNCHANGED <<votingRounds, roundResults>>
        BY Zenon, <2>4 DEF ReassignEffect
      <4>2. KeepsVotes(key)
        BY Zenon, <1>2, <2>4, ReassignVotes DEF KeepsDeadlines, KeepsVotes
      <4> QED BY ZenonT(40), <2>1, <2>2, <4>1, <4>2 DEF SameRound
    <3> QED BY Zenon, <3>1, SameView
  <2>5. ASSUME NEW a \in Accounts, NEW w \in DOMAIN works, OpenEffect(a, w)
        PROVE  Engine(key)!RoundNext \/ UNCHANGED RoundView(key)
    BY Zenon, <1>2, <2>5, OpenFollows
  <2>6. ASSUME NEW k \in DOMAIN votingRounds, NEW w \in Registered,
               NEW verdict \in {"Support", "Oppose"}, VoteEffect(k, w, verdict)
        PROVE  Engine(key)!RoundNext \/ UNCHANGED RoundView(key)
    BY Zenon, <2>6, OpenRoundIsVoting, VoteFollows
  <2>7. ASSUME NEW k \in DOMAIN votingRounds, DueEffect(k)
        PROVE  Engine(key)!RoundNext \/ UNCHANGED RoundView(key)
    BY Zenon, <2>7, DueFollows
  <2> QED
    BY ZenonT(40), <2>3, <2>4, <2>5, <2>6, <2>7 DEF RoundEffect, roundVars, votingVars
<1> QED BY Zenon, <1>1, <1>2

(* At genesis no round has begun. *)
LEMMA InitFollows ==
    ASSUME Init, NEW key \in RoundKeys
    PROVE  Engine(key)!Init
<1>1. roundResults = <<>> /\ votingRounds = <<>> /\ assignments = <<>>
  BY Zenon DEF Init, WorkersInit
<1>2. /\ key \notin DOMAIN roundResults /\ key \notin DOMAIN votingRounds
      /\ key \notin DOMAIN assignments
  BY <1>1
<1>3. RoundView(key) = [stage |-> "none"]
  BY Zenon, <1>2 DEF RoundView
<1> QED BY <1>3 DEF Engine!Init, Engine!NoRound

(* Under the invariant, every step of the two pallets follows the engine. *)
LEMMA NextFollows ==
    ASSUME StorageInv, Counts(WorkerIds), CountsApart(WorkerIds), ThresholdsApart,
           VotingRoundExact, VotesCurrent, DutiesBounded, [Next]_vars
    PROVE  FollowsEngine
<1>1. \A key \in DOMAIN assignments : Cardinality(assignments[key]) = WorkersPerWork
  BY Zenon DEF DutiesBounded
<1>2. RoundEffect
  BY Zenon, NextRoundEffect
<1>3. KeepsDeadlines \/ \E w \in WorkIds : ReassignEffect(w) /\ AssignedAnew(w)
  BY Zenon, NextAssigns
<1> QED BY ZenonT(40), <1>1, <1>2, <1>3, FollowsEngineStep
=============================================================================
