---------------------------- MODULE DaemonProofs ----------------------------
(* Proofs about the worker daemon (module WorkerDaemon): its inductive        *)
(* invariant, one lemma per action, and the theorems at the end.              *)
EXTENDS DaemonProgram, Sequences, FiniteSetTheorems, WellFoundedInduction, NaturalsInduction, TLAPS

(* Every non-empty set of naturals has a least element. *)
LEMMA LeastNatural ==
    ASSUME NEW T, T \subseteq Nat, T # {}
    PROVE  \E n \in T : \A m \in T : n <= m
<1> DEFINE R == OpToRel(<, Nat)
<1>1. IsWellFoundedOn(R, Nat)
  BY Zenon, NatLessThanWellFounded
<1>2. \A m, n \in Nat : m < n => <<m, n>> \in R
  BY DEF OpToRel
<1> HIDE DEF R
<1>3. PICK x \in T : \A y \in T : ~(<<y, x>> \in R)
  BY Zenon, <1>1, WFMin
<1>4. ASSUME NEW y \in T PROVE x <= y
  <2>1. x \in Nat /\ y \in Nat
    OBVIOUS
  <2>2. ~(y < x)
    <3>1. ~(<<y, x>> \in R)
      BY <1>3
    <3> QED BY <3>1, <1>2, <2>1, Zenon
  <2> QED BY <2>1, <2>2
<1> QED BY <1>4
-----------------------------------------------------------------------------
(* The worker daemons (module WorkerDaemon) *)

(* A vector over S is a vector over any larger set, and so are its tail and   *)
(* what is left of it after a prefix.                                         *)
LEMMA SeqMonotone ==
    ASSUME NEW S, NEW T, S \subseteq T, NEW s \in Seq(S)
    PROVE  s \in Seq(T)
  OBVIOUS

(* What a daemon that votes may hold against the chain: the report r is the   *)
(* candidate of a round of work w, of the current one or of an earlier one.   *)
Claim(w, round, report) ==
    /\ w \in DOMAIN tasks
    /\ round \in Nat /\ round <= tasks[w].round
    /\ round = tasks[w].round => tasks[w].phase # "awaiting" /\ tasks[w].candidate = report

(* The candidates that daemons have voted on or are about to vote on *)
VotePhase(d) == daemonPc[d] \in {"vote", "watch vote"}
Claims ==
    {<<x.work, x.round, x.report>> : x \in Daemon!SignedVotes}
        \cup UNION {{<<t.work, t.round, t.candidate>> : t \in local[d].tasks} :
                       d \in {e \in Daemons : VotePhase(e)}}

(* A round has one candidate, also once it is over *)
ClaimsAgree ==
    /\ \A c \in Claims : Claim(c[1], c[2], c[3])
    /\ \A b, c \in Claims : b[1] = c[1] /\ b[2] = c[2] => b[3] = c[3]

(* The report of the package of a work at its anchor, which is final *)
Exact(w, report) ==
    report = <<w, tasks[w].anchor>> /\ tasks[w].anchor <= version

IsRound(r) ==
    /\ r = [round |-> r.round, phase |-> r.phase, assigned |-> r.assigned, anchor |-> r.anchor,
            candidate |-> r.candidate, votes |-> r.votes]
    /\ r.round \in Nat /\ r.anchor \in Nat

IsExtrinsic(x) ==
    /\ x = [kind |-> x.kind, from |-> x.from, nonce |-> x.nonce, work |-> x.work,
            round |-> x.round, report |-> x.report, verdict |-> x.verdict]
    /\ x.work \in DOMAIN tasks
    /\ x.kind = "candidate" => x.nonce \in Nat /\ x.verdict = NoTask /\ Exact(x.work, x.report)
    /\ x.kind = "vote" =>
          /\ x.nonce = NoTask
          /\ x.verdict = IF x.report = <<x.work, tasks[x.work].anchor>> THEN "support"
                         ELSE "oppose"

IsPass(l) ==
    /\ l = [tasks |-> l.tasks, nonce |-> l.nonce, results |-> l.results, sent |-> l.sent]
    /\ l.nonce \in Nat /\ l.sent \in Seq(signed)

DaemonType ==
    /\ version \in Nat /\ DOMAIN tasks \subseteq Nat
    /\ \A w \in DOMAIN tasks : IsRound(tasks[w])
    /\ accountNonce \in [Daemons -> Nat]
    /\ IsFiniteSet(extrinsics)
    /\ daemonPc = [d \in Daemons |-> daemonPc[d]]
    /\ local = [d \in Daemons |-> local[d]]
    /\ \A d \in Daemons : IsPass(local[d])
    /\ \A x \in signed : IsExtrinsic(x)

(* One task or execution for a work, and none of another *)
OnePerWork(S) ==
    /\ \A t \in S : t.work \in DOMAIN tasks
    /\ \A t, u \in S : t.work = u.work => t = u

(* The tasks of a pass are read from the chain and executed once each *)
TasksExact(l) ==
    /\ OnePerWork(l.tasks)
    /\ \A t \in l.tasks : t.anchor = tasks[t.work].anchor
ResultsExact(S) ==
    /\ OnePerWork(S)
    /\ \A r \in S : r.report # NoTask => Exact(r.work, r.report)

(* The candidates sent by a pass carry consecutive nonces, the last of them n, *)
(* in the order of the works.                                                 *)
SentInOrder(sent, n) ==
    /\ \A i \in DOMAIN sent : sent[i].kind = "candidate" /\ sent[i].nonce = n + i - Len(sent)
    /\ \A i, j \in DOMAIN sent : i < j => sent[i].work < sent[j].work

CandidatesFirst(sent) ==
    \A i, j \in DOMAIN sent :
        i < j /\ sent[j].kind = "candidate" =>
            /\ sent[i].kind = "candidate" /\ sent[i].work < sent[j].work
            /\ sent[j].nonce = sent[i].nonce + (j - i)

PassInv(l, step) ==
    /\ CandidatesFirst(l.sent)
    /\ step \in {"down", "exited", "sleep", "nonce", "fetch", "lanes", "poll"} => l.sent = <<>>
    /\ step \in {"nonce", "fetch", "lanes"} => TasksExact(l)
    /\ step \in {"nonce", "fetch"} => l.results = {}
    /\ step = "lanes" =>
          /\ ResultsExact(l.results)
          /\ \A t \in l.tasks, r \in l.results : t.work # r.work
    /\ step = "submit" =>
          /\ ResultsExact(l.tasks) /\ SentInOrder(l.sent, l.nonce - 1)
          /\ \A i \in DOMAIN l.sent, t \in l.tasks : l.sent[i].work < t.work
    /\ step = "watch candidate" =>
          /\ ResultsExact(l.tasks) /\ SentInOrder(l.sent, l.nonce)
          /\ l.sent # <<>> /\ l.tasks # {}
          /\ l.sent[Len(l.sent)].work = Daemon!First(l.tasks).work
          /\ \A i \in DOMAIN l.sent, t \in l.tasks : i < Len(l.sent) => l.sent[i].work < t.work
    /\ step \in {"vote", "watch vote"} =>
          \A t \in l.tasks : t.work \in DOMAIN tasks /\ t.anchor = tasks[t.work].anchor

DaemonInv ==
    /\ DaemonType
    /\ extrinsics \subseteq signed
    /\ ClaimsAgree
    /\ \A d \in Daemons : PassInv(local[d], daemonPc[d])

(* The first task of a pass is one of its tasks, with the least work id. *)
LEMMA FirstIsLeast ==
    ASSUME NEW S, S # {}, \A x \in S : x.work \in Nat
    PROVE  Daemon!First(S) \in S /\ \A y \in S : Daemon!First(S).work <= y.work
<1> DEFINE T == {x.work : x \in S}
<1>1. T \subseteq Nat /\ T # {}
  OBVIOUS
<1>2. PICK n \in T : \A m \in T : n <= m
  BY Zenon, <1>1, LeastNatural
<1>3. PICK x \in S : x.work = n
  OBVIOUS
<1>4. \A y \in S : x.work <= y.work
  BY <1>2, <1>3
<1> QED BY <1>4 DEF Daemon!First

(* What a step of the chain leaves as it was: the anchor of a package, and    *)
(* the candidate of a round that has one.                                     *)
Kept ==
    /\ version' \in Nat /\ version <= version'
    /\ DOMAIN tasks \subseteq DOMAIN tasks' /\ DOMAIN tasks' \subseteq Nat
    /\ \A w \in DOMAIN tasks' : IsRound(tasks'[w])
    /\ \A w \in DOMAIN tasks :
          /\ tasks'[w].anchor = tasks[w].anchor /\ tasks[w].round <= tasks'[w].round
          /\ tasks'[w].round = tasks[w].round /\ tasks[w].phase # "awaiting" =>
                tasks'[w].phase # "awaiting" /\ tasks'[w].candidate = tasks[w].candidate

(* A package is submitted with an anchor that stays. *)
LEMMA SubmitWorkKeeps ==
    ASSUME Daemon!Assumption, DaemonType, NEW w \in Works, NEW a \in Assignments,
           Daemon!SubmitWork(w, a)
    PROVE  Kept
<1>1. PICK anchor \in {version, Daemon!Min2(version + 1, MaxVersion)} :
         tasks' = Daemon!Insert(tasks, w, Daemon!Round(0, a, anchor))
  BY DEF Daemon!SubmitWork
<1>2. anchor \in Nat /\ w \in Nat /\ w \notin DOMAIN tasks /\ version' = version
  BY DEF Daemon!Assumption, DaemonType, Daemon!Min2, Daemon!SubmitWork
<1>3. IsRound(Daemon!Round(0, a, anchor))
  BY <1>2 DEF IsRound, Daemon!Round
<1>4. /\ DOMAIN tasks' = DOMAIN tasks \cup {w}
      /\ tasks'[w] = Daemon!Round(0, a, anchor)
      /\ \A v \in DOMAIN tasks : tasks'[v] = tasks[v]
  BY <1>1, <1>2 DEF Daemon!Insert
<1> QED BY <1>2, <1>3, <1>4 DEF Kept, DaemonType, IsRound

(* A round that gets its candidate. *)
LEMMA ProposedRound ==
    ASSUME NEW r, IsRound(r), NEW report
    PROVE  Daemon!Proposed(r, report) =
             [round |-> r.round, phase |-> "voting", assigned |-> r.assigned, anchor |-> r.anchor,
              candidate |-> report, votes |-> r.votes]
<1> DEFINE s == [r EXCEPT !.candidate = report]
<1>1. Daemon!Proposed(r, report) = [s EXCEPT !.phase = "voting"]
  BY Zenon DEF Daemon!Proposed
<1>2. s = [round |-> r.round, phase |-> r.phase, assigned |-> r.assigned, anchor |-> r.anchor,
           candidate |-> report, votes |-> r.votes]
  BY DEF IsRound
<1> HIDE DEF s
<1>3. [s EXCEPT !.phase = "voting"] =
         [round |-> r.round, phase |-> "voting", assigned |-> r.assigned, anchor |-> r.anchor,
          candidate |-> report, votes |-> r.votes]
  BY <1>2
<1> QED BY <1>1, <1>3

(* A round that gets a vote. *)
LEMMA VotedRound ==
    ASSUME NEW r, IsRound(r), NEW votes
    PROVE  [r EXCEPT !.votes = votes] =
             [round |-> r.round, phase |-> r.phase, assigned |-> r.assigned, anchor |-> r.anchor,
              candidate |-> r.candidate, votes |-> votes]
BY DEF IsRound

(* The steps of the chain keep the rounds that are over and the candidate of  *)
(* the one that has it.                                                       *)
LEMMA ChainKeeps ==
    ASSUME Daemon!Assumption, DaemonInv, Daemon!Chain
    PROVE  /\ Kept
           /\ extrinsics' \subseteq extrinsics /\ accountNonce' \in [Daemons -> Nat]
           /\ UNCHANGED <<daemonPc, local, signed>>
<1> USE DEF DaemonInv
<1>1. CASE \E w \in Works, a \in Assignments : Daemon!SubmitWork(w, a)
  BY <1>1, SubmitWorkKeeps DEF Daemon!SubmitWork, Daemon!daemonVars, DaemonType
<1>2. CASE \E w \in Works, a \in Assignments : Daemon!Expire(w, a)
  <2>1. PICK w \in Works, a \in Assignments : Daemon!Expire(w, a)
    BY <1>2
  <2>2. w \in DOMAIN tasks /\ IsRound(tasks[w])
    BY <2>1 DEF Daemon!Expire, Daemon!Open, DaemonType
  <2>3. PICK r : /\ tasks' = [tasks EXCEPT ![w] = r] /\ IsRound(r)
                 /\ r.anchor = tasks[w].anchor
                 /\ r.round = tasks[w].round + 1 \/
                       (r.round = tasks[w].round /\ r.phase = "closed" /\ r.candidate = tasks[w].candidate)
    <3>1. CASE tasks[w].round + 1 < MaxRounds
      <4> DEFINE r == Daemon!Round(tasks[w].round + 1, a, tasks[w].anchor)
      <4>1. tasks' = [tasks EXCEPT ![w] = r]
        BY <2>1, <3>1 DEF Daemon!Expire
      <4>2. IsRound(r) /\ r.anchor = tasks[w].anchor /\ r.round = tasks[w].round + 1
        BY <2>2 DEF IsRound, Daemon!Round
      <4> QED BY Zenon, <4>1, <4>2
    <3>2. CASE ~(tasks[w].round + 1 < MaxRounds)
      <4> DEFINE r == [tasks[w] EXCEPT !.phase = "closed"]
      <4>1. tasks' = [tasks EXCEPT ![w] = r]
        BY <2>1, <3>2 DEF Daemon!Expire
      <4>2. IsRound(r) /\ r.anchor = tasks[w].anchor /\ r.round = tasks[w].round
            /\ r.phase = "closed" /\ r.candidate = tasks[w].candidate
        BY <2>2 DEF IsRound
      <4> QED BY Zenon, <4>1, <4>2
    <3> QED BY <3>1, <3>2
  <2>4. /\ UNCHANGED <<version, accountNonce, extrinsics, daemonPc, local, signed>>
        /\ DOMAIN tasks' = DOMAIN tasks /\ tasks'[w] = r
        /\ \A v \in DOMAIN tasks : v # w => tasks'[v] = tasks[v]
    BY <2>1, <2>2, <2>3 DEF Daemon!Expire, Daemon!daemonVars
  <2> QED BY <2>2, <2>3, <2>4 DEF Kept, DaemonType, IsRound
<1>3. CASE \E w \in DOMAIN tasks :
              \E report \in {<<w, tasks[w].anchor>>, Daemon!Forged(w)} : Daemon!ForeignCandidate(w, report)
  <2>0. PICK w \in DOMAIN tasks : \E report \in {<<w, tasks[w].anchor>>, Daemon!Forged(w)} :
             Daemon!ForeignCandidate(w, report)
    BY <1>3
  <2>1. PICK report : Daemon!ForeignCandidate(w, report)
    BY <2>0
  <2> DEFINE r == Daemon!Proposed(tasks[w], report)
  <2>2. tasks' = [tasks EXCEPT ![w] = r] /\ tasks[w].phase = "awaiting" /\ IsRound(tasks[w])
    BY <2>1 DEF Daemon!ForeignCandidate, Daemon!Open, DaemonType
  <2>3. IsRound(r) /\ r.anchor = tasks[w].anchor /\ r.round = tasks[w].round
    BY <2>2, ProposedRound DEF IsRound
  <2>4. /\ UNCHANGED <<version, accountNonce, extrinsics, daemonPc, local, signed>>
        /\ DOMAIN tasks' = DOMAIN tasks /\ tasks'[w] = r
        /\ \A v \in DOMAIN tasks : v # w => tasks'[v] = tasks[v]
    BY Zenon, <2>1, <2>2 DEF Daemon!ForeignCandidate, Daemon!daemonVars
  <2> QED BY <2>2, <2>3, <2>4 DEF Kept, DaemonType, IsRound
<1>4. CASE \E x \in extrinsics : Daemon!Include(x)
  <2>1. PICK x \in extrinsics : Daemon!Include(x)
    BY <1>4
  <2> DEFINE w == x.work
  <2>2. w \in DOMAIN tasks /\ IsRound(tasks[w])
    BY DEF DaemonType, IsExtrinsic
  <2>3. /\ UNCHANGED <<version, daemonPc, local, signed>> /\ extrinsics' \subseteq extrinsics
        /\ accountNonce' \in [Daemons -> Nat]
    <3>1. UNCHANGED <<version, Daemon!daemonVars>> /\ extrinsics' = extrinsics \ {x}
      BY <2>1, Zenon DEF Daemon!Include, Daemon!daemonVars
    <3>2. \/ accountNonce' = accountNonce
          \/ accountNonce' = [accountNonce EXCEPT ![x.from] = @ + 1]
      BY <2>1, Zenon DEF Daemon!Include
    <3>3. accountNonce' \in [Daemons -> Nat]
      BY <3>2 DEF DaemonType
    <3> QED BY <3>1, <3>3 DEF Daemon!daemonVars
  <2>4. CASE UNCHANGED tasks
    <3>1. version \in Nat /\ DOMAIN tasks \subseteq Nat /\ \A v \in DOMAIN tasks : IsRound(tasks[v])
      BY Zenon DEF DaemonType
    <3>2. version <= version /\ \A v \in DOMAIN tasks : tasks[v].round <= tasks[v].round
      BY ONLY <3>1 DEF IsRound
    <3> QED BY Zenon, <2>3, <2>4, <3>1, <3>2 DEF Kept
  <2>5. CASE /\ tasks[w].phase = "awaiting"
             /\ tasks' = [tasks EXCEPT ![w] = Daemon!Proposed(@, x.report)]
    <3> DEFINE r == Daemon!Proposed(tasks[w], x.report)
    <3>1. IsRound(r) /\ r.anchor = tasks[w].anchor /\ r.round = tasks[w].round
      BY <2>2, ProposedRound DEF IsRound
    <3>2. /\ DOMAIN tasks' = DOMAIN tasks /\ tasks'[w] = r
          /\ \A v \in DOMAIN tasks : v # w => tasks'[v] = tasks[v]
      BY <2>2, <2>5
    <3> QED BY <2>2, <2>3, <2>5, <3>1, <3>2 DEF Kept, DaemonType, IsRound
  <2>6. CASE tasks' = [tasks EXCEPT ![w].votes = @ \cup {x}]
    <3> DEFINE r == [tasks[w] EXCEPT !.votes = @ \cup {x}]
    <3>1. /\ IsRound(r) /\ r.anchor = tasks[w].anchor /\ r.round = tasks[w].round
          /\ r.phase = tasks[w].phase /\ r.candidate = tasks[w].candidate
      BY Zenon, <2>2, VotedRound DEF IsRound
    <3>2. /\ DOMAIN tasks' = DOMAIN tasks /\ tasks'[w] = r
          /\ \A v \in DOMAIN tasks : v # w => tasks'[v] = tasks[v]
      BY <2>2, <2>6
    <3> QED BY <2>2, <2>3, <3>1, <3>2 DEF Kept, DaemonType, IsRound
  <2> QED BY <2>1, <2>4, <2>5, <2>6 DEF Daemon!Include
<1>5. CASE Daemon!AdvanceState
  BY <1>5 DEF Daemon!AdvanceState, Daemon!daemonVars, Kept, DaemonType, IsRound
<1> QED BY <1>1, <1>2, <1>3, <1>4, <1>5 DEF Daemon!Chain
(* What a pass has read stays true while the chain moves on. *)
LEMMA PassKept ==
    ASSUME DaemonType, Kept, NEW l, NEW step, PassInv(l, step)
    PROVE  PassInv(l, step)'
<1>1. ASSUME NEW S, OnePerWork(S) PROVE OnePerWork(S)'
  BY <1>1 DEF OnePerWork, Kept
<1>2. ASSUME NEW w \in DOMAIN tasks, NEW report, Exact(w, report) PROVE Exact(w, report)'
  BY <1>2 DEF Exact, Kept, DaemonType, IsRound
<1>3. ASSUME NEW S, ResultsExact(S) PROVE ResultsExact(S)'
  BY <1>1, <1>2, <1>3 DEF ResultsExact, OnePerWork
<1>4. ASSUME TasksExact(l) PROVE TasksExact(l)'
  BY <1>1, <1>4 DEF TasksExact, OnePerWork, Kept
<1>5. step \in {"nonce", "fetch", "lanes"} => TasksExact(l)'
  BY Zenon, <1>4 DEF PassInv
<1>6. step = "lanes" => ResultsExact(l.results)'
  BY <1>3 DEF PassInv
<1>7. step \in {"submit", "watch candidate"} => ResultsExact(l.tasks)'
  BY <1>3, Zenon DEF PassInv
<1>8. step \in {"vote", "watch vote"} =>
         \A t \in l.tasks : t.work \in DOMAIN tasks' /\ t.anchor = tasks'[t.work].anchor
  BY Zenon DEF PassInv, Kept
<1> QED BY <1>5, <1>6, <1>7, <1>8, Zenon DEF PassInv

(* A step that only the chain takes keeps the invariant. *)
LEMMA ChainStep ==
    ASSUME DaemonInv, Kept, UNCHANGED <<daemonPc, local, signed>>,
           extrinsics' \subseteq extrinsics, accountNonce' \in [Daemons -> Nat]
    PROVE  DaemonInv'
<1> USE DEF DaemonInv
<1>1. IsFiniteSet(extrinsics')
  BY FS_Subset DEF DaemonType
<1>2. \A x \in signed' : IsExtrinsic(x)'
  <2> SUFFICES ASSUME NEW x \in signed PROVE IsExtrinsic(x)'
    OBVIOUS
  <2>1. IsExtrinsic(x) /\ x.work \in DOMAIN tasks /\ IsRound(tasks[x.work])
    BY DEF DaemonType, IsExtrinsic
  <2>2. tasks'[x.work].anchor = tasks[x.work].anchor /\ x.work \in DOMAIN tasks'
    BY Zenon, <2>1 DEF Kept
  <2>3. x.kind = "candidate" => Exact(x.work, x.report)'
    BY <2>1, <2>2 DEF IsExtrinsic, Exact, IsRound, DaemonType, Kept
  <2> QED BY <2>1, <2>2, <2>3 DEF IsExtrinsic
<1>3. DaemonType'
  BY <1>1, <1>2 DEF DaemonType, Kept, IsPass, IsRound
<1>4. ClaimsAgree'
  <2>1. Claims' = Claims
    BY DEF Claims, VotePhase, Daemon!SignedVotes
  <2>2. \A c \in Claims : Claim(c[1], c[2], c[3])'
    <3>0. \A w \in DOMAIN tasks : tasks[w].round \in Nat /\ tasks'[w].round \in Nat
      BY DEF DaemonType, Kept, IsRound
    <3> SUFFICES ASSUME NEW w, NEW n, NEW report, Claim(w, n, report)
                 PROVE  Claim(w, n, report)'
      BY DEF ClaimsAgree
    <3>1. w \in DOMAIN tasks /\ n \in Nat /\ n <= tasks[w].round /\ tasks[w].round <= tasks'[w].round
      BY DEF Claim, Kept
    <3>2. n <= tasks'[w].round /\ w \in DOMAIN tasks'
      BY <3>0, <3>1 DEF Kept
    <3>3. ASSUME n = tasks'[w].round
          PROVE  tasks'[w].phase # "awaiting" /\ tasks'[w].candidate = report
      <4>1. n = tasks[w].round /\ tasks'[w].round = tasks[w].round
        BY <3>0, <3>1, <3>3
      <4> QED BY <4>1, <3>1 DEF Claim, Kept
    <3> QED BY Zenon, <3>1, <3>2, <3>3 DEF Claim
  <2> QED BY <2>1, <2>2 DEF ClaimsAgree
<1>5. \A d \in Daemons : PassInv(local[d], daemonPc[d])'
  BY PassKept
<1> QED BY <1>3, <1>4, <1>5

(* A vote on the candidate of now *)
Current(c) ==
    /\ c[1] \in DOMAIN tasks
    /\ c[2] = tasks[c[1]].round /\ tasks[c[1]].phase # "awaiting" /\ c[3] = tasks[c[1]].candidate

(* It is one on a candidate that the round has. *)
LEMMA CurrentIsClaim ==
    ASSUME DaemonType, NEW c, Current(c)
    PROVE  Claim(c[1], c[2], c[3])
<1>1. c[1] \in DOMAIN tasks /\ tasks[c[1]].round \in Nat
  BY DEF DaemonType, IsRound, Current
<1>2. tasks[c[1]].round <= tasks[c[1]].round
  BY <1>1
<1> QED BY <1>1, <1>2, Zenon DEF Current, Claim

(* A step of daemon d keeps the invariant when its pass is well-formed after  *)
(* it, what it signs is exact, and what it votes on is a candidate of now or  *)
(* one that it or another daemon knew of.                                     *)
LEMMA DaemonMoves ==
    ASSUME DaemonInv, NEW d \in Daemons, NEW l, NEW step,
           UNCHANGED <<tasks, version, accountNonce>>,
           local' = [local EXCEPT ![d] = l], daemonPc' = [daemonPc EXCEPT ![d] = step],
           signed \subseteq signed', extrinsics' \subseteq signed', IsFiniteSet(extrinsics'),
           \A x \in signed' : IsExtrinsic(x),
           \A x \in signed' : x.kind = "vote" => <<x.work, x.round, x.report>> \in Claims,
           l = [tasks |-> l.tasks, nonce |-> l.nonce, results |-> l.results, sent |-> l.sent],
           l.nonce \in Nat, l.sent \in Seq(signed'),
           PassInv(l, step),
           step \in {"vote", "watch vote"} =>
               \A t \in l.tasks : \/ <<t.work, t.round, t.candidate>> \in Claims
                                  \/ Current(<<t.work, t.round, t.candidate>>)
    PROVE  DaemonInv'
<1> USE DEF DaemonInv
<1>0. /\ local'[d] = l /\ daemonPc'[d] = step
      /\ \A e \in Daemons : e # d => local'[e] = local[e] /\ daemonPc'[e] = daemonPc[e]
      /\ local' = [e \in Daemons |-> local'[e]] /\ daemonPc' = [e \in Daemons |-> daemonPc'[e]]
  BY Zenon DEF DaemonType
<1>1. \A x \in signed' : IsExtrinsic(x)'
  BY Zenon DEF IsExtrinsic, Exact
<1>2. ASSUME NEW e \in Daemons PROVE IsPass(local[e])'
  <2>1. CASE e = d
    BY <2>1, <1>0, Zenon DEF IsPass
  <2>2. CASE e # d
    <3>1. IsPass(local[e]) /\ local'[e] = local[e]
      BY <2>2, <1>0, Zenon DEF DaemonType
    <3>2. local[e].sent \in Seq(signed')
      <4>1. local[e].sent \in Seq(signed)
        BY <3>1, Zenon DEF IsPass
      <4> QED BY <4>1, SeqMonotone, Zenon
    <3> QED BY <3>1, <3>2, Zenon DEF IsPass
  <2> QED BY <2>1, <2>2, Zenon
<1>3. DaemonType'
  BY <1>0, <1>1, <1>2, Zenon DEF DaemonType, IsRound
<1>4. \A c \in Claims' : c \in Claims \/ Current(c)
  <2> SUFFICES ASSUME NEW c \in Claims' PROVE c \in Claims \/ Current(c)
    BY Zenon
  <2>1. CASE c \in {<<x.work, x.round, x.report>> : x \in Daemon!SignedVotes'}
    BY <2>1, Zenon DEF Daemon!SignedVotes
  <2>2. CASE \E e \in Daemons : VotePhase(e)' /\ c \in {<<t.work, t.round, t.candidate>> : t \in local'[e].tasks}
    <3>1. PICK e \in Daemons : VotePhase(e)' /\ c \in {<<t.work, t.round, t.candidate>> : t \in local'[e].tasks}
      BY <2>2, Zenon
    <3>2. CASE e = d
      BY <3>1, <3>2, <1>0, ZenonT(40) DEF VotePhase
    <3>3. CASE e # d
      <4>1. VotePhase(e) /\ c \in {<<t.work, t.round, t.candidate>> : t \in local[e].tasks}
        BY <3>1, <3>3, <1>0, Zenon DEF VotePhase
      <4> QED BY <4>1, Zenon DEF Claims
    <3> QED BY Zenon, <3>2, <3>3
  <2> QED BY <2>1, <2>2, Zenon DEF Claims
<1>5. \A c : Current(c) => Claim(c[1], c[2], c[3])
  BY CurrentIsClaim, Zenon
<1>6. \A b \in Claims : \A c : Current(c) /\ b[1] = c[1] /\ b[2] = c[2] => b[3] = c[3]
  BY Zenon DEF Current, ClaimsAgree, Claim
<1>7. ClaimsAgree'
  <2>1. \A c \in Claims' : Claim(c[1], c[2], c[3])
    BY <1>4, <1>5, Zenon DEF ClaimsAgree
  <2>2. \A b, c \in Claims' : b[1] = c[1] /\ b[2] = c[2] => b[3] = c[3]
    BY <1>4, <1>6, ZenonT(40) DEF ClaimsAgree, Current
  <2>3. \A c \in Claims' : Claim(c[1], c[2], c[3])'
    BY <2>1, Zenon DEF Claim
  <2> QED BY <2>2, <2>3, Zenon DEF ClaimsAgree
<1>8. ASSUME NEW e \in Daemons PROVE PassInv(local[e], daemonPc[e])'
  <2>1. PassInv(local'[e], daemonPc'[e])
    BY <1>0, Zenon
  <2> QED BY <2>1, Zenon DEF PassInv, TasksExact, ResultsExact, OnePerWork, Exact
<1> QED BY <1>3, <1>7, <1>8, Zenon
(* The variables of a pass *)
IsShape(l) == l = [tasks |-> l.tasks, nonce |-> l.nonce, results |-> l.results, sent |-> l.sent]

(* The tasks of a pass are set. *)
LEMMA PassTasks ==
    ASSUME NEW l, IsShape(l), NEW T
    PROVE  [l EXCEPT !.tasks = T] =
             [tasks |-> T, nonce |-> l.nonce, results |-> l.results, sent |-> l.sent]
BY DEF IsShape

(* The nonce of a pass is set. *)
LEMMA PassNonce ==
    ASSUME NEW l, IsShape(l), NEW n
    PROVE  [l EXCEPT !.nonce = n] =
             [tasks |-> l.tasks, nonce |-> n, results |-> l.results, sent |-> l.sent]
BY DEF IsShape

(* The extrinsics sent by a pass are set. *)
LEMMA PassSent ==
    ASSUME NEW l, IsShape(l), NEW s
    PROVE  [l EXCEPT !.sent = s] =
             [tasks |-> l.tasks, nonce |-> l.nonce, results |-> l.results, sent |-> s]
BY DEF IsShape

(* A task of a pass is executed. *)
LEMMA PassExecuted ==
    ASSUME NEW l, IsShape(l), NEW T, NEW R
    PROVE  [l EXCEPT !.tasks = T, !.results = R] =
             [tasks |-> T, nonce |-> l.nonce, results |-> R, sent |-> l.sent]
<1> DEFINE m == [l EXCEPT !.tasks = T]
<1>1. [l EXCEPT !.tasks = T, !.results = R] = [m EXCEPT !.results = R]
  BY Zenon
<1>2. m = [tasks |-> T, nonce |-> l.nonce, results |-> l.results, sent |-> l.sent]
  BY DEF IsShape
<1> HIDE DEF m
<1>3. [m EXCEPT !.results = R] = [tasks |-> T, nonce |-> l.nonce, results |-> R, sent |-> l.sent]
  BY <1>2
<1> QED BY <1>1, <1>3

(* An extrinsic of a pass is final. *)
LEMMA PassWatched ==
    ASSUME NEW l, IsShape(l), NEW T, NEW n
    PROVE  [l EXCEPT !.tasks = T, !.nonce = n] =
             [tasks |-> T, nonce |-> n, results |-> l.results, sent |-> l.sent]
<1> DEFINE m == [l EXCEPT !.tasks = T]
<1>1. [l EXCEPT !.tasks = T, !.nonce = n] = [m EXCEPT !.nonce = n]
  BY Zenon
<1>2. m = [tasks |-> T, nonce |-> l.nonce, results |-> l.results, sent |-> l.sent]
  BY DEF IsShape
<1> HIDE DEF m
<1>3. [m EXCEPT !.nonce = n] = [tasks |-> T, nonce |-> n, results |-> l.results, sent |-> l.sent]
  BY <1>2
<1> QED BY <1>1, <1>3

(* A step of a daemon that signs nothing keeps the invariant when its pass is *)
(* well-formed after it.                                                      *)
LEMMA QuietMove ==
    ASSUME DaemonInv, NEW d \in Daemons, NEW l, NEW step,
           UNCHANGED <<tasks, version, accountNonce, extrinsics, signed>>,
           local' = [local EXCEPT ![d] = l], daemonPc' = [daemonPc EXCEPT ![d] = step],
           IsShape(l), l.nonce \in Nat, l.sent \in Seq(signed), PassInv(l, step),
           step \in {"vote", "watch vote"} =>
               \A t \in l.tasks : \/ <<t.work, t.round, t.candidate>> \in Claims
                                  \/ Current(<<t.work, t.round, t.candidate>>)
    PROVE  DaemonInv'
<1>1. \A x \in signed : x.kind = "vote" => <<x.work, x.round, x.report>> \in Claims
  BY Zenon DEF Claims, Daemon!SignedVotes
<1>2. \A x \in signed : IsExtrinsic(x)
  BY Zenon DEF DaemonInv, DaemonType
<1>3. /\ signed \subseteq signed' /\ extrinsics' \subseteq signed' /\ IsFiniteSet(extrinsics')
      /\ l.sent \in Seq(signed')
  BY Zenon DEF DaemonInv, DaemonType
<1>4. \A x \in signed' : x.kind = "vote" => <<x.work, x.round, x.report>> \in Claims
  BY <1>1, Zenon
<1>5. \A x \in signed' : IsExtrinsic(x)
  BY <1>2, Zenon
<1> HIDE DEF DaemonInv
<1> QED BY <1>3, <1>4, <1>5, DaemonMoves, Zenon DEF IsShape

(* A pass that has sent nothing has sent nothing out of order. *)
LEMMA NothingSent ==
    /\ CandidatesFirst(<<>>)
    /\ \A n : SentInOrder(<<>>, n)
    /\ DOMAIN <<>> = {} /\ \A S : <<>> \in Seq(S)
<1>1. DOMAIN <<>> = {} /\ \A S : <<>> \in Seq(S)
  OBVIOUS
<1> QED BY <1>1, Zenon DEF CandidatesFirst, SentInOrder

(* A pass that is over, or has not begun *)
LEMMA FreshPass ==
    ASSUME NEW step \in {"sleep", "down", "exited"}
    PROVE  /\ IsShape(Daemon!NoPass) /\ Daemon!NoPass.nonce \in Nat
           /\ Daemon!NoPass.sent = <<>> /\ Daemon!NoPass.sent \in Seq(signed)
           /\ PassInv(Daemon!NoPass, step)
<1>1. Daemon!NoPass = [tasks |-> {}, nonce |-> 0, results |-> {}, sent |-> <<>>]
  BY DEF Daemon!NoPass
<1>2. /\ IsShape(Daemon!NoPass) /\ Daemon!NoPass.nonce \in Nat /\ Daemon!NoPass.sent = <<>>
      /\ <<>> \in Seq(signed)
  BY <1>1 DEF IsShape
<1>4. CandidatesFirst(Daemon!NoPass.sent)
  BY <1>2, NothingSent
<1> QED BY <1>2, <1>4, Zenon DEF PassInv

(* A pass that fails keeps the invariant. *)
LEMMA FailedPass ==
    ASSUME DaemonInv, NEW d \in Daemons, Daemon!PassFails(d),
           UNCHANGED <<tasks, version, accountNonce, extrinsics, signed>>
    PROVE  DaemonInv'
<1>1. local' = [local EXCEPT ![d] = Daemon!NoPass] /\ daemonPc' = [daemonPc EXCEPT ![d] = "sleep"]
  BY DEF Daemon!PassFails, Daemon!Set, Daemon!Goto
<1> QED BY <1>1, QuietMove, FreshPass, Zenon
(* The end of a step that leaves the pass as it is *)
LEMMA SamePass ==
    ASSUME DaemonInv, NEW d \in Daemons, NEW step,
           UNCHANGED <<tasks, version, accountNonce, extrinsics, signed, local>>,
           daemonPc' = [daemonPc EXCEPT ![d] = step],
           PassInv(local[d], step), step \notin {"vote", "watch vote"}
    PROVE  DaemonInv'
<1>1. local' = [local EXCEPT ![d] = local[d]]
  BY Zenon DEF DaemonInv, DaemonType
<1>2. IsShape(local[d]) /\ local[d].nonce \in Nat /\ local[d].sent \in Seq(signed)
  BY Zenon DEF DaemonInv, DaemonType, IsPass, IsShape
<1> QED BY <1>1, <1>2, QuietMove, Zenon

(* The size of a set, as the daemons have it *)
LEMMA DaemonCardinality == \A S : Daemon!Cardinality(S) = Cardinality(S)
BY Zenon DEF Daemon!Cardinality, Cardinality

(* The number of integers in an interval *)
LEMMA IntervalSize ==
    ASSUME NEW a \in Nat, NEW k \in Nat
    PROVE  IsFiniteSet(a .. (a + k)) /\ Cardinality(a .. (a + k)) = k + 1
<1> DEFINE b == a + k
<1>1. a \in Int /\ b \in Int /\ ~(a > b) /\ b - a + 1 = k + 1
  OBVIOUS
<1> HIDE DEF b
<1>2. IsFiniteSet(a .. b) /\ Cardinality(a .. b) = IF a > b THEN 0 ELSE b - a + 1
  BY <1>1, FS_Interval
<1>3. Cardinality(a .. b) = k + 1
  BY <1>1, <1>2
<1> QED BY <1>2, <1>3 DEF b

(* system_accountNextIndex finds a free nonce: the pool holds too few         *)
(* extrinsics for all of those that it looks at.                              *)
LEMMA NextIndexIsNat ==
    ASSUME DaemonInv, NEW d \in Daemons
    PROVE  Daemon!AccountNextIndex(d) \in Nat
<1> DEFINE k == Cardinality(extrinsics)
           a == accountNonce[d]
           N == a .. (a + k)
           used == {x.nonce : x \in extrinsics}
           free == {n \in N : ~\E x \in extrinsics : x.kind = "candidate" /\ x.from = d /\ x.nonce = n}
<1>1. IsFiniteSet(extrinsics) /\ a \in Nat
  BY DEF DaemonInv, DaemonType
<1>2. k \in Nat
  BY <1>1, FS_CardinalityType
<1>3. IsFiniteSet(used) /\ Cardinality(used) <= k
  <2> DEFINE f == [x \in extrinsics |-> x.nonce]
  <2>1. f \in Surjection(extrinsics, used)
    BY DEF Surjection
  <2> HIDE DEF f, used
  <2> QED BY <1>1, <2>1, FS_Surjection
<1>4. IsFiniteSet(N) /\ Cardinality(N) = k + 1
  BY <1>1, <1>2, IntervalSize
<1>5. free # {}
  <2> SUFFICES ASSUME free = {} PROVE FALSE
    OBVIOUS
  <2>1. N \subseteq used
    OBVIOUS
  <2>2. Cardinality(N) <= Cardinality(used) /\ Cardinality(used) \in Nat
    BY <1>3, <2>1, FS_Subset, FS_CardinalityType, Zenon
  <2> HIDE DEF N, used, k
  <2> QED BY <1>2, <1>3, <1>4, <2>2
<1>6. free \subseteq Nat
  BY <1>1
<1>7. Daemon!AccountNextIndex(d) = Daemon!Least(free)
  BY DaemonCardinality, Zenon DEF Daemon!AccountNextIndex
<1> HIDE DEF free
<1>8. \E n \in free : \A m \in free : n <= m
  BY Zenon, <1>5, <1>6, LeastNatural
<1> QED BY Zenon, <1>6, <1>7, <1>8 DEF Daemon!Least

(* The tasks that are read are those of the chain, one for a work. *)
LEMMA PendingExact ==
    ASSUME NEW l, l.tasks \subseteq Daemon!PendingTasks
    PROVE  TasksExact(l)
BY DEF TasksExact, OnePerWork, Daemon!PendingTasks, Daemon!Open

(* The tasks of a pass are read. *)
LEMMA ReadTasksStep ==
    ASSUME DaemonInv, NEW d \in Daemons, Daemon!ReadTasks(d)
    PROVE  DaemonInv'
<1> DEFINE T == IF d \in Proposers THEN Daemon!OwnTasks(d) ELSE Daemon!PendingTasks
           l == [tasks |-> T, nonce |-> 0, results |-> {}, sent |-> <<>>]
           step == IF d \in Proposers THEN "nonce" ELSE "poll"
<1>1. [Daemon!NoPass EXCEPT !.tasks = T] = l
  <2>1. IsShape(Daemon!NoPass) /\ Daemon!NoPass.nonce = 0 /\ Daemon!NoPass.results = {}
        /\ Daemon!NoPass.sent = <<>>
    BY DEF IsShape, Daemon!NoPass
  <2> HIDE DEF T
  <2> QED BY <2>1, PassTasks, Zenon
<1>2. /\ local' = [local EXCEPT ![d] = l] /\ daemonPc' = [daemonPc EXCEPT ![d] = step]
      /\ UNCHANGED <<tasks, version, accountNonce, extrinsics, signed>>
  BY <1>1, Zenon DEF Daemon!ReadTasks, Daemon!Set, Daemon!Goto, Daemon!chainVars
<1>3. T \subseteq Daemon!PendingTasks
  BY DEF Daemon!OwnTasks
<1> HIDE DEF T
<1>4. IsShape(l) /\ l.nonce \in Nat /\ l.sent \in Seq(signed) /\ l.sent = <<>> /\ l.results = {}
      /\ l.tasks = T
  BY DEF IsShape
<1>5. TasksExact(l)
  BY <1>3, <1>4, PendingExact
<1>6. step \in {"nonce", "poll"}
  OBVIOUS
<1> HIDE DEF l, step
<1>7. PassInv(l, step)
  BY <1>4, <1>5, <1>6, NothingSent, Zenon DEF PassInv
<1> QED BY <1>2, <1>4, <1>6, <1>7, QuietMove, Zenon
(* The nonce of a pass is read. *)
LEMMA ReadNonceStep ==
    ASSUME DaemonInv, NEW d \in Daemons, Daemon!ReadNonce(d)
    PROVE  DaemonInv'
<1> DEFINE n == Daemon!AccountNextIndex(d)
           l == [tasks |-> local[d].tasks, nonce |-> n, results |-> local[d].results,
                 sent |-> local[d].sent]
<1>1. IsShape(local[d]) /\ local[d].sent \in Seq(signed)
  BY DEF DaemonInv, DaemonType, IsPass, IsShape
<1>2. n \in Nat
  BY NextIndexIsNat
<1> HIDE DEF n
<1>3. [local[d] EXCEPT !.nonce = n] = l
  BY <1>1, PassNonce
<1>4. /\ local' = [local EXCEPT ![d] = l] /\ daemonPc' = [daemonPc EXCEPT ![d] = "fetch"]
      /\ UNCHANGED <<tasks, version, accountNonce, extrinsics, signed>>
      /\ daemonPc[d] = "nonce"
  BY <1>3, Zenon DEF Daemon!ReadNonce, Daemon!Set, Daemon!Goto, Daemon!chainVars, Daemon!At, n
<1>5. IsShape(l) /\ l.nonce \in Nat /\ l.sent \in Seq(signed) /\ l.sent = local[d].sent
      /\ l.results = local[d].results /\ l.tasks = local[d].tasks
  BY <1>1, <1>2 DEF IsShape
<1>6. PassInv(local[d], "nonce")
  BY Zenon, <1>4 DEF DaemonInv
<1> HIDE DEF l
<1>7. PassInv(l, "fetch")
  BY Zenon, <1>5, <1>6 DEF PassInv, TasksExact
<1> QED BY <1>4, <1>5, <1>7, QuietMove, Zenon

(* The bundles are fetched, or the pass fails. *)
LEMMA FetchBundlesStep ==
    ASSUME DaemonInv, NEW d \in Daemons, Daemon!FetchBundles(d)
    PROVE  DaemonInv'
<1>1. UNCHANGED <<tasks, version, accountNonce, extrinsics, signed>> /\ daemonPc[d] = "fetch"
  BY DEF Daemon!FetchBundles, Daemon!chainVars, Daemon!At
<1>2. CASE Daemon!PassFails(d)
  BY <1>1, <1>2, FailedPass
<1>3. CASE daemonPc' = [daemonPc EXCEPT ![d] = "lanes"] /\ local' = local
  <2>1. PassInv(local[d], "fetch")
    BY <1>1 DEF DaemonInv
  <2>2. PassInv(local[d], "lanes")
    BY <2>1, Zenon DEF PassInv, ResultsExact, OnePerWork
  <2> QED BY Zenon, <1>1, <1>3, <2>2, SamePass
<1> QED BY <1>2, <1>3 DEF Daemon!FetchBundles, Daemon!Goto

(* The report that a lane computes is that of the package at its anchor. *)
LEMMA RefineExact ==
    ASSUME NEW t, t.work \in DOMAIN tasks, t.anchor = tasks[t.work].anchor,
           Daemon!Refine(t) # NoTask
    PROVE  Exact(t.work, Daemon!Refine(t))
BY DEF Daemon!Refine, Daemon!ValidateFinalizedContext, Daemon!StateRead, Exact

(* A lane executes its next task. *)
LEMMA LaneStepStep ==
    ASSUME DaemonInv, NEW d \in Daemons, NEW lane, Daemon!LaneStep(d, lane)
    PROVE  DaemonInv'
<1> DEFINE L == Daemon!LaneTasks(d, lane)
           t == Daemon!First(L)
<1>1. PassInv(local[d], "lanes") /\ daemonPc[d] = "lanes"
  BY DEF DaemonInv, Daemon!LaneStep, Daemon!At
<1>2. IsShape(local[d]) /\ local[d].sent \in Seq(signed) /\ local[d].nonce \in Nat
  BY DEF DaemonInv, DaemonType, IsPass, IsShape
<1>3. t \in local[d].tasks
  <2>1. L # {} /\ L \subseteq local[d].tasks
    BY DEF Daemon!LaneStep, Daemon!LaneTasks
  <2>2. \A x \in L : x.work \in Nat
    BY <1>1, <2>1, Zenon DEF PassInv, TasksExact, OnePerWork, DaemonInv, DaemonType
  <2> HIDE DEF L
  <2> QED BY <2>1, <2>2, FirstIsLeast
<1>4. UNCHANGED <<tasks, version, accountNonce, extrinsics, signed>>
      /\ daemonPc' = [daemonPc EXCEPT ![d] = "lanes"]
  <2>1. UNCHANGED <<tasks, version, accountNonce, extrinsics, signed, daemonPc>>
    BY Zenon DEF Daemon!LaneStep, Daemon!chainVars
  <2> QED BY <1>1, <2>1 DEF DaemonInv, DaemonType
<1>5. PICK report :
        /\ report = NoTask \/ report = Daemon!Refine(t)
        /\ local' = [local EXCEPT ![d] = [local[d] EXCEPT !.tasks = local[d].tasks \ {t},
                        !.results = local[d].results \cup
                             {[work |-> t.work, round |-> t.round, lane |-> lane, report |-> report]}]]
  BY Zenon DEF Daemon!LaneStep, Daemon!Set
<1> HIDE DEF L, t
<1> DEFINE r == [work |-> t.work, round |-> t.round, lane |-> lane, report |-> report]
           T == local[d].tasks \ {t}
           R == local[d].results \cup {r}
           l == [tasks |-> T, nonce |-> local[d].nonce, results |-> R, sent |-> local[d].sent]
<1>6. local' = [local EXCEPT ![d] = l]
  <2>1. [local[d] EXCEPT !.tasks = T, !.results = R] = l
    <3> HIDE DEF T, R
    <3> QED BY <1>2, PassExecuted, Zenon
  <2> QED BY <1>5, <2>1, Zenon
<1>7. r.work = t.work /\ r.report = report
  OBVIOUS
<1> HIDE DEF r, T, R
<1>8. IsShape(l) /\ l.nonce \in Nat /\ l.sent \in Seq(signed) /\ l.sent = local[d].sent
      /\ l.results = R /\ l.tasks = T
  BY <1>2, ZenonT(40) DEF IsShape
<1> HIDE DEF l
<1>9. TasksExact(local[d]) /\ ResultsExact(local[d].results) /\ local[d].sent = <<>>
      /\ \A u \in local[d].tasks, s \in local[d].results : u.work # s.work
  BY Zenon, <1>1 DEF PassInv
<1>10. OnePerWork(T) /\ TasksExact(l)
  BY <1>8, <1>9 DEF TasksExact, OnePerWork, T
<1>11. t.work \in DOMAIN tasks /\ t.anchor = tasks[t.work].anchor
  BY Zenon, <1>3, <1>9 DEF TasksExact, OnePerWork
<1>12. ResultsExact(R)
  <2>1. report # NoTask => Exact(t.work, report)
    BY Zenon, <1>5, <1>11, RefineExact
  <2> QED BY <2>1, <1>3, <1>7, <1>9, <1>11 DEF ResultsExact, OnePerWork, R
<1>13. \A u \in T, s \in R : u.work # s.work
  BY Zenon, <1>3, <1>7, <1>9 DEF TasksExact, OnePerWork, T, R
<1>14. PassInv(l, "lanes")
  BY Zenon, <1>8, <1>9, <1>10, <1>12, <1>13, NothingSent DEF PassInv
<1> QED BY <1>4, <1>6, <1>8, <1>14, QuietMove, Zenon

(* The executions of the lanes are collected. *)
LEMMA CollectStep ==
    ASSUME DaemonInv, NEW d \in Daemons, Daemon!Collect(d)
    PROVE  DaemonInv'
<1> DEFINE l == [tasks |-> local[d].results, nonce |-> local[d].nonce,
                 results |-> local[d].results, sent |-> local[d].sent]
<1>1. PassInv(local[d], "lanes")
  BY DEF DaemonInv, Daemon!Collect, Daemon!At
<1>2. IsShape(local[d]) /\ local[d].sent \in Seq(signed) /\ local[d].nonce \in Nat
  BY DEF DaemonInv, DaemonType, IsPass, IsShape
<1>3. [local[d] EXCEPT !.tasks = local[d].results] = l
  BY <1>2, PassTasks
<1>4. /\ local' = [local EXCEPT ![d] = l] /\ daemonPc' = [daemonPc EXCEPT ![d] = "submit"]
      /\ UNCHANGED <<tasks, version, accountNonce, extrinsics, signed>>
  BY <1>3, Zenon DEF Daemon!Collect, Daemon!Set, Daemon!Goto, Daemon!chainVars
<1>5. IsShape(l) /\ l.nonce \in Nat /\ l.sent \in Seq(signed) /\ l.sent = local[d].sent
      /\ l.tasks = local[d].results
  BY <1>2 DEF IsShape
<1> HIDE DEF l
<1>6. PassInv(l, "submit")
  BY <1>1, <1>5, NothingSent, Zenon DEF PassInv
<1> QED BY <1>4, <1>5, <1>6, QuietMove, Zenon
(* The elements of a sequence after an append *)
LEMMA AppendAt ==
    ASSUME NEW S, NEW s \in Seq(S), NEW x
    PROVE  /\ Append(s, x) \in Seq(S \cup {x}) /\ Len(s) \in Nat
           /\ DOMAIN s = 1..Len(s) /\ DOMAIN Append(s, x) = 1..(Len(s) + 1)
           /\ Len(Append(s, x)) = Len(s) + 1
           /\ \A i \in 1..Len(s) : Append(s, x)[i] = s[i]
           /\ Append(s, x)[Len(s) + 1] = x
OBVIOUS

(* The candidates that a daemon is about to vote on are among the claims. *)
LEMMA VotedOnClaimed ==
    ASSUME NEW d \in Daemons, VotePhase(d), NEW t \in local[d].tasks
    PROVE  <<t.work, t.round, t.candidate>> \in Claims
BY DEF Claims

(* An extrinsic is signed and submitted: the invariant holds when what is     *)
(* signed is exact and the pass that watches it is well-formed.               *)
LEMMA Submitted ==
    ASSUME DaemonInv, NEW d \in Daemons, NEW x, NEW watching, Daemon!Submits(d, x, watching),
           IsExtrinsic(x),
           x.kind = "vote" => <<x.work, x.round, x.report>> \in Claims,
           NEW l, l = [tasks |-> local[d].tasks, nonce |-> local[d].nonce,
                       results |-> local[d].results, sent |-> Append(local[d].sent, x)],
           PassInv(l, watching), watching \in {"vote", "watch vote"} => VotePhase(d)
    PROVE  DaemonInv'
<1>0. IsShape(local[d]) /\ local[d].sent \in Seq(signed) /\ local[d].nonce \in Nat
  BY Zenon DEF DaemonInv, DaemonType, IsPass, IsShape
<1>1. signed' = signed \cup {x} /\ UNCHANGED <<tasks, version, accountNonce>>
  BY Zenon DEF Daemon!Submits
<1>2. /\ \A y \in signed' : IsExtrinsic(y)
      /\ \A y \in signed' : y.kind = "vote" => <<y.work, y.round, y.report>> \in Claims
  <2>1. \A y \in signed : IsExtrinsic(y)
    BY Zenon DEF DaemonInv, DaemonType
  <2>2. \A y \in signed : y.kind = "vote" => <<y.work, y.round, y.report>> \in Claims
    BY Zenon DEF Claims, Daemon!SignedVotes
  <2> QED BY <1>1, <2>1, <2>2, Zenon
<1>3. extrinsics \subseteq signed /\ IsFiniteSet(extrinsics)
  BY Zenon DEF DaemonInv, DaemonType
<1>4. CASE /\ extrinsics' = extrinsics \cup {x}
           /\ local' = [local EXCEPT ![d] = [local[d] EXCEPT !.sent = Append(local[d].sent, x)]]
           /\ daemonPc' = [daemonPc EXCEPT ![d] = watching]
  <2>1. local' = [local EXCEPT ![d] = l]
    BY <1>0, <1>4, PassSent, Zenon
  <2>2. extrinsics' \subseteq signed' /\ IsFiniteSet(extrinsics') /\ signed \subseteq signed'
    BY <1>1, <1>3, <1>4, FS_AddElement, Zenon
  <2>3. Append(local[d].sent, x) \in Seq(signed')
    BY <1>0, <1>1, AppendAt, Zenon
  <2>4. IsShape(l) /\ l.nonce \in Nat /\ l.sent \in Seq(signed') /\ l.tasks = local[d].tasks
    BY <1>0, <2>3, Zenon DEF IsShape
  <2>5. watching \in {"vote", "watch vote"} =>
           \A t \in l.tasks : <<t.work, t.round, t.candidate>> \in Claims
    BY <2>4, VotedOnClaimed, Zenon
  <2> QED BY <1>1, <1>2, <1>4, <2>1, <2>2, <2>4, <2>5, DaemonMoves, Zenon DEF IsShape
<1>5. CASE extrinsics' = extrinsics /\ Daemon!PassFails(d)
  <2>1. local' = [local EXCEPT ![d] = Daemon!NoPass] /\ daemonPc' = [daemonPc EXCEPT ![d] = "sleep"]
    BY <1>5, Zenon DEF Daemon!PassFails, Daemon!Set, Daemon!Goto
  <2>2. extrinsics' \subseteq signed' /\ IsFiniteSet(extrinsics') /\ signed \subseteq signed'
    BY <1>1, <1>3, <1>5, Zenon
  <2>3. Daemon!NoPass.sent \in Seq(signed')
    <3>1. Daemon!NoPass.sent = <<>>
      BY FreshPass, Zenon
    <3>2. <<>> \in Seq(signed')
      BY NothingSent, Zenon
    <3> QED BY <3>1, <3>2, Zenon
  <2> DEFINE m == Daemon!NoPass
  <2>4. IsShape(m) /\ m.nonce \in Nat /\ m.sent \in Seq(signed') /\ PassInv(m, "sleep")
    BY FreshPass, <2>3, Zenon
  <2> HIDE DEF m
  <2>5. local' = [local EXCEPT ![d] = m]
    BY <2>1, Zenon DEF m
  <2> QED BY <1>1, <1>2, <2>1, <2>2, <2>4, <2>5, DaemonMoves, Zenon DEF IsShape
<1> QED BY <1>4, <1>5, Zenon DEF Daemon!Submits, Daemon!Set, Daemon!Goto

(* The next candidate, in the order of the works. *)
LEMMA SubmitCandidateStep ==
    ASSUME DaemonInv, NEW d \in Daemons, Daemon!SubmitCandidate(d)
    PROVE  DaemonInv'
<1> DEFINE T == local[d].tasks
           e == Daemon!First(T)
           s == local[d].sent
           x == [kind |-> "candidate", from |-> d, nonce |-> local[d].nonce, work |-> e.work,
                 round |-> e.round, report |-> e.report, verdict |-> NoTask]
           l == [tasks |-> T, nonce |-> local[d].nonce, results |-> local[d].results,
                 sent |-> Append(s, x)]
<1>1. PassInv(local[d], "submit") /\ T # {} /\ e.report # NoTask
      /\ Daemon!Submits(d, x, "watch candidate")
  BY Zenon DEF DaemonInv, Daemon!SubmitCandidate, Daemon!At, Daemon!Execution, Daemon!Candidate
<1>2. s \in Seq(signed) /\ local[d].nonce \in Nat /\ DOMAIN tasks \subseteq Nat
  BY DEF DaemonInv, DaemonType, IsPass
<1>3. ResultsExact(T) /\ SentInOrder(s, local[d].nonce - 1) /\ CandidatesFirst(s)
      /\ \A i \in DOMAIN s, t \in T : s[i].work < t.work
  BY <1>1, Zenon DEF PassInv
<1>4. e \in T /\ \A t \in T : e.work <= t.work
  <2>1. \A t \in T : t.work \in Nat
    BY <1>2, <1>3 DEF ResultsExact, OnePerWork
  <2> HIDE DEF T
  <2> QED BY <1>1, <2>1, FirstIsLeast, Zenon
<1>5. e.work \in DOMAIN tasks /\ Exact(e.work, e.report)
  BY <1>1, <1>3, <1>4, ZenonT(40) DEF ResultsExact, OnePerWork
<1> HIDE DEF e
<1>6. /\ x.kind = "candidate" /\ x.nonce = local[d].nonce /\ x.work = e.work
      /\ x.report = e.report /\ x.verdict = NoTask
      /\ x = [kind |-> x.kind, from |-> x.from, nonce |-> x.nonce, work |-> x.work,
              round |-> x.round, report |-> x.report, verdict |-> x.verdict]
  OBVIOUS
<1> HIDE DEF x
<1>7. IsExtrinsic(x)
  BY Zenon, <1>2, <1>5, <1>6 DEF IsExtrinsic
<1> DEFINE a == Append(s, x)
<1>8. /\ Len(s) \in Nat /\ DOMAIN s = 1..Len(s) /\ DOMAIN a = 1..(Len(s) + 1)
      /\ Len(a) = Len(s) + 1 /\ \A i \in 1..Len(s) : a[i] = s[i]
      /\ a[Len(s) + 1] = x
  BY <1>2, AppendAt
<1>9. /\ l.sent = a /\ l.tasks = T /\ l.nonce = local[d].nonce
  OBVIOUS
<1> HIDE DEF s, a, T
<1>10. SentInOrder(a, local[d].nonce)
  <2>1. ASSUME NEW i \in DOMAIN a
        PROVE  a[i].kind = "candidate" /\ a[i].nonce = local[d].nonce + i - Len(a)
    <3>1. CASE i = Len(s) + 1
      BY <3>1, <1>2, <1>6, <1>8
    <3>2. CASE i \in DOMAIN s
      <4>1. s[i].kind = "candidate" /\ s[i].nonce = local[d].nonce - 1 + i - Len(s)
        BY <3>2, <1>3 DEF SentInOrder
      <4>2. i \in Int /\ Len(s) \in Int /\ local[d].nonce \in Int
        BY <3>2, <1>2, <1>8
      <4>3. a[i] = s[i] /\ Len(a) = Len(s) + 1
        BY <3>2, <1>8
      <4>4. local[d].nonce - 1 + i - Len(s) = local[d].nonce + i - (Len(s) + 1)
        BY ONLY <4>2
      <4> QED BY <4>1, <4>3, <4>4, Zenon
    <3> QED BY <3>1, <3>2, <1>8
  <2>2. ASSUME NEW i \in DOMAIN a, NEW j \in DOMAIN a, i < j PROVE a[i].work < a[j].work
    <3>1. CASE j = Len(s) + 1
      <4>1. i \in DOMAIN s
        BY ONLY <3>1, <2>2, <1>8
      <4> QED BY Zenon, <3>1, <4>1, <1>3, <1>4, <1>6, <1>8
    <3>2. CASE j \in DOMAIN s
      <4>1. i \in DOMAIN s
        BY <3>2, <2>2, <1>8
      <4> QED BY Zenon, <3>2, <4>1, <2>2, <1>3, <1>8 DEF SentInOrder
    <3> QED BY <3>1, <3>2, <1>8
  <2> QED BY <2>1, <2>2 DEF SentInOrder
<1>11. CandidatesFirst(a)
  <2> SUFFICES ASSUME NEW i \in DOMAIN a, NEW j \in DOMAIN a, i < j
               PROVE  /\ a[i].kind = "candidate" /\ a[i].work < a[j].work
                      /\ a[j].nonce = a[i].nonce + (j - i)
    BY DEF CandidatesFirst
  <2>1. /\ a[i].kind = "candidate" /\ a[i].work < a[j].work
        /\ a[i].nonce = local[d].nonce + i - Len(a) /\ a[j].nonce = local[d].nonce + j - Len(a)
    BY <1>10 DEF SentInOrder
  <2>2. i \in Int /\ j \in Int /\ Len(a) \in Int /\ local[d].nonce \in Int
    BY <1>2, <1>8
  <2> QED BY <2>1, <2>2
<1>12. /\ \A i \in DOMAIN a, t \in T : i < Len(a) => a[i].work < t.work
       /\ a # <<>> /\ a[Len(a)].work = Daemon!First(T).work
  <2>1. a # <<>>
    BY <1>8
  <2>2. a[Len(a)].work = Daemon!First(T).work
    BY <1>6, <1>8 DEF e
  <2>3. \A i \in DOMAIN a, t \in T : i < Len(a) => a[i].work < t.work
    BY <1>3, <1>8
  <2> QED BY <2>1, <2>2, <2>3
<1> HIDE DEF l
<1>13. PassInv(l, "watch candidate")
  BY <1>1, <1>3, <1>9, <1>10, <1>11, <1>12, Zenon DEF PassInv
<1>14. Daemon!Submits(d, x, "watch candidate")
  BY <1>1, Zenon DEF x, e, T
<1>15. l = [tasks |-> local[d].tasks, nonce |-> local[d].nonce,
            results |-> local[d].results, sent |-> Append(local[d].sent, x)]
  BY Zenon DEF l, T, s
<1> QED BY <1>6, <1>7, <1>13, <1>14, <1>15, Submitted, Zenon
(* A candidate is watched until it is final. *)
LEMMA WatchCandidateStep ==
    ASSUME DaemonInv, NEW d \in Daemons, Daemon!WatchCandidate(d)
    PROVE  DaemonInv'
<1> DEFINE T == local[d].tasks
           e == Daemon!First(T)
           s == local[d].sent
<1>0. Daemon!Watched(d, "watch candidate", e, "submit")
  BY Zenon DEF Daemon!WatchCandidate, Daemon!Execution
<1>1. UNCHANGED <<tasks, version, accountNonce, extrinsics, signed>> /\ daemonPc[d] = "watch candidate"
  BY <1>0, Zenon DEF Daemon!Watched, Daemon!chainVars, Daemon!At
<1>2. CASE Daemon!PassFails(d)
  BY Zenon, <1>1, <1>2, FailedPass
<1>3. CASE /\ local' = [local EXCEPT ![d] = [local[d] EXCEPT !.tasks = T \ {e}, !.nonce = local[d].nonce + 1]]
           /\ daemonPc' = [daemonPc EXCEPT ![d] = "submit"]
  <2> DEFINE U == T \ {e}
             n == local[d].nonce + 1
             l == [tasks |-> U, nonce |-> n, results |-> local[d].results, sent |-> s]
  <2>0. IsShape(local[d]) /\ s \in Seq(signed) /\ local[d].nonce \in Nat /\ DOMAIN tasks \subseteq Nat
    BY DEF DaemonInv, DaemonType, IsPass, IsShape
  <2>1. local' = [local EXCEPT ![d] = l]
    <3>1. [local[d] EXCEPT !.tasks = U, !.nonce = n] = l
      <4> HIDE DEF U, n
      <4> QED BY <2>0, PassWatched, Zenon
    <3> QED BY <1>3, <3>1, Zenon
  <2>2. IsShape(l) /\ l.nonce \in Nat /\ l.sent = s /\ l.tasks = U /\ l.nonce - 1 = local[d].nonce
    <3>1. IsShape(l) /\ l.nonce = n /\ l.sent = s /\ l.tasks = U
      <4> HIDE DEF U, n
      <4> QED BY DEF IsShape
    <3>2. n \in Nat /\ n - 1 = local[d].nonce
      BY <2>0
    <3> HIDE DEF l, n
    <3> QED BY Zenon, <3>1, <3>2
  <2>3. PassInv(local[d], "watch candidate")
    BY <1>1, Zenon DEF DaemonInv
  <2>4. /\ ResultsExact(T) /\ SentInOrder(s, local[d].nonce) /\ CandidatesFirst(s)
        /\ s # <<>> /\ T # {} /\ s[Len(s)].work = e.work
        /\ \A i \in DOMAIN s, t \in T : i < Len(s) => s[i].work < t.work
    BY <2>3, ZenonT(40) DEF PassInv
  <2>5. \A t \in T : t.work \in Nat
    BY Zenon, <2>0, <2>4 DEF ResultsExact, OnePerWork
  <2>6. e \in T /\ \A t \in T : e.work <= t.work
    <3> HIDE DEF T
    <3> QED BY <2>4, <2>5, FirstIsLeast
  <2>7. ResultsExact(U)
    BY <2>4, Zenon DEF ResultsExact, OnePerWork
  <2>8. ASSUME NEW t \in U PROVE e.work < t.work
    <3>1. t.work # e.work
      BY <2>4, <2>6, <2>8, ZenonT(40) DEF ResultsExact, OnePerWork
    <3> QED BY ONLY <3>1, <2>5, <2>6, <2>8
  <2>9. ASSUME NEW i \in DOMAIN s, NEW t \in U PROVE s[i].work < t.work
    <3>1. CASE i = Len(s)
      BY Zenon, <2>4, <2>8, <3>1
    <3>2. CASE i # Len(s)
      <4>1. i < Len(s)
        BY <2>0, <3>2
      <4> QED BY <4>1, <2>4
    <3> QED BY Zenon, <3>1, <3>2
  <2> HIDE DEF l, U, s
  <2>10. PassInv(l, "submit")
    BY <2>2, <2>4, <2>7, <2>9, Zenon DEF PassInv
  <2>11. l.sent \in Seq(signed)
    BY <2>0, <2>2
  <2> QED BY ZenonT(40), <1>1, <1>3, <2>1, <2>2, <2>10, <2>11, QuietMove
<1> QED BY <1>0, <1>2, <1>3, Zenon DEF Daemon!Watched, Daemon!Set, Daemon!Goto

(* A task of a daemon without submit_candidates. *)
LEMMA PollTaskStep ==
    ASSUME DaemonInv, NEW d \in Daemons, Daemon!PollTask(d)
    PROVE  DaemonInv'
<1> DEFINE T == local[d].tasks \ {Daemon!First(local[d].tasks)}
           l == [tasks |-> T, nonce |-> local[d].nonce, results |-> local[d].results,
                 sent |-> local[d].sent]
<1>1. IsShape(local[d]) /\ local[d].sent \in Seq(signed) /\ local[d].nonce \in Nat
  BY DEF DaemonInv, DaemonType, IsPass, IsShape
<1>2. /\ local' = [local EXCEPT ![d] = [local[d] EXCEPT !.tasks = T]] /\ daemonPc' = daemonPc
      /\ UNCHANGED <<tasks, version, accountNonce, extrinsics, signed>> /\ daemonPc[d] = "poll"
  BY Zenon DEF Daemon!PollTask, Daemon!Set, Daemon!chainVars, Daemon!At
<1> HIDE DEF T
<1>3. local' = [local EXCEPT ![d] = l]
  BY <1>1, <1>2, PassTasks, Zenon
<1>4. daemonPc' = [daemonPc EXCEPT ![d] = "poll"]
  BY Zenon, <1>2 DEF DaemonInv, DaemonType
<1>5. IsShape(l) /\ l.nonce \in Nat /\ l.sent \in Seq(signed) /\ l.sent = local[d].sent
  BY <1>1, Zenon DEF IsShape
<1>6. PassInv(local[d], "poll")
  BY <1>2 DEF DaemonInv
<1> HIDE DEF l
<1>7. PassInv(l, "poll")
  BY <1>5, <1>6, Zenon DEF PassInv
<1> QED BY Zenon, <1>2, <1>3, <1>4, <1>5, <1>7, QuietMove

(* The steps that end a part of a pass. *)
LEMMA PartDone ==
    ASSUME DaemonInv, NEW d \in Daemons,
           \/ Daemon!CandidatesDone(d) \/ Daemon!PollDone(d) \/ Daemon!VotesDone(d)
           \/ Daemon!TruncateFile(d) \/ Daemon!RequestHangs(d)
    PROVE  DaemonInv'
<1>1. PICK step \in {"votes", "persist", "write", "hung"} :
         /\ daemonPc' = [daemonPc EXCEPT ![d] = step]
         /\ UNCHANGED <<tasks, version, accountNonce, extrinsics, signed, local>>
  BY Zenon DEF Daemon!CandidatesDone, Daemon!PollDone, Daemon!VotesDone, Daemon!TruncateFile,
      Daemon!RequestHangs, Daemon!Goto, Daemon!chainVars
<1>2. CandidatesFirst(local[d].sent)
  BY Zenon DEF DaemonInv, PassInv
<1>3. PassInv(local[d], step)
  BY <1>2, Zenon DEF PassInv
<1> QED BY <1>1, <1>3, SamePass, Zenon

(* The file is written and the pass is over. *)
LEMMA PassOver ==
    ASSUME DaemonInv, NEW d \in Daemons, Daemon!WriteFile(d) \/ Daemon!Crash(d)
    PROVE  DaemonInv'
<1>1. PICK step \in {"sleep", "down"} :
         /\ daemonPc' = [daemonPc EXCEPT ![d] = step]
         /\ local' = [local EXCEPT ![d] = Daemon!NoPass]
         /\ UNCHANGED <<tasks, version, accountNonce, extrinsics, signed>>
  BY Zenon DEF Daemon!WriteFile, Daemon!Crash, Daemon!Goto, Daemon!Set, Daemon!chainVars
<1> QED BY <1>1, QuietMove, FreshPass, Zenon

(* A daemon starts. *)
LEMMA StartStep ==
    ASSUME DaemonInv, NEW d \in Daemons, Daemon!Start(d)
    PROVE  DaemonInv'
<1>1. PICK step \in {"sleep", "exited"} :
         /\ daemonPc' = [daemonPc EXCEPT ![d] = step] /\ daemonPc[d] = "down"
         /\ UNCHANGED <<tasks, version, accountNonce, extrinsics, signed, local>>
  BY Zenon DEF Daemon!Start, Daemon!Goto, Daemon!At, Daemon!chainVars
<1>2. PassInv(local[d], "down")
  BY <1>1 DEF DaemonInv
<1>3. PassInv(local[d], step)
  BY <1>2, Zenon DEF PassInv
<1> QED BY <1>1, <1>3, SamePass, Zenon
(* The tasks to vote on are read: each is the candidate of a round of now. *)
LEMMA ReadVoteTasksStep ==
    ASSUME DaemonInv, NEW d \in Daemons, Daemon!ReadVoteTasks(d)
    PROVE  DaemonInv'
<1> DEFINE T == IF d \in Voters THEN Daemon!VoteTasks ELSE {}
           l == [tasks |-> T, nonce |-> local[d].nonce, results |-> local[d].results,
                 sent |-> local[d].sent]
<1>1. IsShape(local[d]) /\ local[d].sent \in Seq(signed) /\ local[d].nonce \in Nat
      /\ CandidatesFirst(local[d].sent)
  BY Zenon DEF DaemonInv, DaemonType, IsPass, IsShape, PassInv
<1>2. /\ local' = [local EXCEPT ![d] = [local[d] EXCEPT !.tasks = T]]
      /\ daemonPc' = [daemonPc EXCEPT ![d] = "vote"]
      /\ UNCHANGED <<tasks, version, accountNonce, extrinsics, signed>>
  BY Zenon DEF Daemon!ReadVoteTasks, Daemon!Set, Daemon!Goto, Daemon!chainVars
<1>3. \A t \in T : /\ t.work \in DOMAIN tasks /\ t.anchor = tasks[t.work].anchor
                   /\ Current(<<t.work, t.round, t.candidate>>)
  <2> SUFFICES ASSUME NEW t \in Daemon!VoteTasks
               PROVE  /\ t.work \in DOMAIN tasks /\ t.anchor = tasks[t.work].anchor
                      /\ Current(<<t.work, t.round, t.candidate>>)
    BY Zenon
  <2>1. PICK w \in Daemon!Open("voting") :
            t = [work |-> w, round |-> tasks[w].round, assigned |-> tasks[w].assigned,
                 anchor |-> tasks[w].anchor, candidate |-> tasks[w].candidate,
                 submitted |-> {v.from : v \in tasks[w].votes}]
    BY Zenon DEF Daemon!VoteTasks
  <2>2. /\ t.work = w /\ t.round = tasks[w].round /\ t.anchor = tasks[w].anchor
        /\ t.candidate = tasks[w].candidate
    BY <2>1
  <2>3. w \in DOMAIN tasks /\ tasks[w].phase = "voting"
    BY Zenon DEF Daemon!Open
  <2> QED BY <2>2, <2>3 DEF Current
<1> HIDE DEF T
<1>4. local' = [local EXCEPT ![d] = l]
  BY <1>1, <1>2, PassTasks, Zenon
<1>5. IsShape(l) /\ l.nonce \in Nat /\ l.sent \in Seq(signed) /\ l.sent = local[d].sent
      /\ l.tasks = T
  BY <1>1, Zenon DEF IsShape
<1> HIDE DEF l
<1>6. PassInv(l, "vote")
  BY <1>1, <1>3, <1>5, Zenon DEF PassInv
<1> QED BY Zenon, <1>2, <1>3, <1>4, <1>5, <1>6, QuietMove

(* One task less to vote on. *)
LEMMA VoteTaskDone ==
    ASSUME DaemonInv, NEW d \in Daemons, VotePhase(d), NEW l,
           UNCHANGED <<tasks, version, accountNonce, extrinsics, signed>>,
           local' = [local EXCEPT ![d] = l], daemonPc' = [daemonPc EXCEPT ![d] = "vote"],
           IsShape(l), l.nonce \in Nat, l.sent = local[d].sent, l.tasks \subseteq local[d].tasks
    PROVE  DaemonInv'
<1>1. PassInv(local[d], daemonPc[d]) /\ local[d].sent \in Seq(signed)
  BY DEF DaemonInv, DaemonType, IsPass
<1>2. PassInv(l, "vote")
  BY <1>1, Zenon DEF PassInv, VotePhase
<1>3. \A t \in l.tasks : <<t.work, t.round, t.candidate>> \in Claims
  BY VotedOnClaimed, Zenon
<1> QED BY <1>1, <1>2, <1>3, QuietMove, ZenonT(40)

(* A task that the daemon does not vote on. *)
LEMMA SkipVoteStep ==
    ASSUME DaemonInv, NEW d \in Daemons, Daemon!SkipVote(d)
    PROVE  DaemonInv'
<1> DEFINE T == local[d].tasks \ {Daemon!First(local[d].tasks)}
           l == [tasks |-> T, nonce |-> local[d].nonce, results |-> local[d].results,
                 sent |-> local[d].sent]
<1>1. IsShape(local[d]) /\ local[d].nonce \in Nat
  BY DEF DaemonInv, DaemonType, IsPass, IsShape
<1>2. /\ local' = [local EXCEPT ![d] = [local[d] EXCEPT !.tasks = T]] /\ daemonPc' = daemonPc
      /\ UNCHANGED <<tasks, version, accountNonce, extrinsics, signed>> /\ daemonPc[d] = "vote"
  BY Zenon DEF Daemon!SkipVote, Daemon!Set, Daemon!chainVars, Daemon!At
<1>3. T \subseteq local[d].tasks
  OBVIOUS
<1> HIDE DEF T
<1>4. local' = [local EXCEPT ![d] = l]
  BY <1>1, <1>2, PassTasks, Zenon
<1>5. daemonPc' = [daemonPc EXCEPT ![d] = "vote"]
  BY Zenon, <1>2 DEF DaemonInv, DaemonType
<1>6. IsShape(l) /\ l.nonce \in Nat /\ l.sent = local[d].sent /\ l.tasks = T
  BY <1>1, Zenon DEF IsShape
<1>7. VotePhase(d)
  BY <1>2 DEF VotePhase
<1> HIDE DEF l
<1> QED BY <1>2, <1>3, <1>4, <1>5, <1>6, <1>7, VoteTaskDone, ZenonT(40)

(* A vote is watched until it is final. *)
LEMMA WatchVoteStep ==
    ASSUME DaemonInv, NEW d \in Daemons, Daemon!WatchVote(d)
    PROVE  DaemonInv'
<1> DEFINE T == local[d].tasks \ {Daemon!First(local[d].tasks)}
           n == local[d].nonce + 1
           l == [tasks |-> T, nonce |-> n, results |-> local[d].results, sent |-> local[d].sent]
<1>1. UNCHANGED <<tasks, version, accountNonce, extrinsics, signed>> /\ daemonPc[d] = "watch vote"
  BY Zenon DEF Daemon!WatchVote, Daemon!Watched, Daemon!chainVars, Daemon!At
<1>2. CASE Daemon!PassFails(d)
  BY <1>1, <1>2, FailedPass, Zenon
<1>3. CASE /\ local' = [local EXCEPT ![d] = [local[d] EXCEPT !.tasks = T, !.nonce = n]]
           /\ daemonPc' = [daemonPc EXCEPT ![d] = "vote"]
  <2>1. IsShape(local[d]) /\ n \in Nat
    BY DEF DaemonInv, DaemonType, IsPass, IsShape
  <2>2. T \subseteq local[d].tasks
    OBVIOUS
  <2> HIDE DEF T, n
  <2>3. local' = [local EXCEPT ![d] = l]
    BY <2>1, <1>3, PassWatched, Zenon
  <2>4. IsShape(l) /\ l.nonce \in Nat /\ l.sent = local[d].sent /\ l.tasks = T
    BY <2>1, Zenon DEF IsShape
  <2>5. VotePhase(d)
    BY <1>1, Zenon DEF VotePhase
  <2> HIDE DEF l
  <2> QED BY ZenonT(40), <1>1, <1>3, <2>2, <2>3, <2>4, <2>5, VoteTaskDone
<1> QED BY <1>2, <1>3, Zenon DEF Daemon!WatchVote, Daemon!Watched, Daemon!Set, Daemon!Goto

(* A vote is submitted, with the verdict of an execution at the anchor of the *)
(* package.                                                                   *)
LEMMA SubmitVoteStep ==
    ASSUME DaemonInv, NEW d \in Daemons, Daemon!SubmitVote(d)
    PROVE  DaemonInv'
<1> DEFINE t == Daemon!First(local[d].tasks)
           s == local[d].sent
           x == [kind |-> "vote", from |-> d, nonce |-> NoTask, work |-> t.work, round |-> t.round,
                 report |-> t.candidate, verdict |-> Daemon!Verdict(t)]
           l == [tasks |-> local[d].tasks, nonce |-> local[d].nonce, results |-> local[d].results,
                 sent |-> Append(s, x)]
<1>1. daemonPc[d] = "vote" /\ local[d].tasks # {}
  BY Zenon DEF Daemon!SubmitVote, Daemon!At
<1>2. PassInv(local[d], "vote") /\ VotePhase(d) /\ s \in Seq(signed) /\ DOMAIN tasks \subseteq Nat
  BY <1>1 DEF DaemonInv, VotePhase, DaemonType, IsPass
<1>3. CASE Daemon!PassFails(d) /\ UNCHANGED <<Daemon!chainVars, signed>>
  BY <1>3, FailedPass DEF Daemon!chainVars
<1>4. CASE Daemon!Refine(t) # NoTask /\ Daemon!Submits(d, x, "watch vote")
  <2>1. t \in local[d].tasks
    <3>1. \A u \in local[d].tasks : u.work \in Nat
      BY <1>2, Zenon DEF PassInv
    <3> QED BY <1>1, <3>1, FirstIsLeast
  <2>2. t.work \in DOMAIN tasks /\ t.anchor = tasks[t.work].anchor
        /\ <<t.work, t.round, t.candidate>> \in Claims
    BY <1>2, <2>1, VotedOnClaimed, Zenon DEF PassInv
  <2>3. Daemon!Verdict(t) = IF t.candidate = <<t.work, tasks[t.work].anchor>> THEN "support" ELSE "oppose"
    <3>1. Daemon!Refine(t) = <<t.work, tasks[t.work].anchor>>
      BY <1>4, <2>2, RefineExact, ZenonT(40) DEF Exact
    <3> QED BY <3>1 DEF Daemon!Verdict
  <2> HIDE DEF t
  <2>4. /\ x.kind = "vote" /\ x.nonce = NoTask /\ x.work = t.work /\ x.round = t.round
        /\ x.report = t.candidate /\ x.verdict = Daemon!Verdict(t)
        /\ x = [kind |-> x.kind, from |-> x.from, nonce |-> x.nonce, work |-> x.work,
                round |-> x.round, report |-> x.report, verdict |-> x.verdict]
    BY Zenon
  <2> HIDE DEF x
  <2>5. IsExtrinsic(x)
    BY Zenon, <2>2, <2>3, <2>4 DEF IsExtrinsic
  <2> DEFINE a == Append(s, x)
  <2>6. /\ Len(s) \in Nat /\ DOMAIN s = 1..Len(s) /\ DOMAIN a = 1..(Len(s) + 1)
        /\ \A i \in 1..Len(s) : a[i] = s[i]
        /\ a[Len(s) + 1] = x
    BY <1>2, AppendAt
  <2>7. l.sent = a /\ l.tasks = local[d].tasks
    OBVIOUS
  <2>8. CandidatesFirst(s)
    BY <1>2, Zenon DEF PassInv
  <2> HIDE DEF s, a
  <2>9. CandidatesFirst(a)
    <3> SUFFICES ASSUME NEW i \in DOMAIN a, NEW j \in DOMAIN a, i < j, a[j].kind = "candidate"
                 PROVE  /\ a[i].kind = "candidate" /\ a[i].work < a[j].work
                        /\ a[j].nonce = a[i].nonce + (j - i)
      BY DEF CandidatesFirst
    <3>1. j # Len(s) + 1
      BY Zenon, <2>4, <2>6
    <3>2. i \in DOMAIN s /\ j \in DOMAIN s /\ a[i] = s[i] /\ a[j] = s[j]
      BY <2>6, <3>1
    <3> QED BY <2>8, <3>2, ZenonT(40) DEF CandidatesFirst
  <2> HIDE DEF l
  <2>10. PassInv(l, "watch vote")
    BY <1>2, <2>7, <2>9, Zenon DEF PassInv
  <2>11. l = [tasks |-> local[d].tasks, nonce |-> local[d].nonce, results |-> local[d].results,
              sent |-> Append(local[d].sent, x)]
    BY Zenon DEF l, s
  <2>12. Daemon!Submits(d, x, "watch vote")
    BY <1>4, Zenon DEF x, t
  <2> QED BY <1>2, <2>2, <2>4, <2>5, <2>10, <2>11, <2>12, Submitted, ZenonT(40)
<1> QED BY <1>3, <1>4, Zenon DEF Daemon!SubmitVote

(* The other steps that end a pass. *)
LEMMA PassFailsStep ==
    ASSUME DaemonInv, NEW d \in Daemons, Daemon!RefineFailed(d) \/ Daemon!RequestFails(d)
    PROVE  DaemonInv'
<1>1. Daemon!PassFails(d) /\ UNCHANGED <<tasks, version, accountNonce, extrinsics, signed>>
  BY Zenon DEF Daemon!RefineFailed, Daemon!RequestFails, Daemon!chainVars
<1> QED BY <1>1, FailedPass
(* A step that changes nothing of the chain and of the passes. *)
LEMMA Unmoved ==
    ASSUME DaemonInv,
           UNCHANGED <<tasks, version, accountNonce, extrinsics, daemonPc, local, signed>>
    PROVE  DaemonInv'
<1>1. Kept
  BY DEF Kept, DaemonInv, DaemonType, IsRound
<1>2. extrinsics' \subseteq extrinsics /\ accountNonce' \in [Daemons -> Nat]
  BY DEF DaemonInv, DaemonType
<1> QED BY Zenon, <1>1, <1>2, ChainStep

(* The daemons start with nothing signed. *)
LEMMA DaemonInit ==
    ASSUME Daemon!Init
    PROVE  DaemonInv
<1>1. /\ tasks = <<>> /\ version = 0 /\ extrinsics = {} /\ signed = {}
      /\ accountNonce = [d \in Daemons |-> 0] /\ daemonPc = [d \in Daemons |-> "down"]
      /\ local = [d \in Daemons |-> Daemon!NoPass]
  BY Zenon DEF Daemon!Init
<1>2. DOMAIN tasks = {}
  BY <1>1
<1>3. /\ IsFiniteSet(extrinsics) /\ accountNonce \in [Daemons -> Nat]
      /\ daemonPc = [d \in Daemons |-> daemonPc[d]] /\ local = [d \in Daemons |-> local[d]]
  BY <1>1, FS_EmptySet
<1>4. \A d \in Daemons : local[d] = Daemon!NoPass /\ daemonPc[d] = "down"
  BY <1>1
<1>5. \A d \in Daemons : IsPass(local[d]) /\ PassInv(local[d], daemonPc[d])
  BY <1>4, FreshPass DEF IsPass, IsShape
<1>6. DaemonType
  BY <1>1, <1>2, <1>3, <1>5 DEF DaemonType
<1>7. Claims = {}
  BY <1>1, <1>4, Zenon DEF Claims, Daemon!SignedVotes, VotePhase
<1> QED BY Zenon, <1>1, <1>5, <1>6, <1>7 DEF DaemonInv, ClaimsAgree

(* Every step of the daemons and of the chain keeps the invariant. *)
LEMMA DaemonStep ==
    ASSUME Daemon!Assumption, DaemonInv, [Daemon!Next]_(Daemon!vars)
    PROVE  DaemonInv'
<1>1. CASE UNCHANGED Daemon!vars
  BY <1>1, Unmoved DEF Daemon!vars, Daemon!chainVars, Daemon!daemonVars
<1>2. CASE Daemon!Chain
  BY <1>2, ChainKeeps, ChainStep
<1>3. ASSUME NEW d \in Daemons, Daemon!Daemon(d) PROVE DaemonInv'
  <2>1. CASE Daemon!ReadTasks(d)
    BY <2>1, ReadTasksStep
  <2>2. CASE Daemon!ReadNonce(d)
    BY Zenon, <2>2, ReadNonceStep
  <2>3. CASE Daemon!FetchBundles(d)
    BY <2>3, FetchBundlesStep
  <2>4. CASE Daemon!Collect(d)
    BY <2>4, CollectStep
  <2>5. CASE \E lane \in 0..(Lanes - 1) : Daemon!LaneStep(d, lane)
    BY <2>5, LaneStepStep
  <2>6. CASE Daemon!SubmitCandidate(d)
    BY <2>6, SubmitCandidateStep
  <2>7. CASE Daemon!RefineFailed(d)
    BY <2>7, PassFailsStep
  <2>8. CASE Daemon!WatchCandidate(d)
    BY <2>8, WatchCandidateStep
  <2>9. CASE Daemon!CandidatesDone(d) \/ Daemon!PollDone(d) \/ Daemon!VotesDone(d) \/ Daemon!TruncateFile(d)
    BY Zenon, <2>9, PartDone
  <2>10. CASE Daemon!PollTask(d)
    BY <2>10, PollTaskStep
  <2>11. CASE Daemon!ReadVoteTasks(d)
    BY <2>11, ReadVoteTasksStep
  <2>12. CASE Daemon!SkipVote(d)
    BY <2>12, SkipVoteStep
  <2>13. CASE Daemon!SubmitVote(d)
    BY <2>13, SubmitVoteStep
  <2>14. CASE Daemon!WatchVote(d)
    BY <2>14, WatchVoteStep
  <2>15. CASE Daemon!WriteFile(d)
    BY <2>15, PassOver
  <2>16. CASE Daemon!Start(d)
    BY <2>16, StartStep
  <2> QED BY ZenonT(40), <1>3, <2>1, <2>2, <2>3, <2>4, <2>5, <2>6, <2>7, <2>8, <2>9, <2>10, <2>11, <2>12,
             <2>13, <2>14, <2>15, <2>16, Zenon DEF Daemon!Daemon
<1>4. ASSUME NEW d \in Daemons, Daemon!Environment(d) PROVE DaemonInv'
  <2>1. CASE Daemon!RequestFails(d)
    BY <2>1, PassFailsStep
  <2>2. CASE Daemon!RequestHangs(d)
    BY Zenon, <2>2, PartDone
  <2>3. CASE Daemon!Crash(d)
    BY <2>3, PassOver
  <2>4. CASE Daemon!Rotate(d)
    BY <2>4, Unmoved DEF Daemon!Rotate, Daemon!chainVars, Daemon!daemonVars
  <2> QED BY <1>4, <2>1, <2>2, <2>3, <2>4, Zenon DEF Daemon!Environment
<1> QED BY <1>1, <1>2, <1>3, <1>4, Zenon DEF Daemon!Next

(* The invariant of the daemons holds in every state. *)
LEMMA DaemonInvariant == Daemon!Assumption => (Daemon!Spec => []DaemonInv)
<1> SUFFICES ASSUME Daemon!Assumption PROVE Daemon!Spec => []DaemonInv
  OBVIOUS
<1>1. Daemon!Init => DaemonInv
  BY DaemonInit
<1>2. DaemonInv /\ [Daemon!Next]_(Daemon!vars) => DaemonInv'
  BY DaemonStep
<1> QED BY <1>1, <1>2, PTL DEF Daemon!Spec

(* However the daemons' passes, the blocks, crashes, lost answers and late    *)
(* deadlines interleave, no daemon signs two different votes for a round, and *)
(* each vote is the one that its own execution at the anchor of the package   *)
(* calls for (submit_refine_votes).                                           *)
THEOREM VotesStaySound == Daemon!Assumption => (Daemon!Spec => []VotesSound)
<1> SUFFICES ASSUME Daemon!Assumption PROVE Daemon!Spec => []VotesSound
  OBVIOUS
<1>1. DaemonInv => VotesSound
  <2> SUFFICES ASSUME DaemonInv PROVE VotesSound
    BY Zenon
  <2>1. Daemon!VerdictsExact
    BY DEF DaemonInv, DaemonType, IsExtrinsic, Daemon!VerdictsExact, Daemon!SignedVotes
  <2>2. ASSUME NEW x \in Daemon!SignedVotes, NEW y \in Daemon!SignedVotes,
               x.from = y.from, x.work = y.work, x.round = y.round
        PROVE  x = y
    <3>1. /\ x.kind = "vote" /\ y.kind = "vote" /\ IsExtrinsic(x) /\ IsExtrinsic(y)
      BY DEF DaemonInv, DaemonType, Daemon!SignedVotes
    <3>2. <<x.work, x.round, x.report>> \in Claims /\ <<y.work, y.round, y.report>> \in Claims
      BY DEF Claims
    <3>3. x.report = y.report
      BY Zenon, <2>2, <3>2 DEF DaemonInv, ClaimsAgree
    <3>4. x.nonce = y.nonce /\ x.verdict = y.verdict /\ x.kind = y.kind
      BY Zenon, <2>2, <3>1, <3>3 DEF IsExtrinsic
    <3>5. /\ x = [kind |-> x.kind, from |-> x.from, nonce |-> x.nonce, work |-> x.work,
                  round |-> x.round, report |-> x.report, verdict |-> x.verdict]
          /\ y = [kind |-> y.kind, from |-> y.from, nonce |-> y.nonce, work |-> y.work,
                  round |-> y.round, report |-> y.report, verdict |-> y.verdict]
      BY <3>1 DEF IsExtrinsic
    <3> QED BY <2>2, <3>3, <3>4, <3>5, Zenon
  <2> QED BY <2>1, <2>2 DEF VotesSound, Daemon!NoEquivocation
<1> QED BY <1>1, DaemonInvariant, PTL

(* Every candidate that a daemon signs is the report of the package at its    *)
(* anchor, that anchor is final, and a pass sends its candidates by work id   *)
(* with consecutive nonces whatever lane finishes first (poll_once with       *)
(* executions.sort_by_key).                                                   *)
THEOREM ReportsStayExact == Daemon!Assumption => (Daemon!Spec => []ReportsExact)
<1> SUFFICES ASSUME Daemon!Assumption PROVE Daemon!Spec => []ReportsExact
  OBVIOUS
<1>1. DaemonInv => ReportsExact
  <2> SUFFICES ASSUME DaemonInv PROVE ReportsExact
    OBVIOUS
  <2>1. Daemon!CandidatesExact
    BY DEF DaemonInv, DaemonType, IsExtrinsic, Exact, Daemon!CandidatesExact
  <2>2. Daemon!LanesKeepOrder
    BY Zenon DEF DaemonInv, PassInv, CandidatesFirst, Daemon!LanesKeepOrder
  <2> QED BY Zenon, <2>1, <2>2 DEF ReportsExact
<1> QED BY <1>1, DaemonInvariant, PTL
=============================================================================
