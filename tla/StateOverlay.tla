---------------------------- MODULE StateOverlay ----------------------------
(* ProtocolStateDb of the worker: the database refine runs on. It reads the   *)
(* protocol state at one block through the node and keeps what the execution  *)
(* changes in two maps, each behind a mutex of its own. The type is declared  *)
(* Sync, so the threads of the executor may share it.                         *)
EXTENDS Naturals, Sequences

CONSTANTS
    Threads,
    StateKeys,              \* 31-byte keys of COL_STATE
    OtherKeys,              \* any other column or length
    Values,                 \* that the execution writes
    MaxHead,                \* bound on the blocks after the anchor
    MaxBatch,               \* bound on the changes of a call
    MaxCalls, MaxFaults,    \* bounds on the calls, on the requests that fail
    None

(* What the constants are assumed to be *)
Assumption ==
    /\ StateKeys \cap OtherKeys = {} /\ Values \cap 0..MaxHead = {}
    /\ {MaxHead, MaxBatch, MaxCalls, MaxFaults} \subseteq Nat

VARIABLES
    head,                   \* latest block; the database reads at block 0
    writes, deletes,        \* key |-> value or None; set of keys
    call,                   \* per thread: the call it is in
    answer,                 \* per thread: of its last get
    settled,                \* key |-> what a get may answer when nobody writes the key
    callsLeft, faultsLeft

vars == <<head, writes, deletes, call, answer, settled, callsLeft, faultsLeft>>

Keys == StateKeys \cup OtherKeys

(* Upsert and Update carry a value, which may be missing; Remove has none *)
Changes == [op : {"Upsert"}, key : Keys, value : Values \cup {None}]
               \cup [op : {"Remove"}, key : Keys, value : {None}]
Batches == UNION {[1..n -> Changes] : n \in 1..MaxBatch}

Idle == [pc |-> "idle"]
Write(changes) == [pc |-> "first", todo |-> changes]

(* The thread is between the two locks of put or del of the key *)
Writing(t, k) == call[t].pc = "second" /\ Head(call[t].todo).key = k

Get(k) ==
    [pc |-> "deletes", key |-> k,
     quiet |-> ~\E t \in Threads : Writing(t, k)]

(* The protocol state of a block: each block changes every key *)
StateAt(k, block) == IF k \in StateKeys THEN block ELSE None

(* Faulty Source: the best block *)
SourceLatest(k) == StateAt(k, head)

(* protocol_state_value_at, for keys of COL_STATE *)
Source(k) == StateAt(k, 0)
-----------------------------------------------------------------------------
Init ==
    /\ head = 0
    /\ writes = [k \in Keys |-> None] /\ deletes = {}
    /\ call = [t \in Threads |-> Idle] /\ answer = [t \in Threads |-> None]
    /\ settled = [k \in Keys |-> {StateAt(k, 0)}]
    /\ callsLeft = MaxCalls /\ faultsLeft = MaxFaults

Begin(t, c) ==
    /\ call[t] = Idle /\ callsLeft > 0
    /\ call' = [call EXCEPT ![t] = c]
    /\ callsLeft' = callsLeft - 1
    /\ UNCHANGED <<head, writes, deletes, answer, settled, faultsLeft>>

(* The call goes on to its next lock *)
Goto(t, pc) == call' = [call EXCEPT ![t].pc = pc]

Answers(t, a) ==
    /\ call' = [call EXCEPT ![t] = Idle]
    /\ answer' = [answer EXCEPT ![t] = [value |-> a, quiet |-> call[t].quiet,
                                        settled |-> settled[call[t].key]]]
    /\ UNCHANGED <<head, writes, deletes, settled, callsLeft>>

(* get; multi_get and key_may_exist call it for each key *)
GetDeleted(t) ==
    /\ call[t].pc = "deletes"
    /\ IF call[t].key \in deletes THEN Answers(t, None)
       ELSE Goto(t, "writes") /\ UNCHANGED <<head, writes, deletes, answer, settled, callsLeft>>
    /\ UNCHANGED faultsLeft

GetWritten(t) ==
    /\ call[t].pc = "writes"
    /\ IF writes[call[t].key] # None THEN Answers(t, writes[call[t].key])
       ELSE IF call[t].key \in OtherKeys THEN Answers(t, None)
       ELSE Goto(t, "source") /\ UNCHANGED <<head, writes, deletes, answer, settled, callsLeft>>
    /\ UNCHANGED faultsLeft

GetSource(t) ==
    /\ call[t].pc = "source"
    /\ Answers(t, Source(call[t].key))
    /\ UNCHANGED faultsLeft

(* The node does not answer: get fails, key_may_exist says no *)
SourceFails(t) ==
    /\ call[t].pc = "source" /\ faultsLeft > 0
    /\ faultsLeft' = faultsLeft - 1
    /\ call' = [call EXCEPT ![t] = Idle]
    /\ answer' = [answer EXCEPT ![t] = None]
    /\ UNCHANGED <<head, writes, deletes, settled, callsLeft>>
-----------------------------------------------------------------------------
(* Entering put or del of a key disturbs the gets of it that are under way.   *)
(* What the key settles on is the outcome of this write or of one it overlaps *)
Enter(t, change) ==
    /\ call' = [u \in Threads |->
          IF u = t THEN [call[t] EXCEPT !.pc = "second"]
          ELSE IF call[u].pc \in {"deletes", "writes", "source"} /\ call[u].key = change.key
          THEN [call[u] EXCEPT !.quiet = FALSE] ELSE call[u]]
    /\ settled' = [settled EXCEPT ![change.key] =
          IF \E u \in Threads \ {t} : Writing(u, change.key)
          THEN @ \cup {change.value} ELSE {change.value}]

(* Faulty Forget: put leaves the mark of an earlier del *)
ForgetWritten(change) ==
    IF change.op = "Remove"
    THEN writes' = [writes EXCEPT ![change.key] = None] /\ UNCHANGED deletes
    ELSE UNCHANGED <<writes, deletes>>

(* First lock: put takes the key out of deletes, del out of writes *)
Forget(change) ==
    IF change.op = "Remove"
    THEN writes' = [writes EXCEPT ![change.key] = None] /\ UNCHANGED deletes
    ELSE deletes' = deletes \ {change.key} /\ UNCHANGED writes

(* Second lock: put enters it in writes, del in deletes *)
Record(change) ==
    IF change.op = "Remove"
    THEN deletes' = deletes \cup {change.key} /\ UNCHANGED writes
    ELSE writes' = [writes EXCEPT ![change.key] = change.value] /\ UNCHANGED deletes

Missing(change) == change.op = "Upsert" /\ change.value = None

(* batch_write and batch_write_cf apply one change after the other *)
WriteFirst(t) ==
    LET change == Head(call[t].todo)
    IN  /\ call[t].pc = "first"
        /\ ~Missing(change)
        /\ Enter(t, change) /\ Forget(change)
        /\ UNCHANGED <<head, answer, callsLeft, faultsLeft>>

WriteSecond(t) ==
    LET rest == Tail(call[t].todo)
    IN  /\ call[t].pc = "second"
        /\ Record(Head(call[t].todo))
        /\ call' = [call EXCEPT ![t] = IF rest = <<>> THEN Idle ELSE Write(rest)]
        /\ UNCHANGED <<head, answer, settled, callsLeft, faultsLeft>>

(* NotFound: the call ends, the changes before it stay *)
WriteMissing(t) ==
    /\ call[t].pc = "first"
    /\ Missing(Head(call[t].todo))
    /\ call' = [call EXCEPT ![t] = Idle]
    /\ UNCHANGED <<head, writes, deletes, answer, settled, callsLeft, faultsLeft>>

NewHead ==
    /\ head < MaxHead
    /\ head' = head + 1
    /\ UNCHANGED <<writes, deletes, call, answer, settled, callsLeft, faultsLeft>>

Next ==
    \/ NewHead
    \/ \E t \in Threads :
          \/ \E k \in Keys : Begin(t, Get(k))
          \/ \E changes \in Batches : Begin(t, Write(changes))
          \/ GetDeleted(t) \/ GetWritten(t) \/ GetSource(t) \/ SourceFails(t)
          \/ WriteFirst(t) \/ WriteSecond(t) \/ WriteMissing(t)

Spec == Init /\ [][Next]_vars
-----------------------------------------------------------------------------
View(k) ==
    IF k \in deletes THEN None ELSE IF writes[k] # None THEN writes[k] ELSE StateAt(k, 0)

(* The two maps together are one map from keys to values whenever no put or   *)
(* del of the key is between its two locks: they show the last write, or one  *)
(* of those that raced for it, and the state of the anchor where there was    *)
(* none, whatever calls came before and however they failed.                  *)
OverlayExact ==
    \A k \in Keys : (\E t \in Threads : Writing(t, k)) \/ View(k) \in settled[k]

(* A get of a key that no thread writes meanwhile answers that value, however *)
(* far the chain has gone on and whatever the other threads do with other     *)
(* keys. (A get that overlaps a put of a deleted key may answer with the      *)
(* state of the anchor that the del had hidden.)                              *)
GetExact ==
    \A t \in Threads :
        answer[t] # None /\ answer[t].quiet => answer[t].value \in answer[t].settled
=============================================================================
