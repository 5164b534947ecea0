---------------------------- MODULE StateAdapter ----------------------------
(* minijam-state-adapter and the part of pallet-minijam that applies what the *)
(* executor returns: an output is validated against the state as it was       *)
(* before the block, then its changes are applied one after the other inside  *)
(* a storage transaction. MemoryProtocolState is the in-memory counterpart.   *)
EXTENDS StorageMap, SequencesExt, TLC

CONSTANTS
    Keys,                   \* state keys, which are ordered
    Values,                 \* values, each a number of bytes
    None,                   \* a change without a value
    MaxChanges,             \* bound on the changes of an output
    MaxDelta,               \* MAX_DELTA_BYTES; a key counts as one byte
    MaxBlocks               \* bound on the outputs that are applied

(* What the constants are assumed to be *)
Assumption == Keys \subseteq Nat /\ {MaxChanges, MaxDelta, MaxBlocks} \subseteq Nat

VARIABLES
    protocolState,          \* ProtocolState of the pallet
    memory,                 \* entries of MemoryProtocolState
    output, phase,
    staged,                 \* the state inside the transaction
    done,                   \* changes applied to staged
    blocks

vars == <<protocolState, memory, output, phase, staged, done, blocks>>

Operations == {"Upsert", "Update", "Remove"}
Change == [key : Keys, operation : Operations, value : Values \cup {None}]
Raw == BoundedSeq(Change, MaxChanges)

Adjacent(changes, Related(_, _)) ==
    \E i \in 1..(Len(changes) - 1) : Related(changes[i].key, changes[i + 1].key)

(* Faulty Sorted: the executor reports its changes in the order it made them *)
Unsorted(changes) == changes

(* sort_by_key, which is stable *)
Sorted(changes) == SortSeq(changes, LAMBDA x, y : x.key < y.key)

(* normalize_changes; an executor whose normalisation fails returns an error *)
Normalizes(changes) == ~Adjacent(Sorted(changes), LAMBDA k, l : k = l)

Output(changes, normalized) ==
    [changes |-> changes, normalized |-> normalized,
     gasOk |-> TRUE, receiptOk |-> TRUE, inputOk |-> TRUE]

(* MiniJamExecutionOutput::empty *)
NoOutput == Output(<<>>, FALSE)

(* What an executor may return. A hash is only compared: does the receipt     *)
(* hash cover the output, is the input hash the one of this input.            *)
Outputs ==
    {Output(c, FALSE) : c \in Raw}
        \cup {Output(Sorted(c), TRUE) : c \in {r \in Raw : Normalizes(r)}}
        \cup {[NoOutput EXCEPT !.gasOk = g, !.receiptOk = r, !.inputOk = i] :
                 g, r, i \in BOOLEAN}

(* Faulty OutOfOrder: equal neighbours are let through *)
Descending(changes) == Adjacent(changes, LAMBDA k, l : k > l)

OutOfOrder(changes) == Adjacent(changes, LAMBDA k, l : k >= l)

Allowed(state, change) ==
    CASE change.operation = "Upsert" -> change.value # None /\ change.key \notin DOMAIN state
      [] change.operation = "Update" -> change.value # None /\ change.key \in DOMAIN state
      [] change.operation = "Remove" -> change.value = None /\ change.key \in DOMAIN state

EncodedSize(changes) ==
    FoldSeq(LAMBDA c, size : size + 1 + (IF c.value = None THEN 0 ELSE c.value), 0, changes)

(* validate_execution_output *)
Validate(state, out) ==
    IF ~out.gasOk THEN "GasExceeded"
    ELSE IF ~out.receiptOk \/ ~out.inputOk THEN "ReceiptMismatch"
    ELSE IF EncodedSize(out.changes) > MaxDelta THEN "DeltaTooLarge"
    ELSE IF OutOfOrder(out.changes)
      THEN IF Adjacent(out.changes, LAMBDA k, l : k = l) THEN "DuplicateKey" ELSE "UnsortedChanges"
    ELSE IF \E i \in DOMAIN out.changes : ~Allowed(state, out.changes[i]) THEN "InvalidOperation"
    ELSE "Ok"

(* Faulty Apply: a removal is forgotten *)
ApplyWrites(state, change) ==
    IF change.operation = "Remove" THEN state ELSE Insert(state, change.key, change.value)

(* apply_change of the pallet *)
Apply(state, change) ==
    IF change.operation = "Remove" THEN RemoveAll(state, {change.key})
    ELSE Insert(state, change.key, change.value)

(* MemoryProtocolState::apply_validated: all changes on a clone, then swapped in *)
ApplyValidated(entries, changes) ==
    LET writes == {i \in DOMAIN changes : changes[i].operation # "Remove"}
        removed == {changes[i].key : i \in DOMAIN changes \ writes}
        written == {changes[i].key : i \in writes}
    IN  [k \in (DOMAIN entries \ removed) \cup written |->
            IF k \in written
            THEN changes[CHOOSE i \in writes : changes[i].key = k].value
            ELSE entries[k]]
-----------------------------------------------------------------------------
Init ==
    /\ protocolState = <<>> /\ memory = <<>> /\ staged = <<>>
    /\ output = NoOutput /\ phase = "idle" /\ done = 0
    /\ blocks = 0

Execute ==
    /\ phase = "idle" /\ blocks < MaxBlocks
    /\ blocks' = blocks + 1
    /\ output' \in Outputs
    /\ phase' = "validate"
    /\ UNCHANGED <<protocolState, memory, staged, done>>

(* An output that is refused ends the block; the state is not touched *)
Refuse ==
    /\ phase = "validate"
    /\ Validate(protocolState, output) # "Ok"
    /\ output' = NoOutput
    /\ phase' = "idle"
    /\ UNCHANGED <<protocolState, memory, staged, done, blocks>>

Accept ==
    /\ phase = "validate"
    /\ Validate(protocolState, output) = "Ok"
    /\ staged' = protocolState /\ done' = 0
    /\ phase' = "apply"
    /\ UNCHANGED <<protocolState, memory, output, blocks>>

ApplyChange ==
    /\ phase = "apply" /\ done < Len(output.changes)
    /\ staged' = Apply(staged, output.changes[done + 1])
    /\ done' = done + 1
    /\ UNCHANGED <<protocolState, memory, output, phase, blocks>>

Commit ==
    /\ phase = "apply" /\ done = Len(output.changes)
    /\ protocolState' = staged
    /\ memory' = ApplyValidated(memory, output.changes)
    /\ staged' = <<>> /\ done' = 0
    /\ output' = NoOutput
    /\ phase' = "idle"
    /\ UNCHANGED blocks

Next == Execute \/ Refuse \/ Accept \/ ApplyChange \/ Commit

Spec == Init /\ [][Next]_vars
-----------------------------------------------------------------------------
Changed(changes, operation) ==
    {changes[i].key : i \in {j \in DOMAIN changes : changes[j].operation = operation}}

(* A delta that was validated against the old state alone does exactly what   *)
(* it says once it has been applied change by change: every change counts,    *)
(* none undoes or hides another, and no other key is touched.                 *)
DeltaExact ==
    protocolState' # protocolState =>
        /\ DOMAIN protocolState' = (DOMAIN protocolState \cup Changed(output.changes, "Upsert"))
                                      \ Changed(output.changes, "Remove")
        /\ Cardinality(DOMAIN protocolState')
              = Cardinality(DOMAIN protocolState)
                  + Len(SelectSeq(output.changes, LAMBDA c : c.operation = "Upsert"))
                  - Len(SelectSeq(output.changes, LAMBDA c : c.operation = "Remove"))
        /\ \A i \in DOMAIN output.changes :
              output.changes[i].operation # "Remove" =>
                  protocolState'[output.changes[i].key] = output.changes[i].value
        /\ \A k \in DOMAIN protocolState :
              k \in {output.changes[i].key : i \in DOMAIN output.changes}
                  \/ protocolState'[k] = protocolState[k]

(* The changes of an executor that normalises them are never refused for      *)
(* their order or for a repeated key.                                         *)
NormalizedInOrder ==
    phase = "validate" /\ output.normalized
        => Validate(protocolState, output) \notin {"UnsortedChanges", "DuplicateKey"}

(* The pallet, which writes change by change, and the in-memory state of the  *)
(* adapter's tests, which swaps in a clone, hold the same entries after every *)
(* sequence of outputs.                                                       *)
MemoryAgrees == phase = "idle" => memory = protocolState
=============================================================================
