------------------------------- MODULE NodeRpc ------------------------------
(* The minijam_* methods of the node, over a chain with forks. A method reads *)
(* the runtime state of the finalized block, of the best block, or of a block *)
(* the caller names; a client combines what it has read over time. The state  *)
(* of a block is how far a work, an allocation, a preimage and a system       *)
(* operation have come: 0 unknown, 1 pending, 2 settled.                      *)
EXTENDS Integers, FiniteSets, Functions

CONSTANTS
    MaxBlocks,              \* bound on the blocks that are authored
    Subjects                \* what the modelled blocks are about

Tracked == {"work", "allocation", "preimage", "op"}

(* What the constants are assumed to be *)
Assumption == MaxBlocks \in Nat /\ Subjects \subseteq Tracked

VARIABLES
    parent, state,          \* block -> its parent, its runtime state
    best, finalized,        \* client.info()
    context,                \* the block of the client's finalized context
    known                   \* source -> subject -> the furthest stage it was told

chainVars == <<parent, state, best, finalized>>
vars == <<chainVars, context, known>>

Blocks == DOMAIN parent
Genesis == 0

(* The chain that ends in b, as a set of blocks. A parent is older than its child. *)
Chain(b) ==
    LET chain[c \in Blocks] == IF c = Genesis THEN {Genesis} ELSE {c} \cup chain[parent[c]]
    IN  chain[b]

Height(b) == Cardinality(Chain(b))

(* Where an answer came from *)
Sources == {"finalized", "best"}

Init ==
    /\ parent = [b \in {Genesis} |-> Genesis]
    /\ state = [b \in {Genesis} |-> [s \in Subjects |-> 0]]
    /\ best = Genesis /\ finalized = Genesis /\ context = Genesis
    /\ known = [source \in Sources |-> [s \in Subjects |-> 0]]

(* A block on some fork moves at most one subject on; the longest chain is best *)
Author(p, S) ==
    LET b == Cardinality(Blocks)
    IN  /\ b <= MaxBlocks
        /\ finalized \in Chain(p)
        /\ Cardinality(S) <= 1
        /\ \A s \in S : state[p][s] < 2
        /\ parent' = [c \in Blocks \cup {b} |-> IF c = b THEN p ELSE parent[c]]
        /\ state' = [c \in Blocks \cup {b} |->
                        IF c = b THEN [s \in Subjects |-> state[p][s] + (IF s \in S THEN 1 ELSE 0)]
                                 ELSE state[c]]
        /\ best' = IF Height(p) + 1 > Height(best) THEN b ELSE best
        /\ UNCHANGED <<finalized, context, known>>

(* Finality may choose a fork that was not the best one *)
Finalize(b) ==
    /\ finalized \in Chain(b) /\ b # finalized
    /\ finalized' = b
    /\ best' = IF b \in Chain(best) THEN best ELSE b
    /\ UNCHANGED <<parent, state, context, known>>

(* A method answers with the stage of subject s in block b *)
Told(source, s, b) ==
    /\ s \in Subjects
    /\ known' = [known EXCEPT ![source][s] = IF state[b][s] > @ THEN state[b][s] ELSE @]
    /\ UNCHANGED <<chainVars, context>>

(* Faulty WorkReads: the work is read from the best block *)
WorkReadsBest == Told("finalized", "work", best)

(* getWork, getPendingWorkTasks, getPendingWorkTaskSummaryV1,                 *)
(* getOpenVoteTasks, getWorker                                                *)
WorkReads == Told("finalized", "work", finalized)

GetWorkByPackageHash == Told("best", "work", best)

GetWorkIdByPackageHash == Told("finalized", "work", finalized)

(* getWorkBundleRef, getCandidate *)
CandidateReads == Told("best", "work", best)

GetExecutionReceipt == Told("finalized", "work", finalized)

(* getAllocation, isAllocationProcessed, getPendingAllocations *)
AllocationReads == Told("best", "allocation", best)

(* getPendingPreimages, getPreimageStatus, getQuarantinedPreimages *)
PreimageReads == Told("best", "preimage", best)

(* getPendingSystemOps, getQuarantinedSystemOps, getSystemOp,                 *)
(* getSystemReceipt, getSystemOpNonce                                         *)
SystemOpReads == Told("finalized", "op", finalized)

GetFinalizedContext ==
    /\ context' = finalized
    /\ UNCHANGED <<chainVars, known>>

(* getServiceInfoAt, getServiceStorageAt, getServicePreimageAt,               *)
(* getProtocolStateAt, asked for the block of the client's context            *)
ReadsAtContext == \E s \in Subjects : Told("finalized", s, context)

GetProtocolState == \E s \in Subjects : Told("best", s, best)

Reads ==
    \/ WorkReads
    \/ GetWorkByPackageHash
    \/ GetWorkIdByPackageHash
    \/ CandidateReads
    \/ GetExecutionReceipt
    \/ AllocationReads
    \/ PreimageReads
    \/ SystemOpReads
    \/ GetFinalizedContext
    \/ ReadsAtContext
    \/ GetProtocolState

Next ==
    \/ \E p \in Blocks, S \in SUBSET Subjects : Author(p, S)
    \/ \E b \in Blocks : Finalize(b)
    \/ Reads

Spec == Init /\ [][Next]_vars
-----------------------------------------------------------------------------
(* Whatever a method that reads the finalized block, or a block named by a    *)
(* finalized context, has told a client stays true: no later read of that     *)
(* kind, by the same or by another method, tells of an earlier stage,         *)
(* whichever fork wins.                                                       *)
FinalAnswersKept ==
    /\ context \in Chain(finalized)
    /\ \A s \in Subjects : known["finalized"][s] <= state[finalized][s]

(* A work is reported as terminal only once the block that made it so is      *)
(* final. Not kept by minijam_getWorkByPackageHash (README, Disagreements).   *)
TerminalIsFinal ==
    "work" \in Subjects =>
        \A source \in Sources : known[source]["work"] = 2 => state[finalized]["work"] = 2
=============================================================================
