---------------------------- MODULE WorkerEngine ----------------------------
(* minijam-worker-engine: the selection of the best workers and the           *)
(* assignment of a batch of works to them. One step assigns one work; the     *)
(* order of the candidates of a work is that of a hash, so any is possible.   *)
EXTENDS SequencesExt, FiniteSetsExt

CONSTANTS
    Workers, Works,         \* ids, both sets of numbers
    MinimumWorkerStake,
    Epoch,                  \* the epoch of the selection
    Suspensions,            \* values of SuspendedUntil
    Records,                \* the worker records that occur
    TopN,
    WorkersPerWork,
    DutyLimits              \* values of max_duties

VARIABLES
    records,                \* worker -> WorkerRecord
    pool,                   \* the sequence that top_workers returned
    maxDuties,
    todo,                   \* works that are not assigned yet
    duties, assignments,
    result                  \* "running", "ok" or the AssignmentError

vars == <<records, pool, maxDuties, todo, duties, assignments, result>>

Statuses ==
    [kind : {"SuspendedUntil"}, until : Suspensions]
        \cup {[kind |-> k, until |-> 0] : k \in {"Active", "UnbondingUntil", "Exited"}}

(* What the constants are assumed to be *)
Assumption ==
    /\ Workers \cup Works \cup Suspensions \cup DutyLimits \subseteq Nat
    /\ Records \subseteq [stake : Nat, status : Statuses]
    /\ {MinimumWorkerStake, Epoch, TopN, WorkersPerWork} \subseteq Nat
    /\ WorkersPerWork > 0

EligibleAt(r) ==
    /\ r.stake >= MinimumWorkerStake
    /\ r.status.kind \in {"Active", "SuspendedUntil"}
    /\ r.status.kind = "SuspendedUntil" => Epoch >= r.status.until

(* Faulty Before: the lowest stake goes first *)
BeforeAscending(rs, v, w) == rs[v].stake < rs[w].stake \/ (rs[v].stake = rs[w].stake /\ v < w)

Before(rs, v, w) == rs[v].stake > rs[w].stake \/ (rs[v].stake = rs[w].stake /\ v < w)

(* top_workers: filter, sort, truncate *)
TopWorkers(rs) ==
    LET eligible == SetToSortSeq({w \in Workers : EligibleAt(rs[w])},
                                 LAMBDA v, w : Before(rs, v, w))
    IN  SubSeq(eligible, 1, Min({TopN, Len(eligible)}))

Init ==
    /\ records \in [Workers -> Records]
    /\ pool = TopWorkers(records)
    /\ maxDuties \in DutyLimits
    /\ todo = Works
    /\ duties = [w \in Workers |-> 0]
    /\ assignments = <<>>
    /\ result = IF Len(pool) < WorkersPerWork THEN "InsufficientWorkers" ELSE "running"

(* Faulty Candidates: a worker at the limit is taken once more *)
CandidatesAtLimit == {w \in ToSet(pool) : duties[w] <= maxDuties}

(* Faulty Candidates: a worker gets one duty too few *)
CandidatesBelowLimit == {w \in ToSet(pool) : duties[w] + 1 < maxDuties}

Candidates == {w \in ToSet(pool) : duties[w] < maxDuties}

(* assign_batch, one work, in the order of the batch *)
AssignWork(work, W) ==
    /\ result = "running"
    /\ work \in todo /\ \A other \in todo : work <= other
    /\ W \subseteq Candidates /\ Cardinality(W) = WorkersPerWork
    /\ duties' = [w \in Workers |-> IF w \in W THEN duties[w] + 1 ELSE duties[w]]
    /\ assignments' = [x \in DOMAIN assignments \cup {work} |->
                          IF x = work THEN W ELSE assignments[x]]
    /\ todo' = todo \ {work}
    /\ UNCHANGED <<records, pool, maxDuties, result>>

(* One work that finds too few candidates fails the whole batch *)
ExceedCapacity ==
    /\ result = "running" /\ todo # {}
    /\ Cardinality(Candidates) < WorkersPerWork
    /\ result' = "CapacityExceeded"
    /\ UNCHANGED <<records, pool, maxDuties, todo, duties, assignments>>

Done ==
    /\ result = "running" /\ todo = {}
    /\ result' = "ok"
    /\ UNCHANGED <<records, pool, maxDuties, todo, duties, assignments>>

Next ==
    \/ \E work \in Works, W \in kSubset(WorkersPerWork, Workers) : AssignWork(work, W)
    \/ ExceedCapacity
    \/ Done

Spec == Init /\ [][Next]_vars
-----------------------------------------------------------------------------
(* What top_workers sorts and cuts off is the set of the best: every chosen   *)
(* worker is eligible, none left out precedes one that is in, and places stay *)
(* free only when nobody eligible is left.                                    *)
PoolIsBest ==
    LET eligible == {w \in Workers : EligibleAt(records[w])}
        chosen == ToSet(pool)
    IN  /\ chosen \subseteq eligible
        /\ Cardinality(chosen) = Len(pool)
        /\ Len(pool) = TopN \/ (Len(pool) < TopN /\ chosen = eligible)
        /\ \A w \in chosen, v \in eligible \ chosen :
              records[w].stake >= records[v].stake
                 /\ (records[w].stake = records[v].stake => w < v)

(* No worker has more than maxDuties duties in a batch, and the counter that  *)
(* limits it is the number of works the worker is assigned to.                *)
DutiesExact ==
    \A w \in Workers :
        /\ duties[w] = Cardinality({x \in DOMAIN assignments : w \in assignments[x]})
        /\ duties[w] <= maxDuties

(* The greedy choice can run out of candidates although an assignment of the  *)
(* batch exists. It never does so when all but WorkersPerWork - 1 workers of  *)
(* the pool together have more duties to give than the other works can take.  *)
CapacityGuaranteed ==
    result = "CapacityExceeded" =>
        (Len(pool) - WorkersPerWork + 1) * maxDuties <= WorkersPerWork * (Cardinality(Works) - 1)
=============================================================================
