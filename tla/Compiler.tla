------------------------------ MODULE Compiler ------------------------------
(* minijam-compiler-api: compile requests run concurrently, each in a         *)
(* temporary directory, at most so many at a time, each for a limited time,   *)
(* in a container or (direct) as a script.                                    *)
EXTENDS Integers, Sequences, FiniteSets

CONSTANTS
    Requests,
    TooLong,                \* requests whose source exceeds MAX_SOURCE_BYTES
    Concurrency,            \* CompilerConfig::concurrency
    MaxFaults,              \* bound on failing steps and lost clients
    None

(* What the constants are assumed to be *)
Assumption ==
    /\ IsFiniteSet(Requests) /\ TooLong \subseteq Requests /\ Concurrency \in Nat
    /\ "failure" \notin Requests \cup {None}

VARIABLES
    direct,                 \* CompilerConfig::direct
    state,                  \* per request: where execute is
    queue,                  \* requests waiting for a permit, oldest first
    permits,
    files,                  \* directory |-> the source and the blob in it
    compiling,              \* requests whose compiler process is alive
    answer,                 \* per request
    metrics,
    faultsLeft

vars == <<direct, state, queue, permits, files, compiling, answer, metrics, faultsLeft>>

Fault == faultsLeft > 0 /\ faultsLeft' = faultsLeft - 1

(* config.concurrency.max(1) *)
Permits == IF Concurrency = 0 THEN 1 ELSE Concurrency

NoDir == [source |-> None, blob |-> None]

(* Faulty Dir: a fixed directory *)
DirShared(r) == CHOOSE s \in Requests : TRUE

(* tempfile::tempdir: a directory of its own for every request *)
Dir(r) == r

Init ==
    /\ direct \in BOOLEAN
    /\ state = [r \in Requests |-> "new"]
    /\ queue = <<>> /\ permits = Permits
    /\ files = [r \in Requests |-> NoDir]
    /\ compiling = {}
    /\ answer = [r \in Requests |-> None]
    /\ metrics = [total |-> 0, failed |-> 0, timedOut |-> 0]
    /\ faultsLeft = MaxFaults
-----------------------------------------------------------------------------
Holds(r) == state[r] \in {"prepare", "run", "read"}

(* execute returns or is dropped: permit and directory go with it *)
Leave(r, how) ==
    /\ state' = [state EXCEPT ![r] = how]
    /\ permits' = IF Holds(r) THEN permits + 1 ELSE permits
    /\ files' = IF Holds(r) THEN [files EXCEPT ![Dir(r)] = NoDir] ELSE files

Answer(r, a) == Leave(r, "done") /\ answer' = [answer EXCEPT ![r] = a]

(* Faulty Failure: not counted *)
FailureUncounted(r) == Answer(r, "failure") /\ UNCHANGED metrics

(* failure *)
Failure(r) == Answer(r, "failure") /\ metrics' = [metrics EXCEPT !.failed = @ + 1]

Begin(r) ==
    /\ state[r] = "new"
    /\ IF r \in TooLong
       THEN /\ Leave(r, "done")
            /\ answer' = [answer EXCEPT ![r] = "failure"]
            /\ metrics' = [metrics EXCEPT !.total = @ + 1, !.failed = @ + 1]
            /\ UNCHANGED queue
       ELSE /\ state' = [state EXCEPT ![r] = "queued"]
            /\ queue' = Append(queue, r)
            /\ metrics' = [metrics EXCEPT !.total = @ + 1]
            /\ UNCHANGED <<permits, files, answer>>
    /\ UNCHANGED <<direct, compiling, faultsLeft>>

(* The semaphore serves its waiters in turn *)
Acquire(r) ==
    /\ queue # <<>> /\ Head(queue) = r
    /\ permits > 0
    /\ permits' = permits - 1
    /\ queue' = Tail(queue)
    /\ state' = [state EXCEPT ![r] = "prepare"]
    /\ UNCHANGED <<direct, files, compiling, answer, metrics, faultsLeft>>

(* The directory, the source in it, the permissions; then the command *)
Prepare(r) ==
    /\ state[r] = "prepare"
    /\ \/ /\ files' = [files EXCEPT ![Dir(r)] = [source |-> r, blob |-> None]]
          /\ state' = [state EXCEPT ![r] = "run"]
          /\ compiling' = compiling \cup {r}
          /\ UNCHANGED <<permits, answer, metrics, faultsLeft>>
       \/ Fault /\ Failure(r) /\ UNCHANGED compiling
    /\ UNCHANGED <<direct, queue>>

(* The compiler, external: it leaves a blob of the source in the output       *)
(* directory, or none, and exits.                                             *)
Compile(r) ==
    /\ r \in compiling
    /\ compiling' = compiling \ {r}
    /\ IF state[r] = "run"
       THEN /\ state' = [state EXCEPT ![r] = "read"]
            /\ \/ files' = [files EXCEPT ![Dir(r)].blob = files[Dir(r)].source]
                  /\ UNCHANGED faultsLeft
               \/ Fault /\ UNCHANGED files
       ELSE UNCHANGED <<state, files, faultsLeft>>
    /\ UNCHANGED <<direct, queue, permits, answer, metrics>>

(* Faulty Killed: without kill_on_drop *)
KilledNever(r) == compiling

(* Dropping the command kills the process it has started: the script, or the  *)
(* docker client, whose container goes on until its compiler exits.           *)
Killed(r) == IF direct THEN compiling \ {r} ELSE compiling

(* Faulty Timeout: the command is waited for without a limit *)
TimeoutNever(r) == FALSE /\ UNCHANGED vars

Timeout(r) ==
    /\ state[r] = "run"
    /\ Answer(r, "failure")
    /\ metrics' = [metrics EXCEPT !.failed = @ + 1, !.timedOut = @ + 1]
    /\ compiling' = Killed(r)
    /\ UNCHANGED <<direct, queue, faultsLeft>>

(* An exit status, an oversized blob and none at all are failures *)
Read(r) ==
    /\ state[r] = "read"
    /\ \/ /\ files[Dir(r)].blob # None
          /\ Answer(r, files[Dir(r)].blob)
          /\ UNCHANGED <<metrics, faultsLeft>>
       \/ files[Dir(r)].blob = None /\ Failure(r) /\ UNCHANGED faultsLeft
       \/ files[Dir(r)].blob # None /\ Fault /\ Failure(r)
    /\ UNCHANGED <<direct, queue, compiling>>

(* A waiter that is dropped leaves the queue of the semaphore *)
Without(waiters, r) ==
    IF \E i \in DOMAIN waiters : waiters[i] = r
    THEN LET place == CHOOSE i \in DOMAIN waiters : waiters[i] = r
         IN  [i \in 1..(Len(waiters) - 1) |-> IF i < place THEN waiters[i] ELSE waiters[i + 1]]
    ELSE waiters

(* The client goes away: the server drops execute wherever it waits *)
Disconnect(r) ==
    /\ state[r] \in {"queued", "run"} /\ Fault
    /\ Leave(r, "dropped")
    /\ queue' = Without(queue, r)
    /\ compiling' = Killed(r)
    /\ UNCHANGED <<direct, answer, metrics>>

Serve(r) == Acquire(r) \/ Prepare(r) \/ Timeout(r) \/ Read(r)

Next == \E r \in Requests : Begin(r) \/ Serve(r) \/ Compile(r) \/ Disconnect(r)

Spec == Init /\ [][Next]_vars

(* The server goes on where it is not blocked, and its timer fires. The       *)
(* compiler may run for ever.                                                 *)
FairSpec == Spec /\ \A r \in Requests : WF_vars(Serve(r))
-----------------------------------------------------------------------------
Ended(r) == state[r] \in {"done", "dropped"}
Number(P(_)) == Cardinality({r \in Requests : P(r)})

(* No more commands run at a time than configured, and a permit that a        *)
(* failure, a timeout or a lost client has ended is there again: the permits  *)
(* do not leak. Run directly, that bounds the compilers too; a container can  *)
(* outlive its command.                                                       *)
CommandsBounded ==
    LET holders == Cardinality({r \in Requests : state[r] \in {"prepare", "run", "read"}})
    IN  /\ holders + permits = IF Concurrency = 0 THEN 1 ELSE Concurrency
        /\ direct => Cardinality(compiling) <= holders

(* A success answers with what was made of the source of that very request,   *)
(* whatever else is being compiled.                                           *)
OwnBlob == \A r \in Requests : answer[r] \in {None, "failure", r}

(* The counters of /metrics: every request that was begun is answered, failed *)
(* or on its way, and every failure counted once. (A request that the client  *)
(* gave up counts in the total only.)                                         *)
MetricsExact ==
    /\ metrics.total = Number(LAMBDA r : state[r] # "new")
    /\ metrics.failed = Number(LAMBDA r : answer[r] = "failure")
    /\ metrics.timedOut <= metrics.failed

(* Every request ends, even when compilers hang: none starves in the queue *)
CompilesEnd == \A r \in Requests : state[r] = "queued" ~> Ended(r)
=============================================================================
