----------------------------- MODULE WorkerDaemon ----------------------------
(* The worker daemon: poll_and_persist of main.rs over WorkerRunner, with the *)
(* execution lanes, the signing of candidates and votes, the recovery file,   *)
(* the readiness flag, failing passes and crashes.                            *)
(*                                                                            *)
(* The chain is what a daemon sees of it, the finalized state (module MiniJam *)
(* has the pallets). A report is the pair of a work and the version of the    *)
(* protocol state that refine read for it.                                    *)
EXTENDS StorageMap, FiniteSets

CONSTANTS
    Daemons,                \* worker ids, one daemon each
    Proposers, Voters,      \* submit_candidates, submit_support_votes
    Works,
    Assignments,            \* sets of worker ids a round may be assigned to
    BadBundle,              \* works whose bundle cannot be fetched and verified
    Unrefinable,            \* works that prepare_candidate_envelope refuses
    Lanes,                  \* execution_lanes
    Faults,                 \* see Assumption
    MaxFaults, MaxRounds, MaxVersion,
    None, Torn

(* What the constants are assumed to be *)
Assumption ==
    /\ Daemons \cup Works \subseteq Nat /\ Lanes \in Nat \ {0}
    /\ {MaxFaults, MaxRounds, MaxVersion} \subseteq Nat
    /\ Proposers \cup Voters \subseteq Daemons
    /\ BadBundle \cup Unrefinable \subseteq Works
    /\ \A a \in Assignments : a # {} /\ a \subseteq Nat
    /\ Faults \subseteq {"crash", "gateway", "rpc", "timeout", "expire", "rotate", "hang"}

VARIABLES
    works,          \* work |-> its record on the chain
    version,        \* of the finalized protocol state
    accountNonce, pool, outcomes,
    pc, local,      \* per daemon: next step, variables of the pass
    statuses,       \* WorkerRunner.statuses: work and round |-> Ready or Rejected
    file,           \* recovery db: None, Torn or the saved statuses
    ready, registered,
    signed,         \* every extrinsic a daemon has signed
    faults

chainVars == <<works, version, accountNonce, pool, outcomes>>
daemonVars == <<pc, local, statuses, file, ready, signed>>
vars == <<chainVars, daemonVars, registered, faults>>

Fault(f) == f \in Faults /\ faults < MaxFaults /\ faults' = faults + 1
NoFault == faults' = faults

At(d, step) == pc[d] = step
Goto(d, step) == pc' = [pc EXCEPT ![d] = step]
Set(d, l) == local' = [local EXCEPT ![d] = l]

Least(S) == CHOOSE n \in S : \A m \in S : n <= m

(* Of tasks or executions in the order of their work ids *)
First(records) == CHOOSE x \in records : \A y \in records : x.work <= y.work
-----------------------------------------------------------------------------
(* The chain *)

Open(phase) == {w \in DOMAIN works : works[w].phase = phase}
Forged(w) == <<w, MaxVersion + 1>>

Round(round, assigned, anchor) ==
    [round |-> round, phase |-> "awaiting", assigned |-> assigned, anchor |-> anchor,
     candidate |-> None, votes |-> {}]

Proposed(round, report) == [round EXCEPT !.candidate = report, !.phase = "voting"]

(* A package is submitted. Its lookup anchor is the finalized block, or one    *)
(* that is still to be finalized: the pallet does not look at it.             *)
SubmitWork(w, assigned) ==
    /\ w \notin DOMAIN works
    /\ \E anchor \in {version, Min2(version + 1, MaxVersion)} :
          works' = Insert(works, w, Round(0, assigned, anchor))
    /\ UNCHANGED <<version, accountNonce, pool, outcomes, daemonVars, registered, faults>>

(* A block that changes the state that the services read is finalized *)
AdvanceState ==
    /\ version < MaxVersion
    /\ version' = version + 1
    /\ UNCHANGED <<works, accountNonce, pool, outcomes, daemonVars, registered, faults>>

(* A deadline passes: the next round, or the end of the work *)
Expire(w, assigned) ==
    /\ w \in Open("awaiting") \cup Open("voting")
    /\ IF w \in BadBundle \cup Unrefinable THEN NoFault ELSE Fault("expire")
    /\ works' = [works EXCEPT ![w] =
          IF @.round + 1 < MaxRounds THEN Round(@.round + 1, assigned, @.anchor)
          ELSE [@ EXCEPT !.phase = "closed"]]
    /\ UNCHANGED <<version, accountNonce, pool, outcomes, daemonVars, registered>>

(* The producer of the round is not one of the daemons *)
ForeignCandidate(w, report) ==
    /\ w \in Open("awaiting")
    /\ Least(works[w].assigned) \notin Daemons
    /\ works' = [works EXCEPT ![w] = Proposed(@, report)]
    /\ UNCHANGED <<version, accountNonce, pool, outcomes, daemonVars, registered, faults>>

(* A block takes an extrinsic from the pool and is finalized *)
Include(x) ==
    LET w == works[x.work]
        current == w.round = x.round
        ok == IF x.kind = "candidate" THEN current /\ w.phase = "awaiting"
              ELSE /\ current /\ w.phase = "voting" /\ w.candidate = x.report
                   /\ x.from \notin {v.from : v \in w.votes}
    IN  /\ x.kind = "candidate" => x.nonce = accountNonce[x.from]
        /\ pool' = pool \ {x}
        /\ outcomes' = Insert(outcomes, x, ok)
        /\ accountNonce' = IF x.kind = "candidate"
                           THEN [accountNonce EXCEPT ![x.from] = @ + 1] ELSE accountNonce
        /\ works' = IF ~ok THEN works
                    ELSE IF x.kind = "candidate"
                    THEN [works EXCEPT ![x.work] = Proposed(@, x.report)]
                    ELSE [works EXCEPT ![x.work].votes = @ \cup {x}]
        /\ UNCHANGED <<version, daemonVars, registered, faults>>

(* The pool takes one extrinsic for a nonce, and one vote for a provides tag *)
SameTag(x, y) ==
    /\ x.kind = y.kind /\ x.from = y.from
    /\ IF x.kind = "candidate" THEN x.nonce = y.nonce ELSE x.work = y.work /\ x.round = y.round
Accepts(x) ==
    /\ x.kind = "candidate" => x.nonce >= accountNonce[x.from]
    /\ x \notin DOMAIN outcomes
    /\ ~\E y \in pool : SameTag(x, y)

(* system_accountNextIndex counts what is in the pool *)
AccountNextIndex(d) ==
    Least({n \in accountNonce[d]..(accountNonce[d] + Cardinality(pool)) :
            ~\E x \in pool : x.kind = "candidate" /\ x.from = d /\ x.nonce = n})
-----------------------------------------------------------------------------
(* A pass of poll_and_persist *)

NoPass == [tasks |-> {}, nonce |-> 0, results |-> {}, sent |-> <<>>]

(* Faulty PassFails: a failed poll ends the process *)
PassFailsForGood(d) ==
    /\ ready' = [ready EXCEPT ![d] = FALSE]
    /\ Goto(d, "exited")
    /\ UNCHANGED <<local, statuses, file, registered>>

(* Any error ends the pass; the loop of main goes on with the next *)
PassFails(d) ==
    /\ ready' = [ready EXCEPT ![d] = FALSE]
    /\ Goto(d, "sleep")
    /\ Set(d, NoPass)
    /\ UNCHANGED <<statuses, file, registered>>

(* pending_worker_tasks *)
PendingTasks ==
    {[work |-> w, round |-> works[w].round, assigned |-> works[w].assigned,
      producer |-> Least(works[w].assigned), anchor |-> works[w].anchor] : w \in Open("awaiting")}

(* A proposer keeps the tasks that it is to produce the candidate of *)
OwnTasks(d) == {t \in PendingTasks : d \in t.assigned /\ t.producer = d}

ReadTasks(d) ==
    /\ At(d, "sleep")
    /\ Set(d, [NoPass EXCEPT !.tasks = IF d \in Proposers THEN OwnTasks(d) ELSE PendingTasks])
    /\ Goto(d, IF d \in Proposers THEN "nonce" ELSE "poll")
    /\ UNCHANGED <<chainVars, statuses, file, ready, signed, registered, faults>>

(* The nonce is read once, before the bundles are fetched and refined *)
ReadNonce(d) ==
    /\ At(d, "nonce")
    /\ Set(d, [local[d] EXCEPT !.nonce = AccountNextIndex(d)])
    /\ Goto(d, "fetch")
    /\ UNCHANGED <<chainVars, statuses, file, ready, signed, registered, faults>>

Bad(tasks) == \E t \in tasks : t.work \in BadBundle

(* fetch_verified_content and verify_work_bundle for every task, before any   *)
(* is executed; the first failure ends the pass.                              *)
FetchBundles(d) ==
    /\ At(d, "fetch")
    /\ \/ /\ ~Bad(local[d].tasks) /\ NoFault
          /\ Goto(d, "lanes")
          /\ UNCHANGED <<local, statuses, file, ready, registered>>
       \/ Bad(local[d].tasks) /\ NoFault /\ PassFails(d)
       \/ local[d].tasks # {} /\ Fault("gateway") /\ PassFails(d)
    /\ UNCHANGED <<chainVars, signed>>

(* Faulty StateRead: the state of now, not that of the package *)
StateReadNow(task) == version

(* ProtocolStateDb reads at the lookup anchor of the package *)
StateRead(task) == task.anchor

(* The lookup anchor of the package is a finalized block *)
ValidateFinalizedContext(task) == task.anchor <= version

(* prepare_candidate_envelope_with_network_domain *)
Refine(task) ==
    IF task.work \in Unrefinable \/ ~ValidateFinalizedContext(task) THEN None
    ELSE <<task.work, StateRead(task)>>

Lane(task) == task.work % Lanes
LaneTasks(d, lane) == {t \in local[d].tasks : Lane(t) = lane}

(* A lane thread executes the next task of its lane; the execution fails too  *)
(* when the node does not answer a read.                                      *)
LaneStep(d, lane) ==
    LET task == First(LaneTasks(d, lane))
        Executed(report) ==
            Set(d, [local[d] EXCEPT
                        !.tasks = @ \ {task},
                        !.results = @ \cup {[work |-> task.work, round |-> task.round,
                                             lane |-> lane, report |-> report]}])
    IN  /\ At(d, "lanes")
        /\ LaneTasks(d, lane) # {}
        /\ \/ Executed(Refine(task)) /\ NoFault
           \/ Executed(None) /\ Fault("rpc")
        /\ UNCHANGED <<chainVars, pc, statuses, file, ready, signed, registered>>

(* The channel is closed once every lane is done *)
Collect(d) ==
    /\ At(d, "lanes")
    /\ local[d].tasks = {}
    /\ Set(d, [local[d] EXCEPT !.tasks = local[d].results])
    /\ Goto(d, "submit")
    /\ UNCHANGED <<chainVars, statuses, file, ready, signed, registered, faults>>

(* Faulty Execution: in the order the executor returns, by lane *)
ExecutionByLane(d) ==
    CHOOSE x \in local[d].tasks : \A y \in local[d].tasks :
        x.lane < y.lane \/ (x.lane = y.lane /\ x.work <= y.work)

(* executions.sort_by_key(|execution| execution.work_id) *)
Execution(d) == First(local[d].tasks)

Candidate(d) ==
    [kind |-> "candidate", from |-> d, nonce |-> local[d].nonce, work |-> Execution(d).work,
     round |-> Execution(d).round, report |-> Execution(d).report, verdict |-> None]

(* submit_and_watch_extrinsic: refused, or watched until it is finalized *)
Submits(d, x, watching) ==
    /\ signed' = signed \cup {x}
    /\ \/ /\ Accepts(x)
          /\ pool' = pool \cup {x}
          /\ Set(d, [local[d] EXCEPT !.sent = Append(@, x)])
          /\ Goto(d, watching)
          /\ UNCHANGED <<statuses, file, ready, registered>>
       \/ ~Accepts(x) /\ pool' = pool /\ PassFails(d)
    /\ UNCHANGED <<works, version, accountNonce, outcomes, faults>>

SubmitCandidate(d) ==
    /\ At(d, "submit")
    /\ local[d].tasks # {}
    /\ Execution(d).report # None
    /\ Submits(d, Candidate(d), "watch candidate")

(* execution.result? *)
RefineFailed(d) ==
    /\ At(d, "submit")
    /\ local[d].tasks # {}
    /\ Execution(d).report = None
    /\ PassFails(d)
    /\ UNCHANGED <<chainVars, signed, faults>>

CandidatesDone(d) ==
    /\ At(d, "submit")
    /\ local[d].tasks = {}
    /\ Goto(d, "votes")
    /\ UNCHANGED <<chainVars, local, statuses, file, ready, signed, registered, faults>>

(* The finalized extrinsic succeeded, or failed in dispatch, or the watch     *)
(* timed out and the extrinsic stays where it is.                             *)
Watched(d, watching, task, next) ==
    LET x == local[d].sent[Len(local[d].sent)]
    IN  /\ At(d, watching)
        /\ \/ /\ x \in DOMAIN outcomes /\ outcomes[x] /\ NoFault
              /\ Set(d, [local[d] EXCEPT !.tasks = @ \ {task}, !.nonce = @ + 1])
              /\ Goto(d, next)
              /\ UNCHANGED <<statuses, file, ready, registered>>
           \/ x \in DOMAIN outcomes /\ ~outcomes[x] /\ NoFault /\ PassFails(d)
           \/ x \notin DOMAIN outcomes /\ Fault("timeout") /\ PassFails(d)
        /\ UNCHANGED <<chainVars, signed>>

WatchCandidate(d) == Watched(d, "watch candidate", Execution(d), "submit")
-----------------------------------------------------------------------------
(* Without submit_candidates: poll_once_inner records which bundles are ready *)

Key(task) == <<task.work, task.round>>

IsReady(d, task) == Key(task) \in DOMAIN statuses[d] /\ statuses[d][Key(task)] = "ready"

(* Faulty PollSkips: a rejected bundle is not tried again *)
PollSkipsKnown(d, task) == Key(task) \in DOMAIN statuses[d]

(* Only a task whose bundle is ready is skipped *)
PollSkips(d, task) == IsReady(d, task)

(* Faulty BundleStatus: fetched, not verified *)
BundleStatusFetched(task) == "ready"

BundleStatus(task) == IF task.work \in BadBundle THEN "rejected" ELSE "ready"

(* prepare_bundle; its failure is a status and does not end the pass *)
PollTask(d) ==
    LET task == First(local[d].tasks)
        status(s) == statuses' = [statuses EXCEPT ![d] = Insert(@, Key(task), s)]
    IN  /\ At(d, "poll")
        /\ local[d].tasks # {}
        /\ \/ PollSkips(d, task) /\ NoFault /\ UNCHANGED statuses
           \/ ~PollSkips(d, task) /\ NoFault /\ status(BundleStatus(task))
           \/ ~PollSkips(d, task) /\ Fault("gateway") /\ status("rejected")
        /\ Set(d, [local[d] EXCEPT !.tasks = @ \ {task}])
        /\ UNCHANGED <<chainVars, pc, file, ready, signed, registered>>

PollDone(d) ==
    /\ At(d, "poll")
    /\ local[d].tasks = {}
    /\ Goto(d, "votes")
    /\ UNCHANGED <<chainVars, local, statuses, file, ready, signed, registered, faults>>
-----------------------------------------------------------------------------
(* submit_refine_votes *)

(* open_worker_verification_tasks *)
VoteTasks ==
    {[work |-> w, round |-> works[w].round, assigned |-> works[w].assigned,
      anchor |-> works[w].anchor, candidate |-> works[w].candidate,
      submitted |-> {v.from : v \in works[w].votes}] : w \in Open("voting")}

ReadVoteTasks(d) ==
    /\ At(d, "votes")
    /\ Set(d, [local[d] EXCEPT !.tasks = IF d \in Voters THEN VoteTasks ELSE {}])
    /\ Goto(d, "vote")
    /\ UNCHANGED <<chainVars, statuses, file, ready, signed, registered, faults>>

SkipsVote(d, task) == d \notin task.assigned \/ d \in task.submitted

SkipVote(d) ==
    /\ At(d, "vote")
    /\ local[d].tasks # {}
    /\ SkipsVote(d, First(local[d].tasks))
    /\ Set(d, [local[d] EXCEPT !.tasks = @ \ {First(@)}])
    /\ UNCHANGED <<chainVars, pc, statuses, file, ready, signed, registered, faults>>

(* Faulty Verdict: any report that can be refined is supported *)
VerdictTrusting(task) == IF Refine(task) # None THEN "support" ELSE "oppose"

(* The candidate is the report of the own execution, or it is opposed *)
Verdict(task) == IF Refine(task) = task.candidate THEN "support" ELSE "oppose"

(* prepare_refine_backed_vote; no vote without an execution of one's own *)
SubmitVote(d) ==
    LET task == First(local[d].tasks)
        vote == [kind |-> "vote", from |-> d, nonce |-> None, work |-> task.work,
                 round |-> task.round, report |-> task.candidate, verdict |-> Verdict(task)]
    IN  /\ At(d, "vote")
        /\ local[d].tasks # {}
        /\ ~SkipsVote(d, task)
        /\ \/ /\ task.work \notin BadBundle /\ Refine(task) # None
              /\ Submits(d, vote, "watch vote")
           \/ /\ task.work \in BadBundle \/ Refine(task) = None
              /\ PassFails(d)
              /\ UNCHANGED <<chainVars, signed, faults>>
           \/ /\ Fault("gateway")
              /\ PassFails(d)
              /\ UNCHANGED <<chainVars, signed>>

WatchVote(d) == Watched(d, "watch vote", First(local[d].tasks), "vote")

VotesDone(d) ==
    /\ At(d, "vote")
    /\ local[d].tasks = {}
    /\ Goto(d, "persist")
    /\ UNCHANGED <<chainVars, local, statuses, file, ready, signed, registered, faults>>
-----------------------------------------------------------------------------
(* save_statuses, refresh_health, start and crash *)

(* A status as the recovery file spells it, and what a spelling is read as *)
FromStatus(s) == IF s = "ready" THEN "bundle_ready" ELSE "bundle_rejected"
IntoStatus(s) == IF s = "bundle_ready" THEN "ready" ELSE "rejected"

FromStatuses(m) == [k \in DOMAIN m |-> FromStatus(m[k])]
IntoStatuses(f) == [k \in DOMAIN f |-> IntoStatus(f[k])]

(* A file that does not exist holds no status *)
LoadStatuses(f) == IF f = None THEN <<>> ELSE IntoStatuses(f)

(* fs::write truncates the recovery file ... *)
TruncateFile(d) ==
    /\ At(d, "persist")
    /\ file' = [file EXCEPT ![d] = Torn]
    /\ Goto(d, "write")
    /\ UNCHANGED <<chainVars, local, statuses, ready, signed, registered, faults>>

(* Faulty Healthy: the registered key is not looked up *)
HealthyUnchecked(d) == d \in Proposers \cup Voters

(* A key is configured, and it is the session key registered for the worker *)
Healthy(d) == d \in Proposers \cup Voters /\ registered[d]

(* ... and writes it; the pass has succeeded, the readiness is looked up *)
WriteFile(d) ==
    /\ At(d, "write")
    /\ file' = [file EXCEPT ![d] = FromStatuses(statuses[d])]
    /\ \/ ready' = [ready EXCEPT ![d] = Healthy(d)] /\ NoFault
       \/ ready' = [ready EXCEPT ![d] = FALSE] /\ Fault("rpc")
    /\ Goto(d, "sleep")
    /\ Set(d, NoPass)
    /\ UNCHANGED <<chainVars, statuses, signed, registered>>

(* A request to the node fails *)
RequestFails(d) ==
    /\ pc[d] \in {"sleep", "nonce", "votes"}
    /\ Fault("rpc")
    /\ PassFails(d)
    /\ UNCHANGED <<chainVars, signed>>

(* A request is never answered: http_post_json and http_get_bytes read the    *)
(* stream to its end without a timeout.                                       *)
RequestHangs(d) ==
    /\ pc[d] \in {"sleep", "nonce", "fetch", "lanes", "poll", "votes", "vote"}
    /\ Fault("hang")
    /\ Goto(d, "hung")
    /\ UNCHANGED <<chainVars, local, statuses, file, ready, signed, registered>>

(* load_statuses: a file that does not decode ends the process *)
Start(d) ==
    /\ At(d, "down")
    /\ IF file[d] = Torn THEN Goto(d, "exited") /\ UNCHANGED <<statuses, ready>>
       ELSE /\ statuses' = [statuses EXCEPT ![d] = LoadStatuses(file[d])]
            /\ ready' = [ready EXCEPT ![d] = Healthy(d)]
            /\ Goto(d, "sleep")
    /\ UNCHANGED <<chainVars, local, file, signed, registered, faults>>

Crash(d) ==
    /\ pc[d] \notin {"down", "exited"}
    /\ Fault("crash")
    /\ Goto(d, "down")
    /\ local' = [local EXCEPT ![d] = NoPass]
    /\ statuses' = [statuses EXCEPT ![d] = <<>>]
    /\ ready' = [ready EXCEPT ![d] = FALSE]
    /\ UNCHANGED <<chainVars, file, signed, registered>>

(* The session key of the worker is changed on the chain *)
Rotate(d) ==
    /\ Fault("rotate")
    /\ registered' = [registered EXCEPT ![d] = ~@]
    /\ UNCHANGED <<chainVars, daemonVars>>
-----------------------------------------------------------------------------
Init ==
    /\ works = <<>> /\ version = 0 /\ pool = {} /\ outcomes = <<>> /\ signed = {} /\ faults = 0
    /\ accountNonce = [d \in Daemons |-> 0]
    /\ pc = [d \in Daemons |-> "down"]
    /\ local = [d \in Daemons |-> NoPass]
    /\ statuses = [d \in Daemons |-> <<>>]
    /\ file = [d \in Daemons |-> None]
    /\ ready = [d \in Daemons |-> FALSE]
    /\ registered = [d \in Daemons |-> TRUE]

Chain ==
    \/ \E w \in Works, a \in Assignments : SubmitWork(w, a) \/ Expire(w, a)
    \/ \E w \in DOMAIN works :
          \E report \in {<<w, works[w].anchor>>, Forged(w)} : ForeignCandidate(w, report)
    \/ \E x \in pool : Include(x)
    \/ AdvanceState

Daemon(d) ==
    \/ ReadTasks(d) \/ ReadNonce(d) \/ FetchBundles(d) \/ Collect(d)
    \/ \E lane \in 0..(Lanes - 1) : LaneStep(d, lane)
    \/ SubmitCandidate(d) \/ RefineFailed(d) \/ WatchCandidate(d) \/ CandidatesDone(d)
    \/ PollTask(d) \/ PollDone(d)
    \/ ReadVoteTasks(d) \/ SkipVote(d) \/ SubmitVote(d) \/ WatchVote(d) \/ VotesDone(d)
    \/ TruncateFile(d) \/ WriteFile(d) \/ Start(d)

Environment(d) == RequestFails(d) \/ RequestHangs(d) \/ Crash(d) \/ Rotate(d)

Next == Chain \/ \E d \in Daemons : Daemon(d) \/ Environment(d)

Spec == Init /\ [][Next]_vars
-----------------------------------------------------------------------------
(* What a worker daemon promises the chain and its operator.                  *)

SignedVotes == {x \in signed : x.kind = "vote"}

(* A daemon never signs two different votes for a round, which would cost it  *)
(* a slash for equivocation: not after a crash, a timed-out submission or a   *)
(* failed pass, and whatever the chain did in between.                        *)
NoEquivocation ==
    \A x, y \in SignedVotes :
        x.from = y.from /\ x.work = y.work /\ x.round = y.round => x = y

(* A candidate that a daemon has computed is never opposed by another one,    *)
(* however much the protocol state has moved on since, and a vote supports    *)
(* only the report of the package at its anchor.                              *)
VerdictsExact ==
    \A x \in SignedVotes :
        x.verdict = IF x.report = <<x.work, works[x.work].anchor>> THEN "support" ELSE "oppose"

(* Every candidate that a daemon signs is the report of the package at its    *)
(* anchor, and that anchor is final: no reorganisation can change the report. *)
CandidatesExact ==
    \A x \in signed :
        x.kind = "candidate" =>
            x.report = <<x.work, works[x.work].anchor>> /\ works[x.work].anchor <= version

(* execution_lanes does not change the ordering of reports: a pass submits    *)
(* them before its votes and by work id, whatever the lanes and the order in  *)
(* which they finish, and no nonce is skipped.                                *)
LanesKeepOrder ==
    \A d \in Daemons :
        LET sent == local[d].sent
        IN  \A i, j \in DOMAIN sent :
                i < j /\ sent[j].kind = "candidate" =>
                    /\ sent[i].kind = "candidate" /\ sent[i].work < sent[j].work
                    /\ sent[j].nonce = sent[i].nonce + (j - i)

(* No bundle is recorded as ready, in memory or in the recovery file, that    *)
(* could not be verified: the later passes, also those after a restart, do    *)
(* not look at it again.                                                      *)
ReadyIsVerified ==
    \A d \in Daemons :
        LET saved == IF file[d] \in {None, Torn} THEN {} ELSE {file[d]}
        IN  \A m \in saved \cup {statuses[d]} :
                \A k \in DOMAIN m : m[k] \in {"ready", "bundle_ready"} => k[1] \notin BadBundle
-----------------------------------------------------------------------------
(* The daemons, the blocks and finality go on; a work that cannot be executed *)
(* is given up at its deadlines.                                              *)
Fairness ==
    /\ WF_vars(AdvanceState)
    /\ \A d \in Daemons : WF_vars(Daemon(d))
    /\ WF_vars(\E x \in pool : Include(x))
    /\ \A w \in BadBundle \cup Unrefinable : WF_vars(\E a \in Assignments : Expire(w, a))

FairSpec == Spec /\ Fairness

(* A work whose bundle or execution fails ends every pass that meets it, yet  *)
(* it only delays the other works: they get their candidate and the votes of  *)
(* the daemons that run, once it is given up.                                 *)
GoodWorksServed ==
    \A w \in Works \ (BadBundle \cup Unrefinable) :
        /\ w \in Open("awaiting") /\ Least(works[w].assigned) \in Proposers
               ~> w \notin Open("awaiting")
        /\ \A d \in Voters :
               w \in Open("voting") /\ d \in works[w].assigned
                   ~> w \notin Open("voting") \/ d \in {v.from : v \in works[w].votes}

(* Readiness does not outlive a change of the session key *)
StaleReadyEnds ==
    \A d \in Daemons : ready[d] /\ ~registered[d] ~> ~ready[d] \/ registered[d]

(* A bundle that was rejected is tried again as long as its task is pending *)
RejectedRetried ==
    \A d \in Daemons \ Proposers : \A w \in Works \ BadBundle :
        w \in Open("awaiting")
            ~> w \notin Open("awaiting") \/ IsReady(d, [work |-> w, round |-> works[w].round])
               \/ At(d, "exited")

(* A pass ends, with success or a failure: request_timeout bounds requests.   *)
(* Not kept when a peer never answers (README, Disagreements).                *)
PassesEnd == \A d \in Daemons : pc[d] # "sleep" ~> pc[d] \in {"sleep", "exited"}
=============================================================================
