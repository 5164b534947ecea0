----------------------------- MODULE TaskViews ------------------------------
(* The runtime API that tells the workers what to do: pending_worker_tasks    *)
(* and open_worker_verification_tasks, read over the state of the two pallets *)
(* (MiniJam), and the check that the transaction pool makes of a vote.        *)
(*                                                                            *)
(* on_finalize changes nothing that the views read, so what a node answers    *)
(* for a block is the view of a state in which the block's extrinsics are     *)
(* being dispatched.                                                          *)
EXTENDS MCMiniJam, EngineRounds

(* Faulty CandidateProducer: the last assigned worker *)
CandidateProducerLast(key) == CHOOSE w \in assignments[key] : \A v \in assignments[key] : v <= w

CandidateProducer(key) == CHOOSE w \in assignments[key] : \A v \in assignments[key] : w <= v

AwaitsCandidate(w) == works[w].status = "AwaitingCandidate"

(* pending_worker_tasks; the order of the answer is left out *)
PendingWorkerTasks ==
    {[work |-> w, round |-> works[w].round, epoch |-> assignmentEpochs[RoundOf(w)],
      workers |-> assignments[RoundOf(w)], producer |-> CandidateProducer(RoundOf(w))] :
        w \in {v \in Elements(pendingWorks) : /\ v \in DOMAIN works
                                              /\ AwaitsCandidate(v)
                                              /\ RoundOf(v) \in DOMAIN assignments
                                              /\ RoundOf(v) \in DOMAIN assignmentEpochs}}

(* Faulty SubmittedVotes: nobody has voted *)
SubmittedVotesNone(key) == {}

SubmittedVotes(key) == {w \in assignments[key] : <<key, w>> \in DOMAIN votes}

(* open_vote_tasks *)
OpenVoteTasks ==
    {[work |-> key[1], round |-> key[2], epoch |-> votingRounds[key].assignmentEpoch,
      deadline |-> votingRounds[key].deadline, workers |-> assignments[key],
      submitted |-> SubmittedVotes(key)] :
        key \in {k \in Elements(openVoteRounds) :
                    k \in DOMAIN votingRounds /\ k \in DOMAIN assignments}}

(* Faulty IsCurrent: the work has just been given a new round *)
IsCurrentAny(task) == works[task.work].status = "Voting" /\ works[task.work].round # task.round

IsCurrent(task) == works[task.work].round = task.round /\ works[task.work].status = "Voting"

(* open_worker_verification_tasks *)
OpenWorkerVerificationTasks ==
    {task \in OpenVoteTasks :
        /\ task.work \in DOMAIN works
        /\ IsCurrent(task)
        /\ <<task.work, task.round>> \in DOMAIN candidates}

(* The vote that worker w signs for a task, with the key it was assigned with *)
VoteFor(task, w) == [key |-> <<task.work, task.round>>, worker |-> w,
                     epoch |-> task.epoch, deadline |-> task.deadline]

(* validate_worker_vote, which validate_unsigned asks before the vote enters  *)
(* the pool.                                                                  *)
ValidateWorkerVote(vote) ==
    /\ vote.key \in DOMAIN votingRounds
    /\ vote.key \in DOMAIN assignments
    /\ vote.worker \in assignments[vote.key]
    /\ <<vote.key, vote.worker>> \notin DOMAIN votes
    /\ now <= votingRounds[vote.key].deadline
    /\ vote.epoch = votingRounds[vote.key].assignmentEpoch
    /\ vote.deadline = votingRounds[vote.key].deadline
-----------------------------------------------------------------------------
(* A task of pending_worker_tasks can be served: submit_candidate accepts the *)
(* producer that the task names, and nobody else, unless the producer has no  *)
(* bond or the list of open votes is full. The status of the work, its        *)
(* deadline, its assignment and the rounds already voted on never contradict  *)
(* one another, through late candidates, reassignment and failed rounds.      *)
CandidateTasksServable ==
    Dispatching =>
        \A task \in PendingWorkerTasks : \A a \in Accounts :
            free[a] >= CandidateBond /\ Len(openVoteRounds) < MaxOpenVotes =>
                (ENABLED SubmitCandidate(a, task.work) <=> a = workers[task.producer].owner)

(* A task of open_worker_verification_tasks can be served until its deadline: *)
(* the vote of every assigned worker that it does not list as submitted       *)
(* passes the check of the pool, and submit_vote accepts it with either       *)
(* verdict, unless it is the last vote of the round and the reward pool       *)
(* cannot pay the round's rewards.                                            *)
VoteTasksServable ==
    Dispatching =>
        \A task \in {t \in OpenWorkerVerificationTasks : now <= t.deadline} :
        \A w \in task.workers \ task.submitted :
            /\ ValidateWorkerVote(VoteFor(task, w))
            /\ \/ Cardinality(task.submitted) + 1 < Cardinality(task.workers)
               \/ pool >= TimelyVoteReward * Cardinality(task.workers)
               => \A verdict \in {"Support", "Oppose"} :
                   ENABLED SubmitVote(<<task.work, task.round>>, w, verdict)

(* Nothing that waits for the workers is hidden from them: a work that awaits *)
(* a candidate or votes is offered, so its rounds are not lost by silence.    *)
WaitingWorksOffered ==
    Dispatching =>
        \A w \in DOMAIN works :
            /\ works[w].status = "AwaitingCandidate"
                   => \E task \in PendingWorkerTasks : task.work = w
            /\ works[w].status = "Voting" /\ RoundOf(w) \notin DOMAIN roundResults
                   => \E task \in OpenWorkerVerificationTasks :
                          task.work = w /\ task.round = works[w].round

(* What the task views offer is what the calls accept, and nothing that waits *)
(* is left out.                                                               *)
TasksServable == CandidateTasksServable /\ VoteTasksServable /\ WaitingWorksOffered
=============================================================================
