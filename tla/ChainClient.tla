----------------------------- MODULE ChainClient ----------------------------
(* MiniJamChainClient: one signer whose extrinsics are submitted by several   *)
(* tasks at once, over one RPC connection. The mutexes of the client, its     *)
(* cached account nonce and its cached system-operation nonce are variables;  *)
(* a step of a task lasts from one await that can block to the next.          *)
(*                                                                            *)
(* The node (transaction pool, blocks, finality) is external and modelled     *)
(* from the RPC methods the client calls. No one else signs for the account.  *)
EXTENDS Naturals, FiniteSets, SequencesExt

CONSTANTS
    Callers,        \* tasks that submit_call: submit_preimage, submit_allocation
    Watchers,       \* tasks that submit_call_and_watch: submit_work
    Deployers,      \* tasks that submit_system_command: submit_create_service
    Preparers,      \* tasks that prepare an operation and then submit it
    Faults,         \* what may go wrong, see Assumption
    MaxCalls,       \* submissions of one task
    MaxFaults,
    None            \* an empty cache

VARIABLES
    rpc, submitLock, systemOpLock,      \* holders of the mutexes
    nextNonce, nextSystemOpNonce,       \* caches: NonceCursor and Option<u64>
    pc, req,                            \* per task: next step, extrinsic in hand
    calls,                              \* per task: submissions begun
    pool, chain, finalized,             \* the node: chain is the best chain
    faults,
    answers,                            \* submissions that returned Ok
    abandoned                           \* extrinsics whose submission returned an error

lockVars == <<rpc, submitLock, systemOpLock>>
nonceVars == <<nextNonce, nextSystemOpNonce>>
nodeVars == <<pool, chain, finalized>>
taskVars == <<pc, req, calls>>
historyVars == <<answers, abandoned>>
vars == <<lockVars, nonceVars, taskVars, nodeVars, faults, historyVars>>

Tasks == Callers \cup Watchers \cup Deployers \cup Preparers

Nobody == "nobody"

(* What the constants are assumed to be *)
Assumption ==
    /\ Nobody \notin Tasks
    /\ Cardinality(Tasks) = Cardinality(Callers) + Cardinality(Watchers)
                                + Cardinality(Deployers) + Cardinality(Preparers)
    /\ Faults \subseteq {"request", "genesis", "answer", "timeout", "dispatch", "reorg", "drop"}
    /\ {MaxCalls, MaxFaults} \subseteq Nat

IsSystemOp(t) == t \in Deployers \cup Preparers

Fault(f) == f \in Faults /\ faults < MaxFaults /\ faults' = faults + 1
-----------------------------------------------------------------------------
(* The node *)

Txs == {entry.tx : entry \in Range(chain)}

(* system_accountNextIndex: the pool's ready extrinsics count *)
AccountNextIndex ==
    CHOOSE n \in Len(chain)..(Len(chain) + Cardinality(pool)) :
        /\ \A m \in Len(chain)..(n - 1) : \E tx \in pool : tx.nonce = m
        /\ ~\E tx \in pool : tx.nonce = n

(* SystemOpNonces of the sender after the first n blocks *)
SystemOpNonceAt(n) ==
    Cardinality({i \in 1..n : chain[i].tx.system /\ chain[i].ok})

(* The pool refuses an old nonce and, at equal priority, a nonce it has *)
PoolAccepts(tx) == tx.nonce >= Len(chain) /\ ~\E other \in pool : other.nonce = tx.nonce

Included(tx) == tx \in Txs
IndexOf(tx) == CHOOSE i \in DOMAIN chain : chain[i].tx = tx
IsFinal(tx) == Included(tx) /\ IndexOf(tx) <= finalized

(* Behind a gap of nonces nothing more is heard of an extrinsic *)
Stalled(tx) == tx \in pool /\ tx.nonce > AccountNextIndex

(* The pool has let go of an extrinsic that is in no block *)
Discarded(tx) == ~Included(tx) /\ tx \notin pool

Include ==
    /\ \E tx \in pool : \E ok \in BOOLEAN :
          /\ tx.nonce = Len(chain)
          /\ IF ok THEN faults' = faults ELSE Fault("dispatch")
          /\ chain' = Append(chain, [tx |-> tx, ok |-> ok])
          /\ pool' = pool \ {tx}
    /\ UNCHANGED <<lockVars, nonceVars, taskVars, finalized, historyVars>>

Finalize ==
    /\ finalized < Len(chain)
    /\ finalized' = finalized + 1
    /\ UNCHANGED <<lockVars, nonceVars, taskVars, pool, chain, faults, historyVars>>

(* Retracted: the extrinsic is back in the pool *)
Retract ==
    /\ finalized < Len(chain)
    /\ Fault("reorg")
    /\ pool' = pool \cup {Last(chain).tx}
    /\ chain' = Front(chain)
    /\ UNCHANGED <<lockVars, nonceVars, taskVars, finalized, historyVars>>

DropFromPool ==
    /\ Fault("drop")
    /\ \E tx \in pool : pool' = pool \ {tx}
    /\ UNCHANGED <<lockVars, nonceVars, taskVars, chain, finalized, historyVars>>
-----------------------------------------------------------------------------
(* Steps of a task *)

At(t, step) == pc[t] = step
Goto(t, step) == pc' = [pc EXCEPT ![t] = step]

Begin(t) ==
    /\ At(t, "idle")
    /\ calls[t] < MaxCalls
    /\ calls' = [calls EXCEPT ![t] = @ + 1]
    /\ Goto(t, IF IsSystemOp(t) THEN "lock system" ELSE "lock submit")
    /\ UNCHANGED <<lockVars, nonceVars, req, nodeVars, faults, historyVars>>

(* Faulty AfterSystemLock: submit_system_command without the submit lock *)
AfterSystemLockAlone(t) ==
    IF req[t].prepared THEN "lock submit" ELSE "system nonce"

(* submit_system_command and submit_prepared_extrinsic take the submit lock   *)
(* as well; prepare_system_command does not.                                  *)
AfterSystemLock(t) ==
    IF t \in Deployers \/ req[t].prepared THEN "lock submit" ELSE "system nonce"

LockSystemOp(t) ==
    /\ At(t, "lock system")
    /\ systemOpLock = Nobody
    /\ systemOpLock' = t
    /\ Goto(t, AfterSystemLock(t))
    /\ UNCHANGED <<rpc, submitLock, nonceVars, req, calls, nodeVars, faults, historyVars>>

LockSubmit(t) ==
    /\ At(t, "lock submit")
    /\ submitLock = Nobody
    /\ submitLock' = t
    /\ Goto(t, CASE ~IsSystemOp(t)     -> "allocate"
                 [] req[t].prepared    -> "submit"
                 [] OTHER              -> "system nonce")
    /\ UNCHANGED <<rpc, systemOpLock, nonceVars, req, calls, nodeVars, faults, historyVars>>

(* A mutex guard is dropped when its holder returns *)
Unlock(t) ==
    /\ submitLock' = IF submitLock = t THEN Nobody ELSE submitLock
    /\ systemOpLock' = IF systemOpLock = t THEN Nobody ELSE systemOpLock

Sign(t, nonce) == [req[t].tx EXCEPT !.nonce = nonce, !.by = t, !.call = calls[t],
                                    !.system = IsSystemOp(t)]

NoTx == [by |-> Nobody, call |-> 0, nonce |-> 0, system |-> FALSE, predicted |-> 0]
NoRequest == [tx |-> NoTx, prepared |-> FALSE]

(* prepare_system_command_inner *)
ReadSystemOpNonce(t) ==
    /\ At(t, "system nonce")
    /\ nextSystemOpNonce = None => rpc = Nobody
    /\ req' = [req EXCEPT ![t].tx.predicted = IF nextSystemOpNonce # None THEN nextSystemOpNonce
                                              ELSE SystemOpNonceAt(finalized)]
    /\ Goto(t, "account nonce")
    /\ UNCHANGED <<lockVars, nonceVars, calls, nodeVars, faults, historyVars>>

(* Faulty ReadAccountNonce: takes it *)
TakeAccountNonce(t) ==
    LET nonce == IF nextNonce # None THEN nextNonce ELSE AccountNextIndex
    IN  /\ At(t, "account nonce")
        /\ nextNonce = None => rpc = Nobody
        /\ nextNonce' = nonce + 1
        /\ req' = [req EXCEPT ![t].tx = Sign(t, nonce)]
        /\ Goto(t, "genesis")
        /\ UNCHANGED <<lockVars, nextSystemOpNonce, calls, nodeVars, faults, historyVars>>

(* The account nonce is looked at, not taken *)
ReadAccountNonce(t) ==
    /\ At(t, "account nonce")
    /\ nextNonce = None => rpc = Nobody
    /\ req' = [req EXCEPT ![t].tx = Sign(t, IF nextNonce # None THEN nextNonce
                                           ELSE AccountNextIndex)]
    /\ Goto(t, "genesis")
    /\ UNCHANGED <<lockVars, nonceVars, calls, nodeVars, faults, historyVars>>

(* Faulty AllocateNonce: does not advance the cursor *)
AllocateNonceAgain(t) ==
    LET nonce == IF nextNonce # None THEN nextNonce ELSE AccountNextIndex
    IN  /\ At(t, "allocate")
        /\ nextNonce = None => rpc = Nobody
        /\ nextNonce' = nonce
        /\ req' = [req EXCEPT ![t].tx = Sign(t, nonce)]
        /\ Goto(t, "genesis")
        /\ UNCHANGED <<lockVars, nextSystemOpNonce, calls, nodeVars, faults, historyVars>>

(* allocate_nonce of submit_call and submit_call_and_watch *)
AllocateNonce(t) ==
    LET nonce == IF nextNonce # None THEN nextNonce ELSE AccountNextIndex
    IN  /\ At(t, "allocate")
        /\ nextNonce = None => rpc = Nobody
        /\ nextNonce' = nonce + 1
        /\ req' = [req EXCEPT ![t].tx = Sign(t, nonce)]
        /\ Goto(t, "genesis")
        /\ UNCHANGED <<lockVars, nextSystemOpNonce, calls, nodeVars, faults, historyVars>>

(* genesis_hash and sign_call; prepare_system_command ends here *)
GenesisHash(t) ==
    LET prepares == t \in Preparers
    IN  /\ At(t, "genesis")
        /\ rpc = Nobody
        /\ req' = [req EXCEPT ![t].prepared = prepares]
        /\ systemOpLock' = IF prepares THEN Nobody ELSE systemOpLock
        /\ Goto(t, IF prepares THEN "lock system" ELSE "submit")
        /\ UNCHANGED <<rpc, submitLock, nonceVars, calls, nodeVars, faults, historyVars>>

(* A request fails and ? returns its error: the nonce caches stay as they are *)
RequestFails(t) ==
    /\ \/ At(t, "system nonce") /\ nextSystemOpNonce = None /\ Fault("request")
       \/ At(t, "account nonce") /\ nextNonce = None /\ Fault("request")
       \/ At(t, "allocate") /\ nextNonce = None /\ Fault("request")
       \/ At(t, "genesis") /\ Fault("genesis")
    /\ rpc = Nobody
    /\ Unlock(t)
    /\ req' = [req EXCEPT ![t] = NoRequest]
    /\ Goto(t, "idle")
    /\ UNCHANGED <<rpc, nonceVars, calls, nodeVars, historyVars>>

(* Faulty HoldsGuard: every submission keeps the guard *)
AlwaysHoldsGuard(t) == TRUE

(* submit_call and submit_prepared_extrinsic await the submission in the      *)
(* scrutinee of a match, whose temporary MutexGuard lives to the end of the   *)
(* match; the others drop it at the end of a block.                           *)
HoldsGuard(t) == t \in Callers \cup Preparers

(* After the await: the guard of a match is still held in its arms *)
DropGuard(t) == rpc' = IF HoldsGuard(t) THEN t ELSE Nobody

Invalidate(t) ==
    /\ nextNonce' = None
    /\ nextSystemOpNonce' = IF IsSystemOp(t) THEN None ELSE nextSystemOpNonce

(* The error arm; connection says that it is ChainClientError::Rpc *)
Fails(t, connection) ==
    /\ Invalidate(t)
    /\ IF connection
       THEN /\ DropGuard(t)
            /\ Goto(t, "reconnect")
            /\ UNCHANGED <<submitLock, systemOpLock, req>>
       ELSE /\ rpc' = Nobody
            /\ Unlock(t)
            /\ req' = [req EXCEPT ![t] = NoRequest]
            /\ Goto(t, "idle")

(* submit_call returns as soon as the pool has the extrinsic *)
SubmitExtrinsic(t) ==
    /\ At(t, "submit")
    /\ t \in Callers
    /\ rpc = Nobody
    /\ PoolAccepts(req[t].tx)
    /\ pool' = pool \cup {req[t].tx}
    /\ Unlock(t)
    /\ req' = [req EXCEPT ![t] = NoRequest]
    /\ Goto(t, "idle")
    /\ UNCHANGED <<rpc, nonceVars, calls, chain, finalized, faults, historyVars>>

SubmitAndWatch(t) ==
    /\ At(t, "submit")
    /\ t \notin Callers
    /\ rpc = Nobody
    /\ PoolAccepts(req[t].tx)
    /\ pool' = pool \cup {req[t].tx}
    /\ rpc' = t
    /\ Goto(t, "watching")
    /\ UNCHANGED <<submitLock, systemOpLock, nonceVars, req, calls, chain, finalized, faults,
                   historyVars>>

(* The pool refuses: 1010 for an old nonce, another code for one it has *)
SubmitRefused(t) ==
    /\ At(t, "submit")
    /\ rpc = Nobody
    /\ ~PoolAccepts(req[t].tx)
    /\ Fails(t, req[t].tx.nonce >= Len(chain))
    /\ UNCHANGED <<calls, nodeVars, faults, historyVars>>

(* The connection breaks; the node may have taken the extrinsic *)
SubmitFails(t) ==
    /\ At(t, "submit")
    /\ rpc = Nobody
    /\ \/ Fault("request") /\ UNCHANGED <<pool, abandoned>>
       \/ /\ Fault("answer")
          /\ PoolAccepts(req[t].tx)
          /\ pool' = pool \cup {req[t].tx}
          /\ abandoned' = abandoned \cup {req[t].tx}
    /\ Fails(t, TRUE)
    /\ UNCHANGED <<calls, chain, finalized, answers>>

(* Faulty WatchEnds: takes InBlock for final *)
WatchEndsInBlock(tx) == Included(tx)

(* classify_watch_status: only finalized is final *)
WatchEnds(tx) == IsFinal(tx)

(* finalized: the account nonce is committed *)
WatchFinal(t) ==
    /\ At(t, "watching")
    /\ WatchEnds(req[t].tx)
    /\ nextNonce' = req[t].tx.nonce + 1
    /\ DropGuard(t)
    /\ Goto(t, "outcome")
    /\ UNCHANGED <<submitLock, systemOpLock, nextSystemOpNonce, req, calls, nodeVars, faults,
                   historyVars>>

(* Inactivity or the end of the subscription is an Rpc error, a dropped,      *)
(* invalid or usurped extrinsic is not.                                       *)
WatchFails(t) ==
    /\ At(t, "watching")
    /\ ~WatchEnds(req[t].tx)
    /\ \/ Fault("timeout") /\ Fails(t, TRUE)
       \/ Stalled(req[t].tx) /\ faults' = faults /\ Fails(t, TRUE)
       \/ Discarded(req[t].tx) /\ faults' = faults /\ Fails(t, FALSE)
    /\ abandoned' = abandoned \cup {req[t].tx}
    /\ UNCHANGED <<calls, nodeVars, answers>>

Answer(t) == [tx |-> req[t].tx, ok |-> chain[IndexOf(req[t].tx)].ok,
              actual |-> SystemOpNonceAt(IndexOf(req[t].tx) - 1)]

(* dispatch_outcome_at, in submit_call_and_watch: a failed dispatch is an     *)
(* error.                                                                     *)
CallOutcome(t) ==
    /\ At(t, "outcome")
    /\ ~IsSystemOp(t)
    /\ rpc = Nobody
    /\ answers' = IF Answer(t).ok THEN answers \cup {Answer(t)} ELSE answers
    /\ Unlock(t)
    /\ req' = [req EXCEPT ![t] = NoRequest]
    /\ Goto(t, "idle")
    /\ UNCHANGED <<rpc, nonceVars, calls, nodeVars, faults, abandoned>>

(* Faulty SystemOpOutcome: keeps the nonce of a failed dispatch as used *)
CommitAnyOutcome(t) ==
    /\ At(t, "outcome")
    /\ IsSystemOp(t)
    /\ rpc = Nobody
    /\ nextSystemOpNonce' = req[t].tx.predicted + 1
    /\ answers' = answers \cup {Answer(t)}
    /\ Unlock(t)
    /\ req' = [req EXCEPT ![t] = NoRequest]
    /\ Goto(t, "idle")
    /\ UNCHANGED <<rpc, nextNonce, calls, nodeVars, faults, abandoned>>

(* complete_prepared_submission: a failed dispatch is an Ok that says so *)
SystemOpOutcome(t) ==
    /\ At(t, "outcome")
    /\ IsSystemOp(t)
    /\ rpc = Nobody
    /\ nextSystemOpNonce' = IF Answer(t).ok THEN req[t].tx.predicted + 1 ELSE None
    /\ answers' = answers \cup {Answer(t)}
    /\ Unlock(t)
    /\ req' = [req EXCEPT ![t] = NoRequest]
    /\ Goto(t, "idle")
    /\ UNCHANGED <<rpc, nextNonce, calls, nodeVars, faults, abandoned>>

(* dispatch_outcome_at fails; what was submitted is final all the same *)
OutcomeUnknown(t) ==
    /\ At(t, "outcome")
    /\ rpc = Nobody
    /\ Fault("request")
    /\ nextSystemOpNonce' = IF IsSystemOp(t) THEN None ELSE nextSystemOpNonce
    /\ Unlock(t)
    /\ req' = [req EXCEPT ![t] = NoRequest]
    /\ Goto(t, "idle")
    /\ UNCHANGED <<rpc, nextNonce, calls, nodeVars, historyVars>>

(* reconnect wants the mutex for the new connection; its own failure is       *)
(* ignored.                                                                   *)
Reconnect(t) ==
    /\ At(t, "reconnect")
    /\ rpc = Nobody
    /\ Unlock(t)
    /\ req' = [req EXCEPT ![t] = NoRequest]
    /\ Goto(t, "idle")
    /\ UNCHANGED <<rpc, nonceVars, calls, nodeVars, faults, historyVars>>
-----------------------------------------------------------------------------
Init ==
    /\ rpc = Nobody /\ submitLock = Nobody /\ systemOpLock = Nobody
    /\ nextNonce = None /\ nextSystemOpNonce = None
    /\ pc = [t \in Tasks |-> "idle"]
    /\ req = [t \in Tasks |-> NoRequest]
    /\ calls = [t \in Tasks |-> 0]
    /\ pool = {} /\ chain = <<>> /\ finalized = 0
    /\ faults = 0
    /\ answers = {} /\ abandoned = {}

Step(t) ==
    \/ Begin(t) \/ LockSystemOp(t) \/ LockSubmit(t)
    \/ ReadSystemOpNonce(t) \/ ReadAccountNonce(t) \/ AllocateNonce(t)
    \/ GenesisHash(t) \/ RequestFails(t)
    \/ SubmitExtrinsic(t) \/ SubmitAndWatch(t) \/ SubmitRefused(t) \/ SubmitFails(t)
    \/ WatchFinal(t) \/ WatchFails(t)
    \/ CallOutcome(t) \/ SystemOpOutcome(t) \/ OutcomeUnknown(t)
    \/ Reconnect(t)

Node == Include \/ Finalize \/ Retract \/ DropFromPool

Next == Node \/ \E t \in Tasks : Step(t)

Spec == Init /\ [][Next]_vars
-----------------------------------------------------------------------------
(* What MiniJamChainClient promises the tasks that share it.                  *)

(* Whatever the tasks do at once, and through refusals, lost answers,         *)
(* timeouts and reorganisations, the extrinsics that reached the node carry   *)
(* the nonces 0, 1, 2, ... without a duplicate or a gap: none waits for one   *)
(* that will not come.                                                        *)
NonceContiguous ==
    LET sent == pool \cup Txs
    IN  {tx.nonce : tx \in sent} = 0..(Cardinality(sent) - 1)

(* Between submissions the cached account nonce is what the node would say *)
CursorExact ==
    submitLock = Nobody /\ nextNonce # None => nextNonce = AccountNextIndex

(* What a watched submission returned Ok for is final, with the outcome that  *)
(* was returned, and stays so through reorganisations.                        *)
AnswersFinal ==
    \A answer \in answers :
        IsFinal(answer.tx) /\ chain[IndexOf(answer.tx)].ok = answer.ok

(* The correlation of a system operation that succeeded is the request id     *)
(* that the chain gave it, unless an earlier operation whose submission had   *)
(* returned an error was included after all.                                  *)
CorrelationUnlessAbandoned ==
    \A answer \in answers :
        answer.tx.system /\ answer.ok /\ answer.tx.predicted # answer.actual
            => \E tx \in abandoned : tx.system /\ tx.nonce < answer.tx.nonce

(* "a later nonce must never race ahead": an extrinsic that reaches the node  *)
(* has the next nonce. Not kept after a failing genesis request (README,      *)
(* Disagreements).                                                            *)
LaterNonceNeverAhead ==
    [][\A tx \in pool' \ pool : tx \notin Txs => tx.nonce = AccountNextIndex]_vars

(* "Release the RPC mutex before completion/recovery, both of which issue     *)
(* additional RPC calls through the same client": no task waits for the RPC   *)
(* mutex that it holds itself.                                                *)
RpcMutexReleased == \A t \in Tasks : pc[t] \in {"outcome", "reconnect"} => rpc # t

(* The system-op nonce is known after exact attribution: a cached one is the  *)
(* nonce of the next operation. Not kept after an abandoned operation         *)
(* (README, Disagreements).                                                   *)
SystemOpNonceKnown ==
    systemOpLock = Nobody /\ nextSystemOpNonce # None
        => nextSystemOpNonce = SystemOpNonceAt(Len(chain))
-----------------------------------------------------------------------------
(* The tasks run, blocks are built and finalized; the watcher gives up on an  *)
(* extrinsic that the node has nothing to say about.                          *)
Fairness ==
    /\ \A t \in Tasks : WF_vars(Step(t) /\ ~At(t, "idle"))
    /\ WF_vars(Include /\ Len(chain') > Len(chain))
    /\ WF_vars(Finalize)

FairSpec == Spec /\ Fairness

(* Every submission returns, also when its nonce was skipped, its extrinsic   *)
(* was dropped or its connection broke: nobody is left waiting for a mutex.   *)
SubmissionsEnd == \A t \in Tasks : ~At(t, "idle") ~> At(t, "idle")
=============================================================================
