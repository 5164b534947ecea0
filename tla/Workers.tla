------------------------------ MODULE Workers -------------------------------
(* pallet-minijam-workers: registration and stake, epochs and the active set, *)
(* assignment of works to workers, voting rounds, rewards and slashes.        *)
(*                                                                            *)
(* The module holds the state of the pallet, its extrinsics and its hook as   *)
(* actions on that state, and what the functions called by pallet-minijam     *)
(* (assign_work, open_voting, clear_assignment) do. MiniJam.tla extends it    *)
(* and composes the two pallets.                                              *)
(*                                                                            *)
(* Abstractions. Balances are counted above the existential deposit, which    *)
(* every account and the reward pool keep: hold(a, x) succeeds iff            *)
(* free[a] >= x, and a Preserve transfer from the pool iff pool >= x. An      *)
(* account owns at most one worker and owners never change, so the            *)
(* WorkerStake hold of the owner of w is stakeHold[w]. A session key, a       *)
(* candidate hash or a signature only decides whether a call is refused, and  *)
(* a refused call changes nothing: the calls below are the accepted ones.     *)
(* Counters of past epochs are never read again, so DutyCounts and            *)
(* AssignedWorkCount are kept for the current epoch only. The score that      *)
(* orders candidates of equal duty is a hash: any order is possible.          *)
EXTENDS StorageMap, FiniteSets

CONSTANTS
    Accounts,               \* accounts that own workers or submit works
    WorkIds,                \* ids of works
    Rounds,                 \* candidate rounds
    MaxCandidates, MinimumStake, EpochLength, TopWorkers, WorkersPerWork,
    MaxWorksPerRound, MaxDutiesPerWorkerPerRound, SupportThreshold,
    OpposeThreshold, MaxOpenVotes, TimelyVoteReward,
    AbsenceSlash,           \* percent
    MinimumAbsenceSlash,
    EquivocationSlash,      \* percent
    EquivocationSuspension, \* epochs
    GenesisWorkers,         \* sequence of <<owner, stake>>
    GenesisFree,            \* free balance of every account at genesis
    GenesisPool,            \* reward pool at genesis
    StakeAmounts,           \* the stakes that calls name
    Equivocators            \* workers that sign two different votes

VARIABLES
    now,                \* block number
    phase,              \* the hook being run, see MiniJam.tla
    votesTodo,          \* rounds left in the loop of finalize_due_votes
    free, pool, stakeHold,
    workers, pendingUpdates, unbonding,
    currentEpoch, activeWorkers,
    assignments, assignmentEpochs, assignedWorkCount, dutyCounts,
    votingRounds, openVoteRounds, votes, roundResults, equivocations

stakeVars == <<stakeHold, workers, pendingUpdates, unbonding>>
epochVars == <<currentEpoch, activeWorkers>>
assignmentVars == <<assignments, assignmentEpochs, assignedWorkCount, dutyCounts>>
votingVars == <<votingRounds, openVoteRounds, votes, roundResults>>
workersVars == <<free, pool, stakeVars, epochVars, assignmentVars, votingVars, equivocations>>

WorkerIds == 0..(MaxCandidates - 1)
RoundKeys == WorkIds \X Rounds
NoStake == 0                  \* an update that leaves the stake alone
Undecided == "None"           \* RoundDecision not locked

WorkerRecord == [owner : Accounts, activeStake : Nat, effectiveEpoch : Nat, suspendedUntil : Nat]
PendingWorkerUpdate == [stake : Nat, effectiveEpoch : Nat]
UnbondingChunk == [amount : Nat, unlockEpoch : Nat]
VotingRound == [assignmentEpoch : Nat, deadline : Nat, support : Nat, oppose : Nat,
                responses : Nat, locked : {Undecided, "Accepted", "Rejected"}]
RoundResult == [decision : {Undecided, "Accepted", "Rejected"}, absentees : SUBSET WorkerIds]

ASSUME WorkersAssumption ==
    /\ IsFiniteSet(Accounts) /\ IsFiniteSet(WorkIds) /\ IsFiniteSet(Rounds)
    /\ Rounds \subseteq Nat
    /\ MaxCandidates \in Nat \ {0}
    /\ MinimumStake \in Nat \ {0}
    /\ EpochLength \in Nat \ {0}
    /\ TopWorkers \in Nat
    /\ WorkersPerWork \in Nat \ {0}
    /\ MaxWorksPerRound \in Nat /\ MaxDutiesPerWorkerPerRound \in Nat
    /\ SupportThreshold \in Nat \ {0} /\ OpposeThreshold \in Nat \ {0}
    /\ MaxOpenVotes \in Nat
    /\ TimelyVoteReward \in Nat /\ MinimumAbsenceSlash \in Nat
    /\ AbsenceSlash \in 0..100 /\ EquivocationSlash \in 0..100
    /\ EquivocationSuspension \in Nat
    /\ StakeAmounts \subseteq Nat

ASSUME GenesisAssumption ==
    /\ GenesisWorkers \in Seq(Accounts \X Nat)
    /\ Len(GenesisWorkers) <= MaxCandidates
    /\ \A i \in DOMAIN GenesisWorkers : GenesisWorkers[i][2] >= MinimumStake
    /\ \A i, j \in DOMAIN GenesisWorkers : GenesisWorkers[i][1] = GenesisWorkers[j][1] => i = j
    /\ GenesisFree \in [Accounts -> Nat]
    /\ GenesisPool \in Nat
-----------------------------------------------------------------------------
(* Derived storage *)

Registered == DOMAIN workers

(* NextWorkerId and WorkerCount: ids are given out in order and never freed *)
WorkerCount == Cardinality(Registered)

(* WorkerByAccount::contains_key *)
IsWorkerAccount(a) == \E w \in Registered : workers[w].owner = a

OwnersOf(W) == {workers[w].owner : w \in W}

(* Faulty Voters: only supporting votes count as cast *)
SupportersOnly(key) ==
    {w \in assignments[key] : <<key, w>> \in DOMAIN votes /\ votes[<<key, w>>] = "Support"}

(* The assigned workers whose vote for the round is in Votes *)
Voters(key) == {w \in assignments[key] : <<key, w>> \in DOMAIN votes}
-----------------------------------------------------------------------------
(* Epochs *)

(* Order of the snapshot: stake descending, then id ascending *)
Precedes(ws, v, w) == \/ ws[v].activeStake > ws[w].activeStake
                      \/ ws[v].activeStake = ws[w].activeStake /\ v < w

Top(ws, W) == {w \in W : Cardinality({v \in W : Precedes(ws, v, w)}) < TopWorkers}

(* Faulty Eligible: forgets suspensions *)
EligibleIfEffective(ws, epoch) == {w \in DOMAIN ws : ws[w].effectiveEpoch <= epoch}

Eligible(ws, epoch) ==
    {w \in DOMAIN ws : ws[w].effectiveEpoch <= epoch /\ ws[w].suspendedUntil <= epoch}

(* apply_pending_updates *)
Applied(epoch) == {w \in DOMAIN pendingUpdates : pendingUpdates[w].effectiveEpoch <= epoch}

UpdatedStake(w) == IF pendingUpdates[w].stake = NoStake THEN workers[w].activeStake
                                                        ELSE pendingUpdates[w].stake

UpdatedWorkers(epoch) ==
    [w \in Registered |->
        IF w \in Applied(epoch)
        THEN [workers[w] EXCEPT !.activeStake = UpdatedStake(w), !.effectiveEpoch = epoch]
        ELSE workers[w]]

UpdatedUnbonding(epoch) ==
    LET reduced == {w \in Applied(epoch) : UpdatedStake(w) < workers[w].activeStake}
    IN  [w \in DOMAIN unbonding \cup reduced |->
            IF w \in reduced
            THEN [amount |-> workers[w].activeStake - UpdatedStake(w), unlockEpoch |-> epoch + 2]
            ELSE unbonding[w]]

(* release_mature_unbonding: an Exact release fails when less is held, and    *)
(* the chunk then stays.                                                      *)
Released(epoch) ==
    {w \in DOMAIN UpdatedUnbonding(epoch) :
        /\ UpdatedUnbonding(epoch)[w].unlockEpoch <= epoch
        /\ UpdatedUnbonding(epoch)[w].amount <= stakeHold[w]}

EpochTransition(epoch) ==
    LET chunk == UpdatedUnbonding(epoch)
        released == Released(epoch)
    IN  /\ currentEpoch' = epoch
        /\ workers' = UpdatedWorkers(epoch)
        /\ pendingUpdates' = RemoveAll(pendingUpdates, Applied(epoch))
        /\ unbonding' = RemoveAll(chunk, released)
        /\ stakeHold' = [w \in DOMAIN stakeHold |->
                            IF w \in released THEN stakeHold[w] - chunk[w].amount ELSE stakeHold[w]]
        /\ free' = [a \in Accounts |->
                        IF \E w \in released : workers[w].owner = a
                        THEN free[a] + chunk[CHOOSE w \in released : workers[w].owner = a].amount
                        ELSE free[a]]
        /\ activeWorkers' = Top(UpdatedWorkers(epoch), Eligible(UpdatedWorkers(epoch), epoch))
        /\ assignedWorkCount' = [r \in Rounds |-> 0]
        /\ dutyCounts' = [r \in Rounds |-> [w \in WorkerIds |-> 0]]

(* on_initialize after finalize_due_votes *)
OnInitializeEpoch ==
    /\ IF now % EpochLength = 0
       THEN EpochTransition(currentEpoch + 1)
       ELSE UNCHANGED <<free, stakeVars, epochVars, assignedWorkCount, dutyCounts>>
    /\ UNCHANGED <<pool, assignments, assignmentEpochs, votingVars, equivocations>>
-----------------------------------------------------------------------------
(* Registration and stake *)

Register(a, stake) ==
    /\ ~IsWorkerAccount(a)
    /\ WorkerCount < MaxCandidates
    /\ stake >= MinimumStake
    /\ free[a] >= stake
    /\ free' = [free EXCEPT ![a] = @ - stake]
    /\ stakeHold' = Insert(stakeHold, WorkerCount, stake)
    /\ workers' = Insert(workers, WorkerCount,
                    [owner |-> a, activeStake |-> stake,
                     effectiveEpoch |-> currentEpoch + 1, suspendedUntil |-> 0])
    /\ UNCHANGED <<pool, pendingUpdates, unbonding, epochVars, assignmentVars, votingVars,
                   equivocations>>

(* Faulty CanUpdate: forgets the chunk that is still unbonding *)
CanUpdateWhileUnbonding(w) == w \notin DOMAIN pendingUpdates

CanUpdate(w) == w \notin DOMAIN pendingUpdates /\ w \notin DOMAIN unbonding

(* stake = NoStake is an update of the session key alone *)
ScheduleUpdate(w, stake) ==
    LET owner == workers[w].owner
        extra == Max2(stake - workers[w].activeStake, 0)
    IN  /\ CanUpdate(w)
        /\ stake # NoStake => stake >= MinimumStake
        /\ free[owner] >= extra
        /\ free' = [free EXCEPT ![owner] = @ - extra]
        /\ stakeHold' = [stakeHold EXCEPT ![w] = @ + extra]
        /\ pendingUpdates' = Insert(pendingUpdates, w,
                                [stake |-> stake, effectiveEpoch |-> currentEpoch + 1])
        /\ UNCHANGED <<pool, workers, unbonding, epochVars, assignmentVars, votingVars,
                       equivocations>>
-----------------------------------------------------------------------------
(* Assignment *)

Duty(round, w) == dutyCounts[round][w]

(* Faulty AssignmentCandidates: one duty too many *)
CandidatesOverByOne(round) == {w \in activeWorkers : Duty(round, w) <= MaxDutiesPerWorkerPerRound}

(* Faulty AssignmentCandidates: draws from all ids, not from the active set *)
CandidatesUnregistered(round) == {w \in WorkerIds : Duty(round, w) < MaxDutiesPerWorkerPerRound}

(* Active workers that may still take a duty in this round *)
AssignmentCandidates(round) ==
    {w \in activeWorkers : Duty(round, w) < MaxDutiesPerWorkerPerRound}

CanAssign(round) ==
    /\ assignedWorkCount[round] < MaxWorksPerRound
    /\ Cardinality(AssignmentCandidates(round)) >= WorkersPerWork

(* The assignments assign_work may choose: WorkersPerWork candidates, those   *)
(* of lower duty first.                                                       *)
Selections(round) ==
    {W \in SUBSET AssignmentCandidates(round) :
        /\ Cardinality(W) = WorkersPerWork
        /\ \A v \in W, w \in AssignmentCandidates(round) \ W : Duty(round, v) <= Duty(round, w)}

(* What assign_work(key) may return when the assignments are as0: the         *)
(* existing assignment, a new one, or an error (no member): TooManyWorks or   *)
(* InsufficientWorkers.                                                       *)
AssignWorkResults(key, as0) ==
    IF key \in DOMAIN as0 THEN {as0[key]}
    ELSE IF CanAssign(key[2]) THEN Selections(key[2])
    ELSE {}

(* assign_work(key) returns W, the maps being as0 and epochs0 before the call *)
AssignWork(key, W, as0, epochs0) ==
    IF key \in DOMAIN as0
    THEN /\ assignments' = as0
         /\ assignmentEpochs' = epochs0
         /\ UNCHANGED <<assignedWorkCount, dutyCounts>>
    ELSE /\ assignments' = Insert(as0, key, W)
         /\ assignmentEpochs' = Insert(epochs0, key, currentEpoch)
         /\ assignedWorkCount' = [assignedWorkCount EXCEPT ![key[2]] = @ + 1]
         /\ dutyCounts' = [dutyCounts EXCEPT ![key[2]] =
                              [w \in WorkerIds |-> IF w \in W THEN @[w] + 1 ELSE @[w]]]

(* What clear_assignment(key) leaves of the three maps. The duty counters are *)
(* not given back. *)
ClearedAssignments(key) == RemoveAll(assignments, {key})
ClearedVotes(key) ==
    IF key \in DOMAIN assignments THEN RemoveAll(votes, {key} \X assignments[key]) ELSE votes

(* Faulty ClearedEpochs: leaves the epoch of the assignment behind *)
EpochsKept(key) == assignmentEpochs

ClearedEpochs(key) == RemoveAll(assignmentEpochs, {key})
-----------------------------------------------------------------------------
(* Voting *)

OpenVoting(key, deadline) ==
    /\ key \in DOMAIN assignments
    /\ key \notin DOMAIN votingRounds
    /\ key \notin DOMAIN roundResults
    /\ deadline > now
    /\ Len(openVoteRounds) < MaxOpenVotes
    /\ openVoteRounds' = Append(openVoteRounds, key)
    /\ votingRounds' = Insert(votingRounds, key,
                          [assignmentEpoch |-> assignmentEpochs[key], deadline |-> deadline,
                           support |-> 0, oppose |-> 0, responses |-> 0, locked |-> Undecided])
    /\ UNCHANGED <<votes, roundResults>>

(* Slash of an absent worker of stake s, as finalize_voting requests it *)
RequestedAbsenceSlash(s) == Min2(Max2((AbsenceSlash * s) \div 100, MinimumAbsenceSlash), s)

(* Currency::slash takes at most what is held *)
ActualAbsenceSlash(w) == Min2(RequestedAbsenceSlash(workers[w].activeStake), stakeHold[w])

(* Faulty TotalAbsenceSlash: the slashed credit is dropped, not resolved *)
SlashBurned(W) == 0

(* The sum of those slashes over W, counted unit by unit *)
TotalAbsenceSlash(W) == Cardinality(UNION {{w} \X (1..ActualAbsenceSlash(w)) : w \in W})

(* finalize_voting commits. Rewards are paid and slashes collected in the     *)
(* order of the assignment, which is hashed: it can succeed when the pool     *)
(* covers the rewards once every slash is in.                                 *)
FinalizeVoting(key, voters, decision) ==
    LET absent == assignments[key] \ voters
        rewards == TimelyVoteReward * Cardinality(voters)
    IN  /\ pool + TotalAbsenceSlash(absent) >= rewards
        /\ pool' = pool + TotalAbsenceSlash(absent) - rewards
        /\ free' = [a \in Accounts |-> IF a \in OwnersOf(voters) THEN free[a] + TimelyVoteReward
                                                                 ELSE free[a]]
        /\ stakeHold' = [w \in DOMAIN stakeHold |->
                            IF w \in absent THEN stakeHold[w] - ActualAbsenceSlash(w)
                                            ELSE stakeHold[w]]
        /\ workers' = [w \in Registered |->
                          IF w \in absent
                          THEN [workers[w] EXCEPT !.activeStake = @ - ActualAbsenceSlash(w)]
                          ELSE workers[w]]
        /\ votingRounds' = RemoveAll(votingRounds, {key})
        /\ openVoteRounds' = SwapRemove(openVoteRounds, key)
        /\ roundResults' = Insert(roundResults, key,
                              [decision |-> decision, absentees |-> absent])

(* finalize_voting rolls back: a reward could not be paid *)
FinalizeVotingFails(voters) == pool < TimelyVoteReward * Cardinality(voters)

(* One iteration of finalize_due_votes *)
FinalizeDueVote ==
    /\ votesTodo # <<>>
    /\ votesTodo' = Tail(votesTodo)
    /\ LET key == Head(votesTodo)
           due == key \in DOMAIN votingRounds /\ now > votingRounds[key].deadline
       IN  \/ /\ due
              /\ FinalizeVoting(key, Voters(key), votingRounds[key].locked)
              /\ UNCHANGED <<pendingUpdates, unbonding, votes>>
           \/ /\ due => FinalizeVotingFails(Voters(key))
              /\ UNCHANGED <<free, pool, stakeVars, votingVars>>
    /\ UNCHANGED <<epochVars, assignmentVars, equivocations>>

(* Faulty Locked: more than the threshold is asked for *)
LockedAboveThreshold(voting) ==
    IF voting.locked # Undecided THEN voting.locked
    ELSE IF voting.support > SupportThreshold THEN "Accepted"
    ELSE IF voting.oppose > OpposeThreshold THEN "Rejected"
    ELSE Undecided

(* Faulty Locked: the majority so far, computed anew at every vote *)
LockedByMajority(voting) == IF voting.support > voting.oppose THEN "Accepted" ELSE "Rejected"

(* The decision locks the first time a threshold is met *)
Locked(voting) ==
    IF voting.locked # Undecided THEN voting.locked
    ELSE IF voting.support >= SupportThreshold THEN "Accepted"
    ELSE IF voting.oppose >= OpposeThreshold THEN "Rejected"
    ELSE Undecided

Counted(voting, verdict) ==
    [voting EXCEPT !.support = IF verdict = "Support" THEN @ + 1 ELSE @,
                   !.oppose = IF verdict = "Oppose" THEN @ + 1 ELSE @,
                   !.responses = @ + 1]

(* validate_worker_vote, then submit_vote. The vote that completes the round  *)
(* finalizes it, and is refused as a whole if that fails.                     *)
SubmitVote(key, w, verdict) ==
    /\ key \in DOMAIN votingRounds
    /\ key \in DOMAIN assignments
    /\ w \in assignments[key]
    /\ <<key, w>> \notin DOMAIN votes
    /\ now <= votingRounds[key].deadline
    /\ LET counted == Counted(votingRounds[key], verdict)
           voting == [counted EXCEPT !.locked = Locked(counted)]
       IN  IF voting.responses >= Cardinality(assignments[key])
           THEN FinalizeVoting(key, Voters(key) \cup {w}, voting.locked)
           ELSE /\ votingRounds' = [votingRounds EXCEPT ![key] = voting]
                /\ UNCHANGED <<free, pool, stakeHold, workers, openVoteRounds, roundResults>>
    /\ votes' = Insert(votes, <<key, w>>, verdict)
    /\ UNCHANGED <<pendingUpdates, unbonding, epochVars, assignmentVars, equivocations>>

(* Two different votes of w for the round, both signed with the key recorded  *)
(* at assignment. *)
SubmitEquivocation(key, w) ==
    LET requested == (EquivocationSlash * workers[w].activeStake) \div 100
        actual == Min2(requested, stakeHold[w])
        slashed == [workers[w] EXCEPT !.activeStake = @ - actual,
                                      !.suspendedUntil = currentEpoch + EquivocationSuspension]
    IN  /\ w \in Equivocators
        /\ key \in DOMAIN assignments
        /\ w \in assignments[key]
        /\ <<key, w>> \notin equivocations
        /\ stakeHold' = [stakeHold EXCEPT ![w] = @ - actual]
        /\ pool' = pool + actual
        /\ workers' = [workers EXCEPT ![w] = slashed]
        /\ equivocations' = equivocations \cup {<<key, w>>}
        /\ UNCHANGED <<free, pendingUpdates, unbonding, epochVars, assignmentVars, votingVars>>
-----------------------------------------------------------------------------
(* Genesis *)

GenesisIds == 0..(Len(GenesisWorkers) - 1)

WorkersInit ==
    /\ free = GenesisFree
    /\ pool = GenesisPool
    /\ stakeHold = [w \in GenesisIds |-> GenesisWorkers[w + 1][2]]
    /\ workers = [w \in GenesisIds |->
                    [owner |-> GenesisWorkers[w + 1][1], activeStake |-> GenesisWorkers[w + 1][2],
                     effectiveEpoch |-> 0, suspendedUntil |-> 0]]
    /\ pendingUpdates = <<>>
    /\ unbonding = <<>>
    /\ currentEpoch = 0
    /\ activeWorkers = Top(workers, GenesisIds)
    /\ assignments = <<>>
    /\ assignmentEpochs = <<>>
    /\ assignedWorkCount = [r \in Rounds |-> 0]
    /\ dutyCounts = [r \in Rounds |-> [w \in WorkerIds |-> 0]]
    /\ votingRounds = <<>>
    /\ openVoteRounds = <<>>
    /\ votes = <<>>
    /\ roundResults = <<>>
    /\ equivocations = {}
=============================================================================
