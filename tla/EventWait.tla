----------------------------- MODULE EventWait ------------------------------
(* MiniJamChainClient::wait_for_finalized_event: a client reads the events of *)
(* the finalized blocks one by one, while blocks are imported, finalized, and *)
(* replaced as long as they are not final.                                    *)
EXTENDS Integers, Sequences

CONSTANTS
    From,                   \* from_block
    MaxBlocks, MaxReorgs,   \* bounds on the blocks imported, on the reorganisations
    MaxSleeps,              \* rounds of 500 ms until the wait is over
    MaxFaults, None

(* What the constants are assumed to be *)
Assumption == From \in Nat /\ MaxSleeps \in Nat

VARIABLES
    chain,                  \* best chain: <<id, has a matching event>> by number
    finalized,              \* number of the finalized block
    imported, reorgsLeft,
    pc, seen, next, block,  \* of the call: finalized.block_number, next, block_hash
    sleeps, result, faultsLeft

chainVars == <<chain, finalized, imported, reorgsLeft>>
callVars == <<pc, seen, next, block, sleeps, result>>
vars == <<chainVars, callVars, faultsLeft>>

Best == Len(chain)
Matches(b) == b[2]

Init ==
    /\ chain = <<>> /\ finalized = 0 /\ imported = 0 /\ reorgsLeft = MaxReorgs
    /\ pc = "context" /\ seen = 0 /\ next = From /\ block = None
    /\ sleeps = 0 /\ result = None /\ faultsLeft = MaxFaults
-----------------------------------------------------------------------------
Import(event) ==
    /\ imported < MaxBlocks
    /\ imported' = imported + 1
    /\ chain' = Append(chain, <<imported, event>>)
    /\ UNCHANGED <<finalized, reorgsLeft, callVars, faultsLeft>>

Finalize ==
    /\ finalized < Best
    /\ finalized' = finalized + 1
    /\ UNCHANGED <<chain, imported, reorgsLeft, callVars, faultsLeft>>

(* The best chain is replaced above block n by a fork with a better block *)
Reorg(n, event) ==
    /\ reorgsLeft > 0 /\ imported < MaxBlocks
    /\ reorgsLeft' = reorgsLeft - 1
    /\ imported' = imported + 1
    /\ chain' = Append(SubSeq(chain, 1, n), <<imported, event>>)
    /\ UNCHANGED <<finalized, callVars, faultsLeft>>
-----------------------------------------------------------------------------
(* Faulty Context: the best block *)
ContextBest == Best

(* minijam_getFinalizedContext *)
Context == finalized

Returns(outcome) ==
    /\ pc' = "done"
    /\ result' = [outcome |-> outcome, number |-> next, block |-> block]

ReadContext ==
    /\ pc = "context"
    /\ seen' = Context
    /\ pc' = "scan"
    /\ UNCHANGED <<chainVars, next, block, sleeps, result, faultsLeft>>

(* while next <= finalized.block_number: chain_getBlockHash. Block 0 has no   *)
(* events.                                                                    *)
ReadHash ==
    /\ pc = "scan" /\ next <= seen /\ next <= Best
    /\ block' = IF next = 0 THEN <<0, FALSE>> ELSE chain[next]
    /\ pc' = "events"
    /\ UNCHANGED <<chainVars, seen, next, sleeps, result, faultsLeft>>

(* Faulty Following: scans from the finalized block on *)
FollowingLatest == seen + 1

(* next.saturating_add(1) *)
Following == next + 1

(* events_at(block_hash): the first match is the answer *)
ReadEvents ==
    /\ pc = "events"
    /\ IF Matches(block) THEN Returns("event") /\ UNCHANGED next
       ELSE pc' = "scan" /\ next' = Following /\ UNCHANGED result
    /\ UNCHANGED <<chainVars, seen, block, sleeps, faultsLeft>>

(* The wait is over only after a whole scan *)
TimesOut ==
    /\ pc = "scan" /\ next > seen /\ sleeps >= MaxSleeps
    /\ Returns("timeout")
    /\ UNCHANGED <<chainVars, seen, next, block, sleeps, faultsLeft>>

(* Faulty Sleep: the time is measured anew *)
SleepAnew ==
    /\ pc = "scan" /\ next > seen /\ sleeps < MaxSleeps
    /\ pc' = "context"
    /\ UNCHANGED <<chainVars, seen, next, block, sleeps, result, faultsLeft>>

Sleep ==
    /\ pc = "scan" /\ next > seen /\ sleeps < MaxSleeps
    /\ sleeps' = sleeps + 1
    /\ pc' = "context"
    /\ UNCHANGED <<chainVars, seen, next, block, result, faultsLeft>>

(* A request fails and so does the call *)
RequestFails ==
    /\ pc \in {"context", "events"} \/ (pc = "scan" /\ next <= seen)
    /\ faultsLeft > 0
    /\ faultsLeft' = faultsLeft - 1
    /\ Returns("error")
    /\ UNCHANGED <<chainVars, seen, next, block, sleeps>>

Wait == ReadContext \/ ReadHash \/ ReadEvents \/ TimesOut \/ Sleep

Next ==
    \/ Wait \/ RequestFails \/ Finalize
    \/ \E event \in BOOLEAN : Import(event) \/ \E n \in finalized..(Best - 1) : Reorg(n, event)

Spec == Init /\ [][Next]_vars
FairSpec == Spec /\ WF_vars(Wait)
-----------------------------------------------------------------------------
Ended(outcome) == pc = "done" /\ result.outcome = outcome
NoMatch(numbers) == \A n \in numbers \cap 1..finalized : ~Matches(chain[n])

(* The event returned is on the finalized chain for good, and it is the first *)
(* match from from_block on, whatever happens to the chain between the reads  *)
(* of the finalized number, the hash and the events.                          *)
FirstFinalizedEvent ==
    Ended("event") =>
        /\ result.number \in 1..finalized /\ chain[result.number] = result.block
        /\ Matches(result.block)
        /\ NoMatch(From..(result.number - 1))

(* A wait that times out has missed nothing of what was final when it last    *)
(* asked.                                                                     *)
TimeoutMeansNone == Ended("timeout") => NoMatch(From..seen)

(* The wait ends, also when finality stalls or runs ahead of the scan.        *)
WaitEnds == <>(pc = "done")
=============================================================================
