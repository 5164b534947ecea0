--------------------------- MODULE ServiceProofs ----------------------------
(* Proofs about the components that wait for others: the wait for an event,   *)
(* the launcher, the start of the formal RPC and the compiler service. They   *)
(* share no state: each theorem is about one instance, and a variable or a    *)
(* constant stands for that of the component the theorem is about.            *)
EXTENDS StorageMap, FiniteSets, TLAPS


CONSTANTS None, MaxFaults
VARIABLES faultsLeft
-----------------------------------------------------------------------------
(* The wait of the Formal RPC for the node (module Startup) *)

CONSTANTS Deadline, InitialDelay, MaxDelay, RetryInterval, MaxChanges
VARIABLES now, node, upSince, rpc, worker, matches, changesLeft

Connect == INSTANCE Startup

StartupType ==
    /\ now \in Nat /\ upSince \in Nat /\ upSince <= now /\ now <= Deadline
    /\ rpc \in [pc : {"check", "connect", "sleep", "connected", "failed"},
                delay : 1..MaxDelay, wake : 0..Deadline]

(* When the last attempt failed, MaxDelay before the end of the sleep at      *)
(* most, the node was not up: if it is now, it came up since.                 *)
DownBefore(t) == node = "up" => upSince >= t - MaxDelay

StartupInv ==
    /\ StartupType
    /\ rpc.pc = "sleep" => now <= rpc.wake /\ now >= rpc.wake - MaxDelay /\ DownBefore(rpc.wake)
    /\ rpc.pc = "check" => now = rpc.wake /\ DownBefore(now)
    /\ rpc.pc = "failed" => now = Deadline /\ DownBefore(now)

(* The first attempt is made at once. *)
LEMMA InitStartup ==
    ASSUME Connect!Assumption, Connect!Init
    PROVE  StartupInv
  BY DEF Connect!Assumption, Connect!Init, StartupInv, StartupType, DownBefore

(* Attempts, sleeps, time and the node keep the invariant. *)
LEMMA NextStartup ==
    ASSUME Connect!Assumption, StartupInv, [Connect!Next]_(Connect!vars)
    PROVE  StartupInv'
<1> USE DEF StartupInv, StartupType, DownBefore
<1>0. Deadline \in Nat /\ MaxDelay \in Nat /\ MaxDelay > 0
  BY DEF Connect!Assumption
<1>1. CASE UNCHANGED Connect!vars
  BY <1>1 DEF Connect!vars, Connect!nodeVars
<1>2. CASE Connect!Check
  BY <1>0, <1>2 DEF Connect!Check, Connect!Remaining, Connect!nodeVars
<1>3. CASE Connect!Connected
  BY <1>0, <1>3 DEF Connect!Connected, Connect!nodeVars
<1>4. CASE Connect!AttemptFails
  <2>1. rpc.delay \in 1..MaxDelay
    OBVIOUS
  <2>2. PICK pause : pause = Connect!Pause
    OBVIOUS
  <2>3. Connect!Remaining # 0 => pause \in 1..MaxDelay /\ now + pause <= Deadline
    BY <1>0, <2>1, <2>2 DEF Connect!Pause, Connect!Remaining, Connect!Min2
  <2>4. Connect!NextDelay \in 1..MaxDelay
    BY <1>0, <2>1 DEF Connect!NextDelay, Connect!Min2
  <2>5. UNCHANGED <<now, node, upSince>> /\ node # "up"
    BY <1>4 DEF Connect!AttemptFails, Connect!nodeVars
  <2>6. CASE Connect!Remaining = 0
    <3>1. rpc' = [rpc EXCEPT !.pc = "failed"] /\ now = Deadline
      BY <1>0, <1>4, <2>6 DEF Connect!AttemptFails, Connect!Remaining
    <3> QED BY <1>0, <2>5, <3>1
  <2>7. CASE Connect!Remaining # 0
    <3>1. rpc' = [pc |-> "sleep", delay |-> Connect!NextDelay, wake |-> now + pause]
      BY <1>4, <2>2, <2>7 DEF Connect!AttemptFails
    <3> QED BY <1>0, <2>3, <2>4, <2>5, <2>7, <3>1
  <2> QED BY <2>6, <2>7
<1>5. CASE Connect!AttemptTimesOut
  BY <1>0, <1>5 DEF Connect!AttemptTimesOut, Connect!Remaining, Connect!nodeVars
<1>6. CASE Connect!Wake
  BY <1>0, <1>6 DEF Connect!Wake, Connect!nodeVars
<1>7. CASE Connect!Ask \/ Connect!AskAgain
  BY <1>7 DEF Connect!Ask, Connect!AskAgain, Connect!nodeVars
<1>8. CASE Connect!Tick
  <2>1. UNCHANGED <<node, upSince, rpc>> /\ Connect!RpcWaits
    BY <1>8 DEF Connect!Tick, Connect!nodeVars
  <2>2. now' = IF rpc.pc = "sleep" THEN now + 1 ELSE Connect!Min2(now + 1, Deadline)
    BY <1>8 DEF Connect!Tick
  <2> QED BY <1>0, <2>1, <2>2 DEF Connect!RpcWaits, Connect!Min2, Connect!Remaining
<1>9. CASE Connect!NodeChanges
  BY <1>0, <1>9 DEF Connect!NodeChanges
<1> QED BY <1>1, <1>2, <1>3, <1>4, <1>5, <1>6, <1>7, <1>8, <1>9 DEF Connect!Next, Connect!Retry

(* For every policy, retry_connection fails exactly at its deadline, and only *)
(* if the node was out of reach or came up within the longest pause before it.*)
THEOREM StartupIsSound ==
    ASSUME Connect!Assumption
    PROVE  Connect!Spec => [](Connect!DeadlineKept /\ Connect!GivesUpOnlyUnreachable)
<1>1. Connect!Init => StartupInv
  BY InitStartup
<1>2. StartupInv /\ [Connect!Next]_(Connect!vars) => StartupInv'
  BY NextStartup
<1>3. StartupInv => Connect!DeadlineKept /\ Connect!GivesUpOnlyUnreachable
  BY DEF StartupInv, StartupType, DownBefore, Connect!DeadlineKept, Connect!GivesUpOnlyUnreachable
<1> QED BY <1>1, <1>2, <1>3, PTL DEF Connect!Spec
-----------------------------------------------------------------------------
(* The wait for a finalized event (module EventWait) *)

CONSTANTS From, MaxBlocks, MaxReorgs, MaxSleeps
VARIABLES chain, finalized, imported, reorgsLeft, pc, seen, next, block, sleeps, result

Events == INSTANCE EventWait

EventType ==
    /\ chain \in Seq(Nat \X BOOLEAN) /\ imported \in Nat
    /\ finalized \in Nat /\ finalized <= Len(chain)
    /\ seen \in Nat /\ seen <= finalized
    /\ next \in Nat /\ From <= next

(* The blocks before next are scanned. The scan is never ahead of the         *)
(* finalized number that the call has read, except where from_block is.       *)
Scanned ==
    /\ next = From \/ next <= seen + 1
    /\ Events!NoMatch(From..(next - 1))

(* The hash read for next is that of a block that is final *)
HashFinal ==
    pc = "events" =>
        next <= seen /\ block = IF next = 0 THEN <<0, FALSE>> ELSE chain[next]

EventInv ==
    EventType /\ Scanned /\ HashFinal /\ Events!FirstFinalizedEvent /\ Events!TimeoutMeansNone

(* The call starts before any block of the model is known. *)
LEMMA InitEvents == Events!Assumption /\ Events!Init => EventInv
  BY DEF Events!Assumption, Events!Init, EventInv, EventType, Scanned, HashFinal, Events!NoMatch,
         Events!FirstFinalizedEvent, Events!TimeoutMeansNone, Events!Ended

(* The chain goes on: blocks that are final stay, whatever becomes of the     *)
(* others, so nothing that the call has read is undone.                       *)
LEMMA ChainMoves ==
    ASSUME Events!Assumption, EventInv, UNCHANGED Events!callVars,
           chain' \in Seq(Nat \X BOOLEAN), imported' \in Nat,
           finalized' \in Nat, finalized <= finalized', finalized' <= Len(chain'),
           \A n \in 1..finalized : chain'[n] = chain[n]
    PROVE  EventInv'
<1>1. EventType /\ Scanned /\ HashFinal /\ Events!FirstFinalizedEvent /\ Events!TimeoutMeansNone
  BY Zenon DEF EventInv
<1>2. pc' = pc /\ seen' = seen /\ next' = next /\ block' = block /\ result' = result
  BY Zenon DEF Events!callVars
<1>3. From \in Nat
  BY Zenon DEF Events!Assumption
<1>4. EventType'
  BY <1>1, <1>2 DEF EventType
<1>5. ASSUME NEW last \in Int, last <= finalized \/ last < From, Events!NoMatch(From..last)
      PROVE  Events!NoMatch(From..last)'
  <2> SUFFICES ASSUME NEW n \in (From..last) \cap (1..finalized') PROVE ~Events!Matches(chain'[n])
    BY Zenon DEF Events!NoMatch
  <2>1. n \in (From..last) \cap (1..finalized)
    BY <1>1, <1>3, <1>5 DEF EventType
  <2>2. ~Events!Matches(chain[n]) /\ chain'[n] = chain[n]
    BY Zenon, <1>5, <2>1 DEF Events!NoMatch
  <2> QED BY Zenon, <2>2
<1>6. Scanned'
  <2>1. PICK last \in Int : last = next - 1
    BY <1>1 DEF EventType
  <2>2. last <= finalized \/ last < From
    BY <1>1, <1>3, <2>1 DEF EventType, Scanned
  <2>3. Events!NoMatch(From..last)'
    BY Zenon, <1>1, <1>5, <2>1, <2>2 DEF Scanned
  <2> QED BY Zenon, <1>1, <1>2, <2>1, <2>3 DEF Scanned, Events!NoMatch
<1>7. HashFinal'
  <2>1. pc = "events" /\ next # 0 => next \in 1..finalized
    BY <1>1 DEF HashFinal, EventType
  <2> QED BY Zenon, <1>1, <1>2, <2>1 DEF HashFinal
<1>8. Events!FirstFinalizedEvent'
  <2> SUFFICES ASSUME Events!Ended("event")
               PROVE  /\ result.number \in 1..finalized' /\ chain'[result.number] = result.block
                      /\ Events!Matches(result.block)
                      /\ Events!NoMatch(From..(result.number - 1))'
    BY Zenon, <1>2 DEF Events!FirstFinalizedEvent, Events!Ended, Events!Matches, Events!NoMatch
  <2>1. /\ result.number \in 1..finalized /\ chain[result.number] = result.block
        /\ Events!Matches(result.block) /\ Events!NoMatch(From..(result.number - 1))
    BY Zenon, <1>1 DEF Events!FirstFinalizedEvent
  <2>2. PICK last \in Int : last = result.number - 1
    BY <2>1
  <2>3. last <= finalized
    BY <1>1, <2>1, <2>2 DEF EventType
  <2>4. Events!NoMatch(From..last)'
    BY Zenon, <1>5, <2>1, <2>2, <2>3
  <2>5. result.number \in 1..finalized'
    BY <1>1, <2>1 DEF EventType
  <2> QED BY Zenon, <1>2, <2>1, <2>2, <2>4, <2>5 DEF Events!NoMatch
<1>9. Events!TimeoutMeansNone'
  <2> SUFFICES ASSUME Events!Ended("timeout") PROVE Events!NoMatch(From..seen)'
    BY Zenon, <1>2 DEF Events!TimeoutMeansNone, Events!Ended
  <2>1. PICK last \in Int : last = seen /\ last <= finalized
    BY <1>1 DEF EventType
  <2>2. Events!NoMatch(From..last)'
    BY Zenon, <1>1, <1>5, <2>1 DEF Events!TimeoutMeansNone
  <2> QED BY Zenon, <1>2, <2>1, <2>2 DEF Events!NoMatch
<1> QED BY Zenon, <1>4, <1>6, <1>7, <1>8, <1>9 DEF EventInv

(* Every step of the call and of the chain keeps what the call knows true. *)
LEMMA NextEvents ==
    Events!Assumption /\ EventInv /\ [Events!Next]_(Events!vars) => EventInv'
<1> SUFFICES ASSUME Events!Assumption, EventInv, [Events!Next]_(Events!vars)
             PROVE  EventInv'
  BY Zenon
<1>1. EventType /\ Scanned /\ HashFinal /\ Events!FirstFinalizedEvent /\ Events!TimeoutMeansNone
  BY Zenon DEF EventInv
<1>2. From \in Nat
  BY Zenon DEF Events!Assumption
<1>3. ASSUME NEW event \in BOOLEAN, Events!Import(event) PROVE EventInv'
  <2>1. /\ chain' = Append(chain, <<imported, event>>) /\ <<imported, event>> \in Nat \X BOOLEAN
        /\ imported' = imported + 1 /\ finalized' = finalized /\ UNCHANGED Events!callVars
    BY Zenon, <1>1, <1>3 DEF Events!Import, EventType
  <2>2. /\ chain' \in Seq(Nat \X BOOLEAN) /\ Len(chain') = Len(chain) + 1
        /\ \A n \in 1..Len(chain) : chain'[n] = chain[n]
    BY <1>1, <2>1 DEF EventType
  <2>3. imported' \in Nat /\ finalized <= Len(chain') /\ \A n \in 1..finalized : n \in 1..Len(chain)
    BY <1>1, <2>1, <2>2 DEF EventType
  <2> QED BY <1>1, <2>1, <2>2, <2>3, ChainMoves DEF EventType
<1>4. CASE Events!Finalize
  BY <1>1, <1>4, ChainMoves DEF Events!Finalize, Events!Best, EventType
<1>5. ASSUME NEW event \in BOOLEAN, NEW n \in finalized..(Events!Best - 1), Events!Reorg(n, event)
      PROVE  EventInv'
  <2>1. n \in Nat /\ finalized <= n /\ n < Len(chain)
    BY <1>1 DEF EventType, Events!Best
  <2> PICK kept : kept = SubSeq(chain, 1, n)
    BY Zenon
  <2>2. /\ kept \in Seq(Nat \X BOOLEAN) /\ Len(kept) = n
        /\ \A i \in 1..n : kept[i] = chain[i]
    BY <1>1, <2>1 DEF EventType
  <2>3. /\ chain' = Append(kept, <<imported, event>>) /\ <<imported, event>> \in Nat \X BOOLEAN
        /\ imported' = imported + 1 /\ finalized' = finalized /\ UNCHANGED Events!callVars
    BY Zenon, <1>1, <1>5, <2>2 DEF Events!Reorg, EventType
  <2>4. /\ chain' \in Seq(Nat \X BOOLEAN) /\ Len(chain') = n + 1
        /\ \A i \in 1..n : chain'[i] = kept[i]
    BY <2>1, <2>2, <2>3
  <2>5. imported' \in Nat /\ finalized <= Len(chain') /\ \A i \in 1..finalized : i \in 1..n
    BY <1>1, <2>1, <2>3, <2>4 DEF EventType
  <2> QED BY <1>1, <2>2, <2>3, <2>4, <2>5, ChainMoves DEF EventType
<1>6. CASE UNCHANGED Events!vars
  BY <1>1, <1>6, ChainMoves DEF Events!vars, Events!chainVars, EventType
<1>7. CASE Events!ReadContext
  <2>1. /\ seen' = finalized /\ pc' = "scan" /\ UNCHANGED <<chain, finalized, imported, next>>
    BY Zenon, <1>7 DEF Events!ReadContext, Events!Context, Events!chainVars
  <2>2. EventType' /\ HashFinal'
    BY <1>1, <2>1 DEF EventType, HashFinal
  <2>3. Scanned'
    BY <1>1, <2>1 DEF EventType, Scanned, Events!NoMatch
  <2> QED
    BY Zenon, <2>1, <2>2, <2>3
    DEF EventInv, Events!FirstFinalizedEvent, Events!TimeoutMeansNone, Events!Ended
<1>8. CASE Events!ReadHash
  <2>1. /\ pc' = "events" /\ next <= seen /\ block' = IF next = 0 THEN <<0, FALSE>> ELSE chain[next]
        /\ UNCHANGED <<chain, finalized, imported, seen, next>>
    BY Zenon, <1>8 DEF Events!ReadHash, Events!chainVars
  <2>2. EventType' /\ HashFinal' /\ Scanned'
    BY Zenon, <1>1, <2>1 DEF EventType, HashFinal, Scanned, Events!NoMatch
  <2> QED
    BY Zenon, <2>1, <2>2 DEF EventInv, Events!FirstFinalizedEvent, Events!TimeoutMeansNone, Events!Ended
<1>9. CASE Events!ReadEvents
  <2>1. /\ pc = "events" /\ next <= seen /\ block = IF next = 0 THEN <<0, FALSE>> ELSE chain[next]
        /\ UNCHANGED <<chain, finalized, imported, seen>>
    BY Zenon, <1>1, <1>9 DEF Events!ReadEvents, Events!chainVars, HashFinal
  <2>2. CASE Events!Matches(block)
    <3>1. pc' = "done" /\ result' = [outcome |-> "event", number |-> next, block |-> block] /\ next' = next
      BY Zenon, <1>9, <2>2 DEF Events!ReadEvents, Events!Returns
    <3>2. next # 0
      BY Zenon, <2>1, <2>2 DEF Events!Matches
    <3>3. next \in 1..finalized /\ chain[next] = block
      BY <1>1, <2>1, <3>2 DEF EventType
    <3>4. EventType' /\ HashFinal' /\ Scanned'
      BY Zenon, <1>1, <2>1, <3>1 DEF EventType, HashFinal, Scanned, Events!NoMatch
    <3>5. Events!FirstFinalizedEvent' /\ Events!TimeoutMeansNone'
      BY Zenon, <1>1, <2>1, <2>2, <3>1, <3>3
      DEF Events!FirstFinalizedEvent, Events!TimeoutMeansNone, Events!Ended, Scanned,
          Events!NoMatch, Events!Matches
    <3> QED BY Zenon, <3>4, <3>5 DEF EventInv
  <2>3. CASE ~Events!Matches(block)
    <3>1. pc' = "scan" /\ next' = next + 1
      BY Zenon, <1>9, <2>3 DEF Events!ReadEvents, Events!Following
    <3>2. EventType' /\ HashFinal'
      <4>1. pc' # "events"
        BY Zenon, <3>1
      <4>2. next' \in Nat /\ From <= next'
        BY <1>1, <1>2, <3>1 DEF EventType
      <4> QED BY Zenon, <1>1, <2>1, <4>1, <4>2 DEF EventType, HashFinal
    <3>3. ASSUME NEW n \in (From..next) \cap (1..finalized) PROVE ~Events!Matches(chain[n])
      <4>1. CASE n = next
        BY <1>1, <2>1, <2>3, <4>1 DEF EventType
      <4>2. CASE n # next
        <5>1. n \in From..(next - 1)
          BY <1>1, <1>2, <4>2 DEF EventType
        <5> QED BY Zenon, <1>1, <5>1 DEF Scanned, Events!NoMatch
      <4> QED BY Zenon, <4>1, <4>2
    <3>4. next' - 1 = next /\ next' <= seen + 1
      BY <1>1, <2>1, <3>1 DEF EventType
    <3>5. Scanned'
      BY Zenon, <2>1, <3>3, <3>4 DEF Scanned, Events!NoMatch
    <3> QED
      BY Zenon, <3>1, <3>2, <3>5
      DEF EventInv, Events!FirstFinalizedEvent, Events!TimeoutMeansNone, Events!Ended
  <2> QED BY Zenon, <2>2, <2>3
<1>10. CASE Events!TimesOut
  <2>1. /\ pc' = "done" /\ result' = [outcome |-> "timeout", number |-> next, block |-> block]
        /\ next > seen /\ UNCHANGED <<chain, finalized, imported, seen, next>>
    BY Zenon, <1>10 DEF Events!TimesOut, Events!Returns, Events!chainVars
  <2>2. EventType' /\ HashFinal' /\ Scanned'
    BY Zenon, <1>1, <2>1 DEF EventType, HashFinal, Scanned, Events!NoMatch
  <2>3. \A n \in From..seen : n \in From..(next - 1)
    BY <1>1, <1>2, <2>1 DEF EventType
  <2>4. Events!NoMatch(From..seen)
    BY Zenon, <1>1, <2>3 DEF Scanned, Events!NoMatch
  <2>5. Events!FirstFinalizedEvent' /\ Events!TimeoutMeansNone'
    BY Zenon, <2>1, <2>4
    DEF Events!FirstFinalizedEvent, Events!TimeoutMeansNone, Events!Ended, Events!NoMatch
  <2> QED BY Zenon, <2>2, <2>5 DEF EventInv
<1>11. CASE Events!Sleep
  <2>1. pc' = "context" /\ UNCHANGED <<chain, finalized, imported, seen, next>>
    BY Zenon, <1>11 DEF Events!Sleep, Events!chainVars
  <2>2. EventType' /\ HashFinal' /\ Scanned'
    BY Zenon, <1>1, <2>1 DEF EventType, HashFinal, Scanned, Events!NoMatch
  <2> QED
    BY Zenon, <2>1, <2>2 DEF EventInv, Events!FirstFinalizedEvent, Events!TimeoutMeansNone, Events!Ended
<1>12. CASE Events!RequestFails
  <2>1. /\ pc' = "done" /\ result'.outcome = "error"
        /\ UNCHANGED <<chain, finalized, imported, seen, next>>
    BY Zenon, <1>12 DEF Events!RequestFails, Events!Returns, Events!chainVars
  <2>2. EventType' /\ HashFinal' /\ Scanned'
    BY Zenon, <1>1, <2>1 DEF EventType, HashFinal, Scanned, Events!NoMatch
  <2> QED
    BY Zenon, <2>1, <2>2 DEF EventInv, Events!FirstFinalizedEvent, Events!TimeoutMeansNone, Events!Ended
<1> QED
  BY Zenon, <1>3, <1>4, <1>5, <1>6, <1>7, <1>8, <1>9, <1>10, <1>11, <1>12 DEF Events!Next, Events!Wait

(* For any from_block, any length of the wait and any sequence of imports,    *)
(* reorganisations and finality: the event returned is on the finalized chain *)
(* and the first match, and a timeout has missed nothing that was final when  *)
(* the call last asked.                                                       *)
THEOREM WaitIsExact ==
    ASSUME Events!Assumption
    PROVE  Events!Spec => [](Events!FirstFinalizedEvent /\ Events!TimeoutMeansNone)
<1>1. Events!Init => EventInv
  BY Zenon, InitEvents
<1>2. EventInv /\ [Events!Next]_(Events!vars) => EventInv'
  BY Zenon, NextEvents
<1>3. EventInv => Events!FirstFinalizedEvent /\ Events!TimeoutMeansNone
  BY Zenon DEF EventInv
<1> QED BY <1>1, <1>2, <1>3, PTL DEF Events!Spec
-----------------------------------------------------------------------------
(* The launcher of the development network (module Launcher) *)

CONSTANTS Last, MaxPolls, MaxTicks
VARIABLES phase, child, termed, clock, outcome

Dev == INSTANCE Launcher

LauncherType ==
    /\ child \in [Dev!Children -> {"none", "up", "ready", "mute", "dead"}]
    /\ phase \in ({"spawn", "wait"} \X Dev!Children)
                    \cup ({"monitor", "terminate", "drain", "exited"} \X {0})

(* The children are started one after the other: c is the next one, or the    *)
(* last one started, and those before it have served.                         *)
StartedInOrder ==
    /\ Dev!Starting =>
          \A d \in Dev!Children :
              /\ d > phase[2] => child[d] = "none"
              /\ d < phase[2] => child[d] \in {"ready", "dead"}
    /\ phase[1] = "spawn" => child[phase[2]] = "none"

LauncherInv == LauncherType /\ StartedInOrder /\ Dev!NoOrphans /\ Dev!NetworkReady

(* No child has been started at first. *)
LEMMA InitLauncher == Dev!Assumption /\ Dev!Init => LauncherInv
<1> SUFFICES ASSUME Dev!Assumption, Dev!Init PROVE LauncherInv
  OBVIOUS
<1>1. Last \in Nat /\ 1 \in Dev!Children /\ \A c \in Dev!Children : c \in Nat /\ ~(c < 1)
  BY DEF Dev!Assumption, Dev!Children
<1>2. /\ phase = <<"spawn", 1>> /\ phase[1] = "spawn" /\ phase[2] = 1
      /\ \A c \in Dev!Children : child[c] = "none"
  BY DEF Dev!Init
<1>3. LauncherType
  BY <1>1, <1>2 DEF LauncherType, Dev!Init
<1>4. StartedInOrder
  BY <1>1, <1>2 DEF StartedInOrder
<1>5. Dev!NoOrphans /\ Dev!NetworkReady
  BY <1>2 DEF Dev!NoOrphans, Dev!NetworkReady, Dev!Exited
<1> QED BY <1>3, <1>4, <1>5 DEF LauncherInv

(* A child goes from up or mute to ready, from up to mute, or dies, by itself *)
LEMMA ChildrenMove ==
    ASSUME LauncherInv, NEW c \in Dev!Children,
           phase' = phase, outcome' = outcome,
           \/ child[c] \in {"up", "mute"} /\ child' = [child EXCEPT ![c] = "ready"]
           \/ child[c] = "up" /\ child' = [child EXCEPT ![c] = "mute"]
           \/ c \in Dev!Live /\ child' = [child EXCEPT ![c] = "dead"]
    PROVE  LauncherInv'
<1>1. LauncherType /\ StartedInOrder /\ Dev!NoOrphans /\ Dev!NetworkReady
  BY DEF LauncherInv
<1>2. \A d \in Dev!Children :
          /\ child'[d] \in {"none", "up", "ready", "mute", "dead"}
          /\ child[d] = "none" <=> child'[d] = "none"
          /\ child[d] \in {"ready", "dead"} => child'[d] \in {"ready", "dead"}
          /\ d \in Dev!Live' => d \in Dev!Live
  BY <1>1 DEF LauncherType, Dev!Live
<1>3. LauncherType'
  BY <1>1, <1>2 DEF LauncherType
<1>4. StartedInOrder'
  <2>1. phase[1] = "spawn" => phase[2] \in Dev!Children
    BY <1>1 DEF LauncherType
  <2> QED BY Zenon, <1>1, <1>2, <2>1 DEF StartedInOrder, Dev!Starting
<1>5. Dev!NoOrphans'
  <2>1. Dev!Live' \subseteq Dev!Live
    BY <1>2 DEF Dev!Live
  <2> QED BY <1>1, <2>1 DEF Dev!NoOrphans, Dev!Exited
<1>6. Dev!NetworkReady'
  BY Zenon, <1>1, <1>2 DEF Dev!NetworkReady
<1> QED BY <1>3, <1>4, <1>5, <1>6 DEF LauncherInv

(* run, its signal handlers and the children keep the order of the start, and *)
(* the end leaves nobody behind.                                              *)
LEMMA NextLauncher ==
    Dev!Assumption /\ LauncherInv /\ [Dev!Next]_(Dev!vars) => LauncherInv'
<1> SUFFICES ASSUME Dev!Assumption, LauncherInv, [Dev!Next]_(Dev!vars)
             PROVE  LauncherInv'
  OBVIOUS
<1>1. LauncherType /\ StartedInOrder /\ Dev!NoOrphans /\ Dev!NetworkReady
  BY DEF LauncherInv
<1>2. Last \in Nat /\ \A c \in Dev!Children : c \in Nat /\ 1 <= c /\ c <= Last
  BY DEF Dev!Assumption, Dev!Children
<1>3. ASSUME NEW name \in {"monitor", "terminate", "drain", "exited"}, phase' = <<name, 0>>,
             child' = child, name = "monitor" => phase[1] = "monitor",
             name = "exited" => outcome' \in {"spawn", "killed"}
      PROVE  LauncherInv'
  <2>1. phase'[1] = name /\ phase'[1] \notin {"spawn", "wait"}
    BY <1>3
  <2>2. LauncherType' /\ StartedInOrder' /\ Dev!NetworkReady' /\ Dev!NoOrphans'
    BY <1>1, <1>3, <2>1
    DEF LauncherType, StartedInOrder, Dev!Starting, Dev!NetworkReady, Dev!NoOrphans, Dev!Exited
  <2> QED BY <2>2 DEF LauncherInv
<1>4. ASSUME phase' = phase, child' = child, outcome' = outcome PROVE LauncherInv'
  BY <1>1, <1>4
  DEF LauncherInv, LauncherType, StartedInOrder, Dev!Starting, Dev!NetworkReady, Dev!NoOrphans,
      Dev!Exited, Dev!Live
<1>5. ASSUME NEW c \in Dev!Children, Dev!Spawn(c) PROVE LauncherInv'
  <2>1. /\ phase = <<"spawn", c>> /\ phase[1] = "spawn" /\ phase[2] = c
        /\ phase' = <<"wait", c>> /\ phase'[1] = "wait" /\ phase'[2] = c
        /\ child' = [child EXCEPT ![c] = "up"]
    BY <1>5 DEF Dev!Spawn, Dev!Goto
  <2>2. child'[c] = "up" /\ \A d \in Dev!Children \ {c} : child'[d] = child[d]
    BY <1>1, <2>1 DEF LauncherType
  <2>3. \A d \in Dev!Children : /\ d > c => child'[d] = "none"
                                /\ d < c => child'[d] \in {"ready", "dead"}
    BY <1>1, <1>2, <2>1, <2>2 DEF StartedInOrder, Dev!Starting
  <2>4. LauncherType'
    BY <1>1, <2>1 DEF LauncherType
  <2>5. StartedInOrder'
    BY Zenon, <2>1, <2>3 DEF StartedInOrder, Dev!Starting
  <2>6. Dev!NetworkReady'
    <3> SUFFICES ASSUME NEW b \in Dev!Children, NEW d \in Dev!Children, b < d, child'[d] # "none"
                 PROVE  child'[b] \in {"ready", "dead"}
      BY <2>1 DEF Dev!NetworkReady
    <3>1. ~(d > c)
      BY <2>3
    <3>2. b < c
      BY <1>2, <3>1
    <3> QED BY <2>3, <3>2
  <2>7. Dev!NoOrphans'
    BY <2>1 DEF Dev!NoOrphans, Dev!Exited
  <2> QED BY <2>4, <2>5, <2>6, <2>7 DEF LauncherInv
<1>6. ASSUME NEW c \in Dev!Children, Dev!WaitReady(c) PROVE LauncherInv'
  <2>1. /\ phase = <<"wait", c>> /\ phase[1] = "wait" /\ phase[2] = c
        /\ child[c] = "ready" /\ Dev!NextChild(c) /\ child' = child
    BY <1>6 DEF Dev!WaitReady
  <2>2. \A d \in Dev!Children : /\ d > c => child[d] = "none"
                                /\ d <= c => child[d] \in {"ready", "dead"}
    BY <1>1, <1>2, <2>1 DEF StartedInOrder, Dev!Starting
  <2>3. CASE c = Last
    <3>1. phase' = <<"monitor", 0>> /\ phase'[1] = "monitor"
      BY <2>1, <2>3 DEF Dev!NextChild, Dev!Goto
    <3>2. \A d \in Dev!Children : child'[d] \in {"ready", "dead"}
      BY <1>2, <2>1, <2>2, <2>3
    <3> QED
      BY <1>1, <2>1, <3>1, <3>2
      DEF LauncherInv, LauncherType, StartedInOrder, Dev!Starting, Dev!NetworkReady,
          Dev!NoOrphans, Dev!Exited
  <2>4. CASE c # Last
    <3>1. phase' = <<"spawn", c + 1>> /\ phase'[1] = "spawn" /\ phase'[2] = c + 1
      BY <2>1, <2>4 DEF Dev!NextChild, Dev!Goto
    <3>2. /\ c + 1 \in Dev!Children /\ child[c + 1] = "none"
          /\ \A d \in Dev!Children : /\ d > c + 1 => child[d] = "none"
                                     /\ d < c + 1 => child[d] \in {"ready", "dead"}
      <4>1. c + 1 \in Dev!Children /\ c + 1 > c
        BY <1>2, <2>4 DEF Dev!Children
      <4> QED BY <1>2, <2>2, <4>1
    <3>3. LauncherType'
      BY <1>1, <2>1, <3>1, <3>2 DEF LauncherType
    <3>4. StartedInOrder'
      BY Zenon, <2>1, <3>1, <3>2 DEF StartedInOrder, Dev!Starting
    <3>5. Dev!NetworkReady' /\ Dev!NoOrphans'
      BY <1>1, <2>1, <3>1 DEF Dev!NetworkReady, Dev!NoOrphans, Dev!Exited
    <3> QED BY <3>3, <3>4, <3>5 DEF LauncherInv
  <2> QED BY <2>3, <2>4
<1>7. CASE Dev!Kill
  <2>1. /\ child' = [c \in Dev!Children |-> IF c \in Dev!Live THEN "dead" ELSE child[c]]
        /\ phase' = <<"exited", 0>> /\ phase'[1] = "exited" /\ phase[1] = "drain"
    BY <1>7 DEF Dev!Kill, Dev!Goto
  <2>2. \A d \in Dev!Children :
            /\ child'[d] \in {"none", "ready", "dead"} /\ d \notin Dev!Live'
            /\ child[d] = "none" <=> child'[d] = "none"
            /\ child[d] \in {"ready", "dead"} => child'[d] \in {"ready", "dead"}
    BY <1>1, <2>1 DEF LauncherType, Dev!Live
  <2>3. LauncherType'
    BY <1>1, <2>1, <2>2 DEF LauncherType
  <2>4. Dev!Live' = {}
    BY <2>2 DEF Dev!Live
  <2>5. Dev!NetworkReady'
    BY Zenon, <1>1, <2>1, <2>2 DEF Dev!NetworkReady
  <2> QED
    BY <2>1, <2>3, <2>4, <2>5
    DEF LauncherInv, StartedInOrder, Dev!Starting, Dev!NoOrphans
<1>8. ASSUME NEW c \in Dev!Children, Dev!WaitExited(c) \/ Dev!WaitTimesOut(c) PROVE LauncherInv'
  BY <1>3, <1>8 DEF Dev!WaitExited, Dev!WaitTimesOut, Dev!Shutdown, Dev!Goto
<1>9. ASSUME NEW c \in Dev!Children, Dev!SpawnFails(c) PROVE LauncherInv'
  BY <1>3, <1>9 DEF Dev!SpawnFails, Dev!Goto
<1>10. CASE Dev!MonitorExited \/ Dev!Signal
  BY <1>3, <1>10 DEF Dev!MonitorExited, Dev!Signal, Dev!Shutdown, Dev!Goto
<1>11. CASE Dev!Terminate
  BY <1>3, <1>11 DEF Dev!Terminate, Dev!Goto
<1>12. CASE Dev!Drain
  BY <1>4, <1>12 DEF Dev!Drain
<1>13. ASSUME NEW c \in Dev!Children, Dev!WaitPolls(c) PROVE LauncherInv'
  BY <1>4, <1>13 DEF Dev!WaitPolls
<1>14. ASSUME NEW c \in Dev!Children, Dev!ChildServes(c) \/ Dev!ChildHangs(c) \/ Dev!ChildExits(c)
       PROVE  LauncherInv'
  BY <1>14, ChildrenMove DEF Dev!ChildServes, Dev!ChildHangs, Dev!ChildExits
<1>15. CASE UNCHANGED Dev!vars
  BY <1>4, <1>15 DEF Dev!vars
<1> QED
  BY <1>5, <1>6, <1>7, <1>8, <1>9, <1>10, <1>11, <1>12, <1>13, <1>14, <1>15
  DEF Dev!Next, Dev!Launch

(* For any number of children and any bounds on probes and shutdown: when the *)
(* launcher ends after a shutdown every child has exited, and a child is      *)
(* started only after all earlier ones have served.                           *)
THEOREM LauncherIsSound ==
    ASSUME Dev!Assumption
    PROVE  Dev!Spec => [](Dev!NoOrphans /\ Dev!NetworkReady)
<1>1. Dev!Init => LauncherInv
  BY InitLauncher
<1>2. LauncherInv /\ [Dev!Next]_(Dev!vars) => LauncherInv'
  BY NextLauncher
<1>3. LauncherInv => Dev!NoOrphans /\ Dev!NetworkReady
  BY DEF LauncherInv
<1> QED BY <1>1, <1>2, <1>3, PTL DEF Dev!Spec
-----------------------------------------------------------------------------
(* The compiler service (module Compiler) *)

CONSTANTS Requests, TooLong, Concurrency
VARIABLES direct, state, queue, permits, files, compiling, answer, metrics

Compile == INSTANCE Compiler

(* A vector's elements after a push. *)
LEMMA ElementsAppend ==
    ASSUME NEW S, NEW s \in Seq(S), NEW v \in S
    PROVE  /\ Append(s, v) \in Seq(S)
           /\ Elements(Append(s, v)) = Elements(s) \cup {v}
           /\ Distinct(s) /\ v \notin Elements(s) => Distinct(Append(s, v))
<1>1. DOMAIN s = 1..Len(s) /\ DOMAIN Append(s, v) = 1..(Len(s) + 1) /\ Len(s) \in Nat
  OBVIOUS
<1>2. \A i \in 1..Len(s) : Append(s, v)[i] = s[i]
  OBVIOUS
<1>3. Append(s, v)[Len(s) + 1] = v
  OBVIOUS
<1>4. Elements(Append(s, v)) = Elements(s) \cup {v}
  BY <1>1, <1>2, <1>3 DEF Elements
<1>5. ASSUME Distinct(s), v \notin Elements(s) PROVE Distinct(Append(s, v))
  BY <1>1, <1>2, <1>3, <1>5 DEF Distinct, Elements
<1> QED BY <1>4, <1>5

(* Subsets of T can be counted: what a proof needs of a finite set T *)
Counts(T) ==
    /\ Cardinality({}) = 0
    /\ \A S \in SUBSET T :
          /\ Cardinality(S) \in Nat
          /\ \A x \in T \ S : Cardinality(S \cup {x}) = Cardinality(S) + 1
          /\ \A R \in SUBSET S : Cardinality(R) <= Cardinality(S)

(* One element more counts one more. *)
LEMMA CountAdd ==
    ASSUME NEW T, Counts(T), NEW S \in SUBSET T, NEW x \in T, x \notin S
    PROVE  Cardinality(S) \in Nat /\ Cardinality(S \cup {x}) = Cardinality(S) + 1
  BY DEF Counts

(* One element less counts one less. *)
LEMMA CountRemove ==
    ASSUME NEW T, Counts(T), NEW S \in SUBSET T, NEW x \in S
    PROVE  /\ Cardinality(S \ {x}) \in Nat
           /\ Cardinality(S) = Cardinality(S \ {x}) + 1
<1>1. S \ {x} \in SUBSET T /\ x \in T \ (S \ {x}) /\ (S \ {x}) \cup {x} = S
  OBVIOUS
<1>2. Cardinality((S \ {x}) \cup {x}) = Cardinality(S \ {x}) + 1 /\ Cardinality(S \ {x}) \in Nat
  BY <1>1 DEF Counts
<1> QED BY Zenon, <1>1, <1>2

(* A set that differs from another in one element at most counts as many as   *)
(* it, or one more or less.                                                   *)
LEMMA CountMoves ==
    ASSUME NEW T, Counts(T), NEW S \in SUBSET T, NEW R \in SUBSET T, NEW x \in T,
           \A y \in T : y # x => (y \in R <=> y \in S)
    PROVE  /\ Cardinality(S) \in Nat
           /\ x \in R /\ x \notin S => Cardinality(R) = Cardinality(S) + 1
           /\ x \in S /\ x \notin R => Cardinality(S) = Cardinality(R) + 1
           /\ (x \in S <=> x \in R) => R = S
<1>1. Cardinality(S) \in Nat
  BY Zenon DEF Counts
<1>2. ASSUME x \in R, x \notin S PROVE Cardinality(R) = Cardinality(S) + 1
  <2>1. R = S \cup {x}
    BY Zenon, <1>2
  <2> QED BY Zenon, <1>2, <2>1, CountAdd
<1>3. ASSUME x \in S, x \notin R PROVE Cardinality(S) = Cardinality(R) + 1
  <2>1. R = S \ {x}
    BY Zenon, <1>3
  <2> QED BY Zenon, <1>3, <2>1, CountRemove
<1>4. ASSUME x \in S <=> x \in R PROVE R = S
  <2>1. \A y \in T : y \in R <=> y \in S
    BY <1>4
  <2> QED BY <2>1
<1> QED BY Zenon, <1>1, <1>2, <1>3, <1>4

(* A waiter that is served leaves the queue to the others. *)
LEMMA TailDistinct ==
    ASSUME NEW S, NEW s \in Seq(S), s # <<>>, Distinct(s)
    PROVE  /\ Tail(s) \in Seq(S) /\ Distinct(Tail(s)) /\ Head(s) \in Elements(s)
           /\ Elements(Tail(s)) \subseteq Elements(s) \ {Head(s)}
<1>1. PICK n \in Nat : n = Len(s) /\ n >= 1 /\ DOMAIN s = 1..n /\ Head(s) = s[1]
  OBVIOUS
<1>2. PICK t : t = Tail(s)
  BY Zenon
<1>3. t \in Seq(S) /\ DOMAIN t = 1..(n - 1) /\ \A i \in 1..(n - 1) : t[i] = s[i + 1]
  BY <1>1, <1>2
<1>4. \A i \in 1..(n - 1) : i + 1 \in DOMAIN s /\ i + 1 # 1
  BY <1>1
<1>5. 1 \in DOMAIN s
  BY <1>1
<1>6. Distinct(t)
  <2> SUFFICES ASSUME NEW i \in 1..(n - 1), NEW j \in 1..(n - 1), t[i] = t[j] PROVE i = j
    BY <1>3 DEF Distinct
  <2>1. i + 1 = j + 1
    BY <1>3, <1>4 DEF Distinct
  <2> QED BY <2>1
<1>7. ASSUME NEW i \in 1..(n - 1) PROVE t[i] \in Elements(s) \ {Head(s)}
  <2>1. s[i + 1] # s[1]
    BY <1>4, <1>5 DEF Distinct
  <2> QED BY <1>1, <1>3, <1>4, <2>1 DEF Elements
<1>8. Elements(t) \subseteq Elements(s) \ {Head(s)}
  BY <1>3, <1>7 DEF Elements
<1> QED BY <1>1, <1>2, <1>3, <1>5, <1>6, <1>8 DEF Elements

(* A waiter that is dropped leaves the queue to the others. *)
LEMMA WithoutDistinct ==
    ASSUME NEW S, NEW s \in Seq(S), Distinct(s), NEW x
    PROVE  /\ Compile!Without(s, x) \in Seq(S) /\ Distinct(Compile!Without(s, x))
           /\ Elements(Compile!Without(s, x)) \subseteq Elements(s) \ {x}
<1>1. CASE ~\E i \in DOMAIN s : s[i] = x
  BY <1>1 DEF Compile!Without, Elements
<1>2. CASE \E i \in DOMAIN s : s[i] = x
  <2>1. PICK n \in Nat : n = Len(s) /\ DOMAIN s = 1..n
    OBVIOUS
  <2> DEFINE place == CHOOSE i \in DOMAIN s : s[i] = x
             t == [i \in 1..(n - 1) |-> IF i < place THEN s[i] ELSE s[i + 1]]
  <2>2. Compile!Without(s, x) = t
    BY <1>2, <2>1 DEF Compile!Without
  <2>3. place \in 1..n /\ s[place] = x
    BY <1>2, <2>1
  <2>4. \A i \in 1..(n - 1) : /\ t[i] = IF i < place THEN s[i] ELSE s[i + 1]
                              /\ i \in 1..n /\ i + 1 \in 1..n
    BY <2>1
  <2>5. t \in Seq(S) /\ DOMAIN t = 1..(n - 1)
    BY <2>1, <2>3
  <2> HIDE DEF place, t
  <2>6. ASSUME NEW i \in 1..(n - 1) PROVE t[i] \in Elements(s) \ {x}
    <3>1. PICK j \in 1..n : t[i] = s[j] /\ j # place
      BY <2>3, <2>4
    <3>2. s[j] # x
      BY <2>1, <2>3, <3>1 DEF Distinct
    <3> QED BY <2>1, <3>1, <3>2 DEF Elements
  <2>7. Distinct(t)
    <3> SUFFICES ASSUME NEW i \in 1..(n - 1), NEW j \in 1..(n - 1), t[i] = t[j] PROVE i = j
      BY <2>5 DEF Distinct
    <3>1. /\ t[i] = s[IF i < place THEN i ELSE i + 1] /\ t[j] = s[IF j < place THEN j ELSE j + 1]
          /\ (IF i < place THEN i ELSE i + 1) \in 1..n /\ (IF j < place THEN j ELSE j + 1) \in 1..n
      BY <2>4
    <3>2. (IF i < place THEN i ELSE i + 1) = (IF j < place THEN j ELSE j + 1)
      BY <2>1, <3>1, Zenon DEF Distinct
    <3> QED BY <2>3, <3>2
  <2>8. Elements(t) \subseteq Elements(s) \ {x}
    BY <2>5, <2>6 DEF Elements
  <2> QED BY <2>2, <2>5, <2>7, <2>8
<1> QED BY <1>1, <1>2

Began == {r \in Requests : state[r] # "new"}
Failed == {r \in Requests : answer[r] = "failure"}
Holders == {r \in Requests : state[r] \in {"prepare", "run", "read"}}

CompilerType ==
    /\ state \in [Requests -> {"new", "queued", "prepare", "run", "read", "done", "dropped"}]
    /\ queue \in Seq(Requests) /\ permits \in Nat /\ compiling \subseteq Requests
    /\ answer = [r \in Requests |-> answer[r]]
    /\ files \in [Requests -> [source : Requests \cup {None}, blob : Requests \cup {None}]]
    /\ metrics \in [total : Nat, failed : Nat, timedOut : Nat]

(* The semaphore's queue is that of the requests that wait for it *)
WaitersQueued == Distinct(queue) /\ \A r \in Elements(queue) : state[r] = "queued"

(* What is r's own: nothing of another request is in its directory or answer, *)
(* it has an answer only when it is done, and no compiler of its own runs     *)
(* unless it waits for it.                                                    *)
OwnState(r) ==
    /\ files[r].source \in {None, r} /\ files[r].blob \in {None, r}
    /\ answer[r] \in {None, "failure", r}
    /\ state[r] # "done" => answer[r] = None
    /\ direct /\ r \in compiling => state[r] = "run"

Counted ==
    /\ Cardinality(Holders) + permits = IF Concurrency = 0 THEN 1 ELSE Concurrency
    /\ metrics.total = Cardinality(Began) /\ metrics.failed = Cardinality(Failed)
    /\ metrics.timedOut <= metrics.failed

CompilerInv == CompilerType /\ WaitersQueued /\ (\A r \in Requests : OwnState(r)) /\ Counted

(* The service counts as this module does. *)
LEMMA CompilerCounts ==
    \A S : Compile!Cardinality(S) = Cardinality(S)
  BY DEF Compile!Cardinality, Cardinality, Compile!IsFiniteSet, IsFiniteSet

(* The invariant has what the service promises. *)
LEMMA CompilerPromise ==
    ASSUME Counts(Requests), CompilerInv
    PROVE  Compile!CommandsBounded /\ Compile!OwnBlob /\ Compile!MetricsExact
<1>1. direct => compiling \subseteq Holders
  BY DEF CompilerInv, CompilerType, OwnState, Holders
<1>2. direct => Cardinality(compiling) <= Cardinality(Holders)
  <2>1. Holders \in SUBSET Requests
    BY DEF Holders
  <2> QED BY <1>1, <2>1 DEF Counts
<1>3. Compile!CommandsBounded
  BY Zenon, <1>2, CompilerCounts DEF Compile!CommandsBounded, CompilerInv, Counted, Holders
<1>4. Compile!OwnBlob
  BY Zenon DEF Compile!OwnBlob, CompilerInv, OwnState
<1>5. Compile!MetricsExact
  BY CompilerCounts DEF Compile!MetricsExact, Compile!Number, CompilerInv, Counted, Began, Failed
<1> QED BY <1>3, <1>4, <1>5

(* No request has begun at first. *)
LEMMA InitCompiler ==
    ASSUME Counts(Requests), Compile!Assumption, Compile!Init
    PROVE  CompilerInv
<1>1. /\ state = [r \in Requests |-> "new"] /\ answer = [r \in Requests |-> None]
      /\ queue = <<>> /\ compiling = {} /\ permits = Compile!Permits
      /\ files = [r \in Requests |-> Compile!NoDir]
      /\ metrics = [total |-> 0, failed |-> 0, timedOut |-> 0]
  BY Zenon DEF Compile!Init
<1>2. Compile!Permits \in Nat
  BY DEF Compile!Permits, Compile!Assumption
<1>3. CompilerType
  BY <1>1, <1>2 DEF CompilerType, Compile!NoDir
<1>4. WaitersQueued
  BY <1>1 DEF WaitersQueued, Distinct, Elements
<1>5. \A r \in Requests : OwnState(r)
  BY Zenon, <1>1 DEF OwnState, Compile!NoDir
<1>6. None # "failure" /\ \A r \in Requests : state[r] = "new" /\ answer[r] = None
  BY Zenon, <1>1 DEF Compile!Assumption
<1>7. Holders = {} /\ Began = {} /\ Failed = {} /\ Cardinality({}) = 0
  BY <1>6 DEF Holders, Began, Failed, Counts
<1>8. Counted
  BY <1>1, <1>2, <1>7 DEF Counted, Compile!Permits
<1> QED BY <1>3, <1>4, <1>5, <1>8 DEF CompilerInv

(* A step is one of a single request r: it takes or gives back r's permit,    *)
(* counts r's beginning and r's failure, and leaves the others alone.         *)
RequestMoves(r) ==
    /\ direct' = direct
    /\ \A q \in Requests \ {r} :
          /\ state'[q] = state[q] /\ answer'[q] = answer[q] /\ files'[q] = files[q]
          /\ q \in compiling' <=> q \in compiling
    /\ r \in Began => r \in Began'
    /\ r \in Failed => r \in Failed'
    /\ permits' = IF r \in Holders THEN IF r \in Holders' THEN permits ELSE permits + 1
                                   ELSE IF r \in Holders' THEN permits - 1 ELSE permits
    /\ metrics'.total = IF r \in Began' /\ r \notin Began THEN metrics.total + 1
                                                          ELSE metrics.total
    /\ metrics'.failed = IF r \in Failed' /\ r \notin Failed THEN metrics.failed + 1
                                                            ELSE metrics.failed
    /\ \/ metrics'.timedOut = metrics.timedOut
       \/ metrics'.timedOut = metrics.timedOut + 1 /\ metrics'.failed = metrics.failed + 1

(* Such a step keeps permits and counters exact. *)
LEMMA CountedMoves ==
    ASSUME Counts(Requests), CompilerType, CompilerType', Counted,
           NEW r \in Requests, RequestMoves(r)
    PROVE  Counted'
<1> USE DEF Counted
<1>1. /\ Holders \in SUBSET Requests /\ Holders' \in SUBSET Requests
      /\ Began \in SUBSET Requests /\ Began' \in SUBSET Requests
      /\ Failed \in SUBSET Requests /\ Failed' \in SUBSET Requests
  BY DEF Holders, Began, Failed
<1>2. \A q \in Requests : q # r => /\ q \in Holders' <=> q \in Holders
                                   /\ q \in Began' <=> q \in Began
                                   /\ q \in Failed' <=> q \in Failed
  BY Zenon DEF RequestMoves, Holders, Began, Failed
<1>3. (r \in Began => r \in Began') /\ (r \in Failed => r \in Failed')
  BY Zenon DEF RequestMoves
<1>4. permits \in Nat /\ permits' \in Nat /\ metrics.timedOut \in Nat /\ metrics.failed \in Nat
  BY DEF CompilerType
<1> DEFINE Differ(S, R) == \A y \in Requests : y # r => (y \in R <=> y \in S)
           Counting(S, R) == /\ Cardinality(S) \in Nat /\ Cardinality(R) \in Nat
                             /\ r \in R /\ r \notin S => Cardinality(R) = Cardinality(S) + 1
                             /\ r \in S /\ r \notin R => Cardinality(S) = Cardinality(R) + 1
                             /\ (r \in S <=> r \in R) => R = S
<1>c. \A S, R \in SUBSET Requests : Differ(S, R) => Counting(S, R)
  <2> SUFFICES ASSUME NEW S \in SUBSET Requests, NEW R \in SUBSET Requests, Differ(S, R)
               PROVE  Counting(S, R)
    OBVIOUS
  <2>1. Cardinality(R) \in Nat
    BY Zenon DEF Counts
  <2>2. \A y \in Requests : y # r => (y \in R <=> y \in S)
    BY Zenon
  <2>3. /\ Cardinality(S) \in Nat
        /\ r \in R /\ r \notin S => Cardinality(R) = Cardinality(S) + 1
        /\ r \in S /\ r \notin R => Cardinality(S) = Cardinality(R) + 1
        /\ (r \in S <=> r \in R) => R = S
    <3> HIDE DEF Differ, Counting
    <3> QED BY ONLY Counts(Requests), S \in SUBSET Requests, R \in SUBSET Requests,
                   r \in Requests, <2>2, CountMoves, ZenonT(40)
  <2> QED BY Zenon, <2>1, <2>3
<1>d. Differ(Holders, Holders') /\ Differ(Began, Began') /\ Differ(Failed, Failed')
  BY Zenon, <1>2
<1> HIDE DEF Differ
<1>e. Counting(Holders, Holders') /\ Counting(Began, Began') /\ Counting(Failed, Failed')
  BY Zenon, <1>1, <1>c, <1>d
<1>5. Cardinality(Holders') + permits' = Cardinality(Holders) + permits
  <2>1. /\ Cardinality(Holders) \in Nat /\ Cardinality(Holders') \in Nat
        /\ r \in Holders' /\ r \notin Holders => Cardinality(Holders') = Cardinality(Holders) + 1
        /\ r \in Holders /\ r \notin Holders' => Cardinality(Holders) = Cardinality(Holders') + 1
        /\ (r \in Holders <=> r \in Holders') => Holders' = Holders
    BY Zenon, <1>e
  <2>2. permits' = IF r \in Holders THEN IF r \in Holders' THEN permits ELSE permits + 1
                                    ELSE IF r \in Holders' THEN permits - 1 ELSE permits
    BY ZenonT(40) DEF RequestMoves
  <2> QED BY <1>4, <2>1, <2>2
<1>6. metrics'.total = Cardinality(Began')
  <2>1. /\ Cardinality(Began) \in Nat
        /\ r \in Began' /\ r \notin Began => Cardinality(Began') = Cardinality(Began) + 1
        /\ ~(r \in Began' /\ r \notin Began) => Began' = Began
    BY Zenon, <1>3, <1>e
  <2> QED BY <2>1 DEF RequestMoves
<1>7. metrics'.failed = Cardinality(Failed')
  <2>1. /\ Cardinality(Failed) \in Nat
        /\ r \in Failed' /\ r \notin Failed => Cardinality(Failed') = Cardinality(Failed) + 1
        /\ ~(r \in Failed' /\ r \notin Failed) => Failed' = Failed
    BY Zenon, <1>3, <1>e
  <2> QED BY <2>1 DEF RequestMoves
<1>8. metrics'.timedOut <= metrics'.failed
  BY <1>4 DEF RequestMoves
<1> QED BY ZenonT(40), <1>5, <1>6, <1>7, <1>8

(* What is another request's stays its own. *)
LEMMA CompilerMoves ==
    ASSUME Counts(Requests), CompilerInv, NEW r \in Requests, RequestMoves(r),
           CompilerType', WaitersQueued', OwnState(r)'
    PROVE  CompilerInv'
<1>1. ASSUME NEW q \in Requests, q # r PROVE OwnState(q)'
  <2>1. OwnState(q)
    BY Zenon DEF CompilerInv
  <2>2. /\ direct' = direct /\ state'[q] = state[q] /\ answer'[q] = answer[q]
        /\ files'[q] = files[q] /\ (q \in compiling' <=> q \in compiling)
    BY <1>1 DEF RequestMoves
  <2> QED BY Zenon, <2>1, <2>2 DEF OwnState
<1>2. \A q \in Requests : OwnState(q)'
  BY Zenon, <1>1
<1>3. Counted'
  BY Zenon, CountedMoves DEF CompilerInv
<1> QED BY Zenon, <1>2, <1>3 DEF CompilerInv

(* A request that is answered or dropped gives back what it holds: the permit *)
(* and the directory.                                                         *)
LEMMA RequestLeaves ==
    ASSUME CompilerInv, NEW r \in Requests, NEW how \in {"done", "dropped"},
           Compile!Leave(r, how)
    PROVE  /\ state' \in [Requests -> {"new", "queued", "prepare", "run", "read", "done", "dropped"}]
           /\ files' \in [Requests -> [source : Requests \cup {None}, blob : Requests \cup {None}]]
           /\ permits' \in Nat /\ state'[r] = how /\ r \notin Holders' /\ r \in Began'
           /\ permits' = IF r \in Holders THEN permits + 1 ELSE permits
           /\ files'[r].source \in {None, r} /\ files'[r].blob \in {None, r}
           /\ \A q \in Requests \ {r} : state'[q] = state[q] /\ files'[q] = files[q]
<1>1. CompilerType /\ OwnState(r)
  BY Zenon DEF CompilerInv
<1>2. Compile!Holds(r) <=> r \in Holders
  BY DEF Compile!Holds, Holders
<1>3. /\ state' = [state EXCEPT ![r] = how]
      /\ permits' = IF r \in Holders THEN permits + 1 ELSE permits
      /\ files' = IF r \in Holders THEN [files EXCEPT ![r] = Compile!NoDir] ELSE files
  BY <1>2 DEF Compile!Leave, Compile!Dir
<1>4. state' \in [Requests -> {"new", "queued", "prepare", "run", "read", "done", "dropped"}]
      /\ state'[r] = how /\ \A q \in Requests \ {r} : state'[q] = state[q]
  BY <1>1, <1>3 DEF CompilerType
<1>5. r \notin Holders' /\ r \in Began'
  BY Zenon, <1>4 DEF Holders, Began
<1>6. /\ files' \in [Requests -> [source : Requests \cup {None}, blob : Requests \cup {None}]]
      /\ files'[r].source \in {None, r} /\ files'[r].blob \in {None, r}
      /\ \A q \in Requests \ {r} : files'[q] = files[q]
  BY <1>1, <1>3 DEF CompilerType, OwnState, Compile!NoDir
<1>7. permits' \in Nat
  BY ONLY <1>1, <1>3 DEF CompilerType
<1> QED BY Zenon, <1>3, <1>4, <1>5, <1>6, <1>7

(* The queue is left alone by a step of a request that does not wait in it. *)
LEMMA QueueStays ==
    ASSUME CompilerInv, NEW r \in Requests, state[r] # "queued", queue' = queue,
           \A q \in Requests \ {r} : state'[q] = state[q]
    PROVE  WaitersQueued'
<1>1. Elements(queue) \subseteq Requests
  BY DEF CompilerInv, CompilerType, Elements
<1> QED BY <1>1 DEF CompilerInv, WaitersQueued

(* A request is answered once, with a failure that is counted or with the     *)
(* blob of its own.                                                           *)
LEMMA RequestAnswered ==
    ASSUME Counts(Requests), Compile!Assumption, CompilerInv, NEW r \in Requests,
           NEW a \in {"failure", r}, NEW late \in {0, 1}, state[r] \notin {"queued", "done"},
           Compile!Answer(r, a), queue' = queue, direct' = direct,
           compiling' \in {compiling, compiling \ {r}},
           state[r] = "run" /\ direct => r \notin compiling',
           metrics' = [total    |-> metrics.total + (IF r \in Began THEN 0 ELSE 1),
                       failed   |-> metrics.failed + (IF a = "failure" THEN 1 ELSE 0),
                       timedOut |-> metrics.timedOut + late],
           late = 1 => a = "failure"
    PROVE  CompilerInv'
<1>1. CompilerType /\ OwnState(r)
  BY Zenon DEF CompilerInv
<1>2. Compile!Leave(r, "done") /\ answer' = [answer EXCEPT ![r] = a]
  BY Zenon DEF Compile!Answer
<1>3. /\ state' \in [Requests -> {"new", "queued", "prepare", "run", "read", "done", "dropped"}]
      /\ files' \in [Requests -> [source : Requests \cup {None}, blob : Requests \cup {None}]]
      /\ permits' \in Nat /\ state'[r] = "done" /\ r \notin Holders' /\ r \in Began'
      /\ permits' = IF r \in Holders THEN permits + 1 ELSE permits
      /\ files'[r].source \in {None, r} /\ files'[r].blob \in {None, r}
      /\ \A q \in Requests \ {r} : state'[q] = state[q] /\ files'[q] = files[q]
  BY Zenon, <1>2, RequestLeaves
<1>4. /\ answer' = [q \in Requests |-> answer'[q]] /\ answer'[r] = a
      /\ \A q \in Requests \ {r} : answer'[q] = answer[q]
  BY <1>1, <1>2, Zenon DEF CompilerType
<1>5. answer[r] = None /\ None # "failure" /\ r # "failure"
  BY <1>1 DEF OwnState, Compile!Assumption
<1>6. (r \in Failed' <=> a = "failure") /\ r \notin Failed
  BY Zenon, <1>4, <1>5 DEF Failed
<1>7. /\ metrics'.total = metrics.total + (IF r \in Began THEN 0 ELSE 1)
      /\ metrics'.failed = metrics.failed + (IF a = "failure" THEN 1 ELSE 0)
      /\ metrics'.timedOut = metrics.timedOut + late
      /\ metrics' \in [total : Nat, failed : Nat, timedOut : Nat]
  BY <1>1 DEF CompilerType
<1>8. metrics.total \in Nat /\ metrics.failed \in Nat /\ metrics.timedOut \in Nat
  BY Zenon, <1>1 DEF CompilerType
<1>9. CompilerType'
  BY ZenonT(40), <1>1, <1>3, <1>4, <1>7 DEF CompilerType
<1>10. OwnState(r)'
  BY <1>1, <1>3, <1>4 DEF OwnState
<1>11. WaitersQueued'
  BY Zenon, <1>3, QueueStays
<1>12. RequestMoves(r)
  <2>1. \A q \in Requests \ {r} :
          /\ state'[q] = state[q] /\ answer'[q] = answer[q] /\ files'[q] = files[q]
          /\ q \in compiling' <=> q \in compiling
    BY ZenonT(40), <1>3, <1>4
  <2>2. /\ metrics'.total = IF r \in Began' /\ r \notin Began THEN metrics.total + 1
                                                             ELSE metrics.total
        /\ metrics'.failed = IF r \in Failed' /\ r \notin Failed THEN metrics.failed + 1
                                                                ELSE metrics.failed
        /\ \/ metrics'.timedOut = metrics.timedOut
           \/ metrics'.timedOut = metrics.timedOut + 1 /\ metrics'.failed = metrics.failed + 1
    BY <1>3, <1>6, <1>7, <1>8
  <2> QED BY Zenon, <1>3, <1>6, <2>1, <2>2 DEF RequestMoves
<1> QED BY Zenon, <1>9, <1>10, <1>11, <1>12, CompilerMoves

(* A step of a request that neither is answered nor fails *)
LEMMA RequestGoesOn ==
    ASSUME Counts(Requests), Compile!Assumption, CompilerInv, NEW r \in Requests,
           direct' = direct, answer' = answer, metrics' = metrics,
           CompilerType', WaitersQueued', OwnState(r)', state[r] # "new", state'[r] # "new",
           \A q \in Requests \ {r} : /\ state'[q] = state[q] /\ files'[q] = files[q]
                                     /\ q \in compiling' <=> q \in compiling,
           permits' = IF r \in Holders THEN IF r \in Holders' THEN permits ELSE permits + 1
                                       ELSE IF r \in Holders' THEN permits - 1 ELSE permits
    PROVE  CompilerInv'
<1>1. r \in Began /\ r \in Began' /\ (r \in Failed <=> r \in Failed')
  BY DEF Began, Failed
<1>2. RequestMoves(r)
  BY Zenon, <1>1 DEF RequestMoves
<1> QED BY ZenonT(40), <1>2, CompilerMoves

(* A request that has begun fails. *)
LEMMA RequestFails ==
    ASSUME Counts(Requests), Compile!Assumption, CompilerInv, NEW r \in Requests,
           Compile!Failure(r), state[r] \in {"prepare", "read"}, compiling' = compiling,
           queue' = queue, direct' = direct
    PROVE  CompilerInv'
<1>1. metrics \in [total : Nat, failed : Nat, timedOut : Nat]
  BY Zenon DEF CompilerInv, CompilerType
<1>2. metrics' = [metrics EXCEPT !.failed = @ + 1] /\ Compile!Answer(r, "failure")
  BY Zenon DEF Compile!Failure
<1>3. /\ metrics.total + (IF r \in Began THEN 0 ELSE 1) = metrics.total
      /\ metrics.timedOut + 0 = metrics.timedOut
  BY <1>1 DEF Began
<1>4. metrics' = [total |-> metrics.total, failed |-> metrics.failed + 1,
                  timedOut |-> metrics.timedOut]
  BY ZenonT(40), <1>1, <1>2
<1>5. metrics' = [total    |-> metrics.total + (IF r \in Began THEN 0 ELSE 1),
                  failed   |-> metrics.failed + (IF "failure" = "failure" THEN 1 ELSE 0),
                  timedOut |-> metrics.timedOut + 0]
  BY <1>3, <1>4
<1> QED BY <1>2, <1>5, RequestAnswered, Zenon

(* A request arrives: refused for its length, or at the end of the queue. *)
LEMMA CompilerBegin ==
    ASSUME Counts(Requests), Compile!Assumption, CompilerInv, NEW r \in Requests, Compile!Begin(r)
    PROVE  CompilerInv'
<1>1. CompilerType /\ OwnState(r) /\ state[r] = "new" /\ WaitersQueued
  BY Zenon DEF CompilerInv, Compile!Begin
<1>2. r \notin Began /\ r \notin Holders
  BY <1>1 DEF Began, Holders
<1>3. direct' = direct /\ compiling' = compiling
  BY Zenon DEF Compile!Begin
<1>4. CASE r \in TooLong
  <2>1. /\ Compile!Leave(r, "done") /\ answer' = [answer EXCEPT ![r] = "failure"]
        /\ metrics' = [metrics EXCEPT !.total = @ + 1, !.failed = @ + 1] /\ queue' = queue
    BY <1>4 DEF Compile!Begin
  <2>2. metrics' = [total    |-> metrics.total + (IF r \in Began THEN 0 ELSE 1),
                    failed   |-> metrics.failed + (IF "failure" = "failure" THEN 1 ELSE 0),
                    timedOut |-> metrics.timedOut + 0]
    <3>1. metrics \in [total : Nat, failed : Nat, timedOut : Nat]
      BY Zenon, <1>1 DEF CompilerType
    <3>2. /\ metrics.total + (IF r \in Began THEN 0 ELSE 1) = metrics.total + 1
          /\ metrics.timedOut + 0 = metrics.timedOut
      BY <1>2, <3>1
    <3>3. metrics' = [total |-> metrics.total + 1, failed |-> metrics.failed + 1,
                      timedOut |-> metrics.timedOut]
      BY <2>1, <3>1, Zenon
    <3> QED BY Zenon, <3>2, <3>3
  <2>3. Compile!Answer(r, "failure")
    BY Zenon, <2>1 DEF Compile!Answer
  <2> QED BY <1>1, <1>3, <2>1, <2>2, <2>3, RequestAnswered, Zenon
<1>5. CASE r \notin TooLong
  <2>1. /\ state' = [state EXCEPT ![r] = "queued"] /\ queue' = Append(queue, r)
        /\ metrics' = [metrics EXCEPT !.total = @ + 1]
        /\ permits' = permits /\ files' = files /\ answer' = answer
    BY <1>5 DEF Compile!Begin
  <2>2. r \notin Elements(queue) /\ Elements(queue) \subseteq Requests /\ queue \in Seq(Requests)
    BY <1>1 DEF WaitersQueued, CompilerType, Elements
  <2>3. /\ queue' \in Seq(Requests) /\ Elements(queue') = Elements(queue) \cup {r}
        /\ Distinct(queue')
    BY ZenonT(40), <1>1, <2>1, <2>2, ElementsAppend DEF WaitersQueued
  <2>4. /\ state' \in [Requests -> {"new", "queued", "prepare", "run", "read", "done", "dropped"}]
        /\ state'[r] = "queued" /\ \A q \in Requests \ {r} : state'[q] = state[q]
    BY <1>1, <2>1 DEF CompilerType
  <2>5. /\ metrics'.total = metrics.total + 1 /\ metrics'.failed = metrics.failed
        /\ metrics'.timedOut = metrics.timedOut
        /\ metrics' \in [total : Nat, failed : Nat, timedOut : Nat]
    BY <1>1, <2>1 DEF CompilerType
  <2>6. CompilerType'
    BY Zenon, <1>1, <1>3, <2>1, <2>3, <2>4, <2>5 DEF CompilerType
  <2>7. WaitersQueued'
    BY Zenon, <1>1, <2>2, <2>3, <2>4 DEF WaitersQueued
  <2>8. OwnState(r)'
    BY <1>1, <1>3, <2>1, <2>4 DEF OwnState
  <2>9. r \in Began' /\ r \notin Holders' /\ (r \in Failed <=> r \in Failed')
    BY <2>1, <2>4 DEF Began, Holders, Failed
  <2>10. RequestMoves(r)
    BY Zenon, <1>2, <1>3, <2>1, <2>4, <2>5, <2>9 DEF RequestMoves
  <2> QED BY Zenon, <2>6, <2>7, <2>8, <2>10, CompilerMoves
<1> QED BY Zenon, <1>4, <1>5

(* The first waiter gets a permit. *)
LEMMA CompilerAcquire ==
    ASSUME Counts(Requests), Compile!Assumption, CompilerInv, NEW r \in Requests, Compile!Acquire(r)
    PROVE  CompilerInv'
<1>1. CompilerType /\ OwnState(r) /\ WaitersQueued
  BY Zenon DEF CompilerInv
<1>2. /\ queue # <<>> /\ Head(queue) = r /\ permits > 0 /\ permits' = permits - 1
      /\ queue' = Tail(queue) /\ state' = [state EXCEPT ![r] = "prepare"]
      /\ direct' = direct /\ files' = files /\ compiling' = compiling /\ answer' = answer
      /\ metrics' = metrics
  BY Zenon DEF Compile!Acquire
<1>3. queue \in Seq(Requests) /\ Distinct(queue)
  BY Zenon, <1>1 DEF CompilerType, WaitersQueued
<1>4. /\ queue' \in Seq(Requests) /\ Distinct(queue') /\ r \in Elements(queue)
      /\ Elements(queue') \subseteq Elements(queue) \ {r}
  BY Zenon, <1>2, <1>3, TailDistinct
<1>5. Elements(queue) \subseteq Requests
  BY <1>3 DEF Elements
<1>6. state[r] = "queued"
  BY Zenon, <1>1, <1>4 DEF WaitersQueued
<1>7. /\ state' \in [Requests -> {"new", "queued", "prepare", "run", "read", "done", "dropped"}]
      /\ state'[r] = "prepare" /\ \A q \in Requests \ {r} : state'[q] = state[q]
  BY Zenon, <1>1, <1>2 DEF CompilerType
<1>8. CompilerType'
  BY <1>1, <1>2, <1>4, <1>7 DEF CompilerType
<1>9. WaitersQueued'
  BY ZenonT(40), <1>1, <1>4, <1>5, <1>7 DEF WaitersQueued
<1>10. OwnState(r)'
  BY Zenon, <1>1, <1>2, <1>6, <1>7 DEF OwnState
<1>11. r \notin Holders /\ r \in Holders'
  BY <1>6, <1>7 DEF Holders
<1>12. \A q \in Requests \ {r} : /\ state'[q] = state[q] /\ files'[q] = files[q]
                                 /\ q \in compiling' <=> q \in compiling
  BY Zenon, <1>2, <1>7
<1>13. state[r] # "new" /\ state'[r] # "new"
  BY <1>6, <1>7
<1>14. permits' = IF r \in Holders THEN IF r \in Holders' THEN permits ELSE permits + 1
                                   ELSE IF r \in Holders' THEN permits - 1 ELSE permits
  BY Zenon, <1>2, <1>11
<1> QED BY ZenonT(40), <1>2, <1>8, <1>9, <1>10, <1>12, <1>13, <1>14, RequestGoesOn

(* The directory is made and the command started, or the request fails. *)
LEMMA CompilerPrepare ==
    ASSUME Counts(Requests), Compile!Assumption, CompilerInv, NEW r \in Requests, Compile!Prepare(r)
    PROVE  CompilerInv'
<1>1. CompilerType /\ OwnState(r) /\ WaitersQueued
  BY Zenon DEF CompilerInv
<1>2. state[r] = "prepare" /\ direct' = direct /\ queue' = queue
  BY Zenon DEF Compile!Prepare
<1>3. r \in Began /\ r \in Holders
  BY <1>2 DEF Began, Holders
<1>4. CASE Compile!Failure(r) /\ compiling' = compiling
  BY Zenon, <1>1, <1>2, <1>3, <1>4, RequestFails
<1>5. CASE /\ files' = [files EXCEPT ![r] = [source |-> r, blob |-> None]]
           /\ state' = [state EXCEPT ![r] = "run"] /\ compiling' = compiling \cup {r}
           /\ permits' = permits /\ answer' = answer /\ metrics' = metrics
  <2>1. /\ state' \in [Requests -> {"new", "queued", "prepare", "run", "read", "done", "dropped"}]
        /\ state'[r] = "run" /\ \A q \in Requests \ {r} : state'[q] = state[q]
    BY Zenon, <1>1, <1>5 DEF CompilerType
  <2>2. /\ files' \in [Requests -> [source : Requests \cup {None}, blob : Requests \cup {None}]]
        /\ files'[r].source \in {None, r} /\ files'[r].blob \in {None, r}
        /\ \A q \in Requests \ {r} : files'[q] = files[q]
    BY Zenon, <1>1, <1>5 DEF CompilerType
  <2>3. CompilerType'
    BY ZenonT(40), <1>1, <1>2, <1>5, <2>1, <2>2 DEF CompilerType
  <2>4. OwnState(r)'
    BY <1>1, <1>2, <1>5, <2>1, <2>2 DEF OwnState
  <2>5. state[r] # "queued" /\ state[r] # "new" /\ state'[r] # "new"
    BY <1>2, <2>1
  <2>6. WaitersQueued'
    BY Zenon, <1>2, <2>1, <2>5, QueueStays
  <2>7. r \in Holders'
    BY Zenon, <2>1 DEF Holders
  <2>8. \A q \in Requests \ {r} : /\ state'[q] = state[q] /\ files'[q] = files[q]
                                  /\ q \in compiling' <=> q \in compiling
    BY <1>5, <2>1, <2>2
  <2> QED BY ZenonT(40), <1>2, <1>3, <1>5, <2>3, <2>4, <2>5, <2>6, <2>7, <2>8, RequestGoesOn
<1>6. \/ Compile!Failure(r) /\ compiling' = compiling
      \/ /\ files' = [files EXCEPT ![r] = [source |-> r, blob |-> None]]
         /\ state' = [state EXCEPT ![r] = "run"] /\ compiling' = compiling \cup {r}
         /\ permits' = permits /\ answer' = answer /\ metrics' = metrics
  BY Zenon DEF Compile!Prepare, Compile!Dir
<1> QED BY Zenon, <1>4, <1>5, <1>6

(* The compiler exits; its blob, if any, is of the source in its directory. *)
LEMMA CompilerExits ==
    ASSUME Counts(Requests), Compile!Assumption, CompilerInv, NEW r \in Requests, Compile!Compile(r)
    PROVE  CompilerInv'
<1>1. CompilerType /\ OwnState(r) /\ WaitersQueued
  BY Zenon DEF CompilerInv
<1>2. /\ r \in compiling /\ compiling' = compiling \ {r} /\ direct' = direct /\ queue' = queue
      /\ permits' = permits /\ answer' = answer /\ metrics' = metrics
  BY Zenon DEF Compile!Compile
<1>3. CASE state[r] # "run"
  <2>1. state' = state /\ files' = files
    BY Zenon, <1>3 DEF Compile!Compile
  <2>2. CompilerType'
    BY <1>1, <1>2, <2>1 DEF CompilerType
  <2>3. \A q \in Requests : OwnState(q)'
    BY <1>2, <2>1, Zenon DEF CompilerInv, OwnState
  <2>4. WaitersQueued' /\ Counted'
    BY Zenon, <1>2, <2>1 DEF CompilerInv, WaitersQueued, Counted, Holders, Began, Failed
  <2> QED BY Zenon, <2>2, <2>3, <2>4 DEF CompilerInv
<1>4. CASE state[r] = "run"
  <2>1. /\ state' = [state EXCEPT ![r] = "read"]
        /\ files' = files \/ files' = [files EXCEPT ![r].blob = files[r].source]
    BY Zenon, <1>4 DEF Compile!Compile, Compile!Dir
  <2>2. /\ state' \in [Requests -> {"new", "queued", "prepare", "run", "read", "done", "dropped"}]
        /\ state'[r] = "read" /\ \A q \in Requests \ {r} : state'[q] = state[q]
    BY <1>1, <2>1 DEF CompilerType
  <2>3. /\ files' \in [Requests -> [source : Requests \cup {None}, blob : Requests \cup {None}]]
        /\ files'[r].source \in {None, r} /\ files'[r].blob \in {None, r}
        /\ \A q \in Requests \ {r} : files'[q] = files[q]
    BY <1>1, <2>1 DEF CompilerType, OwnState
  <2>4. CompilerType'
    BY ZenonT(40), <1>1, <1>2, <2>2, <2>3 DEF CompilerType
  <2>5. OwnState(r)'
    BY Zenon, <1>1, <1>2, <1>4, <2>2, <2>3 DEF OwnState
  <2>6. state[r] # "queued" /\ state[r] # "new" /\ state'[r] # "new"
    BY <1>4, <2>2
  <2>7. WaitersQueued'
    BY Zenon, <1>2, <2>2, <2>6, QueueStays
  <2>8. r \in Holders /\ r \in Holders'
    BY ZenonT(40), <1>4, <2>2 DEF Holders
  <2>9. \A q \in Requests \ {r} : /\ state'[q] = state[q] /\ files'[q] = files[q]
                                  /\ q \in compiling' <=> q \in compiling
    BY Zenon, <1>2, <2>2, <2>3
  <2> QED BY ZenonT(40), <1>2, <2>4, <2>5, <2>6, <2>7, <2>8, <2>9, RequestGoesOn
<1> QED BY Zenon, <1>3, <1>4

(* The command takes too long: it is killed, and the failure counted. *)
LEMMA CompilerTimeout ==
    ASSUME Counts(Requests), Compile!Assumption, CompilerInv, NEW r \in Requests, Compile!Timeout(r)
    PROVE  CompilerInv'
<1>1. CompilerType /\ OwnState(r) /\ WaitersQueued
  BY Zenon DEF CompilerInv
<1>2. /\ state[r] = "run" /\ direct' = direct /\ queue' = queue /\ Compile!Answer(r, "failure")
      /\ metrics' = [metrics EXCEPT !.failed = @ + 1, !.timedOut = @ + 1]
      /\ compiling' = Compile!Killed(r)
  BY Zenon DEF Compile!Timeout
<1>3. /\ compiling' \in {compiling, compiling \ {r}} /\ state[r] \notin {"queued", "done"}
      /\ state[r] = "run" /\ direct => r \notin compiling'
  BY <1>2 DEF Compile!Killed
<1>4. metrics' = [total    |-> metrics.total + (IF r \in Began THEN 0 ELSE 1),
                  failed   |-> metrics.failed + (IF "failure" = "failure" THEN 1 ELSE 0),
                  timedOut |-> metrics.timedOut + 1]
  <2>1. metrics \in [total : Nat, failed : Nat, timedOut : Nat]
    BY Zenon, <1>1 DEF CompilerType
  <2>2. metrics.total + (IF r \in Began THEN 0 ELSE 1) = metrics.total
    BY <1>2, <2>1 DEF Began
  <2>3. metrics' = [total |-> metrics.total, failed |-> metrics.failed + 1,
                    timedOut |-> metrics.timedOut + 1]
    BY Zenon, <1>2, <2>1
  <2> QED BY <2>2, <2>3, Zenon
<1> QED BY Zenon, <1>2, <1>3, <1>4, RequestAnswered

(* The answer is the blob in the request's directory, or a failure. *)
LEMMA CompilerRead ==
    ASSUME Counts(Requests), Compile!Assumption, CompilerInv, NEW r \in Requests, Compile!Read(r)
    PROVE  CompilerInv'
<1>1. CompilerType /\ OwnState(r)
  BY Zenon DEF CompilerInv
<1>2. state[r] = "read" /\ direct' = direct /\ queue' = queue /\ compiling' = compiling
  BY Zenon DEF Compile!Read
<1>3. CASE Compile!Failure(r)
  BY <1>2, <1>3, RequestFails
<1>4. CASE files[r].blob # None /\ Compile!Answer(r, files[r].blob) /\ metrics' = metrics
  <2>1. files[r].blob = r /\ r # "failure"
    BY <1>1, <1>4 DEF OwnState, Compile!Assumption
  <2>2. Compile!Answer(r, r)
    BY Zenon, <1>4, <2>1
  <2>3. metrics \in [total : Nat, failed : Nat, timedOut : Nat]
    BY Zenon, <1>1 DEF CompilerType
  <2>4. /\ metrics.total + (IF r \in Began THEN 0 ELSE 1) = metrics.total
        /\ metrics.failed + (IF r = "failure" THEN 1 ELSE 0) = metrics.failed
        /\ metrics.timedOut + 0 = metrics.timedOut
    BY <1>2, <2>1, <2>3 DEF Began
  <2>5. metrics' = [total |-> metrics.total, failed |-> metrics.failed,
                    timedOut |-> metrics.timedOut]
    BY ZenonT(40), <1>4, <2>3
  <2>6. metrics' = [total    |-> metrics.total + (IF r \in Began THEN 0 ELSE 1),
                    failed   |-> metrics.failed + (IF r = "failure" THEN 1 ELSE 0),
                    timedOut |-> metrics.timedOut + 0]
    BY <2>4, <2>5
  <2>7. /\ r \in {"failure", r} /\ 0 \in {0, 1} /\ state[r] \notin {"queued", "done"}
        /\ ~(state[r] = "run" /\ direct) /\ 0 # 1
        /\ compiling' \in {compiling, compiling \ {r}}
    BY <1>2
  <2> QED BY ZenonT(40), <1>2, <2>2, <2>6, <2>7, RequestAnswered
<1>5. \/ Compile!Failure(r)
      \/ files[r].blob # None /\ Compile!Answer(r, files[r].blob) /\ metrics' = metrics
  BY Zenon DEF Compile!Read, Compile!Dir
<1> QED BY Zenon, <1>3, <1>4, <1>5

(* The client goes away while its request waits or runs. *)
LEMMA CompilerDisconnect ==
    ASSUME Counts(Requests), Compile!Assumption, CompilerInv, NEW r \in Requests,
           Compile!Disconnect(r)
    PROVE  CompilerInv'
<1>1. CompilerType /\ OwnState(r) /\ WaitersQueued
  BY Zenon DEF CompilerInv
<1>2. /\ state[r] \in {"queued", "run"} /\ Compile!Leave(r, "dropped")
      /\ queue' = Compile!Without(queue, r) /\ compiling' = Compile!Killed(r)
      /\ direct' = direct /\ answer' = answer /\ metrics' = metrics
  BY Zenon DEF Compile!Disconnect
<1>3. /\ state' \in [Requests -> {"new", "queued", "prepare", "run", "read", "done", "dropped"}]
      /\ files' \in [Requests -> [source : Requests \cup {None}, blob : Requests \cup {None}]]
      /\ permits' \in Nat /\ state'[r] = "dropped" /\ r \notin Holders'
      /\ permits' = IF r \in Holders THEN permits + 1 ELSE permits
      /\ files'[r].source \in {None, r} /\ files'[r].blob \in {None, r}
      /\ \A q \in Requests \ {r} : state'[q] = state[q] /\ files'[q] = files[q]
  BY Zenon, <1>2, RequestLeaves
<1>4. queue \in Seq(Requests) /\ Distinct(queue)
  BY Zenon, <1>1 DEF CompilerType, WaitersQueued
<1>5. /\ queue' \in Seq(Requests) /\ Distinct(queue')
      /\ Elements(queue') \subseteq Elements(queue) \ {r}
  BY Zenon, <1>2, <1>4, WithoutDistinct
<1>6. Elements(queue) \subseteq Requests
  BY <1>4 DEF Elements
<1>7. /\ compiling' \subseteq Requests /\ (direct => r \notin compiling')
      /\ \A q \in Requests \ {r} : q \in compiling' <=> q \in compiling
  BY ZenonT(40), <1>1, <1>2 DEF CompilerType, Compile!Killed
<1>8. CompilerType'
  BY Zenon, <1>1, <1>2, <1>3, <1>5, <1>7 DEF CompilerType
<1>9. WaitersQueued'
  BY <1>1, <1>3, <1>5, <1>6, Zenon DEF WaitersQueued
<1>10. OwnState(r)'
  BY <1>1, <1>2, <1>3, <1>7, Zenon DEF OwnState
<1>11. state[r] # "new" /\ state'[r] # "new"
  BY <1>2, <1>3, Zenon
<1>12. permits' = IF r \in Holders THEN IF r \in Holders' THEN permits ELSE permits + 1
                                   ELSE IF r \in Holders' THEN permits - 1 ELSE permits
  BY Zenon, <1>3
<1>13. \A q \in Requests \ {r} : /\ state'[q] = state[q] /\ files'[q] = files[q]
                                 /\ q \in compiling' <=> q \in compiling
  BY Zenon, <1>3, <1>7
<1> QED BY ZenonT(40), <1>2, <1>8, <1>9, <1>10, <1>11, <1>12, <1>13, RequestGoesOn

(* Every step of the service keeps the invariant. *)
LEMMA NextCompiler ==
    ASSUME Counts(Requests), Compile!Assumption, CompilerInv, [Compile!Next]_(Compile!vars)
    PROVE  CompilerInv'
<1>1. CASE UNCHANGED Compile!vars
  BY <1>1 DEF Compile!vars, CompilerInv, CompilerType, WaitersQueued, OwnState, Counted, Holders,
         Began, Failed
<1>2. CASE Compile!Next
  <2>1. PICK r \in Requests : \/ Compile!Begin(r) \/ Compile!Acquire(r) \/ Compile!Prepare(r)
                              \/ Compile!Timeout(r) \/ Compile!Read(r) \/ Compile!Compile(r)
                              \/ Compile!Disconnect(r)
    BY Zenon, <1>2 DEF Compile!Next, Compile!Serve
  <2> QED BY ZenonT(40), <2>1, CompilerBegin, CompilerAcquire, CompilerPrepare, CompilerTimeout,
             CompilerRead, CompilerExits, CompilerDisconnect
<1> QED BY ZenonT(40), <1>1, <1>2

INSTANCE FiniteSetTheorems

(* The subsets of the finite set of requests can be counted. *)
LEMMA RequestsCount ==
    ASSUME Compile!Assumption
    PROVE  Counts(Requests)
<1>1. IsFiniteSet(Requests)
  BY Zenon DEF Compile!Assumption, Compile!IsFiniteSet, IsFiniteSet
<1>2. Cardinality({}) = 0
  BY ZenonT(40), FS_EmptySet
<1>3. ASSUME NEW S \in SUBSET Requests
      PROVE  /\ Cardinality(S) \in Nat
             /\ \A x \in Requests \ S : Cardinality(S \cup {x}) = Cardinality(S) + 1
             /\ \A R \in SUBSET S : Cardinality(R) <= Cardinality(S)
  <2>1. IsFiniteSet(S)
    BY Zenon, <1>1, FS_Subset
  <2> QED BY Zenon, <2>1, FS_CardinalityType, FS_AddElement, FS_Subset
<1> QED BY Zenon, <1>2, <1>3 DEF Counts

(* Whatever fails, times out or is given up by its client, no more commands   *)
(* run than configured and no permit is lost, a request is answered with what *)
(* was made of its own source, and the counters of /metrics are exact: for    *)
(* every number of requests and every concurrency.                            *)
THEOREM CompilerIsSound ==
    ASSUME Compile!Assumption
    PROVE  Compile!Spec => [](Compile!CommandsBounded /\ Compile!OwnBlob /\ Compile!MetricsExact)
<1>0. Counts(Requests)
  BY RequestsCount
<1>1. Compile!Init => CompilerInv
  BY Zenon, <1>0, InitCompiler
<1>2. CompilerInv /\ [Compile!Next]_(Compile!vars) => CompilerInv'
  BY Zenon, <1>0, NextCompiler
<1>3. CompilerInv => Compile!CommandsBounded /\ Compile!OwnBlob /\ Compile!MetricsExact
  BY <1>0, CompilerPromise
<1> QED BY <1>1, <1>2, <1>3, PTL DEF Compile!Spec
=============================================================================
