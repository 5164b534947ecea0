--------------------------- MODULE ContentProofs ----------------------------
(* Proofs about the components that keep contents: the overlay database of an *)
(* execution, the host that it calls, the check of a work bundle and the      *)
(* bulletin simulator. Each theorem is about the behaviours of one of them,   *)
(* for all values of its constants.                                           *)
EXTENDS ContentKeepers, StorageMap, FiniteSets, TLAPS

(* The rest of a loop's snapshot is a sequence over the same set. *)
LEMMA TailIsSeq ==
    ASSUME NEW S, NEW s \in Seq(S), s # <<>>
    PROVE  Tail(s) \in Seq(S) /\ Head(s) \in S
  OBVIOUS

-----------------------------------------------------------------------------
(* The overlay database of the worker (module StateOverlay) *)

GetCalls == [pc : {"deletes", "writes", "source"}, key : Overlay!Keys, quiet : BOOLEAN]
WriteCalls == [pc : {"first", "second"}, todo : Seq(Overlay!Changes) \ {<<>>}]

OverlayType ==
    /\ writes \in [Overlay!Keys -> Values \cup {None}]
    /\ deletes \subseteq Overlay!Keys
    /\ settled = [k \in Overlay!Keys |-> settled[k]]
    /\ call \in [Threads -> {Overlay!Idle} \cup GetCalls \cup WriteCalls]
    /\ answer = [t \in Threads |-> answer[t]]

(* While a key is written, the values of all its writers are in settled, and  *)
(* so is None if the key is marked as deleted: the last of the writers to     *)
(* finish shows its own value or that of a del it overlapped.                 *)
WritersSettle ==
    \A t \in Threads : \A k \in Overlay!Keys :
        Overlay!Writing(t, k) =>
            /\ ~Overlay!Missing(Head(call[t].todo))
            /\ Head(call[t].todo).value \in settled[k]
            /\ k \in deletes => None \in settled[k]

(* What a get has found so far is still so while nobody writes its key *)
QuietGets ==
    \A t \in Threads :
        call[t] \in GetCalls /\ call[t].quiet =>
            /\ \A u \in Threads : ~Overlay!Writing(u, call[t].key)
            /\ call[t].pc \in {"writes", "source"} => call[t].key \notin deletes
            /\ call[t].pc = "source" => writes[call[t].key] = None

OverlayInv ==
    /\ OverlayType /\ WritersSettle /\ QuietGets
    /\ Overlay!OverlayExact /\ Overlay!GetExact

(* A call is a get, a write or none, and the three have different fields. *)
LEMMA CallShapes ==
    ASSUME OverlayType, NEW t \in Threads
    PROVE  /\ call[t].pc = "idle" => call[t] = Overlay!Idle
           /\ call[t].pc \in {"deletes", "writes", "source"} <=> call[t] \in GetCalls
           /\ call[t].pc \in {"first", "second"} <=> call[t] \in WriteCalls
  BY DEF OverlayType, GetCalls, WriteCalls, Overlay!Idle

(* The database is empty at first and shows the state of the anchor. *)
LEMMA InitOverlay == Overlay!Assumption /\ Overlay!Init => OverlayInv
<1> SUFFICES ASSUME Overlay!Assumption, Overlay!Init PROVE OverlayInv
  OBVIOUS
<1>1. OverlayType
  BY DEF OverlayType, Overlay!Init
<1>2. \A t \in Threads : call[t].pc = "idle"
  BY DEF Overlay!Init, Overlay!Idle
<1>3. \A t \in Threads : call[t] \notin GetCalls
  BY <1>2 DEF GetCalls
<1>4. WritersSettle /\ QuietGets
  BY <1>2, <1>3 DEF WritersSettle, QuietGets, Overlay!Writing
<1>5. Overlay!OverlayExact
  BY DEF Overlay!Init, Overlay!OverlayExact, Overlay!View
<1>6. Overlay!GetExact
  BY DEF Overlay!Init, Overlay!GetExact
<1> QED BY <1>1, <1>4, <1>5, <1>6 DEF OverlayInv

(* A thread that begins, goes on with or ends a get, or begins a write, sets  *)
(* nothing in the maps.                                                       *)
LEMMA OverlayReads ==
    ASSUME OverlayInv, NEW t \in Threads,
           NEW c \in {Overlay!Idle} \cup GetCalls \cup WriteCalls,
           call' = [call EXCEPT ![t] = c], UNCHANGED <<writes, deletes, settled>>,
           answer' = [u \in Threads |-> answer'[u]],
           call[t].pc # "second", c.pc # "second",
           c \in GetCalls /\ c.quiet =>
               /\ \A u \in Threads : ~Overlay!Writing(u, c.key)
               /\ c.pc \in {"writes", "source"} => c.key \notin deletes
               /\ c.pc = "source" => writes[c.key] = None
    PROVE  OverlayType' /\ WritersSettle' /\ QuietGets' /\ Overlay!OverlayExact'
<1>1. OverlayType /\ WritersSettle /\ QuietGets /\ Overlay!OverlayExact
  BY DEF OverlayInv
<1>2. call'[t] = c /\ \A u \in Threads \ {t} : call'[u] = call[u]
  BY <1>1 DEF OverlayType
<1>3. OverlayType'
  BY <1>1 DEF OverlayType
<1>4. \A u \in Threads : \A k : Overlay!Writing(u, k)' <=> Overlay!Writing(u, k)
  <2>1. \A k : ~Overlay!Writing(t, k)' /\ ~Overlay!Writing(t, k)
    BY <1>2 DEF Overlay!Writing
  <2>2. ASSUME NEW u \in Threads \ {t}, NEW k PROVE Overlay!Writing(u, k)' <=> Overlay!Writing(u, k)
    BY <1>2 DEF Overlay!Writing
  <2> QED BY Zenon, <2>1, <2>2
<1>5. \A u \in Threads : \A k : Overlay!Writing(u, k) => u # t
  BY Zenon DEF Overlay!Writing
<1>6. WritersSettle'
  BY Zenon, <1>1, <1>2, <1>4, <1>5 DEF WritersSettle, Overlay!Missing
<1>7. QuietGets'
  <2> SUFFICES ASSUME NEW u \in Threads, call'[u] \in GetCalls, call'[u].quiet
               PROVE  /\ \A v \in Threads : ~Overlay!Writing(v, call[u].key)'
                      /\ call'[u].pc \in {"writes", "source"} => call'[u].key \notin deletes
                      /\ call'[u].pc = "source" => writes[call'[u].key] = None
    BY Zenon DEF QuietGets
  <2>1. PICK k : k = call'[u].key
    OBVIOUS
  <2>2. /\ \A v \in Threads : ~Overlay!Writing(v, k)
        /\ call'[u].pc \in {"writes", "source"} => k \notin deletes
        /\ call'[u].pc = "source" => writes[k] = None
    <3>1. CASE u = t
      BY <1>2, <2>1, <3>1
    <3>2. CASE u # t
      BY <1>1, <1>2, <2>1, <3>2 DEF QuietGets
    <3> QED BY <3>1, <3>2
  <2>3. \A v \in Threads : ~(call'[v].pc = "second" /\ Head(call'[v].todo).key = k)
    BY <1>4, <2>2 DEF Overlay!Writing
  <2> QED BY <2>1, <2>2, <2>3 DEF Overlay!Writing
<1>8. Overlay!OverlayExact'
  BY Zenon, <1>1, <1>4 DEF Overlay!OverlayExact, Overlay!View, Overlay!StateAt
<1> QED BY <1>3, <1>6, <1>7, <1>8

(* An answer given when nobody has written the key meanwhile is what the maps *)
(* show.                                                                      *)
LEMMA OverlayAnswers ==
    ASSUME OverlayInv, NEW t \in Threads, NEW a, call[t] \in GetCalls,
           Overlay!Answers(t, a),
           call[t].quiet => a = Overlay!View(call[t].key)
    PROVE  OverlayInv'
<1>1. OverlayType /\ Overlay!OverlayExact /\ Overlay!GetExact /\ QuietGets
  BY DEF OverlayInv
<1>2. call' = [call EXCEPT ![t] = Overlay!Idle] /\ UNCHANGED <<writes, deletes, settled>>
  BY DEF Overlay!Answers
<1>3. answer' = [u \in Threads |-> answer'[u]]
  BY Zenon, <1>1 DEF Overlay!Answers, OverlayType
<1>4. /\ call[t].pc # "second" /\ Overlay!Idle.pc # "second" /\ Overlay!Idle \notin GetCalls
      /\ call[t].key \in Overlay!Keys
  BY DEF Overlay!Idle, GetCalls
<1>5. OverlayType' /\ WritersSettle' /\ QuietGets' /\ Overlay!OverlayExact'
  BY Zenon, <1>2, <1>3, <1>4, OverlayReads
<1>6. call[t].quiet => Overlay!View(call[t].key) \in settled[call[t].key]
  BY Zenon, <1>1, <1>4 DEF QuietGets, Overlay!OverlayExact
<1>7. /\ answer'[t].quiet = call[t].quiet /\ answer'[t].value = a
      /\ answer'[t].settled = settled[call[t].key]
  BY <1>1 DEF Overlay!Answers, OverlayType
<1>8. \A u \in Threads \ {t} : answer'[u] = answer[u]
  BY <1>1 DEF Overlay!Answers, OverlayType
<1>9. Overlay!GetExact'
  BY Zenon, <1>1, <1>6, <1>7, <1>8 DEF Overlay!GetExact
<1> QED BY <1>5, <1>9 DEF OverlayInv

(* The first lock of put or del: from here until the second one the key may   *)
(* show anything, and the gets of it that are under way are disturbed.        *)
LEMMA OverlayFirst ==
    ASSUME OverlayInv, NEW t \in Threads, Overlay!WriteFirst(t)
    PROVE  OverlayInv'
<1>1. OverlayType /\ WritersSettle /\ QuietGets /\ Overlay!OverlayExact /\ Overlay!GetExact
  BY DEF OverlayInv
<1>2. call[t] \in WriteCalls /\ call[t].pc = "first"
  BY <1>1, CallShapes DEF Overlay!WriteFirst
<1>3. PICK change \in Overlay!Changes : change = Head(call[t].todo)
  BY <1>2 DEF WriteCalls
<1>4. PICK key \in Overlay!Keys : key = change.key
  BY DEF Overlay!Changes
<1>5. ~Overlay!Missing(change) /\ Overlay!Enter(t, change) /\ Overlay!Forget(change) /\ answer' = answer
  BY <1>3 DEF Overlay!WriteFirst
<1>6. call'[t] \in WriteCalls /\ call'[t].pc = "second" /\ call'[t].todo = call[t].todo
  <2>1. call'[t] = [call[t] EXCEPT !.pc = "second"]
    BY <1>5 DEF Overlay!Enter
  <2> QED BY <1>2, <2>1 DEF WriteCalls
<1>7. ASSUME NEW u \in Threads \ {t}
      PROVE  \/ call[u] \notin GetCalls /\ call'[u] = call[u]
             \/ /\ call[u] \in GetCalls /\ call'[u] \in GetCalls
                /\ call'[u].key = call[u].key /\ call'[u].pc = call[u].pc
                /\ call'[u].quiet = IF call[u].key = key THEN FALSE ELSE call[u].quiet
  <2>1. call'[u] = IF call[u] \in GetCalls /\ call[u].key = key
                   THEN [call[u] EXCEPT !.quiet = FALSE] ELSE call[u]
    BY <1>1, <1>4, <1>5, CallShapes DEF Overlay!Enter
  <2> QED BY <2>1, Zenon DEF GetCalls
<1>8. ASSUME NEW u \in Threads \ {t}, NEW k
      PROVE  /\ Overlay!Writing(u, k)' <=> Overlay!Writing(u, k)
             /\ Overlay!Writing(u, k) => call'[u] = call[u]
  BY Zenon, <1>7 DEF Overlay!Writing, GetCalls
<1>9. \A k : Overlay!Writing(t, k)' <=> k = key
  BY <1>3, <1>4, <1>6 DEF Overlay!Writing
<1>10. /\ \A k \in Overlay!Keys \ {key} :
             /\ settled'[k] = settled[k] /\ writes'[k] = writes[k]
             /\ k \in deletes' <=> k \in deletes
       /\ change.value \in settled'[key]
       /\ (\E u \in Threads \ {t} : Overlay!Writing(u, key)) => settled[key] \subseteq settled'[key]
       /\ change.op # "Remove" => key \notin deletes'
       /\ key \in deletes' => key \in deletes
  BY <1>1, <1>4, <1>5 DEF Overlay!Enter, Overlay!Forget, OverlayType
<1>11. change.op = "Remove" => change.value = None
  BY DEF Overlay!Changes
<1>12. OverlayType'
  <2>1. call' \in [Threads -> {Overlay!Idle} \cup GetCalls \cup WriteCalls]
    <3>1. \A u \in Threads : call'[u] \in {Overlay!Idle} \cup GetCalls \cup WriteCalls
      BY <1>1, <1>6, <1>7, Zenon DEF OverlayType
    <3>2. call' = [u \in Threads |-> call'[u]]
      BY <1>5 DEF Overlay!Enter
    <3> QED BY <3>1, <3>2
  <2>2. writes' \in [Overlay!Keys -> Values \cup {None}] /\ deletes' \subseteq Overlay!Keys
    BY <1>1, <1>5 DEF Overlay!Forget, OverlayType
  <2>3. settled' = [k \in Overlay!Keys |-> settled'[k]]
    BY Zenon, <1>1, <1>5 DEF Overlay!Enter, OverlayType
  <2> QED BY <1>1, <1>5, <2>1, <2>2, <2>3 DEF OverlayType
<1>13. WritersSettle'
  <2> SUFFICES ASSUME NEW u \in Threads, NEW k \in Overlay!Keys, Overlay!Writing(u, k)'
               PROVE  /\ ~Overlay!Missing(Head(call'[u].todo))
                      /\ Head(call'[u].todo).value \in settled'[k]
                      /\ k \in deletes' => None \in settled'[k]
    BY DEF WritersSettle, Overlay!Missing
  <2>1. CASE u = t
    <3>1. k = key /\ Head(call'[u].todo) = change
      BY <1>3, <1>6, <1>9, <2>1
    <3>2. key \in deletes' => None \in settled'[key]
      BY <1>10, <1>11
    <3> QED BY <1>5, <1>10, <3>1, <3>2
  <2>2. CASE u # t
    <3>1. Overlay!Writing(u, k) /\ call'[u] = call[u]
      BY <1>8, <2>2
    <3>2. /\ ~Overlay!Missing(Head(call[u].todo)) /\ Head(call[u].todo).value \in settled[k]
          /\ k \in deletes => None \in settled[k]
      BY <1>1, <3>1 DEF WritersSettle
    <3>3. settled[k] \subseteq settled'[k] /\ (k \in deletes' => k \in deletes)
      BY <1>10, <2>2, <3>1
    <3> QED BY <3>1, <3>2, <3>3
  <2> QED BY <2>1, <2>2
<1>14. QuietGets'
  <2> SUFFICES ASSUME NEW u \in Threads, call'[u] \in GetCalls, call'[u].quiet
               PROVE  /\ \A v \in Threads : ~Overlay!Writing(v, call[u].key)'
                      /\ call'[u].pc \in {"writes", "source"} => call'[u].key \notin deletes'
                      /\ call'[u].pc = "source" => writes'[call'[u].key] = None
    BY DEF QuietGets
  <2>1. u # t
    BY <1>6 DEF GetCalls
  <2>2. PICK k \in Overlay!Keys : k = call'[u].key
    BY DEF GetCalls
  <2>3. k # key /\ call[u] \in GetCalls /\ call[u].quiet /\ call[u].key = k /\ call'[u].pc = call[u].pc
    BY Zenon, <1>7, <2>1, <2>2
  <2>4. /\ \A v \in Threads : ~Overlay!Writing(v, k)
        /\ call'[u].pc \in {"writes", "source"} => k \notin deletes
        /\ call'[u].pc = "source" => writes[k] = None
    BY <1>1, <2>3 DEF QuietGets
  <2>5. \A v \in Threads : ~Overlay!Writing(v, k)'
    BY <1>8, <1>9, <2>3, <2>4
  <2>6. \A v \in Threads : ~(call'[v].pc = "second" /\ Head(call'[v].todo).key = k)
    BY <2>5 DEF Overlay!Writing
  <2> QED BY <1>10, <2>2, <2>3, <2>4, <2>6 DEF Overlay!Writing
<1>15. Overlay!OverlayExact'
  <2> SUFFICES ASSUME NEW k \in Overlay!Keys, k # key
               PROVE  (\E u \in Threads : Overlay!Writing(u, k)') \/ Overlay!View(k)' \in settled'[k]
    BY <1>9 DEF Overlay!OverlayExact
  <2>1. Overlay!View(k)' = Overlay!View(k) /\ settled'[k] = settled[k]
    BY <1>10 DEF Overlay!View, Overlay!StateAt
  <2>2. \A u \in Threads : Overlay!Writing(u, k) => Overlay!Writing(u, k)'
    <3>1. ~Overlay!Writing(t, k)
      BY <1>2 DEF Overlay!Writing
    <3> QED BY <1>8, <3>1
  <2> QED BY <1>1, <2>1, <2>2 DEF Overlay!OverlayExact
<1>16. Overlay!GetExact'
  BY <1>1, <1>5 DEF Overlay!GetExact
<1> QED BY <1>12, <1>13, <1>14, <1>15, <1>16 DEF OverlayInv

(* The second lock: if nobody else is at the key, the maps now show the value *)
(* of this write or of a del that it overlapped.                              *)
LEMMA OverlaySecond ==
    ASSUME OverlayInv, NEW t \in Threads, Overlay!WriteSecond(t)
    PROVE  OverlayInv'
<1>1. OverlayType /\ WritersSettle /\ QuietGets /\ Overlay!OverlayExact /\ Overlay!GetExact
  BY DEF OverlayInv
<1>2. call[t] \in WriteCalls /\ call[t].pc = "second"
  BY <1>1, CallShapes DEF Overlay!WriteSecond
<1>3. PICK change \in Overlay!Changes : change = Head(call[t].todo)
  BY <1>2 DEF WriteCalls
<1>4. PICK key \in Overlay!Keys : key = change.key
  BY DEF Overlay!Changes
<1>5. Overlay!Record(change) /\ settled' = settled /\ answer' = answer
  BY <1>3 DEF Overlay!WriteSecond
<1>6. PICK c \in {Overlay!Idle} \cup WriteCalls :
          call' = [call EXCEPT ![t] = c] /\ c.pc # "second" /\ c \notin GetCalls
  <2> PICK rest : rest = Tail(call[t].todo)
    BY Zenon
  <2>1. rest \in Seq(Overlay!Changes)
    BY <1>2, TailIsSeq DEF WriteCalls
  <2>2. call' = [call EXCEPT ![t] = IF rest = <<>> THEN Overlay!Idle ELSE Overlay!Write(rest)]
    BY Zenon DEF Overlay!WriteSecond
  <2>3. rest # <<>> => Overlay!Write(rest) \in WriteCalls
    BY <2>1 DEF Overlay!Write, WriteCalls
  <2>4. /\ Overlay!Idle.pc # "second" /\ Overlay!Idle \notin GetCalls
        /\ Overlay!Write(rest).pc # "second" /\ Overlay!Write(rest) \notin GetCalls
    BY DEF Overlay!Idle, Overlay!Write, GetCalls
  <2> QED BY <2>2, <2>3, <2>4, Zenon
<1>7. call'[t] = c /\ \A u \in Threads \ {t} : call'[u] = call[u]
  BY Zenon, <1>1, <1>6 DEF OverlayType
<1>8. ASSUME NEW u \in Threads \ {t}, NEW k PROVE Overlay!Writing(u, k)' <=> Overlay!Writing(u, k)
  BY Zenon, <1>7 DEF Overlay!Writing
<1>9. \A k : ~Overlay!Writing(t, k)' /\ (Overlay!Writing(t, k) <=> k = key)
  BY Zenon, <1>2, <1>3, <1>4, <1>6, <1>7 DEF Overlay!Writing
<1>10. /\ ~Overlay!Missing(change) /\ change.value \in settled[key]
       /\ key \in deletes => None \in settled[key]
  BY <1>1, <1>3, <1>9 DEF WritersSettle
<1>11. /\ \A k \in Overlay!Keys \ {key} :
             writes'[k] = writes[k] /\ (k \in deletes' <=> k \in deletes)
       /\ change.op = "Remove" => key \in deletes' /\ change.value = None
       /\ change.op # "Remove" => /\ writes'[key] = change.value /\ change.value # None
                                  /\ key \in deletes' => key \in deletes
  <2>1. /\ change.op = "Remove" => change.value = None
        /\ change.op # "Remove" => change.op = "Upsert"
    BY Zenon DEF Overlay!Changes
  <2> QED BY <1>1, <1>4, <1>5, <1>10, <2>1 DEF Overlay!Record, Overlay!Missing, OverlayType
<1>12. key \in deletes' => None \in settled[key]
  BY <1>10, <1>11
<1>13. OverlayType'
  <2>1. change.value \in Values \cup {None}
    BY DEF Overlay!Changes
  <2>2. writes' \in [Overlay!Keys -> Values \cup {None}] /\ deletes' \subseteq Overlay!Keys
    BY ZenonT(40), <1>1, <1>4, <1>5, <2>1 DEF Overlay!Record, OverlayType
  <2> QED BY <1>1, <1>5, <1>6, <2>2 DEF OverlayType
<1>14. WritersSettle'
  <2> SUFFICES ASSUME NEW u \in Threads, NEW k \in Overlay!Keys, Overlay!Writing(u, k)'
               PROVE  /\ ~Overlay!Missing(Head(call'[u].todo))
                      /\ Head(call'[u].todo).value \in settled'[k]
                      /\ k \in deletes' => None \in settled'[k]
    BY Zenon DEF WritersSettle, Overlay!Missing
  <2>1. u # t /\ Overlay!Writing(u, k) /\ call'[u] = call[u]
    BY Zenon, <1>7, <1>8, <1>9
  <2>2. /\ ~Overlay!Missing(Head(call[u].todo)) /\ Head(call[u].todo).value \in settled[k]
        /\ k \in deletes => None \in settled[k]
    BY Zenon, <1>1, <2>1 DEF WritersSettle
  <2>3. k \in deletes' => None \in settled[k]
    BY Zenon, <1>11, <1>12, <2>2
  <2> QED BY <1>5, <2>1, <2>2, <2>3
<1>15. QuietGets'
  <2> SUFFICES ASSUME NEW u \in Threads, call'[u] \in GetCalls, call'[u].quiet
               PROVE  /\ \A v \in Threads : ~Overlay!Writing(v, call[u].key)'
                      /\ call'[u].pc \in {"writes", "source"} => call'[u].key \notin deletes'
                      /\ call'[u].pc = "source" => writes'[call'[u].key] = None
    BY DEF QuietGets
  <2>1. u # t /\ call'[u] = call[u]
    BY Zenon, <1>6, <1>7
  <2>2. PICK k \in Overlay!Keys : k = call'[u].key
    BY Zenon DEF GetCalls
  <2>3. /\ \A v \in Threads : ~Overlay!Writing(v, k)
        /\ call'[u].pc \in {"writes", "source"} => k \notin deletes
        /\ call'[u].pc = "source" => writes[k] = None
    BY Zenon, <1>1, <2>1, <2>2 DEF QuietGets
  <2>4. k # key /\ \A v \in Threads : ~Overlay!Writing(v, k)'
    BY ZenonT(40), <1>8, <1>9, <2>3
  <2>5. \A v \in Threads : ~(call'[v].pc = "second" /\ Head(call'[v].todo).key = k)
    BY <2>4 DEF Overlay!Writing
  <2> QED BY ZenonT(40), <1>11, <2>2, <2>3, <2>4, <2>5 DEF Overlay!Writing
<1>16. Overlay!OverlayExact'
  <2> SUFFICES ASSUME NEW k \in Overlay!Keys
               PROVE  (\E u \in Threads : Overlay!Writing(u, k)') \/ Overlay!View(k)' \in settled[k]
    BY Zenon, <1>5 DEF Overlay!OverlayExact
  <2>1. CASE k = key
    <3>1. /\ key \in deletes' => Overlay!View(key)' = None
          /\ key \notin deletes' => Overlay!View(key)' = change.value
      BY <1>11 DEF Overlay!View
    <3> QED BY <1>10, <1>12, <2>1, <3>1
  <2>2. CASE k # key
    <3>1. Overlay!View(k)' = Overlay!View(k)
      BY <1>11, <2>2 DEF Overlay!View, Overlay!StateAt
    <3>2. \A u \in Threads : Overlay!Writing(u, k) => Overlay!Writing(u, k)'
      BY <1>8, <1>9, <2>2
    <3> QED BY <1>1, <3>1, <3>2 DEF Overlay!OverlayExact
  <2> QED BY Zenon, <2>1, <2>2
<1>17. Overlay!GetExact'
  BY <1>1, <1>5 DEF Overlay!GetExact
<1> QED BY <1>13, <1>14, <1>15, <1>16, <1>17 DEF OverlayInv

(* Every lock taken and every request answered keeps the overlay exact. *)
LEMMA NextOverlay ==
    Overlay!Assumption /\ OverlayInv /\ [Overlay!Next]_(Overlay!vars) => OverlayInv'
<1> SUFFICES ASSUME Overlay!Assumption, OverlayInv, [Overlay!Next]_(Overlay!vars)
             PROVE  OverlayInv'
  OBVIOUS
<1>1. OverlayType /\ QuietGets /\ Overlay!GetExact
  BY DEF OverlayInv
<1>2. ASSUME UNCHANGED <<writes, deletes, call, answer, settled>> PROVE OverlayInv'
  <2>1. OverlayType' /\ WritersSettle' /\ QuietGets'
    BY Zenon, <1>2 DEF OverlayInv, OverlayType, WritersSettle, QuietGets, Overlay!Writing, Overlay!Missing
  <2>2. Overlay!OverlayExact' /\ Overlay!GetExact'
    BY <1>2
    DEF OverlayInv, Overlay!OverlayExact, Overlay!GetExact, Overlay!Writing, Overlay!View,
        Overlay!StateAt
  <2> QED BY Zenon, <2>1, <2>2 DEF OverlayInv
<1>3. ASSUME NEW t \in Threads, NEW c \in {Overlay!Idle} \cup GetCalls \cup WriteCalls,
             call' = [call EXCEPT ![t] = c], UNCHANGED <<writes, deletes, settled>>,
             answer' = answer \/ answer' = [answer EXCEPT ![t] = None],
             call[t].pc # "second", c.pc # "second",
             c \in GetCalls /\ c.quiet =>
                 /\ \A u \in Threads : ~Overlay!Writing(u, c.key)
                 /\ c.pc \in {"writes", "source"} => c.key \notin deletes
                 /\ c.pc = "source" => writes[c.key] = None
      PROVE  OverlayInv'
  <2>1. answer' = [u \in Threads |-> answer'[u]] /\ Overlay!GetExact'
    BY Zenon, <1>1, <1>3 DEF OverlayType, Overlay!GetExact
  <2> QED BY <1>3, <2>1, OverlayReads, Zenon DEF OverlayInv
<1>4. ASSUME NEW t \in Threads, NEW k \in Overlay!Keys, Overlay!Begin(t, Overlay!Get(k))
      PROVE  OverlayInv'
  <2>1. PICK q \in BOOLEAN : q = ~\E u \in Threads : Overlay!Writing(u, k)
    BY Zenon
  <2>2. PICK c : c = Overlay!Get(k)
    OBVIOUS
  <2>3. c = [pc |-> "deletes", key |-> k, quiet |-> q]
    BY Zenon, <2>1, <2>2 DEF Overlay!Get
  <2>4. c \in GetCalls /\ c.pc = "deletes" /\ c.key = k /\ c.quiet = q
    BY <2>3 DEF GetCalls
  <2>5. call[t].pc # "second" /\ c.pc # "second"
    BY <1>4, <2>4 DEF Overlay!Begin, Overlay!Idle
  <2>6. call' = [call EXCEPT ![t] = c] /\ UNCHANGED <<writes, deletes, settled, answer>>
    BY Zenon, <1>4, <2>2 DEF Overlay!Begin
  <2>7. c.quiet => \A u \in Threads : ~Overlay!Writing(u, c.key)
    BY Zenon, <2>1, <2>4
  <2> QED BY Zenon, <1>3, <2>4, <2>5, <2>6, <2>7
<1>5. ASSUME NEW t \in Threads, NEW changes \in Overlay!Batches,
             Overlay!Begin(t, Overlay!Write(changes))
      PROVE  OverlayInv'
  <2>1. changes \in Seq(Overlay!Changes) \ {<<>>}
    BY DEF Overlay!Batches, Overlay!Assumption
  <2>2. PICK c : c = Overlay!Write(changes)
    OBVIOUS
  <2>3. c \in WriteCalls /\ c.pc = "first" /\ c \notin GetCalls
    BY Zenon, <2>1, <2>2 DEF Overlay!Write, WriteCalls, GetCalls
  <2>4. call[t].pc # "second" /\ c.pc # "second"
    BY <1>5, <2>3 DEF Overlay!Begin, Overlay!Idle
  <2>5. call' = [call EXCEPT ![t] = c] /\ UNCHANGED <<writes, deletes, settled, answer>>
    BY Zenon, <1>5, <2>2 DEF Overlay!Begin
  <2> QED BY Zenon, <1>3, <2>3, <2>4, <2>5
<1>6. ASSUME NEW t \in Threads, call[t] \in GetCalls, NEW stage \in {"writes", "source"},
             Overlay!Goto(t, stage), UNCHANGED <<writes, deletes, settled, answer>>,
             call[t].quiet => /\ call[t].key \notin deletes
                              /\ stage = "source" => writes[call[t].key] = None
      PROVE  OverlayInv'
  <2> PICK c : c = [call[t] EXCEPT !.pc = stage]
    BY Zenon
  <2>1. c \in GetCalls /\ c.pc = stage /\ c.key = call[t].key /\ c.quiet = call[t].quiet
    BY <1>6 DEF GetCalls
  <2>2. call' = [call EXCEPT ![t] = c]
    BY <1>1, <1>6, <2>1 DEF Overlay!Goto, OverlayType
  <2>3. call[t].quiet => \A u \in Threads : ~Overlay!Writing(u, c.key)
    BY <1>1, <1>6, <2>1 DEF QuietGets
  <2>4. call[t].pc # "second" /\ c.pc # "second"
    BY <1>6, <2>1 DEF GetCalls
  <2> QED BY <1>3, <1>6, <2>1, <2>2, <2>3, <2>4, Zenon
<1>7. ASSUME NEW t \in Threads, Overlay!GetDeleted(t) PROVE OverlayInv'
  <2>1. call[t] \in GetCalls
    BY Zenon, <1>1, <1>7, CallShapes DEF Overlay!GetDeleted
  <2>2. CASE call[t].key \in deletes
    BY Zenon, <1>7, <2>1, <2>2, OverlayAnswers DEF Overlay!GetDeleted, Overlay!View
  <2>3. CASE call[t].key \notin deletes
    BY Zenon, <1>6, <1>7, <2>1, <2>3 DEF Overlay!GetDeleted
  <2> QED BY Zenon, <2>2, <2>3
<1>8. ASSUME NEW t \in Threads, Overlay!GetWritten(t) PROVE OverlayInv'
  <2>1. call[t] \in GetCalls /\ call[t].pc = "writes"
    BY <1>1, <1>8, CallShapes DEF Overlay!GetWritten
  <2>2. call[t].quiet => call[t].key \notin deletes
    BY Zenon, <1>1, <2>1 DEF QuietGets
  <2>3. CASE writes[call[t].key] # None
    BY Zenon, <1>8, <2>1, <2>2, <2>3, OverlayAnswers DEF Overlay!GetWritten, Overlay!View
  <2>4. CASE writes[call[t].key] = None /\ call[t].key \in OtherKeys
    BY Zenon, <1>8, <2>1, <2>2, <2>4, OverlayAnswers
    DEF Overlay!GetWritten, Overlay!View, Overlay!StateAt, Overlay!Assumption
  <2>5. CASE writes[call[t].key] = None /\ call[t].key \notin OtherKeys
    BY Zenon, <1>6, <1>8, <2>1, <2>2, <2>5 DEF Overlay!GetWritten
  <2> QED BY ZenonT(40), <2>3, <2>4, <2>5
<1>9. ASSUME NEW t \in Threads, Overlay!GetSource(t) PROVE OverlayInv'
  <2>1. call[t] \in GetCalls /\ call[t].pc = "source"
    BY Zenon, <1>1, <1>9, CallShapes DEF Overlay!GetSource
  <2>2. call[t].quiet => call[t].key \notin deletes /\ writes[call[t].key] = None
    BY ZenonT(40), <1>1, <2>1 DEF QuietGets
  <2> QED BY Zenon, <1>9, <2>1, <2>2, OverlayAnswers DEF Overlay!GetSource, Overlay!Source, Overlay!View
<1>10. ASSUME NEW t \in Threads, Overlay!SourceFails(t) \/ Overlay!WriteMissing(t) PROVE OverlayInv'
  <2>1. PICK c : c = Overlay!Idle
    BY Zenon
  <2>2. c.pc # "second" /\ c \notin GetCalls
    BY <2>1 DEF Overlay!Idle, GetCalls
  <2> QED BY <1>3, <1>10, <2>1, <2>2 DEF Overlay!SourceFails, Overlay!WriteMissing
<1>11. CASE Overlay!NewHead
  BY <1>2, <1>11 DEF Overlay!NewHead
<1>12. CASE UNCHANGED Overlay!vars
  BY <1>2, <1>12 DEF Overlay!vars
<1> QED
  BY <1>4, <1>5, <1>7, <1>8, <1>9, <1>10, <1>11, <1>12, OverlayFirst, OverlaySecond
  DEF Overlay!Next

(* For any number of threads, keys and values, and batches of any length: the *)
(* two maps of ProtocolStateDb show the last write of every key that nobody   *)
(* is writing, and a get that no put or del of its key overlaps answers it.   *)
THEOREM OverlayIsExact ==
    ASSUME Overlay!Assumption
    PROVE  Overlay!Spec => []OverlayExact
<1>1. Overlay!Init => OverlayInv
  BY InitOverlay
<1>2. OverlayInv /\ [Overlay!Next]_(Overlay!vars) => OverlayInv'
  BY NextOverlay
<1>3. OverlayInv => OverlayExact
  BY DEF OverlayInv, OverlayExact
<1> QED BY <1>1, <1>2, <1>3, PTL DEF Overlay!Spec
-----------------------------------------------------------------------------
(* The host calls of the PVM executor (module HostCalls) *)

(* Memory and storage hold bytes, and no stored value is empty *)
HostInv ==
    /\ memory \in [Readable -> Nat]
    /\ \A key \in DOMAIN storage : storage[key] \in Seq(Nat) /\ storage[key] # <<>>

(* What a step promises: the properties of HostCalls and the invariant *)
Contained == HostInv' /\ Host!TrapsLeaveHost /\ Host!BuffersKept

(* A pointer is an address. *)
LEMMA AddressIsInt ==
    ASSUME Host!Assumption, NEW p \in Pointers
    PROVE  Host!Address(p) \in Int
<1>1. p \in Nat /\ AddressSpace \in Nat /\ AddressSpace > 0
  BY DEF Host!Assumption
<1> QED BY <1>1 DEF Host!Address

(* What is cut to the capacity fits into it. *)
LEMMA CopiedFits ==
    ASSUME NEW bytes \in Seq(Nat), NEW capacity \in Nat
    PROVE  /\ Host!Copied(bytes, capacity) \in Seq(Nat)
           /\ Len(Host!Copied(bytes, capacity)) <= capacity
  BY DEF Host!Copied

(* Bytes are put where the guest may write, and nowhere else. *)
LEMMA PutInRange ==
    ASSUME Host!Assumption, NEW mem \in [Readable -> Nat], NEW ptr \in Int,
           NEW bytes \in Seq(Nat), Host!MayWrite(ptr, Len(bytes))
    PROVE  /\ Host!Put(mem, ptr, bytes) \in [Readable -> Nat]
           /\ \A a \in Readable : Host!Put(mem, ptr, bytes)[a] # mem[a] =>
                 a \in Host!Range(ptr, Len(bytes)) \cap Writable
<1>1. PICK n \in Nat : n = Len(bytes) /\ DOMAIN bytes = 1..n
  OBVIOUS
<1>2. PICK put : put = Host!Put(mem, ptr, bytes)
  OBVIOUS
<1>3. put = [a \in Readable |-> IF a \in ptr..(ptr + n - 1) THEN bytes[a - ptr + 1] ELSE mem[a]]
  BY <1>1, <1>2 DEF Host!Put, Host!Range
<1>4. \A a \in ptr..(ptr + n - 1) : bytes[a - ptr + 1] \in Nat
  BY <1>1
<1>5. put \in [Readable -> Nat]
  BY Zenon, <1>3, <1>4
<1>6. \A a \in Readable : put[a] # mem[a] => a \in ptr..(ptr + n - 1)
  BY <1>3
<1>7. ptr..(ptr + n - 1) \subseteq Writable
  BY <1>1 DEF Host!MayWrite, Host!Range
<1> QED BY <1>1, <1>2, <1>5, <1>6, <1>7 DEF Host!Range

(* What is read from memory is a sequence of bytes. *)
LEMMA ReadIsBytes ==
    ASSUME HostInv, NEW ptr \in Int, NEW n \in Nat, Host!MayRead(ptr, n)
    PROVE  Host!ReadBytes(ptr, n) \in Seq(Nat)
<1>1. \A i \in 1..n : memory[ptr + i - 1] \in Nat
  BY DEF HostInv, Host!MayRead, Host!Range
<1> QED BY <1>1 DEF Host!ReadBytes

(* A call that leaves memory and host alone is contained. *)
LEMMA NothingDone ==
    ASSUME HostInv, memory' = memory, UNCHANGED Host!host
    PROVE  Contained
  BY DEF HostInv, Contained, Host!TrapsLeaveHost, Host!BuffersKept, Host!host

(* A call that leaves memory alone, and has not trapped *)
LEMMA HostDone ==
    ASSUME HostInv, memory' = memory, status' = "running",
           \A key \in DOMAIN storage' : storage'[key] \in Seq(Nat) /\ storage'[key] # <<>>
    PROVE  Contained
  BY DEF HostInv, Contained, Host!TrapsLeaveHost, Host!BuffersKept

(* A value is delivered into the buffer, as far as that goes. *)
LEMMA DeliversContained ==
    ASSUME Host!Assumption, HostInv, NEW ptr \in Int, NEW capacity \in Nat,
           NEW bytes \in Seq(Nat), NEW full, Host!Delivers(ptr, capacity, bytes, full)
    PROVE  Contained
<1>1. PICK copied : copied = Host!Copied(bytes, capacity)
  OBVIOUS
<1>2. copied \in Seq(Nat) /\ Len(copied) <= capacity
  BY <1>1, CopiedFits
<1>3. CASE Host!MayWrite(ptr, Len(copied))
  <2>1. /\ memory' = Host!Put(memory, ptr, copied) /\ UNCHANGED Host!host
        /\ buffer' = Host!Range(ptr, capacity)
    BY Zenon, <1>1, <1>3 DEF Host!Delivers
  <2>2. /\ memory' \in [Readable -> Nat]
        /\ \A a \in Readable : memory'[a] # memory[a] =>
              a \in Host!Range(ptr, Len(copied)) \cap Writable
    BY Zenon, <1>2, <1>3, <2>1, PutInRange DEF HostInv
  <2>3. Host!Range(ptr, Len(copied)) \subseteq Host!Range(ptr, capacity)
    BY <1>2 DEF Host!Range
  <2>4. Host!BuffersKept
    BY Zenon, <2>1, <2>2, <2>3 DEF Host!BuffersKept
  <2> QED BY <2>1, <2>2, <2>4 DEF HostInv, Contained, Host!TrapsLeaveHost, Host!host
<1>4. CASE ~Host!MayWrite(ptr, Len(copied))
  <2>1. memory' = memory /\ UNCHANGED Host!host
    BY <1>1, <1>4 DEF Host!Delivers, Host!Traps
  <2> QED BY <2>1, NothingDone
<1> QED BY <1>3, <1>4

(* A key is read. *)
LEMMA ReadContained ==
    ASSUME Host!Assumption, HostInv, NEW p \in Pointers, NEW q \in Pointers,
           NEW m \in Lengths, NEW n \in Lengths, Host!Read(p, m, q, n)
    PROVE  Contained
<1>1. Host!Address(q) \in Int /\ n \in Nat
  BY AddressIsInt DEF Host!Assumption
<1>2. PICK key : key = Host!ReadBytes(Host!Address(p), m)
  OBVIOUS
<1>3. CASE memory' = memory /\ UNCHANGED Host!host
  BY <1>3, NothingDone
<1>4. CASE /\ key \in DOMAIN storage
           /\ Host!Delivers(Host!Address(q), n, storage[key], Len(storage[key]))
  <2>1. storage[key] \in Seq(Nat)
    BY <1>4 DEF HostInv
  <2> QED BY Zenon, <1>1, <1>4, <2>1, DeliversContained
<1>5. \/ memory' = memory /\ UNCHANGED Host!host
      \/ /\ key \in DOMAIN storage
         /\ Host!Delivers(Host!Address(q), n, storage[key], Len(storage[key]))
  BY <1>2 DEF Host!Read, Host!Traps, Host!Absent
<1> QED BY <1>3, <1>4, <1>5

(* A key is written, or deleted with the empty value. *)
LEMMA WriteContained ==
    ASSUME Host!Assumption, HostInv, NEW p \in Pointers, NEW q \in Pointers,
           NEW m \in Lengths, NEW n \in Lengths, Host!Write(p, m, q, n)
    PROVE  Contained
<1>1. Host!Address(q) \in Int /\ n \in Nat
  BY AddressIsInt DEF Host!Assumption
<1>2. PICK key, value : /\ key = Host!ReadBytes(Host!Address(p), m)
                        /\ value = Host!ReadBytes(Host!Address(q), n)
  OBVIOUS
<1>3. CASE /\ Host!MayRead(Host!Address(p), m) /\ Host!MayRead(Host!Address(q), n)
  <2>1. memory' = memory /\ status' = "running" /\ storage' = Host!Store(key, value)
    BY <1>2, <1>3 DEF Host!Write, Host!Returns
  <2>2. value \in Seq(Nat)
    BY <1>1, <1>2, <1>3, ReadIsBytes
  <2>3. \A k \in DOMAIN storage' : storage'[k] \in Seq(Nat) /\ storage'[k] # <<>>
    BY <2>1, <2>2 DEF Host!Store, Host!Insert, Host!RemoveAll, HostInv
  <2> QED BY <2>1, <2>3, HostDone
<1>4. CASE ~(Host!MayRead(Host!Address(p), m) /\ Host!MayRead(Host!Address(q), n))
  <2>1. memory' = memory /\ UNCHANGED Host!host
    BY <1>4 DEF Host!Write, Host!Traps
  <2> QED BY <2>1, NothingDone
<1> QED BY <1>3, <1>4

(* The domain is written, and its size; or only the domain, when the size     *)
(* cannot be.                                                                 *)
LEMMA DomainContained ==
    ASSUME Host!Assumption, HostInv, NEW p \in Pointers, NEW q \in Pointers,
           NEW n \in Lengths, Host!NetworkDomain(p, n, q)
    PROVE  Contained
<1>1. Host!Address(p) \in Int /\ Host!Address(q) \in Int /\ n \in Nat /\ HashLen \in Nat
  BY AddressIsInt DEF Host!Assumption
<1>2. Host!Domain \in Seq(Nat) /\ Len(Host!Domain) = HashLen
  BY <1>1 DEF Host!Domain
<1>3. PICK written : written = Host!Put(memory, Host!Address(p), Host!Domain)
  OBVIOUS
<1>4. buffer' = Host!Range(Host!Address(p), n) \cup {Host!Address(q)}
  BY DEF Host!NetworkDomain
<1>5. CASE n < HashLen \/ ~Host!MayWrite(Host!Address(p), HashLen)
  <2>1. memory' = memory /\ UNCHANGED Host!host
    BY <1>5 DEF Host!NetworkDomain, Host!Traps
  <2> QED BY <2>1, NothingDone
<1>6. CASE n >= HashLen /\ Host!MayWrite(Host!Address(p), HashLen)
  <2>1. /\ written \in [Readable -> Nat]
        /\ \A a \in Readable : written[a] # memory[a] =>
              a \in Host!Range(Host!Address(p), HashLen) \cap Writable
    BY <1>1, <1>2, <1>3, <1>6, PutInRange DEF HostInv
  <2>2. Host!Range(Host!Address(p), HashLen) \subseteq buffer'
    BY <1>1, <1>4, <1>6 DEF Host!Range
  <2>3. UNCHANGED Host!host
    BY <1>1, <1>6 DEF Host!NetworkDomain, Host!Traps
  <2>4. CASE ~Host!MayWrite(Host!Address(q), 1)
    <3>1. memory' = written
      BY <1>1, <1>3, <1>6, <2>4 DEF Host!NetworkDomain
    <3> QED BY Zenon, <2>1, <2>2, <2>3, <3>1 DEF Contained, HostInv, Host!TrapsLeaveHost,
               Host!BuffersKept, Host!host
  <2>5. CASE Host!MayWrite(Host!Address(q), 1)
    <3>1. memory' = Host!Put(written, Host!Address(q), <<HashLen>>)
      BY <1>1, <1>3, <1>6, <2>5 DEF Host!NetworkDomain
    <3>2. <<HashLen>> \in Seq(Nat) /\ Len(<<HashLen>>) = 1
      BY <1>1
    <3>3. /\ memory' \in [Readable -> Nat]
          /\ \A a \in Readable : memory'[a] # written[a] =>
                a \in Host!Range(Host!Address(q), 1) \cap Writable
      BY Zenon, <1>1, <2>1, <2>5, <3>1, <3>2, PutInRange
    <3>4. Host!Range(Host!Address(q), 1) \subseteq buffer'
      BY <1>1, <1>4 DEF Host!Range
    <3>5. \A a \in Readable : memory'[a] # memory[a] => a \in buffer' \cap Writable
      BY <2>1, <2>2, <3>3, <3>4
    <3> QED BY <2>3, <3>3, <3>5, Zenon DEF Contained, HostInv, Host!TrapsLeaveHost, Host!BuffersKept,
               Host!host
  <2> QED BY Zenon, <2>4, <2>5
<1> QED BY <1>1, <1>5, <1>6

(* An item is fetched from an offset on. *)
LEMMA FetchContained ==
    ASSUME Host!Assumption, HostInv, NEW p \in Pointers, NEW offset \in Lengths,
           NEW n \in Lengths, Host!Fetch(p, offset, n)
    PROVE  Contained
<1>1. Host!Address(p) \in Int /\ n \in Nat /\ offset \in Nat
  BY AddressIsInt DEF Host!Assumption
<1>2. CASE Host!Absent
  BY <1>2, NothingDone DEF Host!Absent
<1>3. ASSUME NEW item \in Host!Items,
             Host!Delivers(Host!Address(p), n, SubSeq(item, offset + 1, Len(item)), Len(item))
      PROVE  Contained
  <2>1. item \in Seq(Nat)
    <3>1. <<>> \in Seq(Nat) /\ <<1, 0>> \in Seq(Nat)
      OBVIOUS
    <3> QED BY Zenon, <3>1 DEF Host!Items
  <2>2. SubSeq(item, offset + 1, Len(item)) \in Seq(Nat)
    BY <1>1, <2>1
  <2> QED BY <1>1, <1>3, <2>2, DeliversContained, Zenon
<1> QED BY <1>2, <1>3 DEF Host!Fetch

(* Every step of the guest and of the host is contained. *)
LEMMA NextHost ==
    ASSUME Host!Assumption, HostInv, [Host!Next]_(Host!vars)
    PROVE  HostInv' /\ [Host!TrapsLeaveHost /\ Host!BuffersKept]_(Host!vars)
<1> SUFFICES Contained
  BY DEF Contained
<1>1. CASE UNCHANGED Host!vars
  BY Zenon, <1>1, NothingDone DEF Host!vars
<1>2. CASE Host!Guest
  <2>1. CASE memory' = memory /\ UNCHANGED Host!host
    BY Zenon, <2>1, NothingDone
  <2>2. ASSUME NEW a \in Writable, NEW b \in Host!Bytes, memory' = [memory EXCEPT ![a] = b],
               buffer' = Writable, UNCHANGED Host!host
        PROVE  Contained
    <3>1. b \in Nat /\ a \in Readable
      BY DEF Host!Bytes, Host!Assumption
    <3>2. memory' \in [Readable -> Nat] /\ \A x \in Readable : memory'[x] # memory[x] => x = a
      BY <2>2, <3>1 DEF HostInv
    <3> QED BY <2>2, <3>2 DEF HostInv, Contained, Host!TrapsLeaveHost, Host!BuffersKept, Host!host
  <2> QED BY <1>2, <2>1, <2>2 DEF Host!Guest
<1>3. ASSUME NEW gas \in {-1, 1}, Host!Gas(gas) PROVE Contained
  BY <1>3, NothingDone DEF Host!Gas
<1>4. CASE Host!Unsupported
  BY <1>4, NothingDone DEF Host!Unsupported, Host!Traps
<1>5. ASSUME NEW p \in Pointers, Host!Yield(p) PROVE Contained
  <2>1. CASE memory' = memory /\ UNCHANGED Host!host
    BY Zenon, <2>1, NothingDone
  <2>2. CASE memory' = memory /\ status' = "running" /\ storage' = storage
    BY <2>2, HostDone DEF HostInv
  <2> QED BY <1>5, <2>1, <2>2 DEF Host!Yield, Host!Traps, Host!Returns
<1>6. ASSUME NEW p \in Pointers, NEW n \in Lengths, Host!Log(p, n) PROVE Contained
  <2>1. CASE memory' = memory /\ UNCHANGED Host!host
    BY Zenon, <2>1, NothingDone
  <2>2. CASE memory' = memory /\ status' = "running" /\ storage' = storage
    BY <2>2, HostDone DEF HostInv
  <2> QED BY <1>6, <2>1, <2>2 DEF Host!Log, Host!Traps, Host!Returns
<1>7. CASE Host!Ecalli
  BY <1>3, <1>4, <1>5, <1>6, <1>7, FetchContained, DomainContained, ReadContained,
     WriteContained, Zenon DEF Host!Ecalli
<1> QED BY <1>1, <1>2, <1>7 DEF Host!Next

(* Whatever pointers and lengths the guest passes, a host call that traps     *)
(* leaves the host as it was, no host call writes outside the writable part   *)
(* of the buffers it was given, and no empty value is stored.                 *)
THEOREM HostIsContained ==
    ASSUME Host!Assumption
    PROVE  Host!Spec => HostCallsContained
<1>1. Host!Init => HostInv
  BY DEF Host!Init, HostInv, Host!Bytes
<1>2. HostInv /\ [Host!Next]_(Host!vars) =>
         HostInv' /\ [Host!HostCallsContained]_(Host!vars)
  BY NextHost DEF Host!HostCallsContained
<1>3. HostInv => Host!NoEmptyValue
  BY Zenon DEF HostInv, Host!NoEmptyValue
<1> QED BY <1>1, <1>2, <1>3, PTL DEF Host!Spec, HostCallsContained
-----------------------------------------------------------------------------
(* The way of a work bundle (module WorkBundle) *)

(* What a worker holds is what the reference commits to, with the package of  *)
(* the work in it; nothing is fetched before a work is admitted; and a work   *)
(* that was built refers to the very bundle of its package.                   *)
BundleInv ==
    /\ outcome = [w \in Workers |-> outcome[w]] /\ held = [w \in Workers |-> held[w]]
    /\ intact \subseteq Workers
    /\ \A w \in Workers : outcome[w] = "ok" =>
          /\ task # None /\ held[w] = task.ref.hash /\ task.ref.hash.package = task.package
    /\ \A w \in intact : task # None /\ (task.built => outcome[w] = "ok")
    /\ task # None => /\ Bundle!ValidateContentRef(task.ref) /\ task.package \in Packages
                      /\ task.built => \E data \in Data, size \in Sizes :
                            task.ref = Bundle!ContentRef(Bundle!BundleOf(task.package, data, size))

(* A worker accepts the bytes that were committed to, and no others; what was *)
(* built is accepted.                                                         *)
LEMMA VerifyExact ==
    ASSUME Bundle!Assumption, BundleInv, task # None, NEW bytes
    PROVE  /\ Bundle!VerifyWorkBundle(task.ref, bytes, task.package) = "ok" =>
                 bytes = task.ref.hash /\ task.ref.hash.package = task.package
           /\ task.built /\ bytes = task.ref.hash =>
                 Bundle!VerifyWorkBundle(task.ref, bytes, task.package) = "ok"
<1>1. ASSUME Bundle!VerifyWorkBundle(task.ref, bytes, task.package) = "ok"
      PROVE  bytes = task.ref.hash /\ task.ref.hash.package = task.package
  <2>1. /\ Bundle!VerifyContentRef(task.ref, bytes) = "ok" /\ Bundle!DecodeBundle(bytes) = "ok"
        /\ bytes.hash = task.package
    BY <1>1 DEF Bundle!VerifyWorkBundle, Bundle!Expected
  <2>2. bytes = task.ref.hash
    BY <2>1, Zenon DEF Bundle!VerifyContentRef, Bundle!HashMatches
  <2>3. bytes.hash = bytes.package
    BY <2>1 DEF Bundle!DecodeBundle
  <2> QED BY <2>1, <2>2, <2>3
<1>2. ASSUME task.built, bytes = task.ref.hash
      PROVE  Bundle!VerifyWorkBundle(task.ref, bytes, task.package) = "ok"
  <2>1. PICK data \in Data, size \in Sizes :
           task.ref = Bundle!ContentRef(Bundle!BundleOf(task.package, data, size))
    BY Zenon, <1>2 DEF BundleInv
  <2>2. bytes = Bundle!BundleOf(task.package, data, size)
    BY ONLY <1>2, <2>1 DEF Bundle!ContentRef
  <2>3. task.ref.cid = "cid" /\ task.ref.size = bytes.size /\ task.ref.size <= MaxBundleBytes
    BY <1>2, <2>1, <2>2 DEF Bundle!ContentRef, BundleInv, Bundle!ValidateContentRef
  <2>4. Bundle!VerifyContentRef(task.ref, bytes) = "ok"
    BY Zenon, <1>2, <2>3 DEF Bundle!VerifyContentRef, Bundle!SizeAllowed, Bundle!HashMatches
  <2>5. Bundle!DecodeBundle(bytes) = "ok" /\ bytes.hash = task.package
    BY <2>2 DEF Bundle!DecodeBundle, Bundle!BundleOf, Bundle!Version
  <2> QED BY <2>4, <2>5 DEF Bundle!VerifyWorkBundle, Bundle!Expected
<1> QED BY <1>1, <1>2

(* Every step keeps the invariant. *)
LEMMA NextBundle ==
    ASSUME Bundle!Assumption, BundleInv, [Bundle!Next]_(Bundle!vars)
    PROVE  BundleInv'
<1>1. CASE UNCHANGED Bundle!vars
  BY <1>1, Zenon DEF Bundle!vars, BundleInv, Bundle!ValidateContentRef
<1>2. ASSUME NEW package \in Packages, NEW ref, NEW built, Bundle!Submit(package, ref, built),
             built => \E data \in Data, size \in Sizes :
                         ref = Bundle!ContentRef(Bundle!BundleOf(package, data, size))
      PROVE  BundleInv'
  <2>1. /\ task = None /\ Bundle!ValidateContentRef(ref)
        /\ task' = [package |-> package, ref |-> ref, built |-> built]
        /\ outcome' = outcome /\ held' = held /\ intact' = intact
    BY Zenon, <1>2 DEF Bundle!Submit
  <2>2. intact = {} /\ \A w \in Workers : outcome[w] # "ok"
    BY <2>1 DEF BundleInv
  <2>3. task'.package = package /\ task'.ref = ref /\ task'.built = built
    BY Zenon, <2>1
  <2>4. /\ Bundle!ValidateContentRef(task'.ref) /\ task'.package \in Packages
        /\ task'.built => \E data \in Data, size \in Sizes :
              task'.ref = Bundle!ContentRef(Bundle!BundleOf(task'.package, data, size))
    BY <1>2, <2>1, <2>3
  <2> QED BY <2>1, <2>2, <2>4, Zenon DEF BundleInv, Bundle!ValidateContentRef
<1>3. ASSUME NEW package \in Packages, NEW data \in Data, NEW size \in Sizes,
             Bundle!SubmitBuilt(package, data, size)
      PROVE  BundleInv'
  BY <1>2, <1>3, Zenon DEF Bundle!SubmitBuilt
<1>4. ASSUME NEW w \in Workers, NEW bytes, Bundle!PrepareBundle(w, bytes)
      PROVE  BundleInv'
  <2>1. PICK verdict : verdict = IF bytes = None THEN "NotFound"
                                 ELSE Bundle!VerifyWorkBundle(task.ref, bytes, task.package)
    OBVIOUS
  <2>2. /\ task # None /\ task' = task /\ outcome' = [outcome EXCEPT ![w] = verdict]
        /\ held' = [held EXCEPT ![w] = IF verdict = "ok" THEN bytes ELSE None]
        /\ intact' = IF bytes = task.ref.hash THEN intact \cup {w} ELSE intact \ {w}
    BY Zenon, <1>4, <2>1 DEF Bundle!PrepareBundle
  <2>3. /\ outcome' = [v \in Workers |-> outcome'[v]] /\ outcome'[w] = verdict
        /\ held' = [v \in Workers |-> held'[v]] /\ (verdict = "ok" => held'[w] = bytes)
        /\ \A v \in Workers : v # w => outcome'[v] = outcome[v] /\ held'[v] = held[v]
        /\ intact' \subseteq Workers
    BY <2>2, Zenon DEF BundleInv
  <2>4. verdict = "ok" => bytes = task.ref.hash /\ task.ref.hash.package = task.package
    BY Zenon, <2>1, <2>2, VerifyExact
  <2>5. w \in intact' => bytes = task.ref.hash
    BY Zenon, <2>2
  <2>6. task.built /\ bytes = task.ref.hash => verdict = "ok"
    <3> SUFFICES ASSUME task.built, bytes = task.ref.hash PROVE verdict = "ok"
      BY Zenon
    <3>1. PICK data \in Data, size \in Sizes :
             task.ref = Bundle!ContentRef(Bundle!BundleOf(task.package, data, size))
      BY <2>2 DEF BundleInv
    <3>2. bytes # None
      <4>1. Bundle!BundleOf(task.package, data, size) \in Bundle!Bytes
        BY <2>2 DEF BundleInv, Bundle!BundleOf, Bundle!Bytes
      <4>2. \A b : Bundle!ContentRef(b).hash = b
        BY ONLY DEF Bundle!ContentRef
      <4>3. bytes = Bundle!BundleOf(task.package, data, size)
        BY Zenon, <3>1, <4>2
      <4> QED BY Zenon, <4>1, <4>3 DEF Bundle!Assumption
    <3> QED BY <2>1, <2>2, <3>2, VerifyExact
  <2> QED BY <2>2, <2>3, <2>4, <2>5, <2>6, ZenonT(40) DEF BundleInv, Bundle!ValidateContentRef
<1> QED BY Zenon, <1>1, <1>2, <1>3, <1>4 DEF Bundle!Next

(* Whoever submits the reference and whatever the gateways deliver, workers   *)
(* that accept a bundle hold the same bytes with the package of the work, and *)
(* accept what the Formal RPC has built.                                      *)
THEOREM BundlesAlwaysAgree ==
    ASSUME Bundle!Assumption
    PROVE  Bundle!Spec => []BundlesAgree
<1>1. Bundle!Init => BundleInv
  BY Zenon DEF Bundle!Init, BundleInv, Bundle!Assumption
<1>2. BundleInv /\ [Bundle!Next]_(Bundle!vars) => BundleInv'
  BY NextBundle
<1>3. BundleInv => BundlesAgree
  BY DEF BundlesAgree, BundleInv, Bundle!BundlesAgree, Bundle!AcceptedAgree, Bundle!BuiltAccepted
<1> QED BY <1>1, <1>2, <1>3, PTL DEF Bundle!Spec
-----------------------------------------------------------------------------
(* The bulletin simulator (module Bulletin) *)

(* A location that has been given out when block b has come to index i *)
Given(l, b, i) ==
    l[1] \in Nat /\ l[2] \in Nat /\ (l[1] < b \/ (l[1] = b /\ l[2] < i))

StoreType ==
    /\ block \in Nat /\ nextIndex \in Nat
    /\ \A l \in DOMAIN locations : Given(l, block, nextIndex)
    /\ \A c \in DOMAIN entries :
          Given(entries[c].location, block, nextIndex) /\ entries[c].until \in Nat
    /\ \A p \in DOMAIN writing :
          Given(writing[p].location, block, nextIndex) /\ writing[p].until \in Nat
    /\ \A r \in receipts : r.until \in Nat

(* Every entry is filed at its location, its content is on disk or being      *)
(* written, and its retention ends no earlier than any receipt says.          *)
EntriesSound ==
    /\ Store!EntriesLocated
    /\ \A c \in DOMAIN entries :
          /\ entries[c].until <= block + Retention
          /\ c \in blobs \/ \E p \in DOMAIN writing : writing[p].content = c

(* A writer's content has an entry that outlives the writer's receipt, and    *)
(* its location leads to nothing else.                                        *)
WritersSound ==
    /\ Store!OneWriter
    /\ \A p \in DOMAIN writing :
          /\ writing[p].content \in DOMAIN entries
          /\ writing[p].until <= entries[writing[p].content].until
          /\ writing[p].until <= block + Retention
          /\ writing[p].location \in DOMAIN locations =>
                locations[writing[p].location] = writing[p].content

ReceiptsSound ==
    \A r \in receipts :
        /\ r.until <= block + Retention
        /\ r.content \notin failed =>
              r.content \in DOMAIN entries /\ r.until <= entries[r.content].until

StoreInv == StoreType /\ EntriesSound /\ WritersSound /\ ReceiptsSound

(* An end is at most itself. *)
LEMMA AtMostItself == ASSUME NEW n \in Nat PROVE n <= n
  OBVIOUS

(* An empty map holds nothing. *)
LEMMA NothingStored == DOMAIN <<>> = {} /\ 0 \in Nat
  OBVIOUS

(* Locations stay given out when block number and index go on. *)
LEMMA GivenStays ==
    ASSUME StoreType, block' \in Nat, nextIndex' \in Nat,
           block' > block \/ (block' = block /\ nextIndex' >= nextIndex),
           NEW l, Given(l, block, nextIndex)
    PROVE  Given(l, block', nextIndex')
  BY DEF StoreType, Given

(* A bound relative to the block number holds later. *)
LEMMA LaterStays ==
    ASSUME NEW a \in Nat, NEW b \in Nat, NEW k \in Nat, NEW u \in Nat, a <= b, u <= a + k
    PROVE  u <= b + k
  OBVIOUS

(* Nothing but the block number, the index, the quota and the faults change. *)
LEMMA StoreFrame ==
    ASSUME Store!Assumption, StoreInv, block' \in Nat, nextIndex' \in Nat,
           block' > block \/ (block' = block /\ nextIndex' >= nextIndex),
           UNCHANGED <<entries, locations, blobs, writing, receipts, failed>>
    PROVE  StoreInv'
<1>1. block \in Nat /\ block <= block' /\ Retention \in Nat
  BY DEF StoreInv, StoreType, Store!Assumption
<1>2. \A l : Given(l, block, nextIndex) => Given(l, block', nextIndex')
  BY GivenStays DEF StoreInv
<1>3. ASSUME NEW u \in Nat, u <= block + Retention PROVE u <= block' + Retention
  BY Zenon, <1>1, <1>3, LaterStays
<1>4. StoreType'
  BY Zenon, <1>2 DEF StoreInv, StoreType
<1>5. EntriesSound'
  BY Zenon, <1>3 DEF StoreInv, StoreType, EntriesSound, Store!EntriesLocated
<1>6. WritersSound'
  BY Zenon, <1>3 DEF StoreInv, StoreType, WritersSound, Store!OneWriter
<1>7. ReceiptsSound'
  BY Zenon, <1>3 DEF StoreInv, StoreType, ReceiptsSound
<1> QED BY Zenon, <1>4, <1>5, <1>6, <1>7 DEF StoreInv

(* The entry of c is new: it has the receipt r, at the location here *)
EntryNew(c, here, r) ==
    /\ r.content = c /\ r.location = here /\ r.until = block + Retention /\ r.until \in Nat
    /\ block' \in Nat /\ nextIndex' \in Nat
    /\ Given(here, block', nextIndex')
    /\ \A l : Given(l, block, nextIndex) => Given(l, block', nextIndex') /\ l # here
    /\ DOMAIN entries' = DOMAIN entries \cup {c} /\ entries'[c] = r
    /\ \A d \in DOMAIN entries : d # c => entries'[d] = entries[d]
    /\ \A d \in DOMAIN entries : entries[d].until <= entries'[d].until
    /\ DOMAIN locations' = DOMAIN locations \cup {here} /\ locations'[here] = c
    /\ \A l \in DOMAIN locations : l # here /\ locations'[l] = locations[l]
    /\ Store!EntriesLocated'
    /\ \A d \in DOMAIN entries' :
          Given(entries'[d].location, block', nextIndex') /\ entries'[d].until \in Nat
              /\ entries'[d].until <= block' + Retention
    /\ \A l \in DOMAIN locations' : Given(l, block', nextIndex')

(* A new entry, for store and for renew: it is filed at a location of its own *)
(* and outlives every receipt there is.                                       *)
LEMMA EntryMade ==
    ASSUME Store!Assumption, StoreInv, NEW c, NEW here, here = Store!Here,
           NEW r, r = Store!Receipt(c), block' = block, nextIndex' = nextIndex + 1,
           locations' = Insert(locations, here, c), entries' = Insert(entries, c, r)
    PROVE  EntryNew(c, here, r)
<1>0. StoreType /\ EntriesSound
  BY Zenon DEF StoreInv
<1>1. block \in Nat /\ nextIndex \in Nat /\ Retention \in Nat
  BY <1>0, Zenon DEF StoreType, Store!Assumption
<1>2. r.content = c /\ r.location = here /\ r.until = block + Retention /\ r.until \in Nat
  BY <1>1 DEF Store!Receipt
<1>3. here = <<block, nextIndex>> /\ here[1] = block /\ here[2] = nextIndex
  BY DEF Store!Here
<1>4. block' \in Nat /\ nextIndex' \in Nat /\ nextIndex' > nextIndex
  BY <1>1
<1>5. Given(here, block', nextIndex')
  BY Zenon, <1>1, <1>3, <1>4 DEF Given
<1>6. ASSUME NEW l, Given(l, block, nextIndex) PROVE Given(l, block', nextIndex') /\ l # here
  BY <1>0, <1>1, <1>3, <1>4, <1>6 DEF Given
<1>7. /\ DOMAIN entries' = DOMAIN entries \cup {c} /\ entries'[c] = r
      /\ \A d \in DOMAIN entries : d # c => entries'[d] = entries[d]
  BY Zenon DEF Insert
<1>8. /\ DOMAIN locations' = DOMAIN locations \cup {here} /\ locations'[here] = c
      /\ \A l \in DOMAIN locations : l # here /\ locations'[l] = locations[l]
  <2>1. \A l \in DOMAIN locations : l # here
    BY ZenonT(40), <1>0, <1>6 DEF StoreType
  <2> QED BY <2>1 DEF Insert
<1>9. ASSUME NEW d \in DOMAIN entries PROVE entries[d].until <= entries'[d].until
  <2>1. entries[d].until \in Nat /\ entries[d].until <= block + Retention
    BY <1>0 DEF StoreType, EntriesSound
  <2>2. entries'[d] = r \/ entries'[d] = entries[d]
    BY Zenon, <1>7
  <2> QED BY ONLY <1>2, <2>1, <2>2
<1>10. ASSUME NEW d \in DOMAIN entries'
       PROVE  /\ entries'[d].location \in DOMAIN locations'
              /\ locations'[entries'[d].location] = d
              /\ Given(entries'[d].location, block', nextIndex') /\ entries'[d].until \in Nat
              /\ entries'[d].until <= block' + Retention
  <2>1. CASE d = c
    BY <1>1, <1>2, <1>5, <1>7, <1>8, <2>1
  <2>2. CASE d # c
    <3>1. d \in DOMAIN entries /\ entries'[d] = entries[d]
      BY <1>7, <1>10, <2>2
    <3>2. /\ entries[d].location \in DOMAIN locations /\ locations[entries[d].location] = d
          /\ Given(entries[d].location, block, nextIndex) /\ entries[d].until \in Nat
          /\ entries[d].until <= block + Retention
      BY Zenon, <1>0, <3>1 DEF StoreType, EntriesSound, Store!EntriesLocated
    <3>3. /\ entries[d].location \in DOMAIN locations' /\ locations'[entries[d].location] = d
          /\ Given(entries[d].location, block', nextIndex')
      BY <1>6, <1>8, <3>2, ZenonT(40)
    <3> QED BY ZenonT(40), <3>1, <3>2, <3>3
  <2> QED BY ZenonT(40), <2>1, <2>2
<1>11. Store!EntriesLocated'
  BY <1>10 DEF Store!EntriesLocated
<1>12. \A l \in DOMAIN locations' : Given(l, block', nextIndex')
  BY <1>0, <1>5, <1>6, <1>8, Zenon DEF StoreType
<1> QED BY <1>2, <1>4, <1>5, <1>6, <1>7, <1>8, <1>9, <1>10, <1>11, <1>12, ZenonT(40) DEF EntryNew

(* A content is stored of which there is no entry: its caller writes the file. *)
LEMMA StoreNew ==
    ASSUME Store!Assumption, StoreInv, NEW p, NEW c, p \notin DOMAIN writing, c \notin DOMAIN entries,
           block' = block, nextIndex' = nextIndex + 1,
           locations' = Insert(locations, Store!Here, c),
           entries' = Insert(entries, c, Store!Receipt(c)),
           writing' = Insert(writing, p, Store!Receipt(c)),
           UNCHANGED <<receipts, blobs, failed>>
    PROVE  StoreInv'
<1>0. StoreType /\ EntriesSound /\ WritersSound /\ ReceiptsSound
  BY Zenon DEF StoreInv
<1>1. PICK here, r : /\ here = Store!Here /\ r = Store!Receipt(c)
                     /\ locations' = Insert(locations, here, c)
                     /\ entries' = Insert(entries, c, r) /\ writing' = Insert(writing, p, r)
  BY Zenon
<1>a. EntryNew(c, here, r)
  BY <1>1, EntryMade
<1>2. /\ r.content = c /\ r.location = here /\ r.until = block + Retention /\ r.until \in Nat
      /\ block' \in Nat /\ nextIndex' \in Nat
      /\ Given(here, block', nextIndex')
      /\ \A l : Given(l, block, nextIndex) => Given(l, block', nextIndex') /\ l # here
      /\ DOMAIN entries' = DOMAIN entries \cup {c} /\ entries'[c] = r
      /\ \A d \in DOMAIN entries : d # c => entries'[d] = entries[d]
      /\ \A d \in DOMAIN entries : entries[d].until <= entries'[d].until
      /\ DOMAIN locations' = DOMAIN locations \cup {here} /\ locations'[here] = c
      /\ \A l \in DOMAIN locations : l # here /\ locations'[l] = locations[l]
      /\ Store!EntriesLocated'
      /\ \A d \in DOMAIN entries' :
            Given(entries'[d].location, block', nextIndex') /\ entries'[d].until \in Nat
                /\ entries'[d].until <= block' + Retention
      /\ \A l \in DOMAIN locations' : Given(l, block', nextIndex')
  BY Zenon, <1>a DEF EntryNew
<1>3. /\ DOMAIN writing' = DOMAIN writing \cup {p} /\ writing'[p] = r
      /\ \A q \in DOMAIN writing : q # p /\ writing'[q] = writing[q]
  BY <1>1, Zenon DEF Insert
<1>4. StoreType'
  <2>1. ASSUME NEW q \in DOMAIN writing'
        PROVE  Given(writing'[q].location, block', nextIndex') /\ writing'[q].until \in Nat
    BY ZenonT(40), <1>0, <1>2, <1>3, <2>1 DEF StoreType
  <2>2. \A x \in receipts' : x.until \in Nat
    BY Zenon, <1>0 DEF StoreType
  <2> QED BY ZenonT(40), <1>2, <2>1, <2>2 DEF StoreType
<1>5. EntriesSound'
  <2>1. ASSUME NEW d \in DOMAIN entries'
        PROVE  d \in blobs' \/ \E q \in DOMAIN writing' : writing'[q].content = d
    <3>1. CASE d = c
      BY <1>2, <1>3, <3>1, Zenon
    <3>2. CASE d # c
      <4>1. d \in DOMAIN entries
        BY Zenon, <1>2, <2>1, <3>2
      <4>2. d \in blobs \/ \E q \in DOMAIN writing : writing[q].content = d
        BY Zenon, <1>0, <4>1 DEF EntriesSound
      <4> QED BY <1>3, <4>2, Zenon
    <3> QED BY Zenon, <3>1, <3>2
  <2> QED BY Zenon, <1>2, <2>1 DEF EntriesSound
<1>6. ASSUME NEW q \in DOMAIN writing
      PROVE  /\ writing[q].content \in DOMAIN entries /\ writing[q].content # c
             /\ writing[q].content \in DOMAIN entries'
             /\ entries'[writing[q].content] = entries[writing[q].content]
             /\ writing[q].until <= entries'[writing[q].content].until
             /\ writing[q].until <= block' + Retention
             /\ writing[q].location # here
             /\ writing[q].location \in DOMAIN locations' =>
                   locations'[writing[q].location] = writing[q].content
  <2>1. /\ writing[q].content \in DOMAIN entries
        /\ writing[q].until <= entries[writing[q].content].until
        /\ writing[q].until <= block + Retention /\ Given(writing[q].location, block, nextIndex)
        /\ writing[q].location \in DOMAIN locations =>
              locations[writing[q].location] = writing[q].content
    BY Zenon, <1>0, <1>6 DEF WritersSound, StoreType
  <2>2. writing[q].content # c /\ writing[q].location # here
    BY Zenon, <1>2, <2>1
  <2> QED BY Zenon, <1>2, <2>1, <2>2
<1>7. WritersSound'
  <2>1. ASSUME NEW q \in DOMAIN writing'
        PROVE  /\ writing'[q].content \in DOMAIN entries'
               /\ writing'[q].until <= entries'[writing'[q].content].until
               /\ writing'[q].until <= block' + Retention
               /\ writing'[q].location \in DOMAIN locations' =>
                     locations'[writing'[q].location] = writing'[q].content
    <3>1. CASE q = p
      <4>1. r.until \in Nat /\ r.until <= block' + Retention
        BY Zenon, <1>2
      <4>2. ASSUME NEW n \in Nat PROVE n <= n
        BY <4>2, SMT
      <4>3. r.until <= r.until
        BY Zenon, <4>1, <4>2
      <4> QED BY ZenonT(40), <1>2, <1>3, <3>1, <4>1, <4>3
    <3>2. CASE q # p
      BY Zenon, <1>3, <1>6, <2>1, <3>2
    <3> QED BY Zenon, <3>1, <3>2
  <2>2. ASSUME NEW q \in DOMAIN writing', NEW s \in DOMAIN writing', q # s
        PROVE  writing'[q].content # writing'[s].content
    <3>1. CASE q \in DOMAIN writing /\ s \in DOMAIN writing
      BY ZenonT(40), <1>0, <1>3, <2>2, <3>1 DEF WritersSound, Store!OneWriter
    <3>2. CASE q = p /\ s \in DOMAIN writing
      BY ZenonT(40), <1>2, <1>3, <1>6, <3>2
    <3>3. CASE s = p /\ q \in DOMAIN writing
      BY Zenon, <1>2, <1>3, <1>6, <3>3
    <3> QED BY Zenon, <1>3, <2>2, <3>1, <3>2, <3>3
  <2> QED BY Zenon, <2>1, <2>2 DEF WritersSound, Store!OneWriter
<1>8. ReceiptsSound'
  BY ZenonT(40), <1>0, <1>2 DEF ReceiptsSound
<1> QED BY Zenon, <1>4, <1>5, <1>7, <1>8 DEF StoreInv

(* A content that has an entry is stored again or renewed: it is answered at  *)
(* once.                                                                      *)
LEMMA StoreAgain ==
    ASSUME Store!Assumption, StoreInv, NEW c, c \in DOMAIN entries,
           block' = block, nextIndex' = nextIndex + 1,
           locations' = Insert(locations, Store!Here, c),
           entries' = Insert(entries, c, Store!Receipt(c)),
           receipts' = receipts \cup {Store!Receipt(c)},
           UNCHANGED <<writing, blobs, failed>>
    PROVE  StoreInv'
<1>0. StoreType /\ EntriesSound /\ WritersSound /\ ReceiptsSound
  BY Zenon DEF StoreInv
<1>1. PICK here, r : /\ here = Store!Here /\ r = Store!Receipt(c)
                     /\ locations' = Insert(locations, here, c)
                     /\ entries' = Insert(entries, c, r) /\ receipts' = receipts \cup {r}
  BY ZenonT(40)
<1>a. EntryNew(c, here, r)
  BY <1>1, EntryMade
<1>2. /\ r.content = c /\ r.location = here /\ r.until = block + Retention /\ r.until \in Nat
      /\ block' \in Nat /\ nextIndex' \in Nat
      /\ Given(here, block', nextIndex')
      /\ \A l : Given(l, block, nextIndex) => Given(l, block', nextIndex') /\ l # here
      /\ DOMAIN entries' = DOMAIN entries \cup {c} /\ entries'[c] = r
      /\ \A d \in DOMAIN entries : d # c => entries'[d] = entries[d]
      /\ \A d \in DOMAIN entries : entries[d].until <= entries'[d].until
      /\ DOMAIN locations' = DOMAIN locations \cup {here} /\ locations'[here] = c
      /\ \A l \in DOMAIN locations : l # here /\ locations'[l] = locations[l]
      /\ Store!EntriesLocated'
      /\ \A d \in DOMAIN entries' :
            Given(entries'[d].location, block', nextIndex') /\ entries'[d].until \in Nat
                /\ entries'[d].until <= block' + Retention
      /\ \A l \in DOMAIN locations' : Given(l, block', nextIndex')
  BY Zenon, <1>a DEF EntryNew
<1>3. DOMAIN entries' = DOMAIN entries
  BY <1>2, ZenonT(40)
<1>4. ASSUME NEW u \in Nat, NEW d \in DOMAIN entries, u <= entries[d].until
      PROVE  u <= entries'[d].until
  <2>1. entries[d].until \in Nat /\ entries'[d].until \in Nat /\ entries[d].until <= entries'[d].until
    BY Zenon, <1>0, <1>2, <1>3 DEF StoreType
  <2> QED BY <1>4, <2>1
<1>5. StoreType'
  <2>1. \A x \in receipts' : x.until \in Nat
    BY <1>0, <1>1, <1>2, Zenon DEF StoreType
  <2>2. \A q \in DOMAIN writing' :
           Given(writing'[q].location, block', nextIndex') /\ writing'[q].until \in Nat
    BY Zenon, <1>0, <1>2 DEF StoreType
  <2> QED BY ZenonT(40), <1>2, <2>1, <2>2 DEF StoreType
<1>6. EntriesSound'
  <2>1. \A d \in DOMAIN entries' :
           d \in blobs' \/ \E q \in DOMAIN writing' : writing'[q].content = d
    BY Zenon, <1>0, <1>3 DEF EntriesSound
  <2> QED BY Zenon, <1>2, <2>1 DEF EntriesSound
<1>7. WritersSound'
  <2>1. ASSUME NEW q \in DOMAIN writing
        PROVE  /\ writing[q].content \in DOMAIN entries'
               /\ writing[q].until <= entries'[writing[q].content].until
               /\ writing[q].until <= block' + Retention
               /\ writing[q].location \in DOMAIN locations' =>
                     locations'[writing[q].location] = writing[q].content
    <3>1. /\ writing[q].content \in DOMAIN entries /\ writing[q].until \in Nat
          /\ writing[q].until <= entries[writing[q].content].until
          /\ writing[q].until <= block + Retention /\ Given(writing[q].location, block, nextIndex)
          /\ writing[q].location \in DOMAIN locations =>
                locations[writing[q].location] = writing[q].content
      BY Zenon, <1>0, <2>1 DEF WritersSound, StoreType
    <3>2. writing[q].until <= entries'[writing[q].content].until
      BY Zenon, <1>4, <3>1
    <3>3. writing[q].location # here
      BY Zenon, <1>2, <3>1
    <3> QED BY Zenon, <1>2, <3>1, <3>2, <3>3
  <2>2. Store!OneWriter'
    BY Zenon, <1>0 DEF WritersSound, Store!OneWriter
  <2> QED BY Zenon, <2>1, <2>2 DEF WritersSound
<1>8. ReceiptsSound'
  <2>1. ASSUME NEW x \in receipts'
        PROVE  /\ x.until <= block' + Retention
               /\ x.content \notin failed' =>
                     x.content \in DOMAIN entries' /\ x.until <= entries'[x.content].until
    <3>1. CASE x = r
      <4>1. r.until <= block' + Retention /\ r.until <= r.until
        BY Zenon, <1>2, AtMostItself
      <4> QED BY Zenon, <1>2, <3>1, <4>1
    <3>2. CASE x \in receipts
      <4>1. /\ x.until \in Nat /\ x.until <= block + Retention
            /\ x.content \notin failed =>
                  x.content \in DOMAIN entries /\ x.until <= entries[x.content].until
        BY Zenon, <1>0, <3>2 DEF ReceiptsSound, StoreType
      <4> QED BY Zenon, <1>3, <1>4, <4>1
    <3> QED BY Zenon, <1>1, <2>1, <3>1, <3>2
  <2> QED BY Zenon, <2>1 DEF ReceiptsSound
<1> QED BY Zenon, <1>5, <1>6, <1>7, <1>8 DEF StoreInv

(* The file is in place and the receipt answered. *)
LEMMA StoreWritten ==
    ASSUME StoreInv, NEW p, Store!WriteBlob(p)
    PROVE  StoreInv'
<1>0. StoreType /\ EntriesSound /\ WritersSound /\ ReceiptsSound
  BY Zenon DEF StoreInv
<1>1. PICK r : r = writing[p]
  BY Zenon
<1>2. /\ p \in DOMAIN writing /\ blobs' = blobs \cup {r.content} /\ receipts' = receipts \cup {r}
      /\ writing' = Store!RemoveAll(writing, {p}) /\ failed' = failed
      /\ UNCHANGED <<block, nextIndex, entries, locations>>
  BY <1>1 DEF Store!WriteBlob, Store!state
<1>3. /\ DOMAIN writing' = DOMAIN writing \ {p}
      /\ \A q \in DOMAIN writing' : writing'[q] = writing[q]
  BY <1>2 DEF Store!RemoveAll
<1>4. /\ r.content \in DOMAIN entries /\ r.until \in Nat /\ r.until <= block + Retention
      /\ r.until <= entries[r.content].until
  BY Zenon, <1>0, <1>1, <1>2 DEF WritersSound, StoreType
<1>5. StoreType'
  BY <1>0, <1>2, <1>3, <1>4, Zenon DEF StoreType
<1>6. EntriesSound'
  <2>1. ASSUME NEW d \in DOMAIN entries
        PROVE  d \in blobs' \/ \E q \in DOMAIN writing' : writing'[q].content = d
    <3>1. d \in blobs \/ \E q \in DOMAIN writing : writing[q].content = d
      BY Zenon, <1>0 DEF EntriesSound
    <3> QED BY Zenon, <1>1, <1>2, <1>3, <3>1
  <2>2. /\ Store!EntriesLocated'
        /\ \A d \in DOMAIN entries' : entries'[d].until <= block' + Retention
    BY Zenon, <1>0, <1>2 DEF EntriesSound, Store!EntriesLocated
  <2> QED BY Zenon, <1>2, <2>1, <2>2 DEF EntriesSound
<1>7. WritersSound'
  <2>1. Store!OneWriter'
    BY <1>0, <1>3, Zenon DEF WritersSound, Store!OneWriter
  <2>2. ASSUME NEW q \in DOMAIN writing'
        PROVE  q \in DOMAIN writing /\ writing'[q] = writing[q]
    BY ZenonT(40), <1>3, <2>2
  <2> QED BY Zenon, <1>0, <1>2, <2>1, <2>2 DEF WritersSound
<1>8. ReceiptsSound'
  BY Zenon, <1>0, <1>2, <1>4 DEF ReceiptsSound
<1> QED BY Zenon, <1>5, <1>6, <1>7, <1>8 DEF StoreInv

(* The write fails: entry and location are taken back, no other entry's. *)
LEMMA StoreFailed ==
    ASSUME StoreInv, NEW p, Store!WriteFails(p)
    PROVE  StoreInv'
<1>0. StoreType /\ EntriesSound /\ WritersSound /\ ReceiptsSound
  BY Zenon DEF StoreInv
<1>1. PICK c, l : c = writing[p].content /\ l = writing[p].location
  BY Zenon
<1>2. /\ p \in DOMAIN writing /\ failed' = failed \cup {c}
      /\ entries' = Store!RemoveAll(entries, {c}) /\ locations' = Store!RemoveAll(locations, {l})
      /\ writing' = Store!RemoveAll(writing, {p})
      /\ UNCHANGED <<block, nextIndex, blobs, receipts>>
  BY Zenon, <1>1 DEF Store!WriteFails
<1>3. /\ DOMAIN writing' = DOMAIN writing \ {p}
      /\ \A q \in DOMAIN writing' : writing'[q] = writing[q]
      /\ DOMAIN entries' = DOMAIN entries \ {c}
      /\ \A d \in DOMAIN entries' : entries'[d] = entries[d]
      /\ DOMAIN locations' = DOMAIN locations \ {l}
      /\ \A k \in DOMAIN locations' : locations'[k] = locations[k]
  BY <1>2 DEF Store!RemoveAll
<1>4. l \in DOMAIN locations => locations[l] = c
  BY Zenon, <1>0, <1>1, <1>2 DEF WritersSound
<1>5. \A q \in DOMAIN writing' : writing[q].content # c
  BY Zenon, <1>0, <1>1, <1>2, <1>3 DEF WritersSound, Store!OneWriter
<1>6. StoreType'
  BY <1>0, <1>2, <1>3, Zenon DEF StoreType
<1>7. EntriesSound'
  <2>1. ASSUME NEW d \in DOMAIN entries'
        PROVE  /\ entries'[d].location \in DOMAIN locations'
               /\ locations'[entries'[d].location] = d
               /\ entries'[d].until <= block' + Retention
               /\ d \in blobs' \/ \E q \in DOMAIN writing' : writing'[q].content = d
    <3>1. d \in DOMAIN entries /\ d # c /\ entries'[d] = entries[d]
      BY <1>3, <2>1, Zenon
    <3>2. /\ entries[d].location \in DOMAIN locations /\ locations[entries[d].location] = d
          /\ entries[d].until <= block + Retention
          /\ d \in blobs \/ \E q \in DOMAIN writing : writing[q].content = d
      BY Zenon, <1>0, <3>1 DEF EntriesSound, Store!EntriesLocated
    <3>3. entries[d].location # l
      BY Zenon, <1>4, <3>1, <3>2
    <3>4. d \in blobs' \/ \E q \in DOMAIN writing' : writing'[q].content = d
      BY <1>1, <1>2, <1>3, <3>1, <3>2, Zenon
    <3>5. entries[d].location \in DOMAIN locations' /\ locations'[entries[d].location] = d
      BY <1>3, <3>2, <3>3, Zenon
    <3> QED BY Zenon, <1>2, <3>1, <3>2, <3>4, <3>5
  <2> QED BY Zenon, <2>1 DEF EntriesSound, Store!EntriesLocated
<1>8. WritersSound'
  <2>1. ASSUME NEW q \in DOMAIN writing'
        PROVE  /\ writing'[q].content \in DOMAIN entries'
               /\ writing'[q].until <= entries'[writing'[q].content].until
               /\ writing'[q].until <= block' + Retention
               /\ writing'[q].location \in DOMAIN locations' =>
                     locations'[writing'[q].location] = writing'[q].content
    <3>1. q \in DOMAIN writing /\ writing'[q] = writing[q] /\ writing[q].content # c
      BY Zenon, <1>3, <1>5, <2>1
    <3>2. /\ writing[q].content \in DOMAIN entries
          /\ writing[q].until <= entries[writing[q].content].until
          /\ writing[q].until <= block + Retention
          /\ writing[q].location \in DOMAIN locations =>
                locations[writing[q].location] = writing[q].content
      BY Zenon, <1>0, <3>1 DEF WritersSound
    <3>3. /\ writing[q].content \in DOMAIN entries'
          /\ entries'[writing[q].content] = entries[writing[q].content]
      BY Zenon, <1>3, <3>1, <3>2
    <3>4. writing[q].location \in DOMAIN locations' =>
             locations'[writing[q].location] = writing[q].content
      BY ZenonT(40), <1>3, <3>2
    <3> QED BY Zenon, <1>2, <3>1, <3>2, <3>3, <3>4
  <2>2. Store!OneWriter'
    BY ZenonT(40), <1>0, <1>3 DEF WritersSound, Store!OneWriter
  <2> QED BY Zenon, <2>1, <2>2 DEF WritersSound
<1>9. ReceiptsSound'
  BY <1>0, <1>2, <1>3, Zenon DEF ReceiptsSound
<1> QED BY Zenon, <1>6, <1>7, <1>8, <1>9 DEF StoreInv

(* A new store is sound. *)
LEMMA InitStore ==
    ASSUME Store!Init
    PROVE  StoreInv
<1>1. /\ block = 0 /\ nextIndex = 0 /\ entries = <<>> /\ locations = <<>>
      /\ writing = <<>> /\ receipts = {} /\ failed = {}
  BY Zenon DEF Store!Init
<1> QED
  BY Zenon, <1>1, NothingStored
  DEF StoreInv, StoreType, EntriesSound, WritersSound, ReceiptsSound,
      Store!EntriesLocated, Store!OneWriter

(* A restart is a new store, with blobs that no receipt names. *)
LEMMA StoreRestarts ==
    ASSUME Store!Restart
    PROVE  StoreInv'
<1>1. /\ block' = 0 /\ nextIndex' = 0 /\ entries' = <<>> /\ locations' = <<>>
      /\ writing' = <<>> /\ receipts' = {} /\ failed' = {}
  BY DEF Store!Restart, Store!NewState
<1> QED
  BY Zenon, <1>1, NothingStored
  DEF StoreInv, StoreType, EntriesSound, WritersSound, ReceiptsSound,
      Store!EntriesLocated, Store!OneWriter

(* A request to store content, new or known. *)
LEMMA StoreStored ==
    ASSUME Store!Assumption, StoreInv, NEW p, NEW a, NEW c, Store!Store(p, a, c)
    PROVE  StoreInv'
<1>1. \A m, k, v : Store!Insert(m, k, v) = Insert(m, k, v)
  BY Zenon DEF Store!Insert, Insert
<1>2. /\ p \notin DOMAIN writing /\ block' = block /\ nextIndex' = nextIndex + 1
      /\ locations' = Insert(locations, Store!Here, c)
      /\ entries' = Insert(entries, c, Store!Receipt(c))
      /\ UNCHANGED <<blobs, failed>>
  BY Zenon, <1>1 DEF Store!Store, Store!NewEntry
<1>3. CASE c \in DOMAIN entries
  <2>1. receipts' = receipts \cup {Store!Receipt(c)} /\ writing' = writing
    BY Zenon, <1>3 DEF Store!Store, Store!ShouldWrite
  <2> QED BY Zenon, <1>2, <1>3, <2>1, StoreAgain
<1>4. CASE c \notin DOMAIN entries
  <2>1. writing' = Insert(writing, p, Store!Receipt(c)) /\ receipts' = receipts
    BY <1>1, <1>4 DEF Store!Store, Store!ShouldWrite
  <2> QED BY Zenon, <1>2, <1>4, <2>1, StoreNew
<1> QED BY Zenon, <1>3, <1>4

(* A renewal moves the content to a new location and a later end. *)
LEMMA StoreRenewed ==
    ASSUME Store!Assumption, StoreInv, NEW a, NEW c, Store!Renew(a, c)
    PROVE  StoreInv'
<1>1. \A m, k, v : Store!Insert(m, k, v) = Insert(m, k, v)
  BY Zenon DEF Store!Insert, Insert
<1>2. block' = block /\ nextIndex' = nextIndex + 1 /\ UNCHANGED <<writing, blobs, failed>>
  BY Zenon DEF Store!Renew
<1>3. CASE c \in DOMAIN entries
  <2>1. /\ locations' = Insert(locations, Store!Here, c)
        /\ entries' = Insert(entries, c, Store!Receipt(c))
        /\ receipts' = receipts \cup {Store!Receipt(c)}
    BY <1>1, <1>3 DEF Store!Renew, Store!RenewLocations
  <2> QED BY Zenon, <1>2, <1>3, <2>1, StoreAgain
<1>4. CASE c \notin DOMAIN entries
  <2>1. UNCHANGED <<entries, locations, receipts>>
    BY ZenonT(40), <1>4 DEF Store!Renew
  <2>2. /\ block' \in Nat /\ nextIndex' \in Nat
        /\ block' > block \/ (block' = block /\ nextIndex' >= nextIndex)
    <3>1. block \in Nat /\ nextIndex \in Nat
      BY Zenon DEF StoreInv, StoreType
    <3> QED BY ONLY <1>2, <3>1
  <2> QED BY Zenon, <1>2, <2>1, <2>2, StoreFrame
<1> QED BY Zenon, <1>3, <1>4

(* Every step of the service and of its callers keeps the invariant. *)
LEMMA NextStore ==
    ASSUME Store!Assumption, StoreInv, Store!Next \/ UNCHANGED Store!vars
    PROVE  StoreInv'
<1>0. block \in Nat /\ nextIndex \in Nat /\ MaxBlock \in Nat
  BY Zenon DEF StoreInv, StoreType, Store!Assumption
<1>1. ASSUME NEW b \in 0..MaxBlock, Store!SetBlockNumber(b) PROVE StoreInv'
  <2>1. /\ UNCHANGED <<nextIndex, entries, locations, blobs, writing, receipts, failed>>
        /\ block' = b /\ b \in block..MaxBlock
    BY <1>1 DEF Store!SetBlockNumber
  <2>2. /\ block' \in Nat /\ nextIndex' \in Nat
        /\ block' > block \/ (block' = block /\ nextIndex' >= nextIndex)
    BY <1>0, <2>1
  <2> QED BY Zenon, <2>1, <2>2, StoreFrame
<1>2. ASSUME NEW n \in 0..MaxBlock, Store!AdvanceBlocks(n) PROVE StoreInv'
  <2>1. /\ UNCHANGED <<entries, locations, blobs, writing, receipts, failed>>
        /\ block' = block + n /\ n > 0 /\ nextIndex' = 0
    BY <1>2 DEF Store!AdvanceBlocks
  <2>2. /\ block' \in Nat /\ nextIndex' \in Nat
        /\ block' > block \/ (block' = block /\ nextIndex' >= nextIndex)
    BY <1>0, <2>1
  <2> QED BY Zenon, <2>1, <2>2, StoreFrame
<1>3. ASSUME UNCHANGED <<block, nextIndex, entries, locations, blobs, writing, receipts, failed>>
      PROVE  StoreInv'
  <2>1. /\ block' \in Nat /\ nextIndex' \in Nat
        /\ block' > block \/ (block' = block /\ nextIndex' >= nextIndex)
    BY <1>0, <1>3
  <2> QED BY <1>3, <2>1, StoreFrame
<1>4. ASSUME NEW a, NEW e, Store!Authorize(a, e) PROVE StoreInv'
  BY Zenon, <1>3, <1>4 DEF Store!Authorize
<1>5. ASSUME NEW c, NEW f, Store!InjectFault(c, f) PROVE StoreInv'
  BY Zenon, <1>3, <1>5 DEF Store!InjectFault
<1>6. ASSUME NEW c, Store!ClearFault(c) PROVE StoreInv'
  BY <1>3, <1>6 DEF Store!ClearFault
<1>7. ASSUME NEW a, Store!RenewUnlocated(a) PROVE StoreInv'
  BY Zenon, <1>3, <1>7 DEF Store!RenewUnlocated
<1>8. CASE UNCHANGED Store!vars
  BY <1>3, <1>8 DEF Store!vars, Store!state
<1>9. CASE Store!Next
  BY <1>1, <1>2, <1>4, <1>5, <1>6, <1>7, <1>9, StoreStored, StoreWritten, StoreFailed,
     StoreRenewed, StoreRestarts, Zenon DEF Store!Next
<1> QED BY Zenon, <1>8, <1>9

(* A good receipt: its content has an entry that lasts as long, and its file. *)
LEMMA StorePromise ==
    ASSUME Store!Assumption, StoreInv
    PROVE  Store!ReceiptsGood
<1>1. ASSUME NEW r \in receipts, block < r.until, Store!Written(r.content),
             r.content \notin DOMAIN faults
      PROVE  Store!Fetch(r.content) = "Ok" /\ Store!Status(r.content) = "Available"
  <2>1. /\ r.content \in DOMAIN entries /\ r.until <= entries[r.content].until
        /\ r.until \in Nat /\ entries[r.content].until \in Nat /\ block \in Nat
    BY Zenon, <1>1 DEF StoreInv, StoreType, ReceiptsSound, Store!Written
  <2>2. ~(block >= entries[r.content].until)
    BY <1>1, <2>1
  <2>3. r.content \in blobs
    BY Zenon, <1>1, <2>1 DEF StoreInv, EntriesSound, Store!Written
  <2> QED BY <1>1, <2>1, <2>2, <2>3 DEF Store!Fetch, Store!Status
<1> QED
  BY ZenonT(40), <1>1 DEF StoreInv, WritersSound, EntriesSound, Store!ReceiptGood, Store!ReceiptsGood

(* A receipt that store or renew of the bulletin simulator has answered stays *)
(* good until its retention ends: fetch finds the content and status calls it *)
(* available, unless a fault was injected or a write of that very content is  *)
(* under way or has failed. No two calls write one content at a time, and     *)
(* every entry is filed at its location.                                      *)
THEOREM ReceiptsStayGood ==
    ASSUME Store!Assumption
    PROVE  Store!Spec => []ReceiptsGood
<1>1. Store!Init => StoreInv
  BY InitStore
<1>2. StoreInv /\ [Store!Next]_(Store!vars) => StoreInv'
  BY NextStore
<1>3. StoreInv => ReceiptsGood
  BY StorePromise DEF ReceiptsGood
<1> QED BY <1>1, <1>2, <1>3, PTL DEF Store!Spec
=============================================================================
