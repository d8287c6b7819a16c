-------------------------- MODULE TimerLoop_proofs --------------------------
(***************************************************************************)
(* Proofs about TimerLoop, for every value of its constants.               *)
(***************************************************************************)
EXTENDS TimerLoop, TLAPS

(* What armNextTimer does to a heap h over entries E: it only pops nodes,   *)
(* never one of a live timer, and what it arms is no later than any node it *)
(* leaves, provided h and E agree on the expiries.                          *)
LEMMA ArmFacts ==
  ASSUME NEW h \in SUBSET Node, NEW E, DOMAIN E \in SUBSET Ids,
         E \in [DOMAIN E -> Entry],
         armed \in SUBSET Int, noopReady \in Nat,
         ArmNextTimer(h, E)
  PROVE  /\ heap' \in SUBSET h
         /\ \A n \in h : Live(n.id, E) => n \in heap'
         /\ armed' \in SUBSET Int
         /\ noopReady' \in Nat
         /\ (\A n \in h : n.id \in DOMAIN E => n.expiry = E[n.id].expiry)
              => \/ heap' = {}
                 \/ \E t \in armed' : \A n \in heap' : t <= n.expiry
<1> DEFINE live == {n \in h : Live(n.id, E)}
<1>1. noopReady' \in Nat
  <2>1. AbortWait
    BY Zenon DEF ArmNextTimer
  <2> QED BY <2>1 DEF AbortWait
<1>2. CASE live = {} /\ heap' = {} /\ armed' = {}
  BY <1>1, <1>2
<1>3. CASE \E top \in Tops(live) :
             /\ \E tied \in SUBSET {n \in h \ live : n.expiry = top.expiry} :
                  heap' = {n \in h : n.expiry >= top.expiry} \ tied
             /\ armed' = {E[top.id].expiry}
  <2>1. PICK top \in Tops(live) :
             /\ \E tied \in SUBSET {n \in h \ live : n.expiry = top.expiry} :
                  heap' = {n \in h : n.expiry >= top.expiry} \ tied
             /\ armed' = {E[top.id].expiry}
    BY <1>3
  <2>2. PICK tied \in SUBSET {n \in h \ live : n.expiry = top.expiry} :
             heap' = {n \in h : n.expiry >= top.expiry} \ tied
    BY <2>1
  <2>3. top \in live /\ \A m \in live : top.expiry <= m.expiry
    BY DEF Tops
  <2>4. top \in h /\ top.id \in DOMAIN E /\ E[top.id].expiry \in Int
    BY <2>3 DEF Live, Entry, Node
  <2>5. \A n \in h : n.expiry \in Int
    BY DEF Node
  <2>6. heap' \in SUBSET h
    BY <2>2
  <2>7. ASSUME NEW n \in h, Live(n.id, E) PROVE n \in heap'
    BY <2>2, <2>3, <2>4, <2>5, <2>7
  <2>8. armed' \in SUBSET Int
    BY <2>1, <2>4
  <2>9. ASSUME \A n \in h : n.id \in DOMAIN E => n.expiry = E[n.id].expiry
        PROVE  \A n \in heap' : E[top.id].expiry <= n.expiry
    BY <2>2, <2>4, <2>5, <2>9
  <2> QED
    BY <1>1, <2>1, <2>6, <2>7, <2>8, <2>9
<1> QED
  BY <1>2, <1>3 DEF ArmNextTimer

(* Adding and removing an entry keeps the table a table.                    *)
LEMMA TableFacts ==
  ASSUME NEW E, DOMAIN E \in SUBSET Ids, E \in [DOMAIN E -> Entry], NEW id \in Ids
  PROVE  /\ \A e \in Entry :
              /\ DOMAIN Put(E, id, e) = DOMAIN E \union {id}
              /\ Put(E, id, e) \in [DOMAIN E \union {id} -> Entry]
              /\ Put(E, id, e)[id] = e
              /\ \A i \in DOMAIN E : i # id => Put(E, id, e)[i] = E[i]
         /\ DOMAIN Erase(E, id) = DOMAIN E \ {id}
         /\ Erase(E, id) \in [DOMAIN E \ {id} -> Entry]
         /\ \A i \in DOMAIN E \ {id} : Erase(E, id)[i] = E[i]
BY DEF Put, Erase

(* setTimeout and setInterval keep the types, armed or not: the one action  *)
(* whose new heap and table are built in two stages.                        *)
LEMMA ScheduleKeepsType ==
  ASSUME TypeOK, NEW ms \in Int, NEW r \in BOOLEAN, ScheduleTimer(ms, r)
  PROVE  TypeOK'
<1> DEFINE expiry == clock + ms
           node   == [expiry |-> expiry, id |-> nextId]
           h      == heap \union {node}
           e      == [expiry |-> expiry, repeating |-> r, interval |-> ms,
                      cancelled |-> FALSE]
           E      == Put(entries, nextId, e)
<1>1. nextId \in Ids /\ nextId' = nextId + 1 /\ entries' = E
  BY DEF ScheduleTimer
<1>2. e \in Entry /\ node \in Node
  BY <1>1 DEF TypeOK, Entry, Node
<1>3. /\ DOMAIN E \in SUBSET Ids /\ E \in [DOMAIN E -> Entry]
      /\ DOMAIN entries \subseteq DOMAIN E
  <2>1. DOMAIN entries \in SUBSET Ids /\ entries \in [DOMAIN entries -> Entry]
    BY DEF TypeOK
  <2> HIDE DEF e
  <2>2. /\ DOMAIN E = DOMAIN entries \union {nextId}
        /\ E \in [DOMAIN entries \union {nextId} -> Entry]
    BY <1>1, <1>2, <2>1, TableFacts
  <2> QED BY <1>1, <2>1, <2>2
<1>4. h \in SUBSET Node
  BY <1>2 DEF TypeOK
<1>5. heap' \in SUBSET Node /\ armed' \in SUBSET Int /\ noopReady' \in Nat
  <2>1. \/ ArmNextTimer(h, E)
        \/ heap' = h /\ UNCHANGED <<armed, noopReady>>
    BY DEF ScheduleTimer
  <2> HIDE DEF h, E
  <2>2. CASE ArmNextTimer(h, E)
    BY <1>3, <1>4, <2>2, ArmFacts DEF TypeOK
  <2> QED BY <1>4, <2>1, <2>2 DEF TypeOK
<1> HIDE DEF E
<1>6. nextId' \in 1..(MaxId + 1)
  BY <1>1, BoundsAssumption DEF Ids
<1> QED
  BY <1>1, <1>3, <1>5, <1>6 DEF TypeOK, ScheduleTimer, loopVars

(* The type invariant: what each variable of the loop may hold.             *)
THEOREM TypeCorrect == Spec => []TypeOK
<1>1. Init => TypeOK
  <2> SUFFICES ASSUME Init PROVE TypeOK
    OBVIOUS
  <2>1. DOMAIN entries = {} /\ entries \in [DOMAIN entries -> Entry]
    BY DEF Init
  <2>2. 0 \in 0..MaxClock /\ 1 \in 1..(MaxId + 1) /\ 0 \in 0..MaxIo /\ 0 \in 0..MaxStops
    BY BoundsAssumption
  <2> QED BY <2>1, <2>2 DEF Init, TypeOK, PCs
<1>2. TypeOK /\ [Next]_vars => TypeOK'
  <2> SUFFICES ASSUME TypeOK, [Next]_vars PROVE TypeOK'
    OBVIOUS
  <2> USE BoundsAssumption, DelaysAssumption
  <2>1. ASSUME NEW ms \in Delays, ScheduleTimer(ms, FALSE) PROVE TypeOK'
    BY <2>1, ScheduleKeepsType
  <2>2. ASSUME NEW ms \in Intervals, ScheduleTimer(ms, TRUE) PROVE TypeOK'
    BY <2>2, ScheduleKeepsType
  <2>3. ASSUME NEW id \in Ids, CancelTimer(id) PROVE TypeOK'
    <3>1. DOMAIN entries' = DOMAIN entries /\ entries' \in [DOMAIN entries -> Entry]
      BY <2>3 DEF CancelTimer, TypeOK, Entry
    <3> QED BY <2>3, <3>1 DEF CancelTimer, TypeOK, loopVars
  <2>4. CASE StartIo
    BY <2>4 DEF StartIo, TypeOK, jsVars, loopVars
  <2>5. CASE EnterRun \/ JobsDone \/ JobsThrow
    BY <2>5 DEF EnterRun, JobsDone, JobsThrow, TypeOK, jsVars, PCs
  <2>6. CASE RunOneOk
    BY <2>6 DEF RunOneOk, TypeOK, jsVars, PCs
  <2>7. CASE RunOneNoop
    BY <2>7 DEF RunOneNoop, HandlerLeft, NoWork, TypeOK
  <2>8. CASE RunOneIo
    BY <2>8 DEF RunOneIo, TypeOK, jsVars, PCs
  <2>19. CASE IoReturns
    BY <2>19 DEF IoReturns, HandlerReturns, HandlerLeft, NoWork, TypeOK, jsVars, PCs
  <2>9. CASE RunOneEmpty
    BY <2>9 DEF RunOneEmpty, TypeOK, jsVars, PCs
  <2>10. CASE PopStale
    BY <2>10 DEF PopStale, TypeOK, loopVars
  <2>11. CASE PopCancelled
    <3>1. PICK top \in Tops(heap) : /\ heap' = heap \ {top}
                                    /\ entries' = Erase(entries, top.id)
      BY <2>11 DEF PopCancelled
    <3>2. top.id \in Ids
      BY DEF Tops, TypeOK, Node
    <3>3. DOMAIN entries' \in SUBSET Ids /\ entries' \in [DOMAIN entries' -> Entry]
      <4>1. DOMAIN entries \in SUBSET Ids /\ entries \in [DOMAIN entries -> Entry]
        BY DEF TypeOK
      <4>2. /\ DOMAIN Erase(entries, top.id) = DOMAIN entries \ {top.id}
            /\ Erase(entries, top.id) \in [DOMAIN entries \ {top.id} -> Entry]
        BY <3>2, <4>1, TableFacts
      <4> QED BY <3>1, <4>1, <4>2
    <3>4. pc' # "callback" /\ heap' \in SUBSET heap
      BY <2>11, <3>1 DEF PopCancelled, loopVars
    <3> QED BY <2>11, <3>3, <3>4 DEF PopCancelled, TypeOK, loopVars
  <2>12. CASE FireTimer
    <3>1. cur' \in DOMAIN entries /\ heap' \in SUBSET heap
      BY <2>12 DEF FireTimer, Live
    <3> QED BY <2>12, <3>1 DEF FireTimer, TypeOK, PCs
  <2>13. CASE CallbackReturns
    <3> DEFINE e == entries[cur]
    <3>1. CASE e.cancelled \/ ~e.repeating
      <4>1. entries' = Erase(entries, cur) /\ heap' = heap
        BY <2>13, <3>1 DEF CallbackReturns
      <4>2. DOMAIN entries' \in SUBSET Ids /\ entries' \in [DOMAIN entries' -> Entry]
        BY <4>1 DEF TypeOK, Erase
      <4> QED BY <2>13, <4>1, <4>2 DEF CallbackReturns, TypeOK, PCs
    <3>2. CASE ~(e.cancelled \/ ~e.repeating)
      <4>1. /\ entries' = [entries EXCEPT ![cur].expiry = NextExpiry(e)]
            /\ heap' = heap \union {[expiry |-> NextExpiry(e), id |-> cur]}
        BY <2>13, <3>2 DEF CallbackReturns
      <4>2. cur \in DOMAIN entries
        BY <2>13 DEF CallbackReturns, TypeOK
      <4>3. NextExpiry(e) \in Int
        BY <4>2 DEF NextExpiry, TypeOK, Entry
      <4>4. entries' \in [DOMAIN entries -> Entry] /\ DOMAIN entries' = DOMAIN entries
        BY <4>1, <4>3 DEF TypeOK, Entry
      <4>5. heap' \in SUBSET Node
        BY <4>1, <4>2, <4>3 DEF TypeOK, Node
      <4> QED BY <2>13, <4>4, <4>5 DEF CallbackReturns, TypeOK, PCs
    <3> QED BY <3>1, <3>2
  <2>14. CASE CallbackThrows
    BY <2>14 DEF CallbackThrows, HandlerLeft, NoWork, TypeOK, jsVars, PCs
  <2>15. CASE BatchEnd
    <3>1. heap' \in SUBSET Node /\ armed' \in SUBSET Int /\ noopReady' \in Nat
      <4>1. ArmNextTimer(heap, entries)
        BY <2>15 DEF BatchEnd
      <4> QED BY <4>1, ArmFacts DEF TypeOK
    <3> QED BY <2>15, <3>1 DEF BatchEnd, HandlerReturns, HandlerLeft, NoWork, TypeOK, PCs
  <2>16. CASE Tick \/ WaitExpires \/ Stop
    BY <2>16 DEF Tick, WaitExpires, Stop, TypeOK, jsVars, loopVars
  <2>17. CASE Destroy
    BY <2>17 DEF Destroy, AbortWait, TypeOK, PCs, Entry
  <2>18. CASE UNCHANGED vars
    BY <2>18 DEF vars, TypeOK
  <2> QED
    BY <2>1, <2>2, <2>3, <2>4, <2>5, <2>6, <2>7, <2>8, <2>9, <2>10, <2>11, <2>12,
       <2>13, <2>14, <2>15, <2>16, <2>17, <2>18, <2>19
       DEF Next, JsStep, RunStep, BatchStep
<1> QED
  BY <1>1, <1>2, PTL DEF Spec

------------------------------------------------------------------------------
(* The queue.  LiveTimersQueued and NodesMatchEntries are inductive only    *)
(* together with three facts about ids: those in use were handed out        *)
(* before nextId, so that a new timer never meets a node left behind by an  *)
(* old one; the popped timer has an entry; and no timer is popped outside   *)
(* a callback, except by one that threw.                                    *)
IdsHandedOut ==
  /\ \A n \in heap : n.id < nextId
  /\ \A id \in DOMAIN entries : id < nextId

CurIsPopped ==
  /\ cur # 0 => cur \in DOMAIN entries
  /\ pc \notin {"callback", "fatal", "terminated"} => cur = 0

QueueInv == LiveTimersQueued /\ NodesMatchEntries /\ IdsHandedOut /\ CurIsPopped

(* Setting a timer keeps the queue, whether or not it is armed at once.     *)
LEMMA ScheduleKeepsQueue ==
  ASSUME TypeOK, QueueInv, NEW ms \in Int, NEW r \in BOOLEAN, ScheduleTimer(ms, r)
  PROVE  QueueInv'
<1> DEFINE node == [expiry |-> clock + ms, id |-> nextId]
           h    == heap \union {node}
           e    == [expiry |-> clock + ms, repeating |-> r, interval |-> ms,
                    cancelled |-> FALSE]
           E    == Put(entries, nextId, e)
<1>1. /\ nextId \in Ids /\ nextId' = nextId + 1 /\ entries' = E
      /\ pc' = pc /\ cur' = cur
  BY DEF ScheduleTimer, loopVars
<1>2. e \in Entry /\ node \in Node
  BY <1>1 DEF TypeOK, Entry, Node
<1>3. DOMAIN entries \in SUBSET Ids /\ entries \in [DOMAIN entries -> Entry]
  BY DEF TypeOK
<1>4. /\ DOMAIN E = DOMAIN entries \union {nextId}
      /\ E \in [DOMAIN entries \union {nextId} -> Entry]
      /\ E[nextId] = e
      /\ \A i \in DOMAIN entries : i # nextId => E[i] = entries[i]
  <2>1. \A x \in Entry :
          /\ DOMAIN Put(entries, nextId, x) = DOMAIN entries \union {nextId}
          /\ Put(entries, nextId, x) \in [DOMAIN entries \union {nextId} -> Entry]
          /\ Put(entries, nextId, x)[nextId] = x
          /\ \A i \in DOMAIN entries : i # nextId => Put(entries, nextId, x)[i] = entries[i]
    BY <1>1, <1>3, TableFacts
  <2> HIDE DEF e
  <2> QED BY <1>2, <2>1
<1>5. /\ \A i \in DOMAIN entries : i < nextId /\ i # nextId
      /\ \A n \in heap : n.id < nextId /\ n.id # nextId
      /\ cur # nextId
  BY <1>1, <1>3 DEF QueueInv, IdsHandedOut, CurIsPopped, TypeOK, Ids, Node
<1>6. h \in SUBSET Node
  BY <1>2 DEF TypeOK
<1>7. heap' \in SUBSET h /\ \A n \in h : Live(n.id, E) => n \in heap'
  <2>1. ArmNextTimer(h, E) \/ heap' = h
    BY DEF ScheduleTimer
  <2> HIDE DEF h, E
  <2> QED BY <1>3, <1>4, <1>1, <1>6, <2>1, ArmFacts DEF TypeOK
<1>8. LiveTimersQueued'
  <2> SUFFICES ASSUME NEW i \in DOMAIN E, Live(i, E), i # cur
               PROVE  [expiry |-> E[i].expiry, id |-> i] \in heap'
    BY <1>1 DEF LiveTimersQueued
  <2>1. CASE i = nextId
    <3>1. node \in heap'
      BY <1>7, <2>1
    <3> HIDE DEF E
    <3> QED BY <1>4, <2>1, <3>1
  <2>2. CASE i # nextId
    <3>1. i \in DOMAIN entries /\ E[i] = entries[i]
      BY <1>4, <2>2
    <3>2. [expiry |-> entries[i].expiry, id |-> i] \in heap
      BY <3>1 DEF QueueInv, LiveTimersQueued, Live
    <3> QED BY <1>7, <3>1, <3>2
  <2> QED BY <2>1, <2>2
<1>9. NodesMatchEntries'
  <2> SUFFICES ASSUME NEW n \in h, n.id \in DOMAIN E
               PROVE  n.expiry = E[n.id].expiry /\ n.id # cur
    BY <1>1, <1>7 DEF NodesMatchEntries
  <2>1. CASE n \in heap
    BY <1>4, <1>5, <2>1 DEF QueueInv, NodesMatchEntries
  <2>2. CASE n = node
    BY <1>4, <1>5, <2>2
  <2> QED BY <2>1, <2>2
<1>10. IdsHandedOut'
  <2>1. \A n \in h : n.id < nextId + 1
    BY <1>1, <1>5, <1>6 DEF Node, Ids
  <2>2. \A i \in DOMAIN E : i < nextId + 1
    BY <1>1, <1>3, <1>4, <1>5 DEF Ids
  <2> QED BY <1>1, <1>7, <2>1, <2>2 DEF IdsHandedOut
<1>11. CurIsPopped'
  BY <1>1, <1>4 DEF QueueInv, CurIsPopped
<1> QED BY <1>8, <1>9, <1>10, <1>11 DEF QueueInv

(* A step that leaves the heap, the table, the ids and cur alone.           *)
LEMMA QueueUntouched ==
  ASSUME QueueInv, UNCHANGED <<heap, entries, nextId, cur>>,
         pc' \notin {"callback", "fatal", "terminated"} => cur = 0
  PROVE  QueueInv'
BY DEF QueueInv, LiveTimersQueued, NodesMatchEntries, IdsHandedOut, CurIsPopped, Live

(* Every step of the loop keeps QueueInv: the actions that touch the heap,  *)
(* the table or cur each have a step, the others are QueueUntouched.        *)
LEMMA StepKeepsQueue ==
  ASSUME TypeOK, QueueInv, [Next]_vars
  PROVE  QueueInv'
<1> USE BoundsAssumption, DelaysAssumption
<1>0. /\ DOMAIN entries \in SUBSET Ids /\ entries \in [DOMAIN entries -> Entry]
      /\ heap \in SUBSET Node
  BY DEF TypeOK
<1>1. ASSUME NEW ms \in Delays, ScheduleTimer(ms, FALSE) PROVE QueueInv'
  BY <1>1, ScheduleKeepsQueue
<1>2. ASSUME NEW ms \in Intervals, ScheduleTimer(ms, TRUE) PROVE QueueInv'
  BY <1>2, ScheduleKeepsQueue
<1>3. ASSUME NEW id \in Ids, CancelTimer(id) PROVE QueueInv'
  <2>1. /\ DOMAIN entries' = DOMAIN entries
        /\ \A i \in DOMAIN entries :
             /\ entries'[i].expiry = entries[i].expiry
             /\ Live(i, entries') => Live(i, entries)
    BY <1>0, <1>3 DEF CancelTimer, Live, Entry
  <2>2. UNCHANGED <<heap, nextId, cur, pc>>
    BY <1>3 DEF CancelTimer, loopVars
  <2> QED BY <2>1, <2>2 DEF QueueInv, LiveTimersQueued, NodesMatchEntries,
                           IdsHandedOut, CurIsPopped
<1>4. CASE StartIo
  BY <1>4, QueueUntouched DEF StartIo, jsVars, loopVars, QueueInv, CurIsPopped
<1>5. CASE EnterRun \/ JobsDone \/ JobsThrow
  BY <1>5, QueueUntouched DEF EnterRun, JobsDone, JobsThrow, jsVars, QueueInv, CurIsPopped
<1>6. CASE RunOneOk \/ RunOneNoop \/ RunOneIo \/ IoReturns \/ RunOneEmpty
  <2>1. pc \in {"poll", "io"} /\ UNCHANGED <<heap, entries, nextId, cur>>
    BY <1>6 DEF RunOneOk, RunOneNoop, RunOneIo, IoReturns, RunOneEmpty, jsVars
  <2> QED BY <2>1, QueueUntouched DEF QueueInv, CurIsPopped
<1>7. CASE PopStale
  <2>1. PICK top \in Tops(heap) : top.id \notin DOMAIN entries /\ heap' = heap \ {top}
    BY <1>7 DEF PopStale
  <2>2. UNCHANGED <<entries, nextId, cur, pc>>
    BY <1>7 DEF PopStale, loopVars
  <2>3. LiveTimersQueued'
    BY <2>1, <2>2 DEF QueueInv, LiveTimersQueued, Live
  <2>4. NodesMatchEntries' /\ IdsHandedOut' /\ CurIsPopped'
    BY <2>1, <2>2 DEF QueueInv, NodesMatchEntries, IdsHandedOut, CurIsPopped
  <2> QED BY <2>3, <2>4 DEF QueueInv
<1>8. CASE PopCancelled
  <2>1. PICK top \in Tops(heap) :
             /\ top.id \in DOMAIN entries /\ entries[top.id].cancelled
             /\ heap' = heap \ {top} /\ entries' = Erase(entries, top.id)
    BY <1>8 DEF PopCancelled
  <2>2. /\ UNCHANGED <<nextId, cur, pc>> /\ pc = "batch"
    BY <1>8 DEF PopCancelled, loopVars
  <2>3. cur = 0
    BY <2>2 DEF QueueInv, CurIsPopped
  <2>4. /\ DOMAIN entries' = DOMAIN entries \ {top.id}
        /\ \A i \in DOMAIN entries \ {top.id} : entries'[i] = entries[i]
    BY <2>1 DEF Erase
  <2>5. LiveTimersQueued'
    <3> SUFFICES ASSUME NEW i \in DOMAIN entries', Live(i, entries'), i # cur
                 PROVE  [expiry |-> entries'[i].expiry, id |-> i] \in heap'
      BY <2>2 DEF LiveTimersQueued
    <3>1. i \in DOMAIN entries /\ i # top.id /\ entries'[i] = entries[i]
      BY <2>4
    <3>2. [expiry |-> entries[i].expiry, id |-> i] \in heap
      BY <3>1 DEF QueueInv, LiveTimersQueued, Live
    <3> QED BY <2>1, <3>1, <3>2
  <2>6. NodesMatchEntries' /\ IdsHandedOut' /\ CurIsPopped'
    BY <2>1, <2>2, <2>3, <2>4 DEF QueueInv, NodesMatchEntries, IdsHandedOut, CurIsPopped
  <2> QED BY <2>5, <2>6 DEF QueueInv
<1>9. CASE FireTimer
  <2>1. PICK top \in Tops(heap) :
             /\ Live(top.id, entries) /\ heap' = heap \ {top} /\ cur' = top.id
    BY <1>9 DEF FireTimer
  <2>2. UNCHANGED <<entries, nextId>> /\ pc = "batch" /\ pc' = "callback"
    BY <1>9 DEF FireTimer
  <2>3. cur = 0 /\ top \in heap /\ top.id \in DOMAIN entries
    BY <2>1, <2>2 DEF QueueInv, CurIsPopped, Tops, Live
  <2>4. top = [expiry |-> entries[top.id].expiry, id |-> top.id]
    BY <1>0, <2>3 DEF QueueInv, NodesMatchEntries, Node
  <2>5. LiveTimersQueued'
    <3> SUFFICES ASSUME NEW i \in DOMAIN entries, Live(i, entries), i # top.id
                 PROVE  [expiry |-> entries[i].expiry, id |-> i] \in heap'
      BY <2>1, <2>2 DEF LiveTimersQueued
    <3>1. i # 0
      BY <1>0 DEF Ids
    <3>2. [expiry |-> entries[i].expiry, id |-> i] \in heap
      BY <2>3, <3>1 DEF QueueInv, LiveTimersQueued
    <3> QED BY <2>1, <2>4, <3>2
  <2>6. NodesMatchEntries'
    <3> SUFFICES ASSUME NEW n \in heap, n # top, n.id \in DOMAIN entries
                 PROVE  n.expiry = entries[n.id].expiry /\ n.id # top.id
      BY <2>1, <2>2 DEF NodesMatchEntries
    <3>1. n = [expiry |-> entries[n.id].expiry, id |-> n.id]
      BY <1>0 DEF QueueInv, NodesMatchEntries, Node
    <3> QED BY <2>4, <3>1 DEF QueueInv, NodesMatchEntries
  <2>7. IdsHandedOut' /\ CurIsPopped'
    BY <2>1, <2>2, <2>3 DEF QueueInv, IdsHandedOut, CurIsPopped
  <2> QED BY <2>5, <2>6, <2>7 DEF QueueInv
<1>10. CASE CallbackReturns
  <2>1. /\ pc = "callback" /\ pc' = "batch" /\ cur' = 0 /\ nextId' = nextId
        /\ cur \in DOMAIN entries
    BY <1>10 DEF CallbackReturns, TypeOK
  <2>2. CASE entries[cur].cancelled \/ ~entries[cur].repeating
    <3>1. entries' = Erase(entries, cur) /\ heap' = heap
      BY <1>10, <2>2 DEF CallbackReturns
    <3>2. /\ DOMAIN entries' = DOMAIN entries \ {cur}
          /\ \A i \in DOMAIN entries \ {cur} : entries'[i] = entries[i]
      BY <3>1 DEF Erase
    <3>3. LiveTimersQueued'
      <4> SUFFICES ASSUME NEW i \in DOMAIN entries', Live(i, entries')
                   PROVE  [expiry |-> entries'[i].expiry, id |-> i] \in heap'
        BY DEF LiveTimersQueued
      <4>1. i \in DOMAIN entries /\ i # cur /\ entries'[i] = entries[i]
        BY <3>2
      <4> QED BY <3>1, <4>1 DEF QueueInv, LiveTimersQueued, Live
    <3>4. NodesMatchEntries'
      <4> SUFFICES ASSUME NEW n \in heap, n.id \in DOMAIN entries'
                   PROVE  n.expiry = entries'[n.id].expiry /\ n.id # 0
        BY <2>1, <3>1 DEF NodesMatchEntries
      <4> QED BY <1>0, <3>2 DEF QueueInv, NodesMatchEntries, Ids
    <3>5. IdsHandedOut' /\ CurIsPopped'
      BY <2>1, <3>1, <3>2 DEF QueueInv, IdsHandedOut, CurIsPopped
    <3> QED BY <3>3, <3>4, <3>5 DEF QueueInv
  <2>3. CASE ~(entries[cur].cancelled \/ ~entries[cur].repeating)
    <3> DEFINE x == NextExpiry(entries[cur])
               node == [expiry |-> x, id |-> cur]
    <3>1. /\ entries' = [entries EXCEPT ![cur].expiry = x]
          /\ heap' = heap \union {node}
      BY <1>10, <2>3 DEF CallbackReturns
    <3> HIDE DEF x
    <3>2. /\ DOMAIN entries' = DOMAIN entries
          /\ entries'[cur].expiry = x
          /\ \A i \in DOMAIN entries : i # cur => entries'[i] = entries[i]
      BY <1>0, <2>1, <3>1 DEF Entry
    <3>3. LiveTimersQueued'
      <4> SUFFICES ASSUME NEW i \in DOMAIN entries, Live(i, entries')
                   PROVE  [expiry |-> entries'[i].expiry, id |-> i] \in heap'
        BY <3>2 DEF LiveTimersQueued
      <4>1. CASE i = cur
        BY <3>1, <3>2, <4>1
      <4>2. CASE i # cur
        <5>1. entries'[i] = entries[i]
          BY <3>2, <4>2
        <5>2. [expiry |-> entries[i].expiry, id |-> i] \in heap
          BY <4>2, <5>1 DEF QueueInv, LiveTimersQueued, Live
        <5> QED BY <3>1, <5>1, <5>2
      <4> QED BY <4>1, <4>2
    <3>4. NodesMatchEntries'
      <4> SUFFICES ASSUME NEW n \in heap \union {node}, n.id \in DOMAIN entries
                   PROVE  n.expiry = entries'[n.id].expiry /\ n.id # 0
        BY <2>1, <3>1, <3>2 DEF NodesMatchEntries
      <4>1. n.id # 0
        BY <1>0 DEF Ids
      <4>2. CASE n = node
        BY <3>2, <4>1, <4>2
      <4>3. CASE n \in heap
        BY <3>2, <4>1, <4>3 DEF QueueInv, NodesMatchEntries
      <4> QED BY <4>2, <4>3
    <3>5. IdsHandedOut'
      BY <2>1, <3>1, <3>2 DEF QueueInv, IdsHandedOut
    <3>6. CurIsPopped'
      BY <2>1 DEF CurIsPopped
    <3> QED BY <3>3, <3>4, <3>5, <3>6 DEF QueueInv
  <2> QED BY <2>2, <2>3
<1>11. CASE CallbackThrows
  BY <1>11, QueueUntouched DEF CallbackThrows, jsVars
<1>12. CASE BatchEnd
  <2>1. /\ ArmNextTimer(heap, entries) /\ pc = "batch" /\ pc' \in {"poll", "jobs"}
        /\ UNCHANGED <<entries, nextId, cur>>
    BY <1>12 DEF BatchEnd, HandlerReturns
  <2>2. heap' \in SUBSET heap /\ \A n \in heap : Live(n.id, entries) => n \in heap'
    BY <1>0, <2>1, ArmFacts DEF TypeOK
  <2>3. LiveTimersQueued'
    BY <2>1, <2>2 DEF QueueInv, LiveTimersQueued, Live
  <2>4. NodesMatchEntries' /\ IdsHandedOut' /\ CurIsPopped'
    BY <2>1, <2>2 DEF QueueInv, NodesMatchEntries, IdsHandedOut, CurIsPopped
  <2> QED BY <2>3, <2>4 DEF QueueInv
<1>13. CASE Tick \/ WaitExpires \/ Stop
  BY <1>13, QueueUntouched DEF Tick, WaitExpires, Stop, jsVars, loopVars, QueueInv, CurIsPopped
<1>14. CASE Destroy
  <2>1. DOMAIN entries' = {} /\ UNCHANGED <<heap, nextId>> /\ cur' = 0 /\ pc' = "poll"
    BY <1>14 DEF Destroy
  <2> QED BY <2>1 DEF QueueInv, LiveTimersQueued, NodesMatchEntries, IdsHandedOut, CurIsPopped
<1>15. CASE UNCHANGED vars
  BY <1>15, QueueUntouched DEF vars, QueueInv, CurIsPopped
<1> QED
  BY <1>1, <1>2, <1>3, <1>4, <1>5, <1>6, <1>7, <1>8, <1>9, <1>10, <1>11, <1>12,
     <1>13, <1>14, <1>15
     DEF Next, JsStep, RunStep, BatchStep

(* The inductive invariant behind the next two theorems: beside the two,    *)
(* no node or entry carries an id that was not handed out, and the timer    *)
(* that is `cur` has been popped.                                           *)
LEMMA QueueInvariant == Spec => []QueueInv
<1>1. Init => QueueInv
  BY DEF Init, QueueInv, LiveTimersQueued, NodesMatchEntries, IdsHandedOut, CurIsPopped
<1>2. TypeOK /\ QueueInv /\ [Next]_vars => QueueInv'
  BY StepKeepsQueue
<1> QED
  BY <1>1, <1>2, TypeCorrect, PTL DEF Spec

(* context.cpp:117-152: removing dead nodes lazily, here and there, never    *)
(* takes the node of a live timer out of the heap.                          *)
THEOREM LiveTimersStayQueued == Spec => []LiveTimersQueued
<1>1. QueueInv => LiveTimersQueued
  BY DEF QueueInv
<1> QED
  BY <1>1, QueueInvariant, PTL

(* context.cpp:86-99, 166-176: a timer's expiry is kept in its entry and in *)
(* its node; the two copies agree, also after a repeated timer was put back.*)
THEOREM NodesAgreeWithEntries == Spec => []NodesMatchEntries
<1>1. QueueInv => NodesMatchEntries
  BY DEF QueueInv
<1> QED
  BY <1>1, QueueInvariant, PTL

------------------------------------------------------------------------------
(* The armed wait.                                                          *)

(* A new timer is armed when it comes first; when it does not, the wait     *)
(* already covers the one that does.                                        *)
LEMMA ScheduleKeepsCover ==
  ASSUME TypeOK, QueueInv, QueueInv', WaitCoversHeap,
         NEW ms \in Int, NEW r \in BOOLEAN, ScheduleTimer(ms, r)
  PROVE  WaitCoversHeap'
<1> DEFINE node == [expiry |-> clock + ms, id |-> nextId]
           h    == heap \union {node}
           e    == [expiry |-> clock + ms, repeating |-> r, interval |-> ms,
                    cancelled |-> FALSE]
           E    == Put(entries, nextId, e)
<1>1. nextId \in Ids /\ entries' = E /\ okReady' = okReady
  BY DEF ScheduleTimer
<1>2. node \in Node /\ h \in SUBSET Node
  BY <1>1 DEF TypeOK, Node
<1>3. PICK top \in Tops(h) :
         \/ top = node /\ ArmNextTimer(h, E)
         \/ top # node /\ heap' = h /\ UNCHANGED <<armed, noopReady>>
  BY DEF ScheduleTimer
<1>4. CASE top # node /\ heap' = h /\ armed' = armed
  <2>1. top \in heap /\ top.expiry <= node.expiry
    BY <1>4 DEF Tops
  <2>2. CASE okReady > 0
    BY <1>1, <2>2 DEF WaitCoversHeap
  <2>3. CASE \E t \in armed : \A n \in heap : t <= n.expiry
    <3>1. PICK t \in armed : \A n \in heap : t <= n.expiry
      BY <2>3
    <3>2. t \in Int /\ top.expiry \in Int /\ node.expiry \in Int
      BY <1>2, <2>1 DEF TypeOK, Node
    <3>3. t <= node.expiry
      BY <2>1, <3>1, <3>2
    <3>4. \A n \in h : t <= n.expiry
      BY <3>1, <3>3
    <3> QED BY <1>4, <3>1, <3>4 DEF WaitCoversHeap
  <2> QED BY <2>1, <2>2, <2>3 DEF WaitCoversHeap
<1>5. CASE top = node /\ ArmNextTimer(h, E)
  <2>1. DOMAIN entries \in SUBSET Ids /\ entries \in [DOMAIN entries -> Entry]
    BY DEF TypeOK
  <2>2. e \in Entry /\ e.expiry = clock + ms
    BY DEF TypeOK, Entry
  <2>3. /\ DOMAIN E = DOMAIN entries \union {nextId}
        /\ E \in [DOMAIN entries \union {nextId} -> Entry]
        /\ E[nextId].expiry = clock + ms
        /\ \A i \in DOMAIN entries : i # nextId => E[i] = entries[i]
    <3>1. \A x \in Entry :
            /\ DOMAIN Put(entries, nextId, x) = DOMAIN entries \union {nextId}
            /\ Put(entries, nextId, x) \in [DOMAIN entries \union {nextId} -> Entry]
            /\ Put(entries, nextId, x)[nextId] = x
            /\ \A i \in DOMAIN entries : i # nextId => Put(entries, nextId, x)[i] = entries[i]
      BY <1>1, <2>1, TableFacts
    <3> HIDE DEF e
    <3> QED BY <2>2, <3>1
  <2>4. \A n \in h : n.id \in DOMAIN E => n.expiry = E[n.id].expiry
    <3> SUFFICES ASSUME NEW n \in h, n.id \in DOMAIN E
                 PROVE  n.expiry = E[n.id].expiry
      OBVIOUS
    <3>1. CASE n = node
      <4> HIDE DEF E
      <4> QED BY <2>3, <3>1
    <3>2. CASE n \in heap
      <4>1. n.id # nextId
        <5>1. n.id < nextId /\ n.id \in Int /\ nextId \in Int
          BY <1>1, <1>2, <3>2 DEF QueueInv, IdsHandedOut, Node, Ids
        <5> QED BY <5>1
      <4> HIDE DEF E
      <4> QED BY <2>3, <3>2, <4>1 DEF QueueInv, NodesMatchEntries
    <3> QED BY <3>1, <3>2
  <2> HIDE DEF E, h
  <2>5. DOMAIN E \in SUBSET Ids /\ E \in [DOMAIN E -> Entry]
    BY <1>1, <2>1, <2>3
  <2>6. armed \in SUBSET Int /\ noopReady \in Nat
    BY DEF TypeOK
  <2> QED BY <1>2, <1>5, <2>4, <2>5, <2>6, ArmFacts DEF WaitCoversHeap
<1> QED BY <1>3, <1>4, <1>5

(* Every step keeps the wait over the heap: what grows the heap or drops the *)
(* wait either re-arms it or leaves its handler ready.                      *)
LEMMA StepKeepsTracking ==
  ASSUME TypeOK, QueueInv, QueueInv', NearestDeadlineTracked, [Next]_vars
  PROVE  NearestDeadlineTracked'
<1> SUFFICES ASSUME BetweenBatches', stops' = 0 PROVE WaitCoversHeap'
  BY DEF NearestDeadlineTracked
<1> USE DelaysAssumption
<1>1. ASSUME NEW ms \in Int, NEW r \in BOOLEAN, ScheduleTimer(ms, r)
      PROVE  WaitCoversHeap'
  BY <1>1, ScheduleKeepsCover
     DEF ScheduleTimer, loopVars, BetweenBatches, NearestDeadlineTracked
<1>2. CASE \/ \E id \in Ids : CancelTimer(id)
           \/ StartIo \/ EnterRun \/ JobsDone \/ JobsThrow
           \/ RunOneNoop \/ RunOneIo \/ IoReturns \/ RunOneEmpty \/ Tick
  <2>1. /\ UNCHANGED <<heap, armed, okReady, closing, stops>>
        /\ pc \notin {"batch", "callback", "fatal"} \/ pc' = pc
    BY <1>2 DEF CancelTimer, StartIo, EnterRun, JobsDone, JobsThrow, RunOneNoop,
                RunOneIo, IoReturns, RunOneEmpty, Tick, jsVars, loopVars
  <2> QED BY <2>1 DEF BetweenBatches, NearestDeadlineTracked, WaitCoversHeap
<1>3. CASE WaitExpires
  <2>1. okReady' > 0
    BY <1>3 DEF WaitExpires, TypeOK
  <2> QED BY <2>1 DEF WaitCoversHeap
<1>4. CASE BatchEnd
  <2>1. ArmNextTimer(heap, entries)
    BY <1>4 DEF BatchEnd
  <2>2. /\ heap \in SUBSET Node
        /\ DOMAIN entries \in SUBSET Ids /\ entries \in [DOMAIN entries -> Entry]
        /\ armed \in SUBSET Int /\ noopReady \in Nat
    BY DEF TypeOK
  <2>3. \A n \in heap : n.id \in DOMAIN entries => n.expiry = entries[n.id].expiry
    BY DEF QueueInv, NodesMatchEntries
  <2> QED BY <2>1, <2>2, <2>3, ArmFacts DEF WaitCoversHeap
<1>5. CASE \/ RunOneOk \/ PopStale \/ PopCancelled \/ FireTimer
           \/ CallbackReturns \/ CallbackThrows \/ Destroy
  <2>1. closing' \/ pc' \in {"batch", "callback", "fatal"}
    BY <1>5 DEF RunOneOk, PopStale, PopCancelled, FireTimer, CallbackReturns,
                CallbackThrows, Destroy, loopVars
  <2> QED BY <2>1 DEF BetweenBatches
<1>6. CASE Stop
  BY <1>6 DEF Stop, TypeOK
<1>7. CASE UNCHANGED vars
  BY <1>7 DEF vars, BetweenBatches, NearestDeadlineTracked, WaitCoversHeap
<1> QED
  BY <1>1, <1>2, <1>3, <1>4, <1>5, <1>6, <1>7
     DEF Next, JsStep, RunStep, BatchStep

(* Until stop() is called, the one wait covers every timer between batches. *)
THEOREM DeadlineTracked == Spec => []NearestDeadlineTracked
<1>1. Init => NearestDeadlineTracked
  BY DEF Init, NearestDeadlineTracked, WaitCoversHeap
<1>2. /\ TypeOK /\ QueueInv /\ QueueInv' /\ NearestDeadlineTracked /\ [Next]_vars
      => NearestDeadlineTracked'
  BY StepKeepsTracking
<1> QED
  BY <1>1, <1>2, TypeCorrect, QueueInvariant, PTL DEF Spec

------------------------------------------------------------------------------
(* Refinement: each step of the loop is a step of TimerService, or leaves   *)
(* what TimerService sees unchanged.                                        *)
LiveIds == {i \in DOMAIN entries : ~entries[i].cancelled}
Timer(e) == [deadline |-> e.expiry, period |-> e.interval, repeating |-> e.repeating]

(* The batch's `now` is a past value of the clock, the timer in its         *)
(* callback was due then, and the destructor runs only the io_context.      *)
BatchInv ==
  /\ batchNow <= clock
  /\ pc = "callback" => entries[cur].expiry <= batchNow
  /\ closing => pc \notin {"script", "jobs", "exited", "fatal"}

(* What a batch knows: its `now` is not in the future, and the timer whose  *)
(* callback runs was due by it.  (So an interval is never requeued early.)  *)
LEMMA BatchInvariant == Spec => []BatchInv
<1>1. Init => BatchInv
  BY DEF Init, BatchInv
<1>2. TypeOK /\ QueueInv /\ BatchInv /\ [Next]_vars => BatchInv'
  <2> SUFFICES ASSUME TypeOK, QueueInv, BatchInv, [Next]_vars PROVE BatchInv'
    OBVIOUS
  <2>0. /\ clock \in Int /\ batchNow \in Int
        /\ pc = "callback" => cur \in DOMAIN entries
        /\ entries \in [DOMAIN entries -> Entry]
    BY DEF TypeOK
  <2>1. ASSUME NEW ms \in Int, NEW r \in BOOLEAN, ScheduleTimer(ms, r) PROVE BatchInv'
    <3>1. /\ UNCHANGED <<clock, pc, closing, batchNow, cur>>
          /\ \A i \in DOMAIN entries : i # nextId => entries'[i] = entries[i]
      BY <2>1 DEF ScheduleTimer, Put, loopVars
    <3>2. nextId \notin DOMAIN entries
      BY <2>1 DEF ScheduleTimer, QueueInv, IdsHandedOut, Ids
    <3> QED BY <2>0, <3>1, <3>2 DEF BatchInv
  <2>2. ASSUME NEW id \in Ids, CancelTimer(id) PROVE BatchInv'
    <3>1. /\ UNCHANGED <<clock, pc, closing, batchNow, cur>>
          /\ \A i \in DOMAIN entries : entries'[i].expiry = entries[i].expiry
      BY <2>0, <2>2 DEF CancelTimer, loopVars, Entry
    <3> QED BY <2>0, <3>1 DEF BatchInv
  <2>3. CASE FireTimer
    BY <2>3 DEF FireTimer, BatchInv
  <2>4. CASE Tick
    BY <2>0, <2>4 DEF Tick, BatchInv, jsVars, loopVars
  <2>5. CASE RunOneOk
    BY <2>0, <2>5 DEF RunOneOk, BatchInv
  <2>6. CASE \/ EnterRun \/ JobsDone \/ JobsThrow \/ RunOneNoop \/ RunOneIo \/ IoReturns
             \/ RunOneEmpty \/ CallbackReturns \/ CallbackThrows \/ BatchEnd \/ Destroy
    <3>1. /\ pc' # "callback" /\ UNCHANGED <<clock, batchNow>>
          /\ closing' => pc' \notin {"script", "jobs", "exited", "fatal"}
      BY <2>6 DEF EnterRun, JobsDone, JobsThrow, RunOneNoop, RunOneIo, IoReturns,
                  RunOneEmpty, CallbackReturns, CallbackThrows, BatchEnd, Destroy,
                  HandlerReturns, BatchInv
    <3> QED BY <3>1 DEF BatchInv
  <2>7. CASE PopStale \/ PopCancelled
    <3>1. pc = "batch" /\ UNCHANGED <<clock, pc, closing, batchNow>>
      BY <2>7 DEF PopStale, PopCancelled, loopVars
    <3> QED BY <3>1 DEF BatchInv
  <2>8. CASE StartIo \/ WaitExpires \/ Stop \/ UNCHANGED vars
    <3>1. UNCHANGED <<clock, pc, closing, batchNow, cur, entries>>
      BY <2>8 DEF StartIo, WaitExpires, Stop, vars, jsVars, loopVars
    <3> QED BY <3>1 DEF BatchInv
  <2> QED
    BY <2>1, <2>2, <2>3, <2>4, <2>5, <2>6, <2>7, <2>8, DelaysAssumption
       DEF Next, JsStep, RunStep, BatchStep
<1> QED BY <1>1, <1>2, TypeCorrect, QueueInvariant, PTL DEF Spec

(* The mapped timers are those not cancelled, with their entries' fields.   *)
LEMMA PendingIs ==
  /\ DOMAIN Pending = LiveIds
  /\ Pending = [i \in LiveIds |-> Timer(entries[i])]
BY DEF Pending, LiveIds, Timer

(* setTimeout and setInterval are Set of the service.                       *)
LEMMA ScheduleRefines ==
  ASSUME TypeOK, QueueInv, NEW ms \in Int, NEW r \in BOOLEAN, ScheduleTimer(ms, r)
  PROVE  Service!Set(nextId, ms, r)
<1> DEFINE e == [expiry |-> clock + ms, repeating |-> r, interval |-> ms,
                 cancelled |-> FALSE]
           E == Put(entries, nextId, e)
<1>1. /\ nextId \in Ids /\ nextId' = nextId + 1 /\ entries' = E
      /\ UNCHANGED <<clock, cur, closing>>
  BY DEF ScheduleTimer, loopVars
<1>2. nextId \notin 1..(nextId - 1) /\ 1..(nextId' - 1) = 1..(nextId - 1) \union {nextId}
  BY <1>1 DEF Ids
<1>3. /\ DOMAIN E = DOMAIN entries \union {nextId}
      /\ E[nextId] = e
      /\ \A i \in DOMAIN entries : i # nextId => E[i] = entries[i]
  BY DEF Put
<1>4. nextId \notin DOMAIN entries
  BY <1>1 DEF QueueInv, IdsHandedOut, Ids
<1>5. LiveIds' = LiveIds \union {nextId}
  <2>1. ~e.cancelled
    OBVIOUS
  <2> HIDE DEF e, E
  <2> QED BY <1>1, <1>3, <1>4, <2>1 DEF LiveIds
<1>6. Pending' = [i \in LiveIds \union {nextId} |->
                    IF i = nextId THEN [deadline |-> clock + ms, period |-> ms, repeating |-> r]
                                  ELSE Pending[i]]
  <2>1. Pending' = [i \in LiveIds' |-> Timer(entries'[i])]
    BY DEF Pending, LiveIds, Timer
  <2>2. \A i \in LiveIds : E[i] = entries[i] /\ Pending[i] = Timer(entries[i]) /\ i # nextId
    BY <1>3, <1>4, PendingIs DEF LiveIds
  <2>3. Timer(E[nextId]) = [deadline |-> clock + ms, period |-> ms, repeating |-> r]
    BY <1>3 DEF Timer
  <2> HIDE DEF E
  <2> QED BY <1>1, <1>5, <2>1, <2>2, <2>3
<1> QED BY <1>1, <1>2, <1>6, PendingIs DEF Service!Set

(* Clearing and settling a timer take it out of the pending ones.           *)
LEMMA PendingLoses ==
  ASSUME NEW id,
         LiveIds' = LiveIds \ {id},
         \A i \in LiveIds \ {id} : Timer(entries'[i]) = Timer(entries[i])
  PROVE  Pending' = [i \in DOMAIN Pending \ {id} |-> Pending[i]]
<1>1. Pending' = [i \in LiveIds' |-> Timer(entries'[i])]
  BY DEF Pending, LiveIds, Timer
<1> QED BY <1>1, PendingIs

(* A step that leaves the live entries alone leaves the mapped timers alone. *)
LEMMA PendingSame ==
  ASSUME LiveIds' = LiveIds,
         \A i \in LiveIds : Timer(entries'[i]) = Timer(entries[i])
  PROVE  Pending' = Pending
<1>1. Pending' = [i \in LiveIds' |-> Timer(entries'[i])]
  BY DEF Pending, LiveIds, Timer
<1> QED BY <1>1, PendingIs

(* clearTimeout is Clear, for a timer already cancelled too.                *)
LEMMA CancelRefines ==
  ASSUME TypeOK, NEW id \in Ids, CancelTimer(id)
  PROVE  Service!Clear(id)
<1>1. /\ UNCHANGED <<clock, cur, nextId, closing>>
      /\ id \in DOMAIN entries
      /\ entries' = [entries EXCEPT ![id].cancelled = TRUE]
  BY DEF CancelTimer, loopVars
<1>2. entries \in [DOMAIN entries -> Entry]
  BY DEF TypeOK
<1>3. /\ DOMAIN entries' = DOMAIN entries
      /\ entries'[id].cancelled
      /\ \A i \in DOMAIN entries : i # id => entries'[i] = entries[i]
  BY <1>1, <1>2 DEF Entry
<1>4. LiveIds' = LiveIds \ {id}
  BY <1>3 DEF LiveIds
<1>5. \A i \in LiveIds \ {id} : entries'[i] = entries[i]
  BY <1>3 DEF LiveIds
<1>6. Pending' = [i \in DOMAIN Pending \ {id} |-> Pending[i]]
  BY <1>4, <1>5, PendingLoses
<1> QED BY <1>1, <1>6 DEF Service!Clear

(* Firing is Fire: the popped timer is due and none is due before it, which *)
(* needs the heap to hold every live timer with its own expiry.             *)
LEMMA FireRefines ==
  ASSUME TypeOK, QueueInv, BatchInv, FireTimer
  PROVE  \E id \in Ids : Service!Fire(id)
<1>1. PICK top \in Tops(heap) :
         /\ Live(top.id, entries) /\ entries[top.id].expiry <= batchNow
         /\ cur' = top.id
  BY DEF FireTimer
<1>2. pc = "batch" /\ UNCHANGED <<clock, entries, nextId, closing>>
  BY DEF FireTimer
<1>3. /\ cur = 0 /\ top \in heap /\ top.id \in LiveIds /\ top.id \in Ids
      /\ LiveIds \in SUBSET Ids
  BY <1>1, <1>2 DEF QueueInv, CurIsPopped, Tops, Live, LiveIds, TypeOK
<1>4. /\ entries \in [DOMAIN entries -> Entry] /\ heap \in SUBSET Node
      /\ clock \in Int /\ batchNow \in Int
  BY DEF TypeOK
<1>5. Pending[top.id].deadline <= clock
  <2>1. Pending[top.id].deadline = entries[top.id].expiry
    BY <1>3, PendingIs DEF Timer
  <2>2. entries[top.id].expiry \in Int
    BY <1>3, <1>4 DEF LiveIds, Entry
  <2> QED BY <1>1, <1>4, <2>1, <2>2 DEF BatchInv
<1>6. ASSUME NEW j \in LiveIds PROVE Pending[top.id].deadline <= Pending[j].deadline
  <2>1. /\ Pending[top.id].deadline = entries[top.id].expiry
        /\ Pending[j].deadline = entries[j].expiry
    BY <1>3, PendingIs DEF Timer
  <2>2. top.expiry = entries[top.id].expiry
    BY <1>3 DEF QueueInv, NodesMatchEntries, LiveIds
  <2>3. j # 0
    BY <1>3 DEF Ids
  <2>4. [expiry |-> entries[j].expiry, id |-> j] \in heap
    BY <1>3, <2>3 DEF QueueInv, LiveTimersQueued, Live, LiveIds
  <2>5. top.expiry <= entries[j].expiry
    BY <2>4 DEF Tops
  <2> QED BY <2>1, <2>2, <2>5
<1>7. UNCHANGED Pending
  BY <1>2 DEF Pending
<1> QED BY <1>1, <1>2, <1>3, <1>5, <1>6, <1>7, PendingIs DEF Service!Fire

(* A callback that returns is Settle: a one-shot or cancelled timer is gone, *)
(* a repeated one waits for its next deadline.                              *)
LEMMA SettleRefines ==
  ASSUME TypeOK, QueueInv, BatchInv, CallbackReturns
  PROVE  Service!Settle
<1> DEFINE e == entries[cur]
<1>1. /\ pc = "callback" /\ cur' = 0 /\ cur \in DOMAIN entries /\ cur # 0
      /\ UNCHANGED <<clock, nextId, closing>>
  BY DEF CallbackReturns, TypeOK, Ids
<1>2. entries \in [DOMAIN entries -> Entry] /\ e \in Entry
  BY <1>1 DEF TypeOK
<1>3. CASE e.cancelled \/ ~e.repeating
  <2>1. entries' = Erase(entries, cur)
    BY <1>3 DEF CallbackReturns
  <2>2. /\ DOMAIN entries' = DOMAIN entries \ {cur}
        /\ \A i \in DOMAIN entries \ {cur} : entries'[i] = entries[i]
    BY <2>1 DEF Erase
  <2>3. /\ LiveIds' = LiveIds \ {cur}
        /\ \A i \in LiveIds \ {cur} : entries'[i] = entries[i]
    BY <2>2 DEF LiveIds
  <2>4. CASE e.cancelled
    <3>1. cur \notin LiveIds
      BY <2>4 DEF LiveIds
    <3>2. Pending' = Pending
      BY <2>3, <3>1, PendingSame
    <3> QED BY <1>1, <3>1, <3>2, PendingIs DEF Service!Settle
  <2>5. CASE ~e.cancelled
    <3>1. cur \in LiveIds /\ ~e.repeating
      BY <1>1, <1>3, <2>5 DEF LiveIds
    <3>2. Pending' = [i \in DOMAIN Pending \ {cur} |-> Pending[i]]
      BY <2>3, PendingLoses
    <3>3. ~Pending[cur].repeating
      BY <3>1, PendingIs DEF Timer
    <3> QED BY <1>1, <3>1, <3>2, <3>3, PendingIs DEF Service!Settle
  <2> QED BY <2>4, <2>5
<1>4. CASE ~(e.cancelled \/ ~e.repeating)
  <2> DEFINE x == NextExpiry(e)
  <2>1. entries' = [entries EXCEPT ![cur].expiry = x]
    BY <1>4 DEF CallbackReturns
  <2>2. x \in Int /\ x >= e.expiry + e.interval
    <3>1. e.expiry \in Int /\ e.interval \in Int /\ e.expiry <= batchNow /\ batchNow \in Int
      BY <1>1, <1>2 DEF Entry, TypeOK, BatchInv
    <3> QED BY <3>1 DEF NextExpiry
  <2> HIDE DEF x
  <2>3. /\ DOMAIN entries' = DOMAIN entries
        /\ entries'[cur].expiry = x
        /\ entries'[cur].interval = e.interval
        /\ entries'[cur].repeating = e.repeating
        /\ entries'[cur].cancelled = e.cancelled
        /\ \A i \in DOMAIN entries : i # cur => entries'[i] = entries[i]
    BY <1>1, <1>2, <2>1 DEF Entry
  <2>4. cur \in LiveIds /\ LiveIds' = LiveIds
    BY <1>1, <1>4, <2>3 DEF LiveIds
  <2>5. Pending' = [i \in LiveIds |-> Timer(entries'[i])]
    <3>1. Pending' = [i \in LiveIds' |-> Timer(entries'[i])]
      BY DEF Pending, LiveIds, Timer
    <3> QED BY <2>4, <3>1
  <2>6. /\ Pending[cur] = [deadline |-> e.expiry, period |-> e.interval, repeating |-> e.repeating]
        /\ Timer(entries'[cur]) = [deadline |-> x, period |-> e.interval, repeating |-> e.repeating]
    BY <2>3, <2>4, PendingIs DEF Timer
  <2>7. \A i \in LiveIds : i # cur => Timer(entries'[i]) = Pending[i]
    BY <2>3, PendingIs DEF LiveIds
  <2>8. /\ Pending'[cur].deadline = x
        /\ Pending' = [Pending EXCEPT ![cur].deadline = x]
    <3>1. Pending'[cur].deadline = x
      BY <2>4, <2>5, <2>6
    <3>2. [Pending EXCEPT ![cur].deadline = x]
            = [i \in LiveIds |-> IF i = cur THEN [Pending[cur] EXCEPT !.deadline = x]
                                            ELSE Pending[i]]
      BY <2>4, PendingIs
    <3>3. [Pending[cur] EXCEPT !.deadline = x] = Timer(entries'[cur])
      BY <2>6
    <3> QED BY <2>5, <2>7, <3>1, <3>2, <3>3
  <2>9. cur \in DOMAIN Pending /\ cur \in DOMAIN Pending' /\ Pending[cur].repeating
    BY <1>4, <2>4, <2>5, <2>6, PendingIs
  <2> QED BY <1>1, <2>2, <2>6, <2>8, <2>9 DEF Service!Settle
<1> QED BY <1>3, <1>4

(* Every step of the loop is a step of the service, or leaves it alone.     *)
LEMMA StepRefines ==
  ASSUME TypeOK, QueueInv, BatchInv, [Next]_vars
  PROVE  [Service!Next]_Service!vars
<1> USE DelaysAssumption
<1>1. ASSUME NEW ms \in Delays, ScheduleTimer(ms, FALSE) PROVE Service!Next
  <2>1. nextId \in Ids /\ Service!Set(nextId, ms, FALSE)
    BY <1>1, ScheduleRefines DEF ScheduleTimer
  <2> QED BY <2>1 DEF Service!Next
<1>2. ASSUME NEW ms \in Intervals, ScheduleTimer(ms, TRUE) PROVE Service!Next
  <2>1. nextId \in Ids /\ Service!Set(nextId, ms, TRUE)
    BY <1>2, ScheduleRefines DEF ScheduleTimer
  <2> QED BY <2>1 DEF Service!Next
<1>3. ASSUME NEW id \in Ids, CancelTimer(id) PROVE Service!Next
  BY <1>3, CancelRefines DEF Service!Next
<1>4. CASE FireTimer
  BY <1>4, FireRefines DEF Service!Next
<1>5. CASE CallbackReturns
  BY <1>5, SettleRefines DEF Service!Next
<1>6. CASE Tick
  <2>1. clock' = clock + 1 /\ UNCHANGED <<entries, cur, nextId, closing>>
    BY <1>6 DEF Tick, jsVars, loopVars
  <2>2. UNCHANGED Pending
    BY <2>1 DEF Pending
  <2> QED BY <2>1, <2>2 DEF Service!Next, Service!Advance
<1>7. CASE Destroy
  <2>1. /\ UNCHANGED <<clock, nextId>> /\ cur' = 0 /\ closing' = TRUE
        /\ DOMAIN entries' = {} /\ ~closing
    BY <1>7 DEF Destroy, BatchInv
  <2>2. Pending' = [i \in {} |-> 0]
    BY <2>1 DEF Pending
  <2> QED BY <1>7, <2>1, <2>2 DEF Service!Next, Service!Discard, Service!NoTimers
<1>8. CASE PopCancelled
  <2>1. PICK top \in Tops(heap) : /\ entries[top.id].cancelled
                                  /\ entries' = Erase(entries, top.id)
    BY <1>8 DEF PopCancelled
  <2>2. UNCHANGED <<clock, cur, nextId, closing>>
    BY <1>8 DEF PopCancelled, loopVars
  <2>3. /\ LiveIds' = LiveIds
        /\ \A i \in LiveIds : entries'[i] = entries[i]
    BY <2>1 DEF Erase, LiveIds
  <2>4. Pending' = Pending
    BY <2>3, PendingSame
  <2> QED BY <2>2, <2>4 DEF Service!vars
<1>9. CASE \/ StartIo \/ EnterRun \/ JobsDone \/ JobsThrow \/ RunOneOk \/ RunOneNoop
           \/ RunOneIo \/ IoReturns \/ RunOneEmpty \/ PopStale \/ CallbackThrows
           \/ BatchEnd \/ WaitExpires \/ Stop \/ UNCHANGED vars
  <2>1. UNCHANGED <<clock, entries, cur, nextId, closing>>
    BY <1>9 DEF StartIo, EnterRun, JobsDone, JobsThrow, RunOneOk, RunOneNoop, RunOneIo,
                IoReturns, RunOneEmpty, PopStale, CallbackThrows, BatchEnd,
                WaitExpires, Stop, jsVars, loopVars, vars
  <2>2. UNCHANGED Pending
    BY <2>1 DEF Pending
  <2> QED BY <2>1, <2>2 DEF Service!vars
<1> QED
  BY <1>1, <1>2, <1>3, <1>4, <1>5, <1>6, <1>7, <1>8, <1>9
     DEF Next, JsStep, RunStep, BatchStep

(* The event loop implements the timer service that scripts program against.*)
THEOREM LoopImplementsService == Spec => ImplementsTimerService
<1>1. Init => Service!Init
  <2>1. Init => Pending = Service!NoTimers
    BY DEF Init, Pending, Service!NoTimers
  <2> QED BY <2>1 DEF Init, Service!Init
<1>2. TypeOK /\ QueueInv /\ BatchInv /\ [Next]_vars
        => [Service!Next]_Service!vars
  BY StepRefines
<1> QED
  BY <1>1, <1>2, TypeCorrect, QueueInvariant, BatchInvariant, PTL
     DEF Spec, ImplementsTimerService, Service!Spec
=============================================================================
