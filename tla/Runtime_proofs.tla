---------------------------- MODULE Runtime_proofs ----------------------------
(***************************************************************************)
(* Proofs about Runtime, for any contexts, promises and bounds.            *)
(***************************************************************************)
EXTENDS Runtime, TLAPS

(* The tracker's own list holds only rejections nothing has handled: they   *)
(* were made while it was the tracker, and so were the calls that handled   *)
(* some of them.                                                           *)
TrackedAreUnhandled ==
  tracker # none => \A p \in pending[tracker] : promise[p] = "rejected"

(* A context waits with an empty list.                                      *)
WaitsClean == pc = "poll" => pending[cur] = {}

(* Scripts that run in a destructor have no tracker.                        *)
ClosingUntracked == pc = "closing" => tracker = none

(* A report goes through the list of its context, as long as no script that *)
(* it calls changes the list.                                               *)
ListedIsPending == pc = "report" /\ ~disturbed => listed = pending[cur]

RuntimeInv ==
  TypeOK /\ TrackerAlive /\ DeadHoldNothing /\ NoRejectionLost
  /\ TrackedAreUnhandled /\ WaitsClean /\ ClosingUntracked /\ ListedIsPending

LEMMA InitInv == Init => RuntimeInv
<1> SUFFICES ASSUME Init PROVE RuntimeInv
  OBVIOUS
<1> USE NoneAssumption DEF Init
<1>1. jobs \in Seq(Contexts)
  OBVIOUS
<1>2. /\ promise \in [Promises -> {"open", "rejected", "handled"}]
      /\ pending \in [Contexts -> SUBSET Promises]
  OBVIOUS
<1>3. TypeOK
  BY <1>1, <1>2 DEF TypeOK
<1>4. /\ \A p \in Promises : promise[p] # "rejected"
      /\ \A c \in Contexts : pending[c] = {}
  OBVIOUS
<1>5. NoRejectionLost
  BY <1>4 DEF NoRejectionLost
<1> QED
  BY <1>3, <1>4, <1>5
     DEF RuntimeInv, TrackerAlive, DeadHoldNothing, TrackedAreUnhandled, WaitsClean,
         ClosingUntracked, ListedIsPending

(* What the tracker does to its context's list, and to a report of it.      *)
LEMMA SetPendingFacts ==
  ASSUME TypeOK, NEW list \in SUBSET Promises, SetPending(list)
  PROVE  /\ tracker \in Contexts
         /\ pending' \in [Contexts -> SUBSET Promises]
         /\ \A c \in Contexts : pending'[c] = IF c = tracker THEN list ELSE pending[c]
         /\ disturbed' \in BOOLEAN /\ listed' \subseteq Promises
         /\ pc' = pc \/ (pc = "report" /\ pc' = "crashed" /\ disturbed')
         /\ ~disturbed' => ~disturbed /\ pc' = pc /\ listed' = listed
         /\ pc = "report" /\ tracker = cur /\ ~disturbed' => list = pending[cur]
<1>1. tracker \in Contexts
  BY DEF SetPending, TypeOK
<1>2. pending' = [pending EXCEPT ![tracker] = list]
  BY DEF SetPending
<1>3. CASE pc = "report" /\ tracker = cur /\ list # pending[cur]
  BY <1>1, <1>2, <1>3 DEF SetPending, TypeOK
<1>4. CASE ~(pc = "report" /\ tracker = cur /\ list # pending[cur])
  <2>1. UNCHANGED <<disturbed, pc, listed>>
    BY <1>4 DEF SetPending
  <2> QED
    BY <1>1, <1>2, <1>4, <2>1 DEF TypeOK
<1> QED
  BY <1>3, <1>4

(* Types.                                                                   *)
LEMMA NextTypes == RuntimeInv /\ [Next]_vars => TypeOK'
<1> SUFFICES ASSUME RuntimeInv, [Next]_vars PROVE TypeOK'
  OBVIOUS
<1> USE NoneAssumption DEF RuntimeInv, TypeOK, history
<1>1. CASE Initialize BY <1>1 DEF Initialize
<1>2. CASE Shutdown BY <1>2 DEF Shutdown
<1>3. CASE ContextGone BY <1>3 DEF ContextGone
<1>4. CASE FreeRuntime
  <2>1. jobs' \in Seq(Contexts)
    BY <1>4 DEF FreeRuntime
  <2>2. promise' \in [Promises -> {"open", "rejected", "handled"}]
    BY <1>4 DEF FreeRuntime
  <2> QED
    BY <1>4, <2>1, <2>2 DEF FreeRuntime
<1>5. ASSUME NEW c \in Contexts, CreateContext(c) PROVE TypeOK'
  BY <1>5 DEF CreateContext
<1>6. ASSUME NEW c \in Contexts, DestroyContext(c) PROVE TypeOK'
  BY <1>6 DEF DestroyContext
<1>7. ASSUME NEW c \in Contexts, Run(c) PROVE TypeOK'
  BY <1>7 DEF Run
<1>8. ASSUME NEW c \in Contexts, Enqueue(c) PROVE TypeOK'
  BY <1>8 DEF Enqueue
<1>9. ASSUME NEW p \in Promises, Reject(p) PROVE TypeOK'
  <2>1. /\ promise' \in [Promises -> {"open", "rejected", "handled"}]
        /\ UNCHANGED <<rt, contexts, tracker, jobs, cur, reported>>
    BY <1>9 DEF Reject
  <2>2. CASE Untracked
    BY <2>1, <2>2 DEF Untracked
  <2>3. CASE SetPending(pending[tracker] \union {p})
    <3>1. tracker # none
      BY <2>3 DEF SetPending
    <3>2. pending[tracker] \union {p} \in SUBSET Promises
      BY <3>1
    <3> QED
      BY <2>1, <2>3, <3>2, SetPendingFacts
  <2> QED
    BY <1>9, <2>2, <2>3 DEF Reject
<1>10. ASSUME NEW p \in Promises, Handle(p) PROVE TypeOK'
  <2>1. /\ promise' \in [Promises -> {"open", "rejected", "handled"}]
        /\ UNCHANGED <<rt, contexts, tracker, jobs, cur, reported>>
    BY <1>10 DEF Handle
  <2>2. CASE Untracked
    BY <2>1, <2>2 DEF Untracked
  <2>3. CASE SetPending(pending[tracker] \ {p})
    <3>1. tracker # none
      BY <2>3 DEF SetPending
    <3>2. pending[tracker] \ {p} \in SUBSET Promises
      BY <3>1
    <3> QED
      BY <2>1, <2>3, <3>2, SetPendingFacts
  <2> QED
    BY <1>10, <2>2, <2>3 DEF Handle
<1>11. CASE RunJob BY <1>11 DEF RunJob
<1>12. CASE JobReturns BY <1>12 DEF JobReturns, Return
<1>13. CASE JobThrows BY <1>13 DEF JobThrows, Return
<1>14. CASE Drained BY <1>14 DEF Drained, Return
<1>15. CASE Check BY <1>15 DEF Check
<1>16. CASE HandlerStarts BY <1>16 DEF HandlerStarts, Return
<1>17. CASE OutOfWork BY <1>17 DEF OutOfWork, Return
<1>18. CASE HandlerReturns BY <1>18 DEF HandlerReturns, Return
<1>19. CASE HandlerThrows BY <1>19 DEF HandlerThrows, Return
<1>20. CASE Report BY <1>20 DEF Report
<1>21. CASE UNCHANGED vars BY <1>21 DEF vars
<1> QED
  BY <1>1, <1>2, <1>3, <1>4, <1>5, <1>6, <1>7, <1>8, <1>9, <1>10, <1>11, <1>12, <1>13,
     <1>14, <1>15, <1>16, <1>17, <1>18, <1>19, <1>20, <1>21 DEF Next

(* The tracker and the lists.                                               *)
LEMMA NextLists ==
  RuntimeInv /\ TypeOK' /\ [Next]_vars
    => (TrackerAlive /\ DeadHoldNothing /\ NoRejectionLost
        /\ TrackedAreUnhandled /\ WaitsClean /\ ClosingUntracked /\ ListedIsPending)'
<1> DEFINE Goal == (TrackerAlive /\ DeadHoldNothing /\ NoRejectionLost
                    /\ TrackedAreUnhandled /\ WaitsClean /\ ClosingUntracked /\ ListedIsPending)'
<1> SUFFICES ASSUME RuntimeInv, TypeOK', [Next]_vars PROVE Goal
  OBVIOUS
<1> USE NoneAssumption DEF history, RuntimeInv, TypeOK, TrackerAlive, DeadHoldNothing,
                           NoRejectionLost, TrackedAreUnhandled, WaitsClean,
                           ClosingUntracked, ListedIsPending
<1>1. CASE Initialize BY <1>1 DEF Initialize
<1>2. CASE Shutdown BY <1>2 DEF Shutdown
<1>3. CASE ContextGone
  <2>1. pending' = pending /\ promise' = promise /\ tracker' = tracker
        /\ contexts' = contexts \ {cur} /\ pc' = "clearing" /\ pending[cur] = {}
    BY <1>3 DEF ContextGone
  <2>2. tracker = none
    BY <1>3 DEF ContextGone
  <2> QED
    BY <2>1, <2>2
<1>4. CASE FreeRuntime
  <2>1. \A p \in Promises : promise'[p] # "rejected"
    BY <1>4 DEF FreeRuntime
  <2>2. tracker' = none /\ contexts' = {} /\ pending' = pending /\ pc' = "host"
    BY <1>4 DEF FreeRuntime
  <2> QED
    BY <1>4, <2>1, <2>2 DEF FreeRuntime
<1>5. ASSUME NEW c \in Contexts, CreateContext(c) PROVE Goal
  BY <1>5 DEF CreateContext
<1>6. ASSUME NEW c \in Contexts, DestroyContext(c) PROVE Goal
  BY <1>6 DEF DestroyContext
<1>7. ASSUME NEW c \in Contexts, Run(c) PROVE Goal
  BY <1>7 DEF Run
<1>8. ASSUME NEW c \in Contexts, Enqueue(c) PROVE Goal
  BY <1>8 DEF Enqueue
<1>9. ASSUME NEW p \in Promises, Reject(p) PROVE Goal
  <2>1. /\ UNCHANGED <<contexts, tracker, cur, reported>>
        /\ pc # "poll"
        /\ \A q \in Promises : promise'[q] = IF q = p THEN "rejected" ELSE promise[q]
    BY <1>9 DEF Reject, JsRunning
  <2>2. CASE Untracked
    <3>1. pc = "closing" /\ UNCHANGED <<pending, pc, listed, disturbed>>
      BY <1>9, <2>2 DEF Reject, Untracked, JsRunning
    <3> QED
      BY <2>1, <3>1
  <2>3. CASE SetPending(pending[tracker] \union {p})
    <3>1. tracker \in contexts /\ pc # "closing"
      BY <2>3 DEF SetPending
    <3>2. pending[tracker] \union {p} \in SUBSET Promises
      BY <3>1
    <3> DEFINE list == pending[tracker] \union {p}
    <3>3. /\ \A c \in Contexts : pending'[c] = IF c = tracker THEN list ELSE pending[c]
          /\ pc' = pc \/ (pc = "report" /\ pc' = "crashed" /\ disturbed')
          /\ ~disturbed' => ~disturbed /\ pc' = pc /\ listed' = listed
          /\ pc = "report" /\ tracker = cur /\ ~disturbed' => list = pending[cur]
      BY <2>3, <3>2, SetPendingFacts
    <3>4. TrackerAlive' /\ DeadHoldNothing' /\ WaitsClean' /\ ClosingUntracked'
      BY <2>1, <3>1, <3>3
    <3>5. NoRejectionLost'
      BY <2>1, <3>1, <3>3
    <3>6. TrackedAreUnhandled'
      BY <2>1, <3>1, <3>3
    <3>7. ListedIsPending'
      BY <2>1, <3>1, <3>3
    <3> QED
      BY <3>4, <3>5, <3>6, <3>7
  <2> QED
    BY <1>9, <2>2, <2>3 DEF Reject
<1>10. ASSUME NEW p \in Promises, Handle(p) PROVE Goal
  <2>1. /\ UNCHANGED <<contexts, tracker, cur, reported>>
        /\ pc # "poll"
        /\ \A q \in Promises : promise'[q] = IF q = p THEN "handled" ELSE promise[q]
    BY <1>10 DEF Handle, JsRunning
  <2>2. CASE Untracked
    <3>1. pc = "closing" /\ UNCHANGED <<pending, pc, listed, disturbed>>
      BY <1>10, <2>2 DEF Handle, Untracked, JsRunning
    <3> QED
      BY <2>1, <3>1
  <2>3. CASE SetPending(pending[tracker] \ {p})
    <3>1. tracker \in contexts /\ pc # "closing"
      BY <2>3 DEF SetPending
    <3>2. pending[tracker] \ {p} \in SUBSET Promises
      BY <3>1
    <3> DEFINE list == pending[tracker] \ {p}
    <3>3. /\ \A c \in Contexts : pending'[c] = IF c = tracker THEN list ELSE pending[c]
          /\ pc' = pc \/ (pc = "report" /\ pc' = "crashed" /\ disturbed')
          /\ ~disturbed' => ~disturbed /\ pc' = pc /\ listed' = listed
          /\ pc = "report" /\ tracker = cur /\ ~disturbed' => list = pending[cur]
      BY <2>3, <3>2, SetPendingFacts
    <3>4. TrackerAlive' /\ DeadHoldNothing' /\ WaitsClean' /\ ClosingUntracked'
      BY <2>1, <3>1, <3>3
    <3>5. NoRejectionLost'
      <4> SUFFICES ASSUME ~disturbed', pc' \notin {"clearing", "closing"},
                          NEW q \in Promises, promise'[q] = "rejected"
                   PROVE  q \in reported \/ \E c \in contexts : q \in pending'[c]
        BY <2>1
      <4>1. q # p /\ promise[q] = "rejected"
        BY <2>1
      <4>2. q \in reported \/ \E c \in contexts : q \in pending[c]
        BY <3>3, <4>1
      <4> QED
        BY <3>3, <4>1, <4>2
    <3>6. TrackedAreUnhandled'
      BY <2>1, <3>1, <3>3
    <3>7. ListedIsPending'
      BY <2>1, <3>1, <3>3
    <3> QED
      BY <3>4, <3>5, <3>6, <3>7
  <2> QED
    BY <1>10, <2>2, <2>3 DEF Handle
<1>11. CASE RunJob BY <1>11 DEF RunJob
<1>12. CASE JobReturns BY <1>12 DEF JobReturns, Return
<1>13. CASE JobThrows BY <1>13 DEF JobThrows, Return
<1>14. CASE Drained BY <1>14 DEF Drained, Return
<1>15. CASE Check BY <1>15 DEF Check
<1>16. CASE HandlerStarts BY <1>16 DEF HandlerStarts, Return
<1>17. CASE OutOfWork BY <1>17 DEF OutOfWork, Return
<1>18. CASE HandlerReturns BY <1>18 DEF HandlerReturns, Return
<1>19. CASE HandlerThrows BY <1>19 DEF HandlerThrows, Return
<1>20. CASE Report BY <1>20 DEF Report
<1>21. CASE UNCHANGED vars BY <1>21 DEF vars
<1> QED
  BY <1>1, <1>2, <1>3, <1>4, <1>5, <1>6, <1>7, <1>8, <1>9, <1>10, <1>11, <1>12, <1>13,
     <1>14, <1>15, <1>16, <1>17, <1>18, <1>19, <1>20, <1>21 DEF Next

LEMMA Invariant == Spec => []RuntimeInv
<1>1. RuntimeInv /\ [Next]_vars => RuntimeInv'
  BY NextTypes, NextLists DEF RuntimeInv
<1> QED
  BY InitInv, <1>1, PTL DEF Spec

(* runtime.cpp, context.cpp: whatever is created, run and shut down, run()  *)
(* and the destructor have a context that exists, in a runtime.             *)
THEOREM RuntimeTypeCorrect == Spec => []TypeOK
<1>1. RuntimeInv => TypeOK
  BY DEF RuntimeInv
<1> QED
  BY Invariant, <1>1, PTL

(* context.cpp:45 and :51: the tracker's pointer never dangles.             *)
THEOREM TrackerNeverDangles == Spec => []TrackerAlive
<1>1. RuntimeInv => TrackerAlive
  BY DEF RuntimeInv
<1> QED
  BY Invariant, <1>1, PTL

(* context.cpp:51-73: a destructor leaves no rejection behind, although     *)
(* scripts run in it.                                                       *)
THEOREM DestructionComplete == Spec => []DeadHoldNothing
<1>1. RuntimeInv => DeadHoldNothing
  BY DEF RuntimeInv
<1> QED
  BY Invariant, <1>1, PTL

(* context.cpp:240-265: no rejection is lost: it is reported, or still in a *)
(* list, also when other contexts come, take the tracker over, and go.      *)
THEOREM RejectionsKept == Spec => []NoRejectionLost
<1>1. RuntimeInv => NoRejectionLost
  BY DEF RuntimeInv
<1> QED
  BY Invariant, <1>1, PTL

(* context.cpp:192-208: the context that is the tracker waits for timers    *)
(* and sockets only when it has reported what was rejected since it came.   *)
THEOREM ReportsBeforeWaiting == Spec => []ReportedBeforeWaiting
<1>1. RuntimeInv => ReportedBeforeWaiting
  BY DEF RuntimeInv, TypeOK, NoRejectionLost, ReportedBeforeWaiting, WaitsClean
<1> QED
  BY Invariant, <1>1, PTL

(* context.cpp:257-261: what the tracker's context reports is unhandled.    *)
THEOREM ReportsAreRight == Spec => OnlyUnhandledReported
<1> DEFINE Right == ~disturbed /\ cur = tracker =>
                      \A p \in reported' \ reported : promise[p] = "rejected"
<1>1. RuntimeInv /\ [Next]_vars => [Right]_vars
  <2> SUFFICES ASSUME RuntimeInv, Next PROVE Right
    OBVIOUS
  <2>1. CASE Report
    BY <2>1 DEF Report, RuntimeInv, TypeOK, TrackedAreUnhandled, ListedIsPending
  <2>2. CASE reported' \subseteq reported
    BY <2>2
  <2>3. Report \/ reported' \subseteq reported
    BY DEF Next, Initialize, Shutdown, ContextGone, FreeRuntime, CreateContext,
           DestroyContext, Run, Enqueue, Reject, Handle, RunJob, JobReturns, JobThrows,
           Drained, Check, HandlerStarts, OutOfWork, HandlerReturns, HandlerThrows,
           Return, history
  <2> QED
    BY <2>1, <2>2, <2>3
<1> QED
  BY Invariant, <1>1, PTL DEF Spec, OnlyUnhandledReported
==============================================================================
