---------------------------- MODULE TimerService ----------------------------
(***************************************************************************)
(* What setTimeout, setInterval and clearTimeout promise a script          *)
(* (src/src/bindings/timers.cpp, src/include/context.hpp), with no heap,   *)
(* no handler and no batch: timers fire one at a time, never early, never  *)
(* after they were cleared, the one with the earliest deadline first; a    *)
(* one-shot timer fires once; an interval keeps its period or falls        *)
(* behind, but never fires sooner; an id is never given out twice.         *)
(*                                                                         *)
(* TimerLoop is shown to implement this module.                            *)
(***************************************************************************)
EXTENDS Integers

CONSTANTS Delays, Intervals, TimerIds

VARIABLES
  now,      \* the time
  pending,  \* the timers that may still fire: id -> deadline, period, repeating
  running,  \* the timer whose callback runs, or 0
  issued,   \* the ids given out so far
  over      \* the context is being destroyed

vars == <<now, pending, running, issued, over>>

NoTimers == [i \in {} |-> 0]

Init ==
  /\ now = 0
  /\ pending = NoTimers
  /\ running = 0
  /\ issued = {}
  /\ over = FALSE

Advance ==
  /\ now' = now + 1
  /\ UNCHANGED <<pending, running, issued, over>>

Set(id, ms, repeating) ==
  /\ id \notin issued
  /\ issued' = issued \union {id}
  /\ pending' = [i \in DOMAIN pending \union {id} |->
                   IF i = id THEN [deadline |-> now + ms, period |-> ms,
                                   repeating |-> repeating]
                             ELSE pending[i]]
  /\ UNCHANGED <<now, running, over>>

Clear(id) ==
  /\ pending' = [i \in DOMAIN pending \ {id} |-> pending[i]]
  /\ UNCHANGED <<now, running, issued, over>>

Fire(id) ==
  /\ running = 0
  /\ id \in DOMAIN pending
  /\ pending[id].deadline <= now
  /\ \A j \in DOMAIN pending : pending[id].deadline <= pending[j].deadline
  /\ running' = id
  /\ UNCHANGED <<now, pending, issued, over>>

(* The callback returned: the timer is gone if it was cleared meanwhile or  *)
(* is a one-shot, else it is due again no sooner than one period later.     *)
Settle ==
  /\ running # 0
  /\ running' = 0
  /\ \/ /\ running \notin DOMAIN pending
        /\ pending' = pending
     \/ /\ running \in DOMAIN pending
        /\ ~pending[running].repeating
        /\ pending' = [i \in DOMAIN pending \ {running} |-> pending[i]]
     \/ /\ running \in DOMAIN pending
        /\ pending[running].repeating
        /\ running \in DOMAIN pending'
        /\ LET d == pending'[running].deadline
           IN  /\ d >= pending[running].deadline + pending[running].period
               /\ pending' = [pending EXCEPT ![running].deadline = d]
  /\ UNCHANGED <<now, issued, over>>

(* The context is destroyed, which happens once.                            *)
Discard ==
  /\ ~over
  /\ over' = TRUE
  /\ pending' = NoTimers
  /\ running' = 0
  /\ UNCHANGED <<now, issued>>

Next ==
  \/ Advance \/ Settle \/ Discard
  \/ \E id \in TimerIds :
       \/ \E ms \in Delays : Set(id, ms, FALSE)
       \/ \E ms \in Intervals : Set(id, ms, TRUE)
       \/ Clear(id)
       \/ Fire(id)

Spec == Init /\ [][Next]_vars
=============================================================================
