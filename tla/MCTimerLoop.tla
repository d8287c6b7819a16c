---------------------------- MODULE MCTimerLoop ----------------------------
(***************************************************************************)
(* TLC instances of TimerLoop: the arguments scripts give.                 *)
(***************************************************************************)
EXTENDS TimerLoop

\* Overdue when it is set (setTimeout(f, -1) is legal) and due later, on
\* both sides of an interval of 1.
MCDelays    == {-1, 2}
MCIntervals == {1}
============================================================================
