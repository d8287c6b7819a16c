---------------------------- MODULE SocketService ----------------------------
(***************************************************************************)
(* What a Socket promises a script (src/src/modules/socket.cpp), with no   *)
(* flags, pins, buffers or handlers: one event at a time; every connect()  *)
(* is answered once, by "connect" or by "error"; a write() is answered at  *)
(* most once, by "error"; data arrives after the first "connect" and       *)
(* before "close"; a stream that fails says "error" and then, in the same  *)
(* turn, "close"; a collected object says nothing.  A script that connects *)
(* a link that is established gives up the end: there are then two streams *)
(* and each of them closes.                                                *)
(*                                                                         *)
(* SocketLifecycle is shown to implement this module.                      *)
(***************************************************************************)
EXTENDS Naturals

VARIABLES
  asked,    \* the connect() and write() calls whose outcome is still out
  heard,    \* the events emitted so far
  speaking, \* the event of this turn, "failure" for the stream's error, or "none"
  lost,     \* the object was collected
  doubled   \* connect() was called on an established link

vars == <<asked, heard, speaking, lost, doubled>>

AskedCalls == {"connect", "write"}

Init ==
  /\ asked = [c \in AskedCalls |-> 0]
  /\ heard = {}
  /\ speaking = "none"
  /\ lost = FALSE
  /\ doubled = FALSE

(* A link that is established was reported, or is about to be.              *)
MayBeLinked == asked["connect"] > 0 \/ "connect" \in heard

Ask(c) ==
  /\ ~lost
  /\ doubled' \in {doubled, doubled \/ (c = "connect" /\ MayBeLinked)}
  /\ UNCHANGED <<heard, speaking, lost>>
  /\ asked' = [asked EXCEPT ![c] = @ + 1]

Answer(c) ==
  /\ asked[c] > 0
  /\ asked' = [asked EXCEPT ![c] = @ - 1]

Say(event, turn) ==
  /\ ~lost
  /\ speaking' = turn
  /\ heard' = heard \union {event}
  /\ UNCHANGED <<lost, doubled>>

Connected == speaking = "none" /\ Say("connect", "connect") /\ Answer("connect")
Failed(c) == speaking = "none" /\ Say("error", "error") /\ Answer(c)

(* A write that succeeds says nothing, and nor does anything once the       *)
(* object was collected.                                                    *)
Silently(c) ==
  /\ c = "write" \/ lost
  /\ UNCHANGED <<heard, speaking, lost, doubled>>
  /\ Answer(c)

Streaming == "connect" \in heard /\ ("close" \in heard => doubled)

Data ==
  /\ speaking = "none" /\ Streaming
  /\ Say("data", "data")
  /\ UNCHANGED asked

StreamFails ==
  /\ speaking = "none" /\ Streaming
  /\ Say("error", "failure")
  /\ UNCHANGED asked

StreamEnds ==
  /\ speaking \in {"none", "failure"} /\ Streaming
  /\ Say("close", "close")
  /\ UNCHANGED asked

TurnEnds ==
  /\ speaking # "none"
  /\ speaking = "failure" => lost
  /\ speaking' = "none"
  /\ UNCHANGED <<asked, heard, lost, doubled>>

Collect ==
  /\ ~lost
  /\ lost' = TRUE
  /\ UNCHANGED <<asked, heard, speaking, doubled>>

Next ==
  \/ Connected \/ Data \/ StreamFails \/ StreamEnds \/ TurnEnds \/ Collect
  \/ \E c \in AskedCalls : Ask(c) \/ Failed(c) \/ Silently(c)

Spec == Init /\ [][Next]_vars
=============================================================================
