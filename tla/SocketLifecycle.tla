-------------------------- MODULE SocketLifecycle --------------------------
(***************************************************************************)
(* The life of one TcpSocket (src/src/modules/socket.cpp) with its         *)
(* TcpTransport, PinGuard and EventEmitter: who keeps the JavaScript       *)
(* object and the C++ object alive, while completion handlers that hold a  *)
(* raw `this` are outstanding, and while listeners re-enter the socket.    *)
(*                                                                         *)
(* The socket's handler is split where JavaScript may run: up to the       *)
(* listener's call, the listener (any socket call, a garbage collection),  *)
(* and what follows it.  QuickJS is external: an object that no script     *)
(* reaches and no pin holds is finalized when its last reference goes or,  *)
(* if it was part of a cycle, at some later garbage collection.            *)
(* Boost.Asio is external: an operation is pending until the network       *)
(* completes it or cancel()/close() aborts it; its handler is then ready   *)
(* and runs once.  The context's other sockets are the environment: they   *)
(* hold references to this one, in their listeners, until they are freed.  *)
(*                                                                         *)
(* Undefined behaviour (a use of a deleted TcpSocket or of a freed         *)
(* listener), a failed assert and an exception that leaves a C frame end   *)
(* the behaviour in `fault`.                                               *)
(***************************************************************************)
EXTENDS Naturals, FiniteSets

CONSTANTS
  Events,   \* the events scripts listen to
  MaxOps,   \* bounds: connects and writes outstanding
  MaxPins   \* bound: pins that scripts take

ASSUME EventsAssumption == Events \subseteq {"connect", "data", "error", "close"}
ASSUME BoundsAssumption ==
  MaxOps \in [{"connect", "write"} -> Nat \ {0}] /\ MaxPins \in Nat \ {0}

Kinds   == {"connect", "read", "write"}
Results == {"ok", "error", "aborted"}

VARIABLES
  held,       \* a script can reach the Socket object
  pins,       \* pin_.count_
  listeners,  \* the events_ slots that are filled
  finalized,  \* finalized_
  closed,     \* closed_
  alive,      \* the TcpSocket has not been deleted
  registered, \* it is in active_resources or, in the cleanup, in remaining
  open,       \* socket_.is_open()
  link,       \* the connection is established
  connected,  \* transport_.connected_
  reading,    \* transport_.reading_
  ops,        \* per kind: operations pending, and handlers ready per result
  pc,         \* "idle", "listener" (JavaScript runs), "after" (the handler goes on)
  cont,       \* what the handler does next
  event,      \* the event whose listener was called last by this handler
  phase,      \* of the context: running, draining, cleanup, gone
  fault,      \* how the behaviour went wrong
  used,       \* history: what scripts have called, and what they have risked
  said        \* history: the events emitted

transport == <<open, link, connected, reading>>
object    == <<finalized, closed, alive, registered>>
control   == <<pc, cont, event>>
vars == <<held, pins, listeners, object, transport, ops, control, phase, fault, used, said>>

Conts  == {"none", "afterConnect", "afterData", "thenClose", "afterClose", "end"}
PCs    == {"idle", "listener", "after"}
Faults == {"none", "handlerAfterDelete", "deletedUnderCaller", "unpinUnderflow",
           "releasedTwice", "exceptionEscapes", "listenerFreed", "cleanupAfterDelete"}
Calls  == {"connect", "write", "close", "drop"}
Risks  == {"reconnect", "badHost", "replace", "lent"}
Phases == {"running", "draining", "cleanup", "gone"}

------------------------------------------------------------------------------
(* Operations and deletion.                                                *)

Outstanding(k) == ops[k].pending + ops[k].ok + ops[k].error + ops[k].aborted
NoOps == \A k \in Kinds : Outstanding(k) = 0

Start(k, s) == ops' = [ops EXCEPT ![k][s] = @ + 1]

(* cancel() or close() of the asio socket.                                  *)
Aborted == [k \in Kinds |-> [ops[k] EXCEPT !.pending = 0,
                                           !.aborted = @ + ops[k].pending]]
CancelAll == ops' = IF open THEN Aborted ELSE ops

TransportClosed == open' = FALSE /\ link' = FALSE /\ connected' = FALSE /\ reading' = FALSE

(* unregisterResource takes the socket out of active_resources, which the   *)
(* cleanup has moved to `remaining`: a socket stays in that.                *)
Unregister == registered' = (registered /\ phase = "cleanup")

(* `delete`: ~TcpTransport closes the socket, whose handlers stay.          *)
Delete ==
  /\ alive' = FALSE
  /\ ops' = Aborted
  /\ TransportClosed

------------------------------------------------------------------------------
(* What scripts do, in a listener or in any other turn.                     *)

JsMayRun == fault = "none" /\ phase \in {"running", "draining"} /\ pc # "after"

Call(names) ==
  /\ JsMayRun /\ held
  /\ used' = used \union names
  /\ UNCHANGED <<held, control, phase, said>>

Risk(name, cond) == IF cond THEN {name} ELSE {}

Pin == pins < MaxPins /\ pins' = pins + 1
ForceRelease == pins' = 0

(* The listeners' slots of the EventEmitter.  emit() runs a listener with   *)
(* no reference of its own: if the slot held the last one, the function     *)
(* that is running is freed with the slot.                                  *)
Running(e) == pc = "listener" /\ event = e
FreesRunning(es) ==
  \/ fault' = fault
  \/ (\E e \in es : Running(e)) /\ fault' = "listenerFreed"

SetListener(e) == listeners' = listeners \union {e}
FreeListeners  == listeners' = {}

(* The kernel refuses a connect while another is pending.  On a link that   *)
(* is established it may succeed: Linux answers the first connect() after   *)
(* a completed one with 0, the next with EISCONN; and a link that the peer  *)
(* has reset can be made anew.  So the network decides, as for a new one.   *)
AskConnect ==
  /\ Call({"connect"} \union Risk("reconnect", link))
  /\ Outstanding("connect") < MaxOps["connect"]
  /\ open' = TRUE
  /\ Start("connect", IF ops["connect"].pending > 0 THEN "error" ELSE "pending")
  /\ UNCHANGED <<listeners, object, link, connected, reading, fault>>

(* Mutant: connect() does not pin the object.                               *)
ConnectUnpinned == AskConnect /\ pins' = pins

Connect == AskConnect /\ Pin

(* make_address throws for a host that is not an address, and nothing       *)
(* between there and the thread's entry catches it.                         *)
ConnectBadAddress ==
  /\ Call({"connect", "badHost"})
  /\ Pin
  /\ fault' = "exceptionEscapes"
  /\ UNCHANGED <<listeners, object, transport, ops>>

(* An empty buffer is written at once, whether or not there is a link.      *)
AskWrite ==
  /\ Call({"write"})
  /\ Outstanding("write") < MaxOps["write"]
  /\ \E s \in {"pending", "ok", "error"} : (s = "pending" => open) /\ Start("write", s)
  /\ UNCHANGED <<listeners, object, transport, fault>>

(* Mutant: write() does not pin the object.                                 *)
WriteUnpinned == AskWrite /\ pins' = pins

Write == AskWrite /\ Pin

On(e) ==
  /\ Call(Risk("replace", Running(e)))
  /\ SetListener(e)
  /\ FreesRunning({e})
  /\ IF e = "data" /\ connected THEN Pin ELSE pins' = pins
  /\ UNCHANGED <<object, transport, ops>>

(* Mutant: close() leaves reading_ set.                                     *)
CloseKeepsReading ==
  /\ Call({"close"})
  /\ ForceRelease
  /\ CancelAll
  /\ closed' = TRUE
  /\ open' = FALSE /\ link' = FALSE /\ connected' = FALSE
  /\ UNCHANGED <<listeners, finalized, alive, registered, fault, reading>>

(* The caller's own reference outlives forceRelease, so the object is not   *)
(* finalized here and maybeDestroy does nothing.                            *)
Close ==
  /\ Call({"close"})
  /\ ForceRelease
  /\ CancelAll
  /\ closed' = TRUE
  /\ TransportClosed
  /\ UNCHANGED <<listeners, finalized, alive, registered, fault>>

(* The last reference that scripts have goes.                               *)
Drop ==
  /\ JsMayRun /\ held
  /\ held' = FALSE
  /\ used' = used \union {"drop"}
  /\ UNCHANGED <<pins, listeners, object, transport, ops, control, phase, fault, said>>

(* jsFinalizer, with the maybeDestroy() in it.                              *)
Garbage == ~held /\ pins = 0 /\ ~finalized

Finalizer ==
  /\ FreeListeners
  /\ finalized' = TRUE
  /\ IF closed THEN Unregister /\ Delete
               ELSE CancelAll /\ UNCHANGED <<alive, registered, transport>>

Finalize ==
  /\ JsMayRun
  /\ Garbage
  /\ Finalizer
  /\ FreesRunning(listeners)
  /\ UNCHANGED <<held, pins, closed, control, phase, used, said>>

------------------------------------------------------------------------------
(* Completions, and the handlers up to the listener's call.                 *)

Complete(k, r) ==
  /\ fault = "none" /\ phase # "gone"
  /\ r \in {"ok", "error"}
  /\ ops[k].pending > 0
  /\ k # "connect" /\ r = "ok" => link
  /\ ops' = [ops EXCEPT ![k].pending = @ - 1, ![k][r] = @ + 1]
  /\ link' = (link \/ (k = "connect" /\ r = "ok"))
  /\ UNCHANGED <<held, pins, listeners, object, open, connected, reading, control,
                 phase, fault, used, said>>

(* The io_context runs a ready handler.                                     *)
Take(k, r) ==
  /\ fault = "none" /\ phase \in {"running", "draining"}
  /\ pc = "idle"
  /\ ops[k][r] > 0
  /\ ops' = [ops EXCEPT ![k][r] = @ - 1]
  /\ UNCHANGED <<held, phase, used>>

(* A handler whose `this` was deleted.                                      *)
StaleHandler(k, r) ==
  /\ Take(k, r)
  /\ ~alive
  /\ fault' = "handlerAfterDelete"
  /\ UNCHANGED <<pins, listeners, object, transport, control, said>>

Handler(k, r) ==
  /\ Take(k, r)
  /\ alive
  /\ UNCHANGED <<listeners, finalized, alive, registered, open, link>>

(* Call the listener of e, if there is one, then go on with c.              *)
Emit(e, c) ==
  /\ pc' = IF e \in listeners THEN "listener" ELSE "after"
  /\ cont' = c
  /\ event' = e
  /\ said' = said \union {e}

GoOn(c) == pc' = "after" /\ cont' = c /\ event' = "none" /\ said' = said

HandleError(c) == IF finalized THEN GoOn(c) ELSE Emit("error", c)

ConnectOk ==
  /\ Handler("connect", "ok")
  /\ connected' = TRUE
  /\ Emit("connect", "afterConnect")
  /\ UNCHANGED <<pins, closed, reading, fault>>

ConnectFails(r) ==
  /\ r # "ok"
  /\ Handler("connect", r)
  /\ HandleError("end")
  /\ UNCHANGED <<pins, closed, connected, reading, fault>>

ReadOk ==
  /\ Handler("read", "ok")
  /\ IF finalized THEN GoOn("afterData") ELSE Emit("data", "afterData")
  /\ UNCHANGED <<pins, closed, connected, reading, fault>>

(* Mutant: a failed read reports its error and leaves handleClose() out.    *)
ReadFailsWithoutClose(r) ==
  /\ r # "ok"
  /\ Handler("read", r)
  /\ reading' = FALSE
  /\ IF r = "aborted" THEN GoOn("thenClose") ELSE HandleError("end")
  /\ UNCHANGED <<pins, closed, connected, fault>>

ReadFails(r) ==
  /\ r # "ok"
  /\ Handler("read", r)
  /\ reading' = FALSE
  /\ IF r = "aborted" THEN GoOn("thenClose") ELSE HandleError("thenClose")
  /\ UNCHANGED <<pins, closed, connected, fault>>

(* pin_.unpin().  If it drops the last reference the finalizer runs inside  *)
(* it, and deletes the socket when closed_ is set: unpin then writes to     *)
(* obj_, and its caller goes on, in freed memory.  (A finalizer that does   *)
(* not delete, and one run by a later collection, is Finalize.)             *)
Unpin(isClosed) ==
  /\ pins' = pins - 1
  /\ \/ fault' = fault
     \/ /\ pins = 1 /\ ~held /\ ~finalized /\ isClosed
        /\ fault' = "deletedUnderCaller"

WriteOk ==
  /\ Handler("write", "ok")
  /\ IF pins > 0 THEN Unpin(closed)
                 ELSE fault' = "unpinUnderflow" /\ pins' = pins
  /\ UNCHANGED <<closed, connected, reading, control, said>>

WriteFails(r) ==
  /\ r # "ok"
  /\ Handler("write", r)
  /\ HandleError("end")
  /\ UNCHANGED <<pins, closed, connected, reading, fault>>

------------------------------------------------------------------------------
(* The rest of a handler, once the listener has returned.                   *)

ListenerReturns ==
  /\ fault = "none"
  /\ pc = "listener"
  /\ IF alive THEN pc' = "after" /\ fault' = fault
              ELSE pc' = pc /\ fault' = "deletedUnderCaller"
  /\ UNCHANGED <<held, pins, listeners, object, transport, ops, cont, event, phase,
                 used, said>>

At(c) == fault = "none" /\ pc = "after" /\ cont = c

HandlerEnds == pc' = "idle" /\ cont' = "none" /\ event' = "none" /\ said' = said

(* Mutant: reading_ is not tested.                                          *)
ReadOnAlways ==
  /\ At("afterConnect") \/ At("afterData")
  /\ IF connected THEN Start("read", IF open THEN "pending" ELSE "error")
                  ELSE ops' = ops
  /\ HandlerEnds
  /\ UNCHANGED <<held, pins, listeners, object, transport, phase, fault, used>>

(* doRead(), or not.                                                        *)
ReadOn ==
  /\ At("afterConnect") \/ At("afterData")
  /\ IF reading /\ connected THEN Start("read", IF open THEN "pending" ELSE "error")
                              ELSE ops' = ops
  /\ HandlerEnds
  /\ UNCHANGED <<held, pins, listeners, object, transport, phase, fault, used>>

(* Mutant: handleClose unpins whether or not there is a pin.                *)
HandleCloseUnpins ==
  /\ At("thenClose")
  /\ closed' = TRUE
  /\ Unpin(TRUE)
  /\ IF finalized THEN GoOn("afterClose") ELSE Emit("close", "afterClose")
  /\ UNCHANGED <<held, listeners, finalized, alive, registered, transport, ops, phase, used>>

HandleClose ==
  /\ At("thenClose")
  /\ closed' = TRUE
  /\ IF pins > 0 THEN Unpin(TRUE) ELSE UNCHANGED <<pins, fault>>
  /\ IF finalized THEN GoOn("afterClose") ELSE Emit("close", "afterClose")
  /\ UNCHANGED <<held, listeners, finalized, alive, registered, transport, ops, phase, used>>

(* Mutant: maybeDestroy() does not wait for the finalizer.                  *)
AfterCloseDeletes ==
  /\ At("afterClose")
  /\ Unregister /\ Delete
  /\ HandlerEnds
  /\ UNCHANGED <<held, pins, listeners, finalized, closed, phase, fault, used>>

(* maybeDestroy()                                                           *)
AfterClose ==
  /\ At("afterClose")
  /\ IF finalized THEN Unregister /\ Delete
                  ELSE UNCHANGED <<alive, registered, transport, ops>>
  /\ HandlerEnds
  /\ UNCHANGED <<held, pins, listeners, finalized, closed, phase, fault, used>>

AfterError ==
  /\ At("end")
  /\ HandlerEnds
  /\ UNCHANGED <<held, pins, listeners, object, transport, ops, phase, fault, used>>

------------------------------------------------------------------------------
(* ~SandboxContext.                                                         *)

(* cancel() on every registered resource, then JS_RunGC, which leaves no    *)
(* garbage; io_ctx_.run() returns at once if the io_context was stopped.    *)
Destroy ==
  /\ fault = "none" /\ phase = "running" /\ pc = "idle"
  /\ ~Garbage
  /\ IF registered THEN CancelAll ELSE ops' = ops
  /\ phase' \in {"draining", "cleanup"}
  /\ UNCHANGED <<held, pins, listeners, object, transport, control, fault, used, said>>

Drained ==
  /\ fault = "none" /\ phase = "draining" /\ pc = "idle"
  /\ NoOps
  /\ phase' = "cleanup"
  /\ UNCHANGED <<held, pins, listeners, object, transport, ops, control, fault, used, said>>

(* The loop over `remaining`, in the order of a hash table.  The turn of    *)
(* another socket frees its listeners, and with them perhaps the last       *)
(* reference of scripts to this one, whose finalizer then runs there.       *)
OthersTurn ==
  /\ fault = "none" /\ phase = "cleanup"
  /\ held \/ Garbage
  /\ held' = FALSE
  /\ used' = used \union Risk("lent", held)
  /\ IF pins = 0 /\ ~finalized
     THEN Finalizer
     ELSE UNCHANGED <<listeners, finalized, alive, registered, ops, transport>>
  /\ UNCHANGED <<pins, closed, control, phase, fault, said>>

(* The turn of this one: forceCleanup and delete.  Freeing the last         *)
(* reference runs the finalizer inside forceCleanup, which frees the same   *)
(* slot or pin again; what is garbage by a cycle goes through the slots.    *)
Cleanup ==
  /\ fault = "none" /\ phase = "cleanup"
  /\ registered /\ alive
  /\ phase' = "gone"
  /\ registered' = FALSE
  /\ Delete
  /\ IF finalized THEN UNCHANGED <<listeners, pins>>
                  ELSE FreeListeners /\ ForceRelease
  /\ \/ /\ ~(~held /\ ~finalized /\ pins > 0)
        /\ fault' = fault
     \/ /\ ~held /\ ~finalized
        /\ pins > 0 \/ listeners # {}
        /\ fault' = "releasedTwice"
  /\ UNCHANGED <<held, finalized, closed, control, used, said>>

(* The turn of a socket that its finalizer has deleted, in the turn of      *)
(* another; or the loop has no turn for it, since it was deleted before.    *)
CleanupOfDeleted ==
  /\ fault = "none" /\ phase = "cleanup"
  /\ ~(registered /\ alive)
  /\ IF registered THEN fault' = "cleanupAfterDelete" /\ phase' = phase
                   ELSE fault' = fault /\ phase' = "gone"
  /\ UNCHANGED <<held, pins, listeners, object, transport, ops, control, used, said>>

------------------------------------------------------------------------------
(* `new Socket()` has just returned: the constructor asks for reads, which  *)
(* begin once connected.                                                    *)
Init ==
  /\ held = TRUE
  /\ pins = 0
  /\ listeners = {}
  /\ finalized = FALSE /\ closed = FALSE
  /\ alive = TRUE /\ registered = TRUE
  /\ open = FALSE /\ link = FALSE /\ connected = FALSE
  /\ reading = TRUE
  /\ ops = [k \in Kinds |-> [pending |-> 0, ok |-> 0, error |-> 0, aborted |-> 0]]
  /\ pc = "idle" /\ cont = "none" /\ event = "none"
  /\ phase = "running"
  /\ fault = "none"
  /\ used = {} /\ said = {}

Script ==
  \/ Connect \/ ConnectBadAddress \/ Write \/ Close \/ Drop \/ Finalize
  \/ \E e \in Events : On(e)

HandlerStep ==
  \/ ConnectOk \/ ReadOk \/ WriteOk
  \/ \E r \in Results : ConnectFails(r) \/ ReadFails(r) \/ WriteFails(r)
  \/ \E k \in Kinds, r \in Results : StaleHandler(k, r)
  \/ ListenerReturns \/ ReadOn \/ HandleClose \/ AfterClose \/ AfterError

Network == \E k \in Kinds, r \in Results : Complete(k, r)

Teardown == Destroy \/ Drained \/ OthersTurn \/ Cleanup \/ CleanupOfDeleted

Next == Script \/ HandlerStep \/ Network \/ Teardown

Spec == Init /\ [][Next]_vars

------------------------------------------------------------------------------
(* Correctness.                                                            *)

OpsType == [pending : Nat, ok : Nat, error : Nat, aborted : Nat]

TypeOK ==
  /\ held \in BOOLEAN
  /\ pins \in 0..MaxPins
  /\ listeners \subseteq Events
  /\ finalized \in BOOLEAN /\ closed \in BOOLEAN
  /\ alive \in BOOLEAN /\ registered \in BOOLEAN
  /\ open \in BOOLEAN /\ link \in BOOLEAN
  /\ connected \in BOOLEAN /\ reading \in BOOLEAN
  /\ ops \in [Kinds -> OpsType]
  /\ pc \in PCs /\ cont \in Conts
  /\ event \in {"none", "connect", "data", "error", "close"}
  /\ phase \in Phases
  /\ fault \in Faults
  /\ used \subseteq Calls \union Risks
  /\ said \subseteq {"connect", "data", "error", "close"}

Reconnected == "reconnect" \in used

(* There is one read_buf_: no two reads are outstanding on it, however      *)
(* often scripts connect, fail, close and connect again.  The code does not *)
(* see to it by itself: a connect() on an established link that succeeds    *)
(* starts a second read, so scripts must close a link first.                *)
OneRead == ~Reconnected => Outstanding("read") <= 1

(* As long as scripts leave close() alone, an outstanding operation pins    *)
(* the object: it is not finalized under its handlers, even if scripts have *)
(* let go of it.                                                            *)
PinsCoverOps ==
  "close" \notin used /\ phase = "running" /\ fault = "none" /\ ~NoOps =>
    pins > 0 /\ ~finalized /\ alive

(* The fault-free uses: a script gives addresses to connect, replaces no    *)
(* listener inside itself, keeps its socket until the context is destroyed, *)
(* not only in another socket's listener, and does not both write and close.*)
(* Then there is no use of a deleted socket or freed listener, no double    *)
(* release, no failed assert and no exception, in any order of calls,       *)
(* completions, listeners and teardown.                                     *)
Careful ==
  /\ used \intersect {"badHost", "replace", "drop", "lent"} = {}
  /\ ~({"write", "close"} \subseteq used)

KeptSocketsAreSafe == Careful => fault = "none"

(* Once "close" was emitted the socket emits neither "data" nor a second    *)
(* "close", be it from the same handler or a later one, unless scripts have *)
(* connected it again on an established link, see OneRead.                  *)
CloseIsLast ==
  [][event' \in {"data", "close"} /\ event' # event /\ ~Reconnected =>
       "close" \notin said]_vars

(* No listener is called for an object that was finalized.                  *)
FinalizedIsSilent == [][said' # said => ~finalized]_vars

(* What the socket promises to scripts, see SocketService.                  *)
Asked    == [c \in {"connect", "write"} |-> Outstanding(c)]
Speaking == IF event = "error" /\ cont = "thenClose" THEN "failure" ELSE event

Service == INSTANCE SocketService WITH
  asked <- Asked, heard <- said, speaking <- Speaking, lost <- finalized,
  doubled <- Reconnected

(* The socket implements its service: whatever scripts call inside which    *)
(* listener, each connect() is answered once, data comes after "connect"    *)
(* and, unless the link was connected again, before "close", and a failing  *)
(* stream says "error" and then "close".                                    *)
ImplementsSocketService == Service!Spec

(* context_state.hpp: resources are "owned by the JSClassDef finalizer +    *)
(* deferred free pattern (finalized_/closed_ handshake)", that is, a socket *)
(* is not deleted while its own code still has to run.  close() sets        *)
(* closed_ while the aborted handlers are still queued, and the finalizer   *)
(* then deletes the socket under them.                                      *)
DeferredFree == fault \notin {"handlerAfterDelete", "deletedUnderCaller"}

(* context_state.hpp: resources "are NOT owned by ContextState": the         *)
(* context does not delete a socket that its finalizer has deleted.  The    *)
(* cleanup's loop does, when the turn of one socket frees the last          *)
(* reference to another that was closed.                                    *)
NotOwnedByContext == fault # "cleanupAfterDelete"
=============================================================================
