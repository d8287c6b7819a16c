------------------------------ MODULE TimerLoop ------------------------------
(***************************************************************************)
(* The event loop of a SandboxContext (src/src/context.cpp): the timer     *)
(* heap and its lazy deletion, the one asio::steady_timer armed for the    *)
(* nearest deadline, the batch of expired timers, run()'s alternation of   *)
(* microtasks and io_context::run_one(), stop() from another thread, and   *)
(* the destructor, which runs the io_context once more.                    *)
(*                                                                         *)
(* One step of a JavaScript function that reaches the loop (setTimeout,    *)
(* setInterval, clearTimeout, starting a socket operation) is one action;  *)
(* everything else a script does is invisible here.  Time is an integer,   *)
(* advanced by Tick between any two steps.                                 *)
(*                                                                         *)
(* Boost.Asio is external: run_one() finds that the deadline of a wait has *)
(* passed and makes its handler ready, a wait that is replaced or          *)
(* cancelled becomes a ready handler with an error code, and an io_context *)
(* that has run out of work when a handler returns is "stopped": run_one() *)
(* returns 0 from then on, whatever is started later, because nothing      *)
(* calls restart().                                                        *)
(***************************************************************************)
EXTENDS Integers, FiniteSets

CONSTANTS
  MaxId,      \* bound: timer ids 1..MaxId are handed out
  MaxClock,   \* bound: the clock stops at MaxClock
  MaxIo,      \* bound: socket operations outstanding at once
  MaxStops,   \* bound: calls of stop()
  Delays,     \* the ms arguments of setTimeout; a negative one is legal and
              \* also stands for one whose nanoseconds overflow into the past
  Intervals   \* the ms arguments of setInterval

ASSUME BoundsAssumption == /\ MaxId \in Nat \ {0}
                           /\ MaxClock \in Nat
                           /\ MaxIo \in Nat
                           /\ MaxStops \in Nat
ASSUME DelaysAssumption == Delays \subseteq Int /\ Intervals \subseteq Int

VARIABLES
  clock,      \* steady_clock::now()
  pc,         \* where the loop's thread is
  closing,    \* ~SandboxContext has begun
  cur,        \* the timer popped from the heap and not yet settled, or 0
  batchNow,   \* the `now` of processExpiredTimers
  heap,       \* state_.timer_heap
  entries,    \* state_.timer_entries
  nextId,     \* state_.next_timer_id
  armed,      \* the deadline next_timer waits for: {} or {t}
  okReady,    \* completed waits whose handler has not run
  noopReady,  \* aborted waits and stop()'s empty handler, not yet run
  io,         \* socket operations whose completion handler has not run
  stopped,    \* the io_context is stopped
  stops       \* calls of stop(); stopping_ is stops > 0, and nothing reads it

jsVars   == <<heap, entries, nextId, armed, noopReady>>
loopVars == <<pc, closing, cur, batchNow, stopped>>
vars == <<clock, pc, closing, cur, batchNow, heap, entries, nextId, armed,
          okReady, noopReady, io, stopped, stops>>

Ids   == 1..MaxId
Entry == [expiry : Int, repeating : BOOLEAN, interval : Int, cancelled : BOOLEAN]
Node  == [expiry : Int, id : Ids]

PCs == {"script",     \* the host evaluates a script, run() not yet called
        "jobs",       \* drainMicrotasks and checkUnhandledRejections
        "poll",       \* inside run_one() (or the destructor's run())
        "batch",      \* the loop of processExpiredTimers
        "callback",   \* JS_Call of a timer's function
        "io",         \* a socket's completion handler
        "exited",     \* run() returned because run_one() returned 0
        "fatal",      \* run() returned because of a JsError
        "destroyed",  \* the destructor returned
        "terminated"} \* a JsError left the destructor: std::terminate

------------------------------------------------------------------------------
(* The heap and the armed wait.                                            *)

Live(id, E) == id \in DOMAIN E /\ ~E[id].cancelled

Put(E, id, e) == [i \in DOMAIN E \union {id} |-> IF i = id THEN e ELSE E[i]]
Erase(E, id)  == [i \in DOMAIN E \ {id} |-> E[i]]

(* What top() may return: HeapEntry compares expiries only, so nodes with   *)
(* the same expiry come in any order.                                      *)
Tops(h) == {n \in h : \A m \in h : n.expiry <= m.expiry}

(* Cancelling the outstanding wait, if any, makes its handler ready with    *)
(* an error code, and that handler returns at once.                        *)
AbortWait == noopReady' = IF armed = {} THEN noopReady ELSE noopReady + 1

(* armNextTimer with heap h: dead nodes are popped until the top is live;   *)
(* those tied with the first live one may be popped or not.  Their entries  *)
(* are not erased.                                                         *)
ArmNextTimer(h, E) ==
  LET live == {n \in h : Live(n.id, E)}
  IN  \/ /\ live = {}
         /\ heap' = {}
         /\ armed' = {}
         /\ AbortWait
      \/ \E top \in Tops(live) :
           /\ \E tied \in SUBSET {n \in h \ live : n.expiry = top.expiry} :
                heap' = {n \in h : n.expiry >= top.expiry} \ tied
           /\ armed' = {E[top.id].expiry}
           /\ AbortWait

------------------------------------------------------------------------------
(* What JavaScript may do while it runs.                                   *)

JsRunning == pc \in {"script", "jobs", "callback", "io"}

ScheduleTimer(ms, repeating) ==
  /\ JsRunning
  /\ nextId \in Ids
  /\ LET expiry == clock + ms
         node   == [expiry |-> expiry, id |-> nextId]
         h      == heap \union {node}
         E      == Put(entries, nextId,
                       [expiry |-> expiry, repeating |-> repeating,
                        interval |-> ms, cancelled |-> FALSE])
     IN  /\ entries' = E
         /\ nextId' = nextId + 1
         /\ \E top \in Tops(h) :
              \/ top = node /\ ArmNextTimer(h, E)
              \/ top # node /\ heap' = h /\ UNCHANGED <<armed, noopReady>>
  /\ UNCHANGED <<clock, okReady, io, stops, loopVars>>

(* Mutant: clearTimeout erases the entry, under a running callback too.     *)
CancelTimerErases(id) ==
  /\ JsRunning
  /\ id \in DOMAIN entries
  /\ entries' = Erase(entries, id)
  /\ UNCHANGED <<clock, heap, nextId, armed, okReady, noopReady, io, stops, loopVars>>

(* The entry stays, and so does its node, until the loop comes across it.   *)
CancelTimer(id) ==
  /\ JsRunning
  /\ id \in DOMAIN entries
  /\ entries' = [entries EXCEPT ![id].cancelled = TRUE]
  /\ UNCHANGED <<clock, heap, nextId, armed, okReady, noopReady, io, stops, loopVars>>

(* A script starts a connect, a read or a write.                            *)
StartIo ==
  /\ JsRunning
  /\ io < MaxIo
  /\ io' = io + 1
  /\ UNCHANGED <<clock, okReady, stops, jsVars, loopVars>>

------------------------------------------------------------------------------
(* run()                                                                   *)

NoWork == armed = {} /\ okReady = 0 /\ noopReady = 0 /\ io = 0

(* A handler returns, or is left by an exception: work_finished() stops     *)
(* the io_context when no other work is outstanding.                        *)
HandlerLeft == stopped' = (stopped \/ NoWork')

HandlerReturns ==
  /\ pc' = IF closing THEN "poll" ELSE "jobs"
  /\ HandlerLeft

(* The script has been evaluated and the host calls run().                  *)
EnterRun ==
  /\ pc = "script"
  /\ pc' = "jobs"
  /\ UNCHANGED <<clock, closing, cur, batchNow, stopped, okReady, io, stops, jsVars>>

(* The microtask queue is empty and no rejection is unhandled.              *)
JobsDone ==
  /\ pc = "jobs"
  /\ pc' = "poll"
  /\ UNCHANGED <<clock, closing, cur, batchNow, stopped, okReady, io, stops, jsVars>>

(* A job threw, or checkUnhandledRejections did: run() reports and leaves.  *)
JobsThrow ==
  /\ pc = "jobs"
  /\ pc' = "fatal"
  /\ UNCHANGED <<clock, closing, cur, batchNow, stopped, okReady, io, stops, jsVars>>

(* run_one() picks a handler that is ready.                                 *)
RunOneOk ==
  /\ pc = "poll" /\ ~stopped
  /\ okReady > 0
  /\ okReady' = okReady - 1
  /\ pc' = "batch"
  /\ batchNow' = clock
  /\ UNCHANGED <<clock, closing, cur, stopped, io, stops, jsVars>>

(* No JavaScript ran, so run() finds no job and no rejection and polls on.  *)
RunOneNoop ==
  /\ pc = "poll" /\ ~stopped
  /\ noopReady > 0
  /\ noopReady' = noopReady - 1
  /\ UNCHANGED <<clock, pc, closing, cur, batchNow, heap, entries, nextId, armed,
                 okReady, io, stops>>
  /\ HandlerLeft

RunOneIo ==
  /\ pc = "poll" /\ ~stopped
  /\ io > 0
  /\ io' = io - 1
  /\ pc' = "io"
  /\ UNCHANGED <<clock, closing, cur, batchNow, stopped, okReady, stops, jsVars>>

(* A JavaScript exception in a socket callback is dropped by the emitter.   *)
IoReturns ==
  /\ pc = "io"
  /\ UNCHANGED <<clock, closing, cur, batchNow, okReady, io, stops, jsVars>>
  /\ HandlerReturns

(* run_one() returns 0: run() leaves its loop.  In the destructor it is     *)
(* io_ctx_.run() that returns.                                              *)
RunOneEmpty ==
  /\ pc = "poll"
  /\ stopped \/ NoWork
  /\ stopped' = TRUE
  /\ pc' = IF closing THEN "destroyed" ELSE "exited"
  /\ UNCHANGED <<clock, closing, cur, batchNow, okReady, io, stops, jsVars>>

------------------------------------------------------------------------------
(* processExpiredTimers, one iteration of its loop at a time.               *)

PopStale ==
  /\ pc = "batch"
  /\ \E top \in Tops(heap) :
       /\ top.id \notin DOMAIN entries
       /\ heap' = heap \ {top}
  /\ UNCHANGED <<clock, entries, nextId, armed, okReady, noopReady, io, stops, loopVars>>

(* Mutant: the cancelled check comes before the pop.                        *)
PopCancelledKept ==
  /\ pc = "batch"
  /\ \E top \in Tops(heap) :
       /\ top.id \in DOMAIN entries
       /\ entries[top.id].expiry <= batchNow
       /\ entries[top.id].cancelled
  /\ UNCHANGED vars

PopCancelled ==
  /\ pc = "batch"
  /\ \E top \in Tops(heap) :
       /\ top.id \in DOMAIN entries
       /\ entries[top.id].expiry <= batchNow
       /\ entries[top.id].cancelled
       /\ heap' = heap \ {top}
       /\ entries' = Erase(entries, top.id)
  /\ UNCHANGED <<clock, nextId, armed, okReady, noopReady, io, stops, loopVars>>

(* Mutant: the first check of `cancelled` is missing.                       *)
FireTimerUnchecked ==
  /\ pc = "batch"
  /\ \E top \in Tops(heap) :
       /\ top.id \in DOMAIN entries
       /\ entries[top.id].expiry <= batchNow
       /\ heap' = heap \ {top}
       /\ cur' = top.id
  /\ pc' = "callback"
  /\ UNCHANGED <<clock, closing, batchNow, stopped, entries, nextId, armed,
                 okReady, noopReady, io, stops>>

FireTimer ==
  /\ pc = "batch"
  /\ \E top \in Tops(heap) :
       /\ Live(top.id, entries)
       /\ entries[top.id].expiry <= batchNow
       /\ heap' = heap \ {top}
       /\ cur' = top.id
  /\ pc' = "callback"
  /\ UNCHANGED <<clock, closing, batchNow, stopped, entries, nextId, armed,
                 okReady, noopReady, io, stops>>

(* Missed periods of an interval are skipped, counted from the batch's now. *)
NextExpiry(e) ==
  IF e.expiry + e.interval <= batchNow THEN batchNow + e.interval
                                       ELSE e.expiry + e.interval

(* Mutant: a repeated timer is not pushed again.                            *)
CallbackReturnsUnqueued ==
  /\ pc = "callback"
  /\ LET e == entries[cur]
     IN  IF e.cancelled \/ ~e.repeating
         THEN entries' = Erase(entries, cur)
         ELSE entries' = [entries EXCEPT ![cur].expiry = NextExpiry(e)]
  /\ cur' = 0
  /\ pc' = "batch"
  /\ UNCHANGED <<clock, closing, batchNow, stopped, heap, nextId, armed, okReady,
                 noopReady, io, stops>>

(* Mutant: a repeated timer is pushed before its expiry is moved.           *)
CallbackReturnsPushFirst ==
  /\ pc = "callback"
  /\ LET e == entries[cur]
     IN  IF e.cancelled \/ ~e.repeating
         THEN /\ entries' = Erase(entries, cur)
              /\ heap' = heap
         ELSE /\ entries' = [entries EXCEPT ![cur].expiry = NextExpiry(e)]
              /\ heap' = heap \union {[expiry |-> e.expiry, id |-> cur]}
  /\ cur' = 0
  /\ pc' = "batch"
  /\ UNCHANGED <<clock, closing, batchNow, stopped, nextId, armed, okReady,
                 noopReady, io, stops>>

CallbackReturns ==
  /\ pc = "callback"
  /\ LET e == entries[cur]
     IN  IF e.cancelled \/ ~e.repeating
         THEN /\ entries' = Erase(entries, cur)
              /\ heap' = heap
         ELSE /\ entries' = [entries EXCEPT ![cur].expiry = NextExpiry(e)]
              /\ heap' = heap \union {[expiry |-> NextExpiry(e), id |-> cur]}
  /\ cur' = 0
  /\ pc' = "batch"
  /\ UNCHANGED <<clock, closing, batchNow, stopped, nextId, armed, okReady,
                 noopReady, io, stops>>

(* assertOk throws a JsError through processExpiredTimers and the handler:  *)
(* the timer is neither erased nor requeued and nothing is re-armed.        *)
CallbackThrows ==
  /\ pc = "callback"
  /\ pc' = IF closing THEN "terminated" ELSE "fatal"
  /\ UNCHANGED <<clock, closing, cur, batchNow, okReady, io, stops, jsVars>>
  /\ HandlerLeft

(* Mutant: the handler does not arm the wait again.                         *)
BatchEndUnarmed ==
  /\ pc = "batch"
  /\ \/ heap = {}
     \/ \E top \in Tops(heap) :
          top.id \in DOMAIN entries /\ entries[top.id].expiry > batchNow
  /\ UNCHANGED <<clock, closing, cur, batchNow, entries, nextId, okReady, io, stops,
                 heap, armed, noopReady>>
  /\ HandlerReturns

(* Nothing is due any more: the handler arms the wait again and returns.    *)
BatchEnd ==
  /\ pc = "batch"
  /\ \/ heap = {}
     \/ \E top \in Tops(heap) :
          top.id \in DOMAIN entries /\ entries[top.id].expiry > batchNow
  /\ ArmNextTimer(heap, entries)
  /\ UNCHANGED <<clock, closing, cur, batchNow, entries, nextId, okReady, io, stops>>
  /\ HandlerReturns

------------------------------------------------------------------------------
(* The clock, asio, and the other threads.                                  *)

Tick ==
  /\ clock < MaxClock
  /\ clock' = clock + 1
  /\ UNCHANGED <<okReady, io, stops, jsVars, loopVars>>

(* asio looks for expired waits only while a thread is inside run_one().    *)
WaitExpires ==
  /\ pc = "poll" /\ ~stopped
  /\ \E t \in armed : t <= clock
  /\ armed' = {}
  /\ okReady' = okReady + 1
  /\ UNCHANGED <<clock, heap, entries, nextId, noopReady, io, stops, loopVars>>

(* stop(), called from another thread between two steps of the loop.  It    *)
(* cancels the wait, which nothing arms again, and posts an empty handler.  *)
Stop ==
  /\ ~closing
  /\ stops < MaxStops
  /\ stops' = stops + 1
  /\ armed' = {}
  /\ noopReady' = IF armed = {} THEN noopReady + 1 ELSE noopReady + 2
  /\ UNCHANGED <<clock, heap, entries, nextId, okReady, io, loopVars>>

(* ~SandboxContext up to io_ctx_.run(): the wait is cancelled, the entries  *)
(* are cleared (the heap is not), the sockets are cancelled, which leaves   *)
(* their handlers to run.                                                   *)
Destroy ==
  /\ pc \in {"script", "exited", "fatal"}
  /\ closing' = TRUE
  /\ pc' = "poll"
  /\ cur' = 0
  /\ armed' = {}
  /\ AbortWait
  /\ entries' = [i \in {} |-> 0]
  /\ UNCHANGED <<clock, batchNow, heap, nextId, okReady, io, stopped, stops>>

------------------------------------------------------------------------------
Init ==
  /\ clock = 0
  /\ pc = "script"
  /\ closing = FALSE
  /\ cur = 0
  /\ batchNow = 0
  /\ heap = {}
  /\ entries = [i \in {} |-> 0]
  /\ nextId = 1
  /\ armed = {}
  /\ okReady = 0
  /\ noopReady = 0
  /\ io = 0
  /\ stopped = FALSE
  /\ stops = 0

JsStep ==
  \/ \E ms \in Delays : ScheduleTimer(ms, FALSE)
  \/ \E ms \in Intervals : ScheduleTimer(ms, TRUE)
  \/ \E id \in Ids : CancelTimer(id)
  \/ StartIo

RunStep ==
  \/ EnterRun \/ JobsDone \/ JobsThrow
  \/ RunOneOk \/ RunOneNoop \/ RunOneIo \/ IoReturns \/ RunOneEmpty

BatchStep ==
  \/ PopStale \/ PopCancelled \/ FireTimer
  \/ CallbackReturns \/ CallbackThrows \/ BatchEnd

Next ==
  \/ JsStep \/ RunStep \/ BatchStep
  \/ Tick \/ WaitExpires \/ Stop \/ Destroy

Spec == Init /\ [][Next]_vars

(* The loop's thread keeps running, a JavaScript function returns and time  *)
(* passes.  Strong fairness where run_one() may serve something else first: *)
(* it takes ready handlers in the order they became ready and asks the      *)
(* reactor for expired waits every time round, so neither is passed over    *)
(* for ever.  Nothing is assumed of the peer of a socket, of stop(), or of  *)
(* what scripts ask for.                                                    *)
Fairness ==
  /\ WF_vars(EnterRun) /\ WF_vars(JobsDone) /\ WF_vars(IoReturns)
  /\ SF_vars(WaitExpires) /\ SF_vars(RunOneOk) /\ SF_vars(RunOneNoop)
  /\ WF_vars(RunOneEmpty)
  /\ WF_vars(PopStale) /\ WF_vars(PopCancelled) /\ WF_vars(FireTimer)
  /\ WF_vars(CallbackReturns) /\ WF_vars(BatchEnd)
  /\ WF_vars(Tick)

FairSpec == Spec /\ Fairness

------------------------------------------------------------------------------
(* Correctness.                                                            *)

(* What the loop promises to scripts, see TimerService.  A cancelled entry  *)
(* still in the heap or the table is no longer a timer there.               *)
Pending ==
  [id \in {i \in DOMAIN entries : ~entries[i].cancelled} |->
     [deadline |-> entries[id].expiry, period |-> entries[id].interval,
      repeating |-> entries[id].repeating]]

Service == INSTANCE TimerService WITH
  TimerIds <- Ids, now <- clock, pending <- Pending, running <- cur,
  issued <- 1..(nextId - 1), over <- closing

(* The loop implements the timer service: no interleaving of re-arming,     *)
(* lazy deletion and late batches makes a timer fire early, twice, after    *)
(* clearTimeout, or after one whose deadline is later.                      *)
ImplementsTimerService == Service!Spec

TypeOK ==
  /\ clock \in 0..MaxClock
  /\ pc \in PCs
  /\ closing \in BOOLEAN
  /\ cur \in Ids \union {0}
  /\ pc = "callback" => cur \in DOMAIN entries
  /\ batchNow \in 0..MaxClock
  /\ heap \in SUBSET Node
  /\ DOMAIN entries \in SUBSET Ids
  /\ entries \in [DOMAIN entries -> Entry]
  /\ nextId \in 1..(MaxId + 1)
  /\ armed \in SUBSET Int
  /\ okReady \in Nat /\ noopReady \in Nat
  /\ io \in 0..MaxIo
  /\ stopped \in BOOLEAN
  /\ stops \in 0..MaxStops

(* Lazy deletion never loses a timer: each timer that was not cancelled has *)
(* a node with its own expiry in the heap, unless it is the one whose       *)
(* callback runs (or threw).  Cancelling, re-arming and popping dead nodes  *)
(* may come in any order.                                                   *)
LiveTimersQueued ==
  \A id \in DOMAIN entries :
    Live(id, entries) /\ id # cur =>
      [expiry |-> entries[id].expiry, id |-> id] \in heap

(* The heap orders timers by the expiry copied into the node, while the     *)
(* batch compares the entry's own: they agree for every node that has an    *)
(* entry, and the timer whose callback runs has no node.  A repeated timer  *)
(* changes both.                                                            *)
NodesMatchEntries ==
  \A n \in heap :
    n.id \in DOMAIN entries => n.expiry = entries[n.id].expiry /\ n.id # cur

(* While no batch runs, the one wait covers every node of the heap: either  *)
(* it is set no later than the earliest deadline, or its handler is ready.  *)
(* (stop() cancels the wait for good; a JsError ends the loop.)             *)
WaitCoversHeap ==
  \/ heap = {} \/ okReady > 0
  \/ \E t \in armed : \A n \in heap : t <= n.expiry

BetweenBatches == ~closing /\ pc \notin {"batch", "callback", "fatal"}

NearestDeadlineTracked == BetweenBatches /\ stops = 0 => WaitCoversHeap

(* demo/main.cpp: the loop "exits naturally" once the final timer has run.  *)
(* It also exits when a microtask, run after the last outstanding handler,  *)
(* sets a timer: the io_context is stopped by then.                         *)
ExitsNaturally ==
  pc = "exited" /\ stops = 0 => \A id \in DOMAIN entries : ~Live(id, entries)

(* Where the loop is over, in whichever way.                                *)
Over == pc \in {"exited", "fatal"} \/ closing

(* Every timer set while the loop lives and due before the clock's bound is *)
(* eventually fired (it is then `cur`) or cancelled, whatever sockets and   *)
(* other timers do; only stop() and the end of the loop may prevent it.     *)
DueTimersFire ==
  \A id \in Ids :
    [](/\ Live(id, entries) /\ entries[id].expiry <= MaxClock
       => <>(Over \/ ~Live(id, entries) \/ cur = id))

(* Once scripts have nothing left to wait for, run() returns: no timer that *)
(* may fire and no socket operation.  A cancelled timer keeps the loop, but *)
(* only until its deadline.                                                 *)
Idle == io = 0 /\ \A id \in DOMAIN entries : ~Live(id, entries)

IdleLoopExits ==
  <>[](Idle /\ \A n \in heap : n.expiry <= MaxClock) => <>Over
==============================================================================
