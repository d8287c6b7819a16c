------------------------------- MODULE Runtime -------------------------------
(***************************************************************************)
(* SandboxRuntime (src/src/runtime.cpp) and what its contexts share through *)
(* the one JSRuntime: the queue of pending jobs, which any context drains, *)
(* and the host's promise rejection tracker, of which there is one for all *)
(* contexts (src/src/context.cpp).                                         *)
(*                                                                         *)
(* The host has one thread.  What JavaScript does between two returns to   *)
(* the host is a sequence of the steps Reject, Handle and Enqueue; timers  *)
(* and sockets are the handlers of run_one(), see TimerLoop and            *)
(* SocketLifecycle.                                                        *)
(***************************************************************************)
EXTENDS Naturals, Sequences, FiniteSets

CONSTANTS
  Contexts,   \* the SandboxContext objects, by address: a later one may reuse it
  Promises,   \* the promises of one JSRuntime, of whichever context
  MaxJobs,    \* bound: the length of the job queue
  none        \* the null pointer

ASSUME NoneAssumption == none \notin Contexts

VARIABLES
  rt,         \* rt_ is not null
  contexts,   \* contexts_
  tracker,    \* the opaque argument of the rejection tracker
  pending,    \* pending_rejections of each context
  promise,    \* the promises: "open", "rejected" (nothing handles it) or "handled"
  jobs,       \* the pending jobs of the JSRuntime, each the context it belongs to
  pc,         \* where the thread is
  cur,        \* the context of run() or of the destructor
  listed,     \* the rejections that a running checkUnhandledRejections goes through
  reported,   \* history: the rejections in the messages of reportFatal
  disturbed   \* history: a script changed the list that was gone through

history == <<reported, disturbed>>
vars == <<rt, contexts, tracker, pending, promise, jobs, pc, cur, listed, history>>

Init ==
  /\ rt = FALSE
  /\ contexts = {}
  /\ tracker = none
  /\ pending = [c \in Contexts |-> {}]
  /\ promise = [p \in Promises |-> "open"]
  /\ jobs = <<>>
  /\ pc = "host"
  /\ cur = none
  /\ listed = {}
  /\ reported = {}
  /\ disturbed = FALSE

------------------------------------------------------------------------------
(* The runtime and its contexts.                                           *)

(* initialize() fails when there is a runtime.                              *)
Initialize ==
  /\ pc = "host" /\ ~rt
  /\ rt' = TRUE
  /\ UNCHANGED <<contexts, tracker, pending, promise, jobs, pc, cur, listed, history>>

(* The constructor makes the new context the tracker of all.                *)
CreateContext(c) ==
  /\ pc = "host" /\ rt /\ c \notin contexts
  /\ contexts' = contexts \union {c}
  /\ tracker' = c
  /\ UNCHANGED <<rt, pending, promise, jobs, pc, cur, listed, history>>

(* Mutant: the runtime is freed before the contexts.                        *)
ShutdownRuntimeFirst ==
  /\ pc = "host"
  /\ pc' = "clearing" /\ rt' = FALSE
  /\ UNCHANGED <<contexts, tracker, pending, promise, jobs, cur, listed, history>>

Shutdown ==
  /\ pc = "host"
  /\ pc' = "clearing"
  /\ UNCHANGED <<rt, contexts, tracker, pending, promise, jobs, cur, listed, history>>

(* Mutant: the destructor leaves the tracker installed.                     *)
DestroyContextTracked(c) ==
  /\ pc = "clearing" /\ c \in contexts
  /\ pending' = [pending EXCEPT ![c] = {}]
  /\ pc' = "closing" /\ cur' = c
  /\ UNCHANGED <<rt, contexts, tracker, promise, jobs, listed, history>>

(* ~SandboxContext as far as io_ctx_.run(), which runs JavaScript again.    *)
DestroyContext(c) ==
  /\ pc = "clearing" /\ c \in contexts
  /\ tracker' = none
  /\ pending' = [pending EXCEPT ![c] = {}]
  /\ pc' = "closing" /\ cur' = c
  /\ UNCHANGED <<rt, contexts, promise, jobs, listed, history>>

ContextGone ==
  /\ pc = "closing"
  /\ contexts' = contexts \ {cur}
  /\ pc' = "clearing" /\ cur' = none
  /\ UNCHANGED <<rt, tracker, pending, promise, jobs, listed, history>>

(* JS_FreeRuntime drops the jobs; the promises are those of the next        *)
(* runtime from here on.                                                    *)
FreeRuntime ==
  /\ pc = "clearing" /\ contexts = {}
  /\ rt' = FALSE
  /\ jobs' = <<>>
  /\ promise' = [p \in Promises |-> "open"]
  /\ reported' = {} /\ disturbed' = FALSE
  /\ pc' = "host"
  /\ UNCHANGED <<contexts, tracker, pending, cur, listed>>

------------------------------------------------------------------------------
(* JavaScript: the host's evaluation, jobs, handlers, the handlers of the  *)
(* destructor, and the toString of the reasons of rejections.              *)

JsRunning ==
  \/ pc = "host" /\ contexts # {}
  \/ pc \in {"job", "handler", "report", "closing"}

(* A script changes the list of the tracker's context.  Where               *)
(* checkUnhandledRejections is in its loop over the very list, the loop's   *)
(* iterators are invalid: the process crashes, or the loop goes on with     *)
(* some of the entries it began with.                                       *)
SetPending(list) ==
  /\ tracker # none
  /\ pending' = [pending EXCEPT ![tracker] = list]
  /\ IF pc = "report" /\ tracker = cur /\ list # pending[cur]
     THEN /\ disturbed' = TRUE
          /\ pc' \in {"report", "crashed"}
          /\ listed' \in SUBSET listed
     ELSE UNCHANGED <<disturbed, pc, listed>>

Untracked == tracker = none /\ UNCHANGED <<pending, disturbed, pc, listed>>

(* promiseRejectionTracker, is_handled false.                               *)
Reject(p) ==
  /\ JsRunning /\ promise[p] = "open"
  /\ promise' = [promise EXCEPT ![p] = "rejected"]
  /\ Untracked \/ SetPending(pending[tracker] \union {p})
  /\ UNCHANGED <<rt, contexts, tracker, jobs, cur, reported>>

(* Mutant: the entry is not erased.                                         *)
HandleKept(p) ==
  /\ JsRunning /\ promise[p] = "rejected"
  /\ promise' = [promise EXCEPT ![p] = "handled"]
  /\ UNCHANGED <<rt, contexts, tracker, pending, jobs, pc, cur, listed, history>>

(* promiseRejectionTracker, is_handled true: erased from the list of the    *)
(* context that is the tracker now, which need not be the list it is in.    *)
Handle(p) ==
  /\ JsRunning /\ promise[p] = "rejected"
  /\ promise' = [promise EXCEPT ![p] = "handled"]
  /\ Untracked \/ SetPending(pending[tracker] \ {p})
  /\ UNCHANGED <<rt, contexts, tracker, jobs, cur, reported>>

(* A job of context c: a reaction to a promise, of whichever context.       *)
Enqueue(c) ==
  /\ JsRunning /\ c \in contexts /\ Len(jobs) < MaxJobs
  /\ jobs' = Append(jobs, c)
  /\ UNCHANGED <<rt, contexts, tracker, pending, promise, pc, cur, listed, history>>

------------------------------------------------------------------------------
(* run() of a context: drain, check, wait.                                 *)

Run(c) ==
  /\ pc = "host" /\ c \in contexts
  /\ pc' = "drain" /\ cur' = c
  /\ UNCHANGED <<rt, contexts, tracker, pending, promise, jobs, listed, history>>

(* JS_ExecutePendingJob takes the first job, whosever it is.                *)
RunJob ==
  /\ pc = "drain" /\ jobs # <<>>
  /\ jobs' = Tail(jobs)
  /\ pc' = "job"
  /\ UNCHANGED <<rt, contexts, tracker, pending, promise, cur, listed, history>>

Return(from, to) ==
  /\ pc = from /\ pc' = to
  /\ cur' = IF to = "host" THEN none ELSE cur
  /\ UNCHANGED <<rt, contexts, tracker, pending, promise, jobs, listed, history>>

JobReturns == Return("job", "drain")

(* throwJsError, which run() catches: it ends, and the other jobs stay.     *)
JobThrows == Return("job", "host")

(* Mutant: the check is left out.                                           *)
DrainedUnchecked == jobs = <<>> /\ Return("drain", "poll")

Drained == jobs = <<>> /\ Return("drain", "check")

(* checkUnhandledRejections: with an empty list it returns; otherwise it    *)
(* turns each reason into a string, which may call a script ...             *)
Check ==
  /\ pc = "check"
  /\ listed' = pending[cur]
  /\ pc' = IF pending[cur] = {} THEN "poll" ELSE "report"
  /\ UNCHANGED <<rt, contexts, tracker, pending, promise, jobs, cur, history>>

(* Mutant: the list is cleared without a message.                           *)
ReportSilent ==
  /\ pc = "report"
  /\ listed' = {}
  /\ pending' = [pending EXCEPT ![cur] = {}]
  /\ pc' = "host" /\ cur' = none
  /\ UNCHANGED <<rt, contexts, tracker, promise, jobs, history>>

(* ... clears the list, and ends run() by an exception with the strings.    *)
Report ==
  /\ pc = "report"
  /\ reported' = reported \union listed
  /\ listed' = {}
  /\ pending' = [pending EXCEPT ![cur] = {}]
  /\ pc' = "host" /\ cur' = none
  /\ UNCHANGED <<rt, contexts, tracker, promise, jobs, disturbed>>

(* run_one() runs a handler or returns 0; a handler may throw.              *)
HandlerStarts  == Return("poll", "handler")
OutOfWork      == Return("poll", "host")
HandlerReturns == Return("handler", "drain")
HandlerThrows  == Return("handler", "host")

Next ==
  \/ Initialize \/ Shutdown \/ ContextGone \/ FreeRuntime
  \/ \E c \in Contexts : CreateContext(c) \/ DestroyContext(c) \/ Run(c) \/ Enqueue(c)
  \/ \E p \in Promises : Reject(p) \/ Handle(p)
  \/ RunJob \/ JobReturns \/ JobThrows \/ Drained \/ Check \/ Report
  \/ HandlerStarts \/ OutOfWork \/ HandlerReturns \/ HandlerThrows

Spec == Init /\ [][Next]_vars

------------------------------------------------------------------------------
(* Correctness.                                                            *)

(* The types; run() and the destructor have a context that exists, and a    *)
(* runtime outlives its contexts.                                           *)
TypeOK ==
  /\ rt \in BOOLEAN
  /\ contexts \subseteq Contexts
  /\ tracker \in Contexts \union {none}
  /\ pending \in [Contexts -> SUBSET Promises]
  /\ promise \in [Promises -> {"open", "rejected", "handled"}]
  /\ jobs \in Seq(Contexts)
  /\ pc \in {"host", "drain", "job", "check", "report", "poll", "handler",
             "clearing", "closing", "crashed"}
  /\ cur \in contexts \union {none}
  /\ cur = none <=> pc \in {"host", "clearing"}
  /\ listed \subseteq Promises /\ reported \subseteq Promises
  /\ disturbed \in BOOLEAN
  /\ contexts # {} => rt

(* The tracker's raw pointer never outlives its context, also while a       *)
(* destructor runs JavaScript; and while no context is being destroyed the  *)
(* contexts have one.                                                       *)
TrackerAlive ==
  /\ tracker # none => tracker \in contexts
  /\ contexts # {} /\ pc \notin {"clearing", "closing"} => tracker # none

(* A destroyed context, and one whose destructor has released its           *)
(* rejections, holds none: nothing would free them, or a later context at   *)
(* the address would report them.                                           *)
DeadHoldNothing ==
  /\ \A c \in Contexts \ contexts : pending[c] = {}
  /\ pc = "closing" => pending[cur] = {}

(* Before shutdown no rejection that nothing handles is lost: it is         *)
(* reported or in some context's list, whoever was created in between.      *)
(* Excepted are reasons whose toString rejects or handles promises itself.  *)
NoRejectionLost ==
  ~disturbed /\ pc \notin {"clearing", "closing"} =>
    \A p \in Promises :
      promise[p] = "rejected" => p \in reported \/ \E c \in contexts : p \in pending[c]

(* A context that is the tracker waits for I/O only when every rejection    *)
(* has been reported, but for those made before it was created.  A single   *)
(* context leaves none.  The exception is that of NoRejectionLost.          *)
ReportedBeforeWaiting ==
  ~disturbed /\ pc = "poll" /\ cur = tracker =>
    \A p \in Promises :
      promise[p] = "rejected" =>
        p \in reported \/ \E c \in contexts \ {cur} : p \in pending[c]

(* The context that is the tracker reports no promise that was handled in   *)
(* time, in whichever job or handler; with the same exception.              *)
OnlyUnhandledReported ==
  [][~disturbed /\ cur = tracker =>
       \A p \in reported' \ reported : promise[p] = "rejected"]_vars
==============================================================================
