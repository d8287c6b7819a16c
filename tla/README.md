# A verification project for quickjs-libc-sandboxed

The repository embeds QuickJS behind C++ classes that give scripts timers and
TCP sockets on a Boost.Asio event loop, and holds a library of virtual
filesystems (`sandboxed-fs`) meant for a later libc. This directory models the
parts whose correctness depends on order: what callbacks, completion handlers,
garbage collection, other threads and teardown do to shared state, and what a
sequence of calls does to mounted trees. TLC checks the models on small
instances; TLAPS proves theorems about the timer loop, the sockets, the runtime,
the mount router with its trees, and the files on a disk for every value of the
constants. Source paths below are relative to the repository.

## The system

| Part | State | Operations | Meets |
|---|---|---|---|
| Event loop and timers (`src/context.cpp`, `include/context_state.hpp`) | heap of (expiry, id), table of entries, one `steady_timer`, `io_context` | `scheduleTimer`, `cancelTimer`, `armNextTimer`, `processExpiredTimers`, `run`, `stop`, destructor | scripts call it from any callback; sockets share the `io_context`; `stop()` comes from another thread |
| Timer bindings (`src/bindings/timers.cpp`) | none | `setTimeout`, `setInterval`, `clearTimeout`, `clearInterval` | event loop |
| Socket (`src/modules/socket.cpp`, `src/transport/tcp.cpp`, `qjsb/pin_guard.hpp`, `qjsb/event_emitter.hpp`) | flags `finalized_`, `closed_`, `connected_`, `reading_`; pin count; listener slots; one read buffer | `connect`, `write`, `on`, `close`, handlers, finalizer, `forceCleanup` | listeners re-enter the socket; the collector finalizes it; the destructor of the context cancels and deletes it |
| Context teardown and registry | `active_resources`, raw pointers | `registerResource`, `unregisterResource`, destructor | sockets, timers |
| Promise rejections and microtasks | `pending_rejections`; one tracker per runtime | `drainMicrotasks`, `checkUnhandledRejections`, the tracker | every context of the runtime |
| Runtime (`src/runtime.cpp`) | the `JSRuntime`, the contexts | `initialize`, `createContext`, `shutdown` | contexts |
| Mount router (`sandboxed-fs/src/vfs.cpp`) | `m_mounts`, sorted | `mount`, `resolve`, one method per file operation | backends, which the host also holds |
| MemFS (`sandboxed-fs/src/vfs_mem.cpp`) | tree of nodes, next inode | the file operations | router, host |
| RealFS (`sandboxed-fs/src/vfs_real.cpp`) | root path; the disk | the file operations, each a resolution and then system calls | router, other processes |
| Wrappers (`include/value.hpp`, `opaque.hpp`, `promise.hpp`, `atom.hpp`, `cstring.hpp`) | references held | copy, move, destroy | everything |

What is hard in it, and what would make it correct:

* *Timers.* `clearTimeout` only marks an entry, so dead nodes stay in the heap
  until a batch or a re-arming meets them; callbacks set and clear timers while
  the batch holds a popped entry; one wait must always cover the earliest
  deadline; `stop()` cancels it from outside; the destructor runs the loop
  again. Correct: no timer is lost, early, doubled or fired after it was
  cleared, and the wait is never late; due timers fire; `run()` returns when
  nothing is left.
* *Sockets.* Completion handlers hold a raw `this`. Pins, the registry and the
  `finalized_`/`closed_` pair decide who deletes the object and when, in
  handlers that call JavaScript half way; sockets hold each other in listeners,
  and one's teardown may free another. Correct: no handler, listener or registry
  entry ever meets a deleted socket; one read at a time; no event after `close`.
* *Mounts and trees.* Mounts nest, share backends and come in any order;
  operations fail half way. Correct: the longest prefix wins, permissions hold
  across mounts, calls stay below their mount, a failed call changes nothing,
  the tree stays a tree. Prefixes are compared with normalized paths, but a
  `backendPath` reaches the backend as the host wrote it.
* *Files on the disk.* A call resolves its path, then makes one or more system
  calls; the host changes the disk in between, links lead elsewhere, the disk
  may be full. Correct: a read answers the file to its end, a failed call leaves
  the disk as it was or a part of what it was to write, links stay, and scripts see
  the same as on a MemFS.
* *Rejections.* The tracker and the job queue belong to the runtime, the list
  of rejections to a context. Contexts are created and destroyed while
  promises wait to be handled, and a destructor runs scripts. Correct: the
  tracker never points to a destroyed context, no rejection is lost, and none
  that was handled in time is reported.

`PROJECT.json` lists each hazard at its line with the properties aimed at it.

## Modules

| Module | What it is |
|---|---|
| `TimerService` | what scripts are promised about timers, in five actions |
| `TimerLoop` | the event loop as coded |
| `TimerLoop_proofs` | its theorems |
| `MCTimerLoop` | its TLC instance |
| `SocketService` | what scripts are promised about a socket, in nine actions |
| `SocketLifecycle` | one socket from `new Socket()` to the end of its context |
| `SocketLifecycle_proofs` | its invariant and what follows from it |
| `SocketService_proofs` | that the socket implements its service |
| `MCSocketLifecycle` | its TLC instance |
| `MemFS` | the operations of MemFS as operators on trees |
| `MemFS_proofs` | what each of them does to any tree |
| `VirtualFS`, `MCVirtualFS` | the router over MemFS backends |
| `VirtualFS_proofs` | its theorems |
| `RealFS`, `MCRealFS` | the operations of RealFS, step by step, beside a host |
| `RealFS_proofs` | its theorems |
| `SameAsMemFS_proofs` | that a RealFS does what a MemFS does, call by call |
| `Runtime`, `MCRuntime` | the runtime, its contexts, their jobs and rejections |
| `Runtime_proofs` | its theorems |

A definition whose comment begins with "Mutant:" is a faulty variant of the
definition after it, used to see that a property notices; no specification
refers to it.

### TimerLoop

`pc` is where the loop's thread stands: `script` (the host evaluates, before
`run()`), `jobs` (`drainMicrotasks` and `checkUnhandledRejections`), `poll`
(inside `run_one()`), `batch` (the loop of `processExpiredTimers`), `callback`
(inside `JS_Call`), `io` (a socket's handler). The four JavaScript-visible
steps (`ScheduleTimer`, `CancelTimer`, `StartIo`) are possible wherever
JavaScript runs, and everything else a script does is invisible. `ArmNextTimer`
is part of the action that calls it. One iteration of the batch is `PopStale`,
`PopCancelled` or `FireTimer` followed by `CallbackReturns` or
`CallbackThrows`; `BatchEnd` is its end together with the re-arming.

The heap is a set of nodes: `Tops` gives each minimal one, since equal expiries
have no fixed order in a `std::priority_queue` that compares expiries only.
Asio is external: a wait expires only inside `run_one()` (`WaitExpires`), a
replaced or cancelled wait leaves a handler that does nothing (`noopReady`),
and an `io_context` that has run out of work when a handler returns is stopped
for good (`HandlerLeft`), as nothing calls `restart()`. `clock` runs freely. A
deadline that overflows is a negative delay. `Stop` takes effect between two
steps of the loop; its unsynchronised use of `next_timer` is a data race that
is listed as a hazard and not modelled further. With `closing`, the same
actions are the destructor's `io_ctx_.run()`: no microtasks, and a `JsError`
there terminates the process.

### SocketLifecycle

A handler is split at its listener's call: `ConnectOk`, `ReadFails` and so on go
up to it, `pc = "listener"` lets scripts do anything (connect, write, `on`,
close, drop their reference, collect), and `ReadOn`, `HandleClose` or
`AfterClose` are what follows, with `cont` for which. `ops` counts, per kind,
the operations pending and the handlers ready with each result. Wrong outcomes
end the behaviour in `fault`: a handler whose socket was deleted, a deletion
under a caller that goes on, an `unpin()` at zero, a slot or pin freed twice,
a listener freed while it runs, a socket cleaned up after its deletion, an
exception that leaves C frames. The properties say which uses lead to none, and
`used` remembers what scripts have called and which of four risks they have taken:
a connect on an established link, a host that is no address, `on()` inside the
listener that it replaces, and a socket left to another one's listener.

`Finalize` is a step of its own, as an object in a cycle waits for a
collection; the case in which dropping a pin finalizes at once is in `Unpin`.
An `async_connect` while another is pending fails. On an established link it may
succeed: Linux answers the first `connect()` after a completed one with 0 and the
next with an error, and a link that was reset can be made anew, so the network
decides. `emit()` runs a listener without a reference of its own; whether `on()`
or a collection then frees the running function depends on who else refers to it,
which is a choice (`FreesRunning`).

The module has one socket. The others of the context are its environment, and
there is one way in which they matter to it: they may hold it in their listeners.
At teardown `remaining` goes through the sockets in the order of a hash table.
`OthersTurn` is the turn of another one that frees the last reference of scripts to
this one, whose finalizer then runs inside that turn, and deletes it if it was
closed; it stays in `remaining`, and `CleanupOfDeleted` is its own turn after that.
`Cleanup` is its turn while it exists.

`SocketService` says what all this comes to for a script, with no flags and no
handlers. Its `asked` are the operations of a kind outstanding, `heard` is
`said`, `lost` is `finalized`, `doubled` is whether an established link was connected
again, after which two streams may each say "close"; `speaking` is `event`, but for the error of a read,
after which the same handler goes on to `handleClose`.

### MemFS and VirtualFS

A tree is a function from paths (sequences of names) to nodes with kind, inode,
data and size. Each operation is an operator from a filesystem and arguments to
an errno and a filesystem, its early returns listed in the code's order
(`FirstError`). `rename` compares strings, so its arguments are texts: the names,
and how many slashes stand before each and after the last. Of a node's `Stat` the model keeps the mode bits
of the owner (`mkdir` sets them, recursively or not, and `access` reads them)
and `mtimeMs` (writing sets it to `Now`, `utimes` to what it is given).
`atimeMs` is only ever set with it, and `ctimeMs` and the ownership are read by
nothing. `MkdirAll` walks down the path by a recursive function (`MakeAll`: what
each turn of the code's loop has made), as does `Normalize` (`Parts`), so that
both can be reasoned about.

`VirtualFS` has one action per call that can change something: resolve, then the
backend's operator, or the error. The calls that change nothing (`readFile`,
`stat`, `exists`, `readdir`, `access`) are operators that `ReadsAgree` evaluates
in every state. `HostRename` is the host using its own `shared_ptr` to a
backend, in strings of any form. A mount prefix that is not written as
`normalize()` writes paths has `canonical = FALSE` and never matches. The prefix is
measured in names, which orders any two prefixes of one path as characters do. The
empty prefix `""`, which the code treats as a root mount that does honour its
`backendPath`, is not modelled. The constructor's sorted argument is `Init`.

A `backendPath` is a text, too, as `resolve()` passes it on raw: alone where the
path is the prefix (`vfs.cpp:110`), and before the rest of the path (`Joined`)
otherwise, unless its size is at most 1 (`Short`, `vfs.cpp:113`). `Letters` are the
names of one character, which alone can be a whole `backendPath` that is dropped.
So the root mount ignores its `backendPath`, a short one is dropped, and one that ends
with a slash makes strings that `rename` does not recognise. `WritesConfined`,
`ReadsAgree` and `RenameConserves` name the mounts for which they hold (`Honoured`,
`Dropped`, `Canonical`); the run `vfs_cycle` shows what happens to a `rename` with the
others.

### RealFS

A call of `RealFSBackend` is a sequence of actions that go through `call.pc`:
`Begin` only takes the arguments; `ResolveFirst` resolves the path, refuses it or
answers `exists`, and `ResolveSecond` resolves the other path of `rename` and
`copyFile`; then come the steps on the disk, each of them one system call or one call
of `std::filesystem` (`OpenRead` and `Read`, `OpenWrite` and `Flush`, `Status` and
`FileSize`, and so on). A recursive `mkdir` looks for what is there (`FindMissing`) and
then makes one directory per step (`MakeDir`), before its `Chmod`. Between any two
steps, `HostPut` and `HostRemove` let another process replace, make or remove a node:
a file that the call has open then goes on without its name (`call.lost`).

A disk that is full is a choice of the steps that write: nothing is made, or any
part of the content that was to be written or copied stays (`PartsOf`), or a recursive
`mkdir` stops half way. `FlushFails` answers "ok" for a content that fits into the
stream's buffer, as `writeFile` does not look at the stream again after it is flushed.
A `rename` or `truncate` that fails for lack of room is left out.

The disk is external: the model takes what libstdc++ on Linux does, for a
process that is not root. Symbolic links lead to paths below `m_root`, so
`isWithinRoot` never refuses; what it does refuse is not modelled. `Follow` goes
through three links, where the kernel goes through forty, so "any links" below means
any disk on which each path is followed for three links and counted as a loop after
that. The looks at the disk that `resolve()` takes for a path that does not exist
(`Creating`) are one step. `EpochOffset` is the difference between the two clocks that
`utimes` and `stat` use.

`SameAsMemFS` runs each call that nobody interferes with on the same tree by the
operators of `MemFS` and compares errors, answers and what is left, also for calls
that the resolution refuses and for `exists`. `Differs` names the calls in which the
two backends are known to differ, one line each (modes that forbid a call, `rmdir` of a
file, `mkdir` of a directory that exists, `copyFile` over a file, a `rename` of a missing
path to itself, ...), and `Looks` the parts of the result that do, among them the time
after `utimes` where the clocks differ. Some of them contradict a line of the repository
(see "Exempted, although a line says otherwise"); of the others the repository says
nowhere that the backends should agree. A full disk is exempted here, too, and has the
run `realfs_full_disk` instead.

### Runtime

`pc` is where the host's thread stands: `host` (between calls, where it also
evaluates scripts), `drain`, `job`, `check`, `report`, `poll` and `handler`
inside the `run()` of `cur`; `clearing` and `closing` inside `shutdown()`, the
second in the destructor of `cur`, whose `io_ctx_.run()` runs scripts again. A
script is the steps `Reject`, `Handle` and `Enqueue`. A promise is handled by the
list of the context that is the tracker at that moment, as in the code, not the
list that holds it. In `report`, `checkUnhandledRejections` turns the reasons
into strings, and the `toString` of a reason is a script: if it changes the very
list, the loop's iterators are invalid, and the process crashes or the loop goes
on with some of the entries it began with (`SetPending`). `disturbed` remembers
it, and the properties it breaks exempt it by name. The runtime and its contexts
have no locks, so the model has one thread. Promises and reports start afresh
with each `JSRuntime`; addresses of contexts are used again.

## Checks

| Run | Question | Result |
|---|---|---|
| `timers_safety` | types, `LiveTimersQueued`, `NodesMatchEntries`, `NearestDeadlineTracked`, and that the loop implements `TimerService` | holds |
| `timers_live` | `DueTimersFire`, `IdleLoopExits` | holds |
| `timers_exit` | `ExitsNaturally`: does `run()` return only when no timer is left? | violated |
| `socket_safety` | `OneRead`, `PinsCoverOps`, `KeptSocketsAreSafe`, `CloseIsLast`, `FinalizedIsSilent`, and that the socket implements `SocketService` | holds |
| `socket_free` | `DeferredFree`: is a socket ever deleted while its code still has to run? | violated |
| `socket_cleanup` | `NotOwnedByContext`: does the destructor leave alone the sockets that their finalizers have deleted? | violated |
| `vfs_safety` | tree shape, `UniqueInodes`, `SizesMatch`, `LongestPrefixWins`, `ReadOnlyUntouched`, `ReadsAgree`, `WritesConfined`, `FailureChangesNothing`, `RenameConserves`, `MetadataStaysWithNode` | holds |
| `realfs_safety` | tree shape, `LinksStay`, `FailureLeavesDisk`, `SameAsMemFS`, with a host that changes the disk between the steps of a call | holds |
| `realfs_toctou` | `ReadsUntilEnd`: does `readFile` answer the file to its end? | violated |
| `realfs_full_disk` | `FullDiskIsAnswered`: does a call fail when the disk is full? | violated |
| `runtime_safety` | `TrackerAlive`, `DeadHoldNothing`, `NoRejectionLost`, `ReportedBeforeWaiting`, `OnlyUnhandledReported` | holds |
| `vfs_cycle` | `SelfRenameRejected`: is a move into the own subtree rejected, for any `backendPath`? | violated |

What the violated ones show:

* A timer set by a microtask after the last outstanding handler (the usual
  `await` after the last timer or read) is lost: the `io_context` is stopped
  when that handler returns, and `run()` drains microtasks only afterwards.
* `close()` releases the pins and sets `closed_` at once. If the script then
  lets the socket go, the finalizer deletes it and the aborted handlers run on
  freed memory.
* At teardown, freeing the listeners of one socket may finalize and delete another
  that was closed; the loop still has it in `remaining` and deletes it again.
* With one backend mounted at its root and at the `backendPath` `"/a/"`, the router's
  own `rename` of the second prefix into itself gives the backend `"/a/"` and
  `"/a/b"`, which pass the string comparison: the subtree is lost. A host that calls
  the backend in strings of its own (`"/a/"`, or `"a"`) meets the same. Where every
  `backendPath` is written as `normalize()` writes paths, the check is exact within the
  router (`RenameConserves`).
* `readFile` takes the size when it opens the file and reads that many bytes: if the
  host cuts the file it answers a tail of zeros, if the host appends it misses the end.
* On a full disk `writeFile` answers "ok" for a content that fits into the stream's
  buffer.

Exempted, although a line says otherwise. These contradict a line of the repository as
well; the models contain them, and the passing properties exempt each by name, so a run
of its own would only repeat the exemption:

| Code | Line it contradicts | Exempted in |
|---|---|---|
| `stop()` cancels the wait but not the loop, as nothing reads `stopping_`: with a socket open it goes on without timers (`context.cpp:218`) | `context_state.hpp:20`, one timer "tracks the nearest deadline" | `NearestDeadlineTracked` (`stops = 0`) |
| the handler of a write that had completed before `close()` unpins at zero (`socket.cpp:38`) | `pin_guard.hpp:26`, `assert(count_ > 0)` | `KeptSocketsAreSafe` (`Careful`) |
| a mount with prefix `/` ignores its `backendPath` (`vfs.cpp:95`) | `vfs.hpp:18`, "Path within the backend that this mount prefix maps to" | `WritesConfined` (`Honoured`) |
| a `backendPath` of one character is dropped below the prefix, though the prefix itself leads to it (`vfs.cpp:113`) | `sandboxed-fs/README.md:48`, prepended unless it is `"/"` | `WritesConfined`, `ReadsAgree` (`Dropped`) |
| `utimes` and `stat` use clocks with different epochs (`vfs_real.cpp:464`) | `vfs_types.hpp:23`, "milliseconds since epoch" | `SameAsMemFS` (`Looks`) |
| `lstat` resolves its path by `canonical()` and never sees a link (`vfs_real.cpp:385`) | `sandboxed-fs/README.md:102`, "does not follow" | `SameAsMemFS`, which compares with what the link leads to |
| `unlink("/")` and `rmdir("/")` remove an empty root (`vfs_real.cpp:291`) | `sandboxed-fs/README.md:237`, "root write/unlink ✓ blocked" | `SameAsMemFS` (`Differs`) |

What the passing ones leave out on purpose: `ReadsAgree` exempts the place where
a mount begins, because no backend lists it (a mount on `/a/b` is not in
`readdir("/a")`). `ReportedBeforeWaiting` and `OnlyUnhandledReported` speak of
the context that is the tracker, the last one created. For an older one they do
not hold: its later rejections go to the other's list, and a promise it had
rejected before is still reported after it was handled, as the call that handles
it looks in the wrong list. Nothing in the repository says what several contexts
may expect, so this is no finding; nor of a reason whose `toString` rejects a
promise, for which `NoRejectionLost` does not hold. `checkUnhandledRejections`
formats and frees; the entry that `erase_if` removes for a handled promise is
never freed (`context.cpp:259`), a leak that the sets of the model do not show.

`KeptSocketsAreSafe` is the positive side of the socket runs: a script that
keeps its socket itself, gives addresses, replaces no listener inside itself and does
not both write and close (`Careful`) meets none of these faults. `OneRead`,
`CloseIsLast` and the end of the stream in `SocketService` take that no established
link is connected again: if that connect succeeds, a second read runs on the one
buffer, and both say "close". No line of the repository speaks of it, so it is a hazard
and no finding. `ImplementsSocketService` promises no "close" event: a socket that
scripts close while a completed read waits for its handler says "data" once more and
then nothing, since `connected_` is gone and no read follows that could fail.

`FailureLeavesDisk` says of a full disk only that nothing is lost but what was being
written: the content of the file that was truncated at its opening is gone. An answer
that mixes two looks at a disk which the host has changed is allowed by the code and by
the model; `TypeOK` alone speaks of calls that are interfered with.

### Bounds

* Timers: `MaxId` 3, as a tie, an earlier and a later timer are the cases the
  heap tells apart, and a third one lets a callback set a timer while another is
  live and a third is dead. Delays -1 (due at once, and before timers set
  earlier) and 2, interval 1, clock to 2: an interval then misses periods and
  catches up. One socket operation suffices: only whether one is outstanding
  matters. One `stop()`: a second repeats the first. The live run has two timers
  and a clock to 3, without `stop()`.
* Sockets: two connects (a second one during the first, and a stale read beside a new
  one) and one write, two pins beyond which scripts do not go on. The listeners are
  those of "data", whose `on()` takes a pin, and "close", which runs between the unpin
  and `maybeDestroy`. The violation runs need one operation of each kind.
* Mounts and trees: two mounts out of six entries that nest, share a backend and
  conflict, one of them by the `backendPath` `"a"`, which is dropped; six paths, of
  which two are below a mount inside a mount and one has `..`; three nodes beside the root; files up to two
  bytes. The host's strings (`HostTexts`) are canonical; `vfs_cycle` has none, and a
  mount by `"/a/"`. `Letters` are the two names. `MaxNodes` counts a node with a time or
  a mode of its own twice, which keeps metadata and large trees from multiplying: a node
  that was marked and moved is all that `MetadataStaysWithNode` needs. `last` is hidden
  by the run's `VIEW`: no action reads it, and the action properties only read its
  primed value, which each step determines.
* Disk: two names and two levels, so that a call has a directory to fail in and
  a link has one to lead to; an empty content, one that fits into a stream's buffer and
  one that does not; a file of the host's own, and two links of its, one to a
  directory's place and one that loops or leads nowhere; five disks at first, among them one whose only file is read-only and one
  whose only file is unreadable. Four nodes between calls, marked ones counted twice
  as above. One call at a time: a second one would be one more of those who change
  the disk, which the host does.
* Runtime: two contexts, two promises, three queued jobs: one context takes
  the tracker over, two promises stand on the two sides of that, and the queue
  holds jobs of both.

Deadlock is checked for the file systems. The other systems may stop (the context
is destroyed, or the process crashes), and their configurations say so.

### Fairness

`FairSpec` assumes that the loop's thread keeps taking steps, that a timer's
function and a socket's listener return, and that time passes. `RunOneOk`,
`RunOneNoop` and `WaitExpires` have strong fairness because `run_one()` serves
ready handlers in the order they became ready and asks the reactor for expired
waits each time round: none is passed over for ever, though it may be disabled in
between while another handler runs. Nothing is assumed of peers, of `stop()`, of
exceptions, or of what scripts call.

Nothing is claimed of a batch that goes on for ever, as one may: `setInterval(f, 0)` is
due again at the batch's own `now`, and so is a timer that each callback sets with a
delay of -1. `MCIntervals` has no 0, and `MaxId` ends such a chain, so the live run is
about loops in which scripts leave off.
Deadlines beyond the clock's bound are exempted in `DueTimersFire` and
`IdleLoopExits`, as the bound is the model's.

## Proofs

`TimerLoop_proofs` proves, for every `MaxId`, `MaxClock`, `MaxIo`, `MaxStops`
and every set of delays and intervals (assumptions `BoundsAssumption` and
`DelaysAssumption`: naturals and integers, at least one timer):

* `TypeCorrect`: `Spec => []TypeOK`. `TypeOK` is inductive; the interesting
  conjunct is that a running callback's entry is in the table, which
  `CancelTimer` keeps by marking instead of erasing.
* `LiveTimersStayQueued` and `NodesAgreeWithEntries`. They need the
  strengthening `QueueInv`: ids not yet handed out are in neither heap nor
  table (or a new timer could inherit an old node), and the popped timer is not
  in the heap (or a repeated timer could have two nodes, one stale).
* `DeadlineTracked`: `NearestDeadlineTracked`, from `QueueInv`: setting a timer
  re-arms exactly if its node is the top, and if it is not, the wait already
  covers a node that is no later.
* `LoopImplementsService`: every step of the loop is a step of `TimerService` or
  leaves its variables unchanged, under the mapping in `TimerLoop`. `BatchInv`
  adds that the batch's `now` is not ahead of the clock. That a fired timer is
  the earliest of the live ones uses `QueueInv`: each live timer has its
  node in the heap, and the fired one was its minimum.

`ArmFacts` states once what `armNextTimer` does to the heap and the wait;
every proof of a step that re-arms cites it.

`Runtime_proofs` proves, for any contexts, promises and bound (assumption
`NoneAssumption`: the null pointer is no context), `RuntimeTypeCorrect`,
`TrackerNeverDangles`, `DestructionComplete`, `RejectionsKept`,
`ReportsBeforeWaiting` and `ReportsAreRight` from one inductive invariant,
`RuntimeInv`. Beyond the properties it has four parts: `TrackedAreUnhandled`
(the tracker's own list holds only unhandled rejections, since it was the
tracker for as long as the list has been filling), `WaitsClean` (a context waits
with an empty list), `ListedIsPending` (a report goes through the whole list,
unless disturbed) and `ClosingUntracked` (scripts in a destructor have no
tracker, so what they reject cannot fill the list that has just been released).

`SocketLifecycle_proofs` proves, for any events and bounds (assumptions
`EventsAssumption` and `BoundsAssumption`: events are the four the emitter has,
bounds are positive), every safety property of the sockets' run: `Types`,
`SingleRead`, `OperationsPinned`, `KeptSafe`, `NothingAfterClose`,
`SilentAfterFinalizer`. `SingleRead` and `NothingAfterClose` are about scripts that do
not connect an established link again (`Reconnected`), `KeptSafe` about `Careful` ones.
`SocketInv` (`TypeOK`, `Control`, `Reading`, `Pinning` and `KeptSocketsAreSafe`) is an
argument by counting. `Tokens` is the right to start the next read: a connection that was
just made has it, then the read, then its handler; as long as `reading_` is set
there is one at most, and `Reading` keeps it so, which is what `OneRead` needs
and does not say itself. `Owed` counts what is outstanding and what is in a
handler before its `unpin`; `Pinning` says that until `close()` there is a pin
for each, and that a finalized object which still exists owes nothing. `Control`
ties the flags to the handler in hand. The lemmas `Started`, `Taken`, `Finished`
and `AbortedCounts` state once what each step does to the counts; each action
then has one lemma with a step per conjunct.

`SocketService_proofs` proves `SocketImplementsService` from `SocketInv` and
`TurnInv`: outside of a handler nothing is being said, `handleClose` follows
nothing but a read's error, and only a connection that scripts have heard of is
read. Once an established link was connected again (`doubled`) the service allows a
second "close", and data after it. That a "connect" is never said to a collected object follows from
`Pinning`, as the code itself does not test it (`socket.cpp:90`).

`VirtualFS_proofs` proves every property of the mounts' run, for any backends,
trees, paths and mounts. Its assumptions are `MountsAssumption` (entries are
records of the fields that `MountEntry` has), `ArgumentsAssumption` (paths are
sequences of strings, contents sequences of bytes, sizes and times integers,
modes sets of bits) and `BackendsAssumption` (each backend begins as a
well-formed filesystem, as the constructor and the operations make them:
`EmptyIsGood`, and `Outcome` in each lemma on an operation). TLC evaluates all
three on each run.

*The router* (`MountsNeverConflict`, `LongestPrefixRouted`,
`ReadOnlyBackendsUntouched`). `RouterInv` says that the mounts are a sequence of
entries without conflicts, sorted by the length of their prefixes.
`InsertFacts` shows that `mount()` inserts inside the sequence and loses no
entry, `LongerComeFirst` that the place it finds by counting is the one behind
all longer prefixes, `ResolveFacts` that what resolves for writing does so
through a mount that may write, so that no mount of the same backend is
read-only. This uses nothing of what MemFS does.

*The trees.* `MemFS_proofs` has the invariant of one backend, `GoodFS`, in four
parts: `Typed`; `Rooted`, that every proper prefix of a path in the tree is a
directory; `Numbered`, that inodes differ and are below the next one; and
`Measured`, that sizes are lengths. `Rooted` is more than the `IsTree` of
`TypeOK`, which speaks of the last directory only; the two are equivalent by
induction on the length of paths, but a subtree that is moved is easier followed
by all its prefixes. One lemma per operation (`WriteFileFacts` to
`MkdirAllFacts`) says of any well-formed filesystem, path and argument that
`Outcome` holds (the answer is "ok" or an errno, what is left is well-formed,
and nothing has changed unless it is "ok") and what the operation touches:
`Touches` and `AddsAt` for those on one path, `Relocates` and `Conserves` for
`Rename`. `MkdirAllFacts` is an induction over the names of the path: until the
first missing name nothing is made, and from then on nothing can fail, so a
recursive `mkdir` that meets a file has made nothing. `MovedGood` and
`MovedRelocates` are the two sides of a move: into itself, where the subtree is
lost, or elsewhere, where `Rebased` is a bijection between the paths below the
source and those below the destination.

`StepKinds` then says that every step of the router or the host is one of five:
a mount (`Mounting`), a refusal (`Refusing`), an operation on the tree a
writable mount leads to (`Acting`), a rename there (`Moving`), or a rename by
the host (`HostMoving`). `TreesInv` (`RouterInv`, and `GoodFS` of each backend)
is inductive, and the properties follow kind by kind:

* `TreesStayTrees`, `InodesAreUnique`, `SizesAreLengths` from `GoodFS`.
* `FailuresChangeNothing` from `Outcome`.
* `WritesStayInMounts`, on the condition `Honoured` of all mounts: a root mount has the
  root of its backend, and no `backendPath` is one relative character. Without it the
  statement is false (`vfs.cpp:95` and `113`). `PrefixesNest` handles `mkdir`, which may make what is above the mount.
* `RenamesConserve`, on the condition that every `backendPath`, for the router's calls,
  and every string of the host, for its own, is `Canonical`. Without it the statement is
  false, as the run `vfs_cycle` shows. From canonical ones `resolve()` makes canonical
  strings (`TextsJoined`, `ResolvedText`), and that the check of `rename` is exact for
  these is the point of the proof (`RenameFacts`).
* `MetadataStays`: a node that is not at the path of the call is the same before
  and after, and is at one path only, as inodes differ (`TouchedNodes`).
* `ReadingCallsAgree`, on the condition that no mount is `Dropped`: such a one lists one
  directory and opens files of another. `resolve()` leads a path to the same place for whatever
  permission (`ResolvesAlike`), and a name more leads to the same mount and one
  name further in its backend, unless a mount begins there (`ResolveAppend`, from
  `NormalizeAppend`, an induction over the parts of the path, and
  `RebasedAppend`). What is a file or a directory there decides the rest.

The library's induction theorems take an operator and cannot be used; where
these proofs need induction they do it over a set of numbers (`Induction`, from
the well-ordering of the naturals) and a recursive function.

`RealFS_proofs` proves `DiskTypeCorrect`, `FailuresAreClean` and `LinksAreKept`, for any disk at first, any links on it, and whatever the host does
between the steps of a call. Its assumption is `RealAssumption`: paths are
sequences of strings, contents sequences of bytes, the host's nodes are nodes,
and the initial disks are `GoodDisk`, that is, all that a path on them leads
through are directories, and `m_root`, a canonical path, is no link. Nothing is
assumed of where links lead, nor of the bounds. Two invariants build on each other:

* `RealInv`, for `TypeOK`: the disk is a `GoodDisk`, the call in progress is
  well-formed, and an open stream has its file. `GoodDisk` is, as `Rooted`, about
  every prefix of a path; the lemmas about moved subtrees are those of
  `MemFS_proofs`. Each action has a lemma (`BeginFacts` to `SetTimeFacts`,
  `HostPutsFacts`, `HostRemovesFacts`) that says all that the two invariants
  need of it. The hard ones are those of a recursive `mkdir` (`FindMissingFacts`,
  `MakeDirFacts`): below the place that the longest existing prefix leads to nothing
  exists (`NothingThere`), so that each of its steps makes one directory in the one
  before (`CreateDirectoryFacts`), and the resolved path leads to the last of them,
  unless the host comes in between. That rests on `FollowBeyond` and `SameLinksFollow`: links are followed
  from the first one on, so neither names behind them nor nodes that are no links
  change where they lead.
* `AloneInv`, for the other two. As long as the host has done nothing, the disk
  is the one at the beginning; or all but the content of the file being written is
  (`Writing`); or some of the directories of a `mkdir` were made, and nothing else
  (`DirsUnderway`, by `PartWay`), or all of them and the path leads to the last one
  (`Making`, by which `chmod` cannot fail). What a call that fails on a full disk may
  leave follows from it: `HalfOfStream`, `HalfOfCopy`, `HalfOfDirs`. And what was resolved is there and no link
  (`ResolvedWell`), so that the calls that act on a last name without following
  it, `remove` and `rename`, act on what links lead to (`NamedNode`).
  `TargetLink` is the exception that `LinksStay` names: if the new path of a
  rename ends in a link, `weakly_canonical` has left it there because it leads
  nowhere.

`SameAsMemFS_proofs` proves `SameAsInMemory`: for any disk, links, paths and
contents, a call of RealFS that no one interferes with answers what MemFS answers
for the tree that was on the disk when the call began, and leaves what MemFS
leaves, but for a full disk and for what `Differs` and `Looks` name. Calls that the
resolution refuses, and `exists`, are among them. The argument
has three parts:

* *How far the call has come.* `CalmInv` says it of the disk at the beginning, as
  the steps before the last one have changed `disk`: the resolved path is
  `Resolve`'s of that disk (`Found`); an open stream reads from, or has truncated
  or made, the file that the path leads to (`ReadOpen`, `WriteOpen`); a `mkdir` on its
  way has made some of the missing prefixes and can make the rest (`DirsOnTheWay`); one
  that waits for its `chmod` has made exactly the missing prefixes of its path, and
  the one in memory can make them, too (`DirsMade`); a `stat` has the kind and mode
  that were there (`HalfStat`). `AloneInv` alone does not say what the disk has
  become, only that little has changed.
* *What is answered.* The two backends test different things in a different
  order: MemFS the parent and the node, RealFS every link and directory on the way.
  `Grounded` (`m_root` is a directory) and `CreatingCases` connect them: a path that
  `weakly_canonical` resolves exists, or has a first missing name behind an existing
  one, and where it leads there is no link on the way (`CreatingLeads`). Where MemFS
  succeeds and RealFS does not, `FailsWith` and `OnlyError` show that the answer is
  `EACCES`, and that the mode of some node forbids the call. What the resolution refuses,
  MemFS refuses as well: a path that loops or leads through a file
  (`CreatingRefused`, `BehindRefused`), or one that is absent where it must be there
  (`AbsentRefused`); `ExistsAgrees` is the answer of `exists`, and `ResolveFirstAlike`
  joins them.
* *What is left.* `Remembered` is a node of the disk in memory; `LooksAlike` compares
  two trees node by node. Each operation then has a lemma on what MemFS does to the
  remembered tree (`MemoryOfWriting` to `MemoryOfMkdirAll`, the last an induction over
  the names of the path), and one on the step that answers the call
  (`OpenReadAlike` to `ChmodAlike`).

The proof has corrected the model: `Differs` did not name a file that may not be
read, which TLC could not notice as no disk of the instance had one. It names it
now, and a fifth initial disk has such a file.

Only model-checked: the liveness properties, as temporal reasoning under fairness
is out of the provers' reach.

## Not modelled

* Hosts with several threads, for which the runtime has no locks; the data race
  of `stop()` on `next_timer`.
* The C++ wrappers (`value.hpp`, `opaque.hpp`, `promise.hpp`, `atom.hpp`,
  `cstring.hpp`): reference counting by value semantics, with no interleaving,
  and covered by `tests/test_value.cpp` and `tests/test_opaque.cpp`.
* `src/bindings/socket.cpp` and `include/io_resource.hpp`: an older socket
  binding that the build leaves out.
* The bytes that sockets carry. The state of several sockets at once: the model has one,
  and the others only as they may hold it in their listeners (`OthersTurn`).
* A `backendPath` with a `.` or `..` part or with backslashes; chains of more than three
  links; a `rename` or `truncate` on a full disk.
* Links that leave the root of a RealFS, and so `isWithinRoot`; a process that
  is root; other standard libraries.
* The empty mount prefix `""`, ownership and `atimeMs`.
* Printing, primordials, demos, benchmarks, the QuickJS patch and QuickJS
  itself.

## Plan

What is left that would add something:

1. Liveness of sockets: that a pending operation's answer is delivered, and
   that the destructor's `io_ctx_.run()` ends if listeners start nothing new.
   It needs an instance smaller than that of `socket_safety`.
2. The state of several sockets in one registry, composed with the timer loop: `StartIo` and
   `IoReturns` of `TimerLoop` then are the handlers of `SocketLifecycle`.
