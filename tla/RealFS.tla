------------------------------- MODULE RealFS -------------------------------
(***************************************************************************)
(* RealFSBackend (src/sandboxed-fs/src/vfs_real.cpp): files on a disk that *)
(* other processes of the host use, too.  A call is the steps it makes on  *)
(* the disk: resolve a path, open, read or write, flush.  Each is one      *)
(* action, with the host's own changes in between.  What a system call or  *)
(* a function of std::filesystem does is modelled as libstdc++ on Linux    *)
(* does it, for a process that is not root.                                *)
(*                                                                         *)
(* The disk is a function from the paths below m_root, themselves <<>>, to *)
(* nodes, as in MemFS, whose helpers on trees serve here, too.  Symbolic   *)
(* links lead to paths below m_root, so that isWithinRoot always holds; it *)
(* and what it refuses are outside of this model.  Directories may always  *)
(* be searched; mtime is that of files in milliseconds of the host.        *)
(***************************************************************************)
EXTENDS MemFS, Integers

CONSTANTS
  Paths,        \* the paths callers name and the host uses
  Contents,     \* what callers write
  Buffered,     \* the contents that fit into a stream's buffer
  Sizes,        \* the size arguments of truncate
  Modes,        \* the mode arguments of mkdir and access
  Times,        \* the mtimeMs arguments of utimes
  EpochOffset,  \* ms from the epoch of file_time_type::clock to the one of the system's
                \* clock: 0 in libc++, not in libstdc++
  HostNodes,    \* the nodes that the host makes
  InitialDisks, \* what is there at first
  MaxSize,      \* bound: the size of a file ...
  MaxNodes      \* ... and the nodes on the disk, between calls, those counted twice
                \* that have another time or mode than new ones

RWX == {"read", "write", "exec"}

DiskNode(kind, data, mode, to) ==
  [kind |-> kind, data |-> data, mode |-> mode, mtime |-> Now, to |-> to]

NewFile == DiskNode("file", <<>>, {"read", "write"}, <<>>)
NewDir  == DiskNode("dir", <<>>, RWX, <<>>)
Link(p) == DiskNode("link", <<>>, RWX, p)

DiskNodes ==
  [kind : {"file", "dir", "link"}, data : Seq(0..255), mode : Mode, mtime : Int,
   to : Seq(STRING)]

(* All that a path of the disk leads through are directories; m_root itself *)
(* may be missing or be a file, but is no link: it is a canonical path.     *)
GoodDisk(D) ==
  /\ DOMAIN D \subseteq Seq(STRING)
  /\ D \in [DOMAIN D -> DiskNodes]
  /\ \A p \in DOMAIN D : DirsAbove(D, p)
  /\ <<>> \in DOMAIN D => D[<<>>].kind # "link"

ASSUME RealAssumption ==
  /\ Paths \subseteq Seq(STRING)
  /\ Contents \subseteq Seq(0..255)
  /\ Sizes \subseteq Int
  /\ Modes \subseteq Mode
  /\ Times \subseteq Int /\ EpochOffset \in Int
  /\ HostNodes \subseteq DiskNodes
  /\ \A D \in InitialDisks : GoodDisk(D)

VARIABLES
  disk,   \* the nodes below m_root
  call,   \* the call in progress
  last    \* the call that was answered last, and the answer

vars == <<disk, call, last>>

------------------------------------------------------------------------------
(* Names and links.                                                        *)

IsLink(D, p) == p \in DOMAIN D /\ D[p].kind = "link"

LinksOn(D, p) == {i \in 1..Len(p) : IsLink(D, SubSeq(p, 1, i))}

FollowOne(D, p) ==
  IF LinksOn(D, p) = {} THEN p
  ELSE LET i == CHOOSE i \in LinksOn(D, p) : \A j \in LinksOn(D, p) : i <= j
       IN  D[SubSeq(p, 1, i)].to \o SubSeq(p, i + 1, Len(p))

(* Where links lead.  No more than three are followed (the kernel follows   *)
(* 40), so that a loop and a chain of four both leave a link.               *)
Follow(D, p) == LET One(q) == FollowOne(D, q) IN One(One(One(p)))

(* The same without the last name: what remove, rename and mkdir act on.    *)
Named(D, p) == IF p = <<>> THEN p ELSE Append(Follow(D, Front(p)), Last(p))

Lookup(D, q) ==
  << <<LinksOn(D, q) # {}, "ELOOP">>,
     <<\E i \in 0..(Len(q) - 1) : IsFile(D, SubSeq(q, 1, i)), "ENOTDIR">>,
     <<q \notin DOMAIN D, "ENOENT">> >>

(* The directory of q is there; m_root has one outside of the model.        *)
InDir(D, q) ==
  IF q = <<>> THEN <<>> ELSE Lookup(D, Front(q)) \o << <<IsFile(D, Front(q)), "ENOTDIR">> >>

Unreadable(D, p) == p \in DOMAIN D /\ "read" \notin D[p].mode

ReadOnly(D, p) == p \in DOMAIN D /\ "write" \notin D[p].mode

Closed(D, q) == q # <<>> /\ ReadOnly(D, Front(q))

(* resolve(): the canonical path ...                                        *)
Existing(D, p) ==
  LET q == Follow(D, p) IN [err |-> FirstError(Lookup(D, q)), path |-> q]

(* ... or the canonical path of the longest prefix that exists, and the     *)
(* rest as it is: a link that leads nowhere is not followed.  The looks at  *)
(* the disk that this takes are one step of the model.                      *)
Creating(D, p) ==
  LET Prefix(i) == SubSeq(p, 1, i)
      there == {i \in 0..Len(p) : Existing(D, Prefix(i)).err = "ok"}
      k     == CHOOSE i \in there : \A j \in there : j <= i
  IN  IF there = {} THEN [err |-> "ok", path |-> p]
      ELSE [err  |-> IF k < Len(p) /\ Existing(D, Prefix(k + 1)).err = "ELOOP"
                     THEN "ELOOP" ELSE "ok",
            path |-> Follow(D, Prefix(k)) \o SubSeq(p, k + 1, Len(p))]

(* Mutant: a link at the end of the path is not resolved.                   *)
ResolveLinkItself(D, op, p) ==
  IF op \in {"writeFile", "appendFile", "mkdir"} THEN Creating(D, p)
  ELSE [Existing(D, p) EXCEPT !.path = Named(D, p)]

Resolve(D, op, p) ==
  IF op \in {"writeFile", "appendFile", "mkdir"} THEN Creating(D, p) ELSE Existing(D, p)

------------------------------------------------------------------------------
(* Calls.  `args` is what the caller passed; q and q2 are the resolved      *)
(* paths; a handle is a path, or the content of a file that the host has    *)
(* removed since (`lost`); `size` is what will be read, or the length of    *)
(* the path of the directory that is made next; `got` is the first half of  *)
(* a stat.  For the properties, `start` is the disk on which the call takes *)
(* its first look, as long as the host has changed nothing since (`alone`). *)

Idle == [pc |-> "idle"]

At(pc, op) == call.pc = pc /\ call.args.op = op

Answered(args, err, out, full) ==
  /\ last' = [args |-> args, err |-> err, out |-> out, full |-> full]
  /\ call' = Idle

Answer(err) == Answered(call.args, err, "none", FALSE)

Return(out) == Answered(call.args, "ok", out, FALSE)

Goto(pc) == call' = [call EXCEPT !.pc = pc] /\ UNCHANGED last

Begin(args) ==
  /\ call = Idle
  /\ call' = [pc |-> "called", args |-> args, q |-> <<>>, q2 |-> <<>>, size |-> 0,
              lost |-> {}, got |-> {}, alone |-> TRUE, start |-> disk]
  /\ UNCHANGED <<disk, last>>

(* The first path is resolved; truncate refuses negative sizes before that, *)
(* and exists does nothing else.                                            *)
ResolveFirst ==
  /\ call.pc = "called"
  /\ LET args == call.args
         r    == Resolve(disk, args.op, args.path)
         pc   == IF args.op \in {"rename", "copyFile"} THEN "second" ELSE "resolved"
     IN  CASE args.op = "truncate" /\ args.n < 0 -> Answer("EINVAL")
           [] args.op = "exists" -> Return(r.err = "ok")
           [] OTHER -> IF r.err # "ok" THEN Answer(r.err)
                       ELSE call' = [call EXCEPT !.pc = pc, !.q = r.path] /\ UNCHANGED last
  /\ UNCHANGED disk

(* rename and copyFile resolve the second path on the disk as it is then.   *)
ResolveSecond ==
  /\ call.pc = "second"
  /\ LET r == Creating(disk, call.args.to)
     IN  IF r.err # "ok" THEN Answer(r.err)
         ELSE call' = [call EXCEPT !.pc = "resolved", !.q2 = r.path] /\ UNCHANGED last
  /\ UNCHANGED disk

(* An outcome of one system call.                                           *)
Act(checks, D) ==
  LET err == FirstError(checks)
  IN  Answer(err) /\ disk' = IF err = "ok" THEN D ELSE disk

------------------------------------------------------------------------------
(* readFile, writeFile, appendFile: streams.                               *)

(* The position at the end is the size that will be read.  How a directory  *)
(* fails depends on what seeking in it gives.                               *)
OpenRead ==
  /\ At("resolved", "readFile")
  /\ LET t == Follow(disk, call.q)
     IN  IF IsFile(disk, t) /\ ~Unreadable(disk, t)
         THEN /\ call' = [call EXCEPT !.pc = "open", !.q = t, !.size = Len(disk[t].data)]
              /\ UNCHANGED last
         ELSE \E err \in {"EACCES"} \union (IF IsDir(disk, t) THEN {"EIO", "exception"} ELSE {}) :
                Answer(err)
  /\ UNCHANGED disk

Held == IF call.lost = {} THEN disk[call.q].data ELSE CHOOSE d \in call.lost : TRUE

(* The string was made of zeros; reaching the end of the file is no error.  *)
Read ==
  /\ At("open", "readFile")
  /\ Return([i \in 1..call.size |-> IF i <= Len(Held) THEN Held[i] ELSE 0])
  /\ UNCHANGED disk

CanOpen(D, t) ==
  IF t \in DOMAIN D THEN IsFile(D, t) /\ ~ReadOnly(D, t)
  ELSE FirstError(InDir(D, t)) = "ok" /\ ~Closed(D, t)

OpenWrite ==
  /\ call.pc = "resolved" /\ call.args.op \in {"writeFile", "appendFile"}
  /\ LET t   == Follow(disk, call.q)
         new == t \notin DOMAIN disk
         old == IF new THEN NewFile ELSE disk[t]
     IN  \/ ~CanOpen(disk, t) /\ Answer("EACCES") /\ UNCHANGED disk
         \/ /\ CanOpen(disk, t)
            /\ disk' = With(disk, t, IF call.args.op = "appendFile" THEN old
                                     ELSE [old EXCEPT !.data = <<>>, !.mtime = Now])
            /\ call' = [call EXCEPT !.pc = "open", !.q = t]
            /\ UNCHANGED last
         \* There is no room for a new file.
         \/ /\ CanOpen(disk, t) /\ new
            /\ Answered(call.args, "EACCES", "none", TRUE) /\ UNCHANGED disk

(* Mutant: appendFile writes where the file begins.                         *)
WrittenAtStart(op, old, new) ==
  new \o SubSeq(old, Len(new) + 1, Len(old))

(* writeFile writes from the beginning on, whatever the host has put there. *)
Written(op, old, new) ==
  IF op = "appendFile" THEN old \o new ELSE new \o SubSeq(old, Len(new) + 1, Len(old))

(* The disk once d is written to the stream.                                *)
Put(d) ==
  IF call.lost # {} \/ d = <<>> THEN disk
  ELSE [disk EXCEPT ![call.q].data = Written(call.args.op, @, d), ![call.q].mtime = Now]

(* The part of d that a full disk has room for: not all.                    *)
PartsOf(d) == {SubSeq(d, 1, k) : k \in 0..(Len(d) - 1)}

(* What fits into the buffer is written by the stream's destructor, whose   *)
(* failure nobody asks for.                                                 *)
FlushFails ==
  /\ call.pc = "open" /\ call.args.op \in {"writeFile", "appendFile"}
  /\ Answered(call.args, IF call.args.data \in Buffered THEN "ok" ELSE "EIO", "none", TRUE)
  /\ \E d \in PartsOf(call.args.data) : disk' = Put(d)

Flush ==
  /\ call.pc = "open" /\ call.args.op \in {"writeFile", "appendFile"}
  /\ Answer("ok")
  /\ disk' = Put(call.args.data)

------------------------------------------------------------------------------
(* The other calls: a function of std::filesystem after the resolution.     *)

(* Mutant: a directory goes with what is below it left behind.              *)
RemoveUnchecked ==
  /\ call.pc = "resolved" /\ call.args.op \in {"unlink", "rmdir"}
  /\ LET t == Named(disk, call.q)
     IN  IF t \notin DOMAIN disk THEN Answer("ok") /\ UNCHANGED disk
         ELSE Act(<< <<Closed(disk, t), "EACCES">> >>, Without(disk, {t}))

(* unlink and rmdir are both fs::remove, for which a missing file is fine.  *)
RemoveNode ==
  /\ call.pc = "resolved" /\ call.args.op \in {"unlink", "rmdir"}
  /\ LET t == Named(disk, call.q)
     IN  IF t \notin DOMAIN disk THEN Answer("ok") /\ UNCHANGED disk
         ELSE Act(<< <<Closed(disk, t), "EACCES">>,
                     <<IsDir(disk, t) /\ HasChildren(disk, t), "ENOTEMPTY">> >>,
                  Without(disk, {t}))

AddDirs(D, P) == [p \in DOMAIN D \union P |-> IF p \in P THEN NewDir ELSE D[p]]

Made(err, P) == [err |-> err, disk |-> IF err = "ok" THEN AddDirs(disk, P) ELSE disk]

(* mkdir(2), for which a directory that is there is fine.                   *)
CreateDirectory(q) ==
  LET t == Named(disk, q)
  IN  IF IsDir(disk, Follow(disk, q)) THEN Made("ok", {})
      ELSE Made(FirstError(InDir(disk, t) \o << <<t \in DOMAIN disk, "EEXIST">>,
                                               <<Closed(disk, t), "EACCES">> >>), {t})

(* Other modes than the default are set in a step of their own.             *)
AllMade == IF call.args.mode # RWX THEN Goto("made") ELSE Answer("ok")

(* fs::create_directories looks for the longest prefix that is there, then  *)
(* makes what is below it, m_root, too, one directory after the other.      *)
FindMissing ==
  /\ At("resolved", "mkdir") /\ call.args.recursive
  /\ LET there == {i \in 0..Len(call.q) : Follow(disk, SubSeq(call.q, 1, i)) \in DOMAIN disk}
         k     == IF there = {} THEN -1 ELSE CHOOSE i \in there : \A j \in there : j <= i
         base  == Follow(disk, SubSeq(call.q, 1, k))
     IN  IF there # {} /\ ~IsDir(disk, base)
         THEN Answer(IF IsLink(disk, base) THEN "ELOOP" ELSE "ENOTDIR")
         ELSE IF k = Len(call.q) THEN AllMade
         ELSE call' = [call EXCEPT !.pc = "making", !.size = k + 1] /\ UNCHANGED last
  /\ UNCHANGED disk

MakeDir ==
  /\ At("making", "mkdir") \/ (At("resolved", "mkdir") /\ ~call.args.recursive)
  /\ LET n    == IF call.pc = "making" THEN call.size ELSE Len(call.q)
         made == CreateDirectory(SubSeq(call.q, 1, n))
     IN  \/ made.err # "ok" /\ Answer(made.err) /\ UNCHANGED disk
         \/ /\ made.err = "ok" /\ disk' = made.disk
            /\ IF n = Len(call.q) THEN AllMade
               ELSE call' = [call EXCEPT !.size = n + 1] /\ UNCHANGED last
         \/ /\ made.err = "ok" /\ made.disk # disk
            /\ Answered(call.args, "ENOSPC", "none", TRUE) /\ UNCHANGED disk

Chmod ==
  /\ At("made", "mkdir")
  /\ LET t == Follow(disk, call.q)
     IN  Act(Lookup(disk, t), IF t \in DOMAIN disk
                              THEN [disk EXCEPT ![t].mode = call.args.mode] ELSE disk)

ListDir ==
  /\ At("resolved", "readdir")
  /\ LET t == Follow(disk, call.q)
         err == FirstError(Lookup(disk, t) \o << <<~IsDir(disk, t), "ENOTDIR">> >>)
     IN  Answered(call.args, err, Readdir([tree |-> disk], t).names, FALSE)
  /\ UNCHANGED disk

(* stat and lstat ask for the type and permissions first, lstat for those   *)
(* of a link if one has come into the way; the size and the time come later,*)
(* perhaps of another node, and a directory has no file_size.               *)
Status ==
  /\ call.pc = "resolved" /\ call.args.op \in {"stat", "lstat"}
  /\ LET t == IF call.args.op = "stat" THEN Follow(disk, call.q) ELSE Named(disk, call.q)
     IN  IF t \notin DOMAIN disk THEN Answer(FirstError(Lookup(disk, t)))
         ELSE /\ call' = [call EXCEPT !.pc = "status",
                                      !.got = [kind |-> disk[t].kind, mode |-> disk[t].mode]]
              /\ UNCHANGED last
  /\ UNCHANGED disk

FileSize ==
  /\ call.pc = "status"
  /\ LET t   == Follow(disk, call.q)
         err == FirstError(Lookup(disk, t) \o << <<IsDir(disk, t), "EISDIR">> >>)
     IN  IF err # "ok" THEN Answer(err)
         ELSE Return([kind |-> call.got.kind, mode |-> call.got.mode,
                      size |-> Len(disk[t].data), mtime |-> disk[t].mtime])
  /\ UNCHANGED disk

(* Mutant: the directories above the new path are made first.               *)
RenameMakesDirs ==
  /\ At("resolved", "rename")
  /\ LET o   == Named(disk, call.q)
         n   == Named(disk, call.q2)
         D   == AddDirs(disk, {SubSeq(n, 1, i) : i \in 0..(Len(n) - 1)} \ DOMAIN disk)
         err == FirstError(InDir(D, o) \o << <<o \notin DOMAIN D, "ENOENT">> >> \o InDir(D, n)
                           \o << <<IsPrefix(o, n), "EINVAL">>, <<n \in DOMAIN D, "EEXIST">> >>)
     IN  Answer(err) /\ disk' = IF err = "ok" THEN Moved(D, o, n) ELSE D

(* rename(2).                                                               *)
RenameNode ==
  /\ At("resolved", "rename")
  /\ LET o == Named(disk, call.q)
         n == Named(disk, call.q2)
         moves == o # n
     IN  Act(InDir(disk, o) \o << <<o \notin DOMAIN disk, "ENOENT">> >> \o InDir(disk, n)
             \o << <<IsStrictPrefix(o, n), "EINVAL">>,
                   <<IsStrictPrefix(n, o), "ENOTEMPTY">>,
                   <<moves /\ (Closed(disk, o) \/ Closed(disk, n)), "EACCES">>,
                   <<IsDir(disk, o) /\ n \in DOMAIN disk /\ ~IsDir(disk, n), "ENOTDIR">>,
                   <<~IsDir(disk, o) /\ IsDir(disk, n), "EISDIR">>,
                   <<moves /\ IsDir(disk, n) /\ HasChildren(disk, n), "ENOTEMPTY">>,
                   <<IsDir(disk, o) /\ ReadOnly(disk, o) /\ Front(o) # Front(n), "EACCES">> >>,
             Moved(disk, o, n))

(* fs::copy_file without options: a file that exists is not replaced.  On a *)
(* full disk nothing is made, or a part of the copy.                        *)
CopyNode ==
  /\ At("resolved", "copyFile")
  /\ LET s   == Follow(disk, call.q)
         n   == Named(disk, call.q2)
         err == FirstError(Lookup(disk, s)
                  \o << <<Follow(disk, n) \in DOMAIN disk, "EEXIST">>,
                        <<~IsFile(disk, s), "ENOTSUP">>,
                        <<Unreadable(disk, s), "EACCES">> >>
                  \o InDir(disk, n)
                  \o << <<n \in DOMAIN disk, "EEXIST">>, <<Closed(disk, n), "EACCES">> >>)
         copy == [disk[s] EXCEPT !.mtime = Now]
     IN  \/ err # "ok" /\ Answer(err) /\ UNCHANGED disk
         \/ err = "ok" /\ Answer("ok") /\ disk' = With(disk, n, copy)
         \/ /\ err = "ok" /\ Answered(call.args, "ENOSPC", "none", TRUE)
            /\ \/ UNCHANGED disk
               \/ \E d \in PartsOf(copy.data) : disk' = With(disk, n, [copy EXCEPT !.data = d])

Resize ==
  /\ At("resolved", "truncate")
  /\ LET t    == Follow(disk, call.q)
         n    == call.args.n
         old  == disk[t].data
         data == [i \in 1..n |-> IF i <= Len(old) THEN old[i] ELSE 0]
     IN  Act(Lookup(disk, t) \o << <<IsDir(disk, t), "EISDIR">>,
                                   <<ReadOnly(disk, t), "EACCES">> >>,
             IF data = old THEN disk
             ELSE [disk EXCEPT ![t].data = data, ![t].mtime = Now])

(* The number is taken for a time of file_time_type's clock, but read, by   *)
(* stat, as one of the system's.                                            *)
SetTime ==
  /\ At("resolved", "utimes")
  /\ LET t == Follow(disk, call.q)
     IN  Act(Lookup(disk, t),
             IF IsFile(disk, t) THEN [disk EXCEPT ![t].mtime = call.args.n + EpochOffset]
             ELSE disk)

(* Only the owner's bits are looked at.                                     *)
AccessBits ==
  /\ At("resolved", "access")
  /\ LET t == Follow(disk, call.q)
     IN  Answer(IF t \notin DOMAIN disk THEN "ENOENT"
                ELSE IF call.args.mode \subseteq disk[t].mode THEN "ok" ELSE "EACCES")
  /\ UNCHANGED disk

------------------------------------------------------------------------------
(* The host's other processes.  They change one node at a time.             *)

Noticed(p) ==
  call' = CASE call = Idle -> call
            [] call.pc = "called" -> [call EXCEPT !.start = disk']
            [] OTHER ->
                 [call EXCEPT !.alone = FALSE, !.start = <<>>,
                    !.lost = IF call.pc = "open" /\ call.q = p /\ p \notin DOMAIN disk'
                                /\ call.lost = {}
                             THEN {disk[p].data} ELSE @]

HostPuts(p, node) ==
  /\ p # <<>> /\ IsDir(disk, Front(p)) /\ ~IsDir(disk, p) /\ ~IsLink(disk, p)
  /\ IsFile(disk, p) => node.kind = "file"
  /\ disk' = With(disk, p, node)
  /\ Noticed(p) /\ UNCHANGED last

HostRemoves(p) ==
  /\ p \in DOMAIN disk /\ ~HasChildren(disk, p)
  /\ disk' = Without(disk, {p})
  /\ Noticed(p) /\ UNCHANGED last

------------------------------------------------------------------------------
Init ==
  /\ disk \in InitialDisks
  /\ call = Idle
  /\ last = [args |-> [op |-> "none"], err |-> "ok", out |-> "none", full |-> FALSE]

(* Arguments that an operation does not have are left at these.             *)
Args(op, path) ==
  [op |-> op, path |-> path, to |-> <<>>, data |-> <<>>, n |-> 0, mode |-> RWX,
   recursive |-> FALSE]

BeginCall ==
  \/ \E op \in {"readFile", "unlink", "rmdir", "readdir", "stat", "lstat",
                 "exists"}, p \in Paths :
       Begin(Args(op, p))
  \/ \E op \in {"writeFile", "appendFile"}, p \in Paths, d \in Contents :
       Begin([Args(op, p) EXCEPT !.data = d])
  \/ \E p \in Paths, mode \in Modes, recursive \in BOOLEAN :
       Begin([Args("mkdir", p) EXCEPT !.mode = mode, !.recursive = recursive])
  \/ \E op \in {"rename", "copyFile"}, p, q \in Paths : Begin([Args(op, p) EXCEPT !.to = q])
  \/ \E p \in Paths, n \in Sizes : Begin([Args("truncate", p) EXCEPT !.n = n])
  \/ \E p \in Paths, t \in Times : Begin([Args("utimes", p) EXCEPT !.n = t])
  \/ \E p \in Paths, mode \in Modes : Begin([Args("access", p) EXCEPT !.mode = mode])

CallStep ==
  \/ ResolveFirst \/ ResolveSecond \/ OpenRead \/ Read \/ OpenWrite \/ FlushFails \/ Flush
  \/ RemoveNode \/ FindMissing \/ MakeDir \/ Chmod \/ ListDir \/ Status \/ FileSize
  \/ RenameNode \/ CopyNode \/ Resize \/ SetTime \/ AccessBits

HostPut == \E p \in Paths, node \in HostNodes : HostPuts(p, node)

HostRemove == \E p \in DOMAIN disk : HostRemoves(p)

(* The bounds hold where a call begins and after the host's steps: a call   *)
(* may go beyond them, by at most two nodes and its own data.               *)
Bounded(D) ==
  /\ LET marked == {p \in DOMAIN D : D[p].mtime # Now \/ (IsDir(D, p) /\ D[p].mode # RWX)}
     IN  Cardinality(DOMAIN D) + Cardinality(marked) <= MaxNodes
  /\ \A p \in DOMAIN D : Len(D[p].data) <= MaxSize

Next ==
  \/ Bounded(disk) /\ BeginCall
  \/ CallStep
  \/ HostPut /\ Bounded(disk')
  \/ HostRemove

Spec == Init /\ [][Next]_vars

------------------------------------------------------------------------------
(* Correctness.                                                            *)

(* Whatever the host does between the steps of a call, and whatever links   *)
(* lead where, the disk stays a tree, and an open stream has its file.      *)
TypeOK ==
  /\ \A p \in DOMAIN disk \ {<<>>} : IsDir(disk, Front(p))
  /\ \A p \in DOMAIN disk : disk[p].kind \in {"file", "dir", "link"}
  /\ call = Idle \/ call.pc \in {"called", "second", "resolved", "open", "making", "made",
                                 "status"}
  /\ call.pc = "open" /\ call.lost = {} => IsFile(disk, call.q)

(* The step that answers a call; what was asked for, and of which disk.     *)
Answers == call # Idle /\ call' = Idle

Undisturbed == Answers /\ call.alone

(* A call that no one interferes with leaves every link as it is, as it     *)
(* acts on what the link leads to; but rename replaces a link that leads    *)
(* nowhere.                                                                 *)
LinksStay ==
  [][Undisturbed =>
       \A p \in {q \in DOMAIN call.start : IsLink(call.start, q)} :
         \/ p \in DOMAIN disk' /\ disk'[p] = call.start[p]
         \/ /\ call.args.op = "rename"
            /\ \/ IsPrefix(call.q, p)
               \/ call.q2 = p /\ Follow(call.start, p) \notin DOMAIN call.start]_vars

(* What a full disk leaves of a call on D, and of the path q: a part of the *)
(* content in one file, or some of the directories on the way to q.         *)
HalfWritten(args, D, E, q) ==
  \E p \in DOMAIN E :
    /\ E[p].kind = "file" /\ Without(E, {p}) = Without(D, {p})
    /\ CASE args.op = "writeFile"  -> E[p].data \in PartsOf(args.data)
         [] args.op = "appendFile" ->
              \E d \in PartsOf(args.data) :
                E[p].data = (IF p \in DOMAIN D THEN D[p].data ELSE <<>>) \o d
         [] args.op = "copyFile"   -> p \notin DOMAIN D /\ E[p].data \in PartsOf(D[q].data)
         [] OTHER -> FALSE

HalfMade(args, D, E, q) ==
  /\ args.op = "mkdir" /\ args.recursive
  /\ \A p \in DOMAIN D : p \in DOMAIN E /\ E[p] = D[p]
  /\ \A p \in DOMAIN E \ DOMAIN D :
       E[p] = NewDir /\ \E i \in 0..(Len(q) - 1) : p = Follow(E, SubSeq(q, 1, i))

(* A call that fails, and that no one interferes with, has changed nothing, *)
(* unless the disk was full: then it may have written a part of what it was *)
(* to write, or made some of the directories that it was to make, but has   *)
(* lost nothing else.                                                       *)
FailureLeavesDisk ==
  [][Undisturbed /\ last'.err # "ok" =>
       \/ disk' = call.start
       \/ /\ last'.full
          /\ \/ HalfWritten(call.args, call.start, disk', call.q)
             \/ HalfMade(call.args, call.start, disk', call.q)]_vars

------------------------------------------------------------------------------
(* The same call in memory.  A link counts as a file without content.       *)

InMemory(D) ==
  [tree |-> [p \in DOMAIN D |->
               [kind |-> IF IsDir(D, p) THEN "dir" ELSE "file", ino |-> 0,
                data |-> D[p].data, size |-> Len(D[p].data), mode |-> D[p].mode,
                mtime |-> D[p].mtime]],
   nextIno |-> 0]

(* What MemFSBackend answers and leaves, of the paths that links lead to.   *)
MemoryDoes(args, D) ==
  LET fs == InMemory(D)
      p  == Follow(D, args.path)
      q  == Follow(D, args.to)
      Reading(err, out)  == [err |-> err, fs |-> fs, out |-> out]
      Changing(r) == [err |-> r.err, fs |-> r.fs, out |-> "none"]
      StatOf(n) == [kind |-> n.kind, mode |-> n.mode, size |-> n.size, mtime |-> n.mtime]
  IN  CASE args.op = "readFile"   -> Reading(ReadFile(fs, p).err, ReadFile(fs, p).data)
        [] args.op = "readdir"    -> Reading(Readdir(fs, p).err, Readdir(fs, p).names)
        [] args.op \in {"stat", "lstat"} ->
             Reading(Stat(fs, p).err, IF p \in DOMAIN D THEN StatOf(fs.tree[p]) ELSE "none")
        [] args.op = "exists"     -> Reading("ok", Stat(fs, p).err = "ok")
        [] args.op = "access"     -> Reading(Access(fs, p, args.mode), "none")
        [] args.op = "writeFile"  -> Changing(WriteFile(fs, p, args.data))
        [] args.op = "appendFile" -> Changing(AppendFile(fs, p, args.data))
        [] args.op = "unlink"     -> Changing(Unlink(fs, p))
        [] args.op = "rmdir"      -> Changing(Rmdir(fs, p))
        [] args.op = "mkdir"      -> Changing(IF args.recursive THEN MkdirAll(fs, p, args.mode)
                                              ELSE Mkdir(fs, p, args.mode))
        [] args.op = "rename"     -> Changing(Rename(fs, Text(p), Text(q)))
        [] args.op = "copyFile"   -> Changing(CopyFile(fs, p, q))
        [] args.op = "truncate"   -> Changing(Truncate(fs, p, args.n))
        [] args.op = "utimes"     -> Changing(Utimes(fs, p, args.n))

(* Where the two backends differ, call by call.                             *)
Differs(args, D, err) ==
  LET p == Follow(D, args.path)
      q == Follow(D, args.to)
      LeadsNowhere(path) == Creating(D, path).path # Follow(D, path)
  IN  \* On the disk m_root may be removed or be made a file, and modes forbid a call.
      \/ ~IsDir(D, <<>>)
      \/ err = "EACCES" /\ \E r \in DOMAIN D : ReadOnly(D, r) \/ Unreadable(D, r)
      \/ args.op \in {"unlink", "rmdir"} /\ p = <<>>
      \* A loop of links leads nowhere; and there are no links in memory.
      \/ IsLink(D, p)
      \* A directory that exists is no error, and keeps its mode if the default is asked for.
      \/ args.op = "mkdir" /\ (IsDir(D, p) \/ LeadsNowhere(args.path))
      \* Both calls remove files and empty directories.
      \/ args.op = "rmdir" /\ IsFile(D, p)
      \* A directory cannot be asked for its size.
      \/ args.op \in {"stat", "lstat"} /\ IsDir(D, p)
      \* A copy replaces nothing.
      \/ args.op = "copyFile" /\ (q \in DOMAIN D \/ LeadsNowhere(args.to))
      \* A rename replaces only what is of its kind, and a link that leads nowhere; in
      \* memory, one to the same name succeeds even where nothing is.
      \/ args.op = "rename"
         /\ \/ q \in DOMAIN D /\ p \in DOMAIN D /\ D[p].kind # D[q].kind
            \/ LeadsNowhere(args.to)
            \/ p = q /\ p \notin DOMAIN D

(* Copies have the source's times in memory only; truncating to the same    *)
(* size and appending nothing are changes in memory only; directories on    *)
(* the way get the mode in memory only; times of directories cannot be seen *)
(* on the disk; and utimes takes its argument for one of another clock,     *)
(* where that has an epoch of its own.                                      *)
Looks(args, D, tree) ==
  [r \in DOMAIN tree |->
     [kind |-> tree[r].kind, data |-> tree[r].data,
      mode  |-> IF args.op = "mkdir" /\ r # Follow(D, args.path) THEN {} ELSE tree[r].mode,
      mtime |-> IF \/ tree[r].kind = "dir" \/ args.op \in {"copyFile", "truncate"}
                   \/ args.op = "appendFile" /\ args.data = <<>>
                   \/ args.op = "utimes" /\ EpochOffset # 0 /\ r = Follow(D, args.path)
                THEN Now ELSE tree[r].mtime]]

(* Scripts see no difference between the backends: a call that no one       *)
(* interferes with, with room on the disk, succeeds if and only if it does  *)
(* in memory, answers the same, and leaves the same nodes and contents,     *)
(* except as named.                                                         *)
SameAsMemFS ==
  [][Undisturbed /\ ~last'.full /\ ~Differs(call.args, call.start, last'.err) =>
       LET memory == MemoryDoes(call.args, call.start)
       IN  /\ last'.err = "ok" <=> memory.err = "ok"
           /\ last'.err = "ok" => last'.out = memory.out
           /\ Looks(call.args, call.start, InMemory(disk').tree)
                = Looks(call.args, call.start, memory.fs.tree)]_vars

------------------------------------------------------------------------------
(* What the repository says of the backend, and the code does not do.       *)

(* readFile reads until the end of the file: vfs_real.cpp:204 says so, and  *)
(* that no size is asked for before.                                        *)
ReadsUntilEnd ==
  [][At("open", "readFile") /\ call' = Idle => last'.out = Held]_vars

(* Where the disk is full, the call fails (sandboxed-fs/README.md:223: EIO  *)
(* for the failure of a write).                                             *)
FullDiskIsAnswered == [][Answers /\ last'.full => last'.err # "ok"]_vars
==============================================================================
