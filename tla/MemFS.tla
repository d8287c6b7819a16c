-------------------------------- MODULE MemFS --------------------------------
(***************************************************************************)
(* MemFSBackend (src/sandboxed-fs/src/vfs_mem.cpp): the in-memory tree and *)
(* its operations, as operators from a filesystem and arguments to an      *)
(* errno and a filesystem.                                                 *)
(*                                                                         *)
(* A tree of Nodes is a function from paths to what the Node at the path   *)
(* holds: a directory's `children` are the paths one name longer.  Of Stat *)
(* the kind, the inode, the size, the owner's mode bits and mtimeMs are    *)
(* kept; atimeMs is set with mtimeMs, and nothing reads ctimeMs.           *)
(*                                                                         *)
(* A path is the sequence of names that splitPath makes of a string.       *)
(* rename also compares its strings, so its arguments are texts: the names,*)
(* and how many slashes stand before each of them and after the last.      *)
(***************************************************************************)
EXTENDS Integers, Sequences, FiniteSets, SequencesExt

Now == 0     \* what nowMs() gives, as opposed to the times callers set

Dir(ino, mode) ==
  [kind |-> "dir", ino |-> ino, data |-> <<>>, size |-> 0, mode |-> mode, mtime |-> Now]

File(ino, d) ==
  [kind |-> "file", ino |-> ino, data |-> d, size |-> Len(d), mode |-> {"read", "write"},
   mtime |-> Now]

Rewritten(n, d) == [n EXCEPT !.data = d, !.size = Len(d), !.mtime = Now]

IsDir(T, p)          == p \in DOMAIN T /\ T[p].kind = "dir"
IsFile(T, p)         == p \in DOMAIN T /\ T[p].kind = "file"
Below(T, p)          == {q \in DOMAIN T : IsPrefix(p, q)}
HasChildren(T, p)    == Below(T, p) # {p}
With(T, p, n)        == [q \in DOMAIN T \union {p} |-> IF q = p THEN n ELSE T[q]]
Without(T, P)        == [q \in DOMAIN T \ P |-> T[q]]

EmptyFS == [tree |-> [p \in {<<>>} |-> Dir(1, {"read", "write", "exec"})], nextIno |-> 2]

(* The early returns of an operation, in their order.                       *)
FirstError(checks) ==
  LET failing == {i \in DOMAIN checks : checks[i][1]}
  IN  IF failing = {} THEN "ok"
      ELSE checks[CHOOSE i \in failing : \A j \in failing : i <= j][2]

Result(err, fs, T, nextIno) ==
  [err |-> err, fs |-> IF err = "ok" THEN [tree |-> T, nextIno |-> nextIno] ELSE fs]

(* parentDir: only the last directory is tested to be one, a file higher up *)
(* has no children.                                                         *)
ParentDir(T, p) ==
  << <<Len(p) > 1 /\ Front(p) \notin DOMAIN T, "ENOENT">>,
     <<Len(p) > 1 /\ IsFile(T, Front(p)), "ENOTDIR">> >>

WalkTo(T, p) == << <<p \notin DOMAIN T, "ENOENT">> >>

ReadFile(fs, p) ==
  LET err == FirstError(WalkTo(fs.tree, p) \o << <<IsDir(fs.tree, p), "EISDIR">> >>)
  IN  [err |-> err, data |-> IF err = "ok" THEN fs.tree[p].data ELSE <<>>]

(* stat, lstat and exists ask for the node alone.                           *)
Stat(fs, p) ==
  LET err == FirstError(WalkTo(fs.tree, p))
  IN  [err  |-> err,
       kind |-> IF err = "ok" THEN fs.tree[p].kind ELSE "none",
       mode |-> IF err = "ok" THEN fs.tree[p].mode ELSE {}]

(* Nothing but access asks for the mode of a node.                          *)
Access(fs, p, mode) ==
  FirstError(WalkTo(fs.tree, p)
             \o << <<p \in DOMAIN fs.tree /\ ~(mode \subseteq fs.tree[p].mode), "EACCES">> >>)

(* Mutant: the names further down are listed, too.                          *)
ReaddirDeep(fs, p) ==
  [err   |-> FirstError(WalkTo(fs.tree, p) \o << <<IsFile(fs.tree, p), "ENOTDIR">> >>),
   names |-> {Last(q) : q \in Below(fs.tree, p) \ {p}}]

Readdir(fs, p) ==
  [err   |-> FirstError(WalkTo(fs.tree, p) \o << <<IsFile(fs.tree, p), "ENOTDIR">> >>),
   names |-> {Last(q) : q \in {q \in Below(fs.tree, p) : Len(q) = Len(p) + 1}}]

WriteFile(fs, p, d) ==
  LET T   == fs.tree
      old == IsFile(T, p)
      err == FirstError(<< <<p = <<>>, "EISDIR">> >> \o ParentDir(T, p)
                        \o << <<IsDir(T, p), "EISDIR">> >>)
  IN  Result(err, fs,
             With(T, p, IF old THEN Rewritten(T[p], d) ELSE File(fs.nextIno, d)),
             IF old THEN fs.nextIno ELSE fs.nextIno + 1)

(* Mutant: the size is not brought up to date.                              *)
AppendFileSizeKept(fs, p, d) ==
  LET T   == fs.tree
      err == FirstError(<< <<p = <<>>, "EISDIR">> >> \o ParentDir(T, p)
                        \o << <<IsDir(T, p), "EISDIR">> >>)
  IN  IF err = "ok" /\ p \notin DOMAIN T THEN WriteFile(fs, p, d)
      ELSE Result(err, fs, With(T, p, [T[p] EXCEPT !.data = @ \o d, !.mtime = Now]), fs.nextIno)

AppendFile(fs, p, d) ==
  LET T   == fs.tree
      err == FirstError(<< <<p = <<>>, "EISDIR">> >> \o ParentDir(T, p)
                        \o << <<IsDir(T, p), "EISDIR">> >>)
  IN  IF err = "ok" /\ p \notin DOMAIN T THEN WriteFile(fs, p, d)
      ELSE Result(err, fs, With(T, p, Rewritten(T[p], T[p].data \o d)), fs.nextIno)

(* Mutant: a directory is removed with what is below it left behind.        *)
UnlinkNonEmpty(fs, p) ==
  LET T   == fs.tree
      err == FirstError(<< <<p = <<>>, "EACCES">> >> \o ParentDir(T, p) \o WalkTo(T, p))
  IN  Result(err, fs, Without(T, {p}), fs.nextIno)

(* An empty directory may be unlinked, too.                                 *)
Unlink(fs, p) ==
  LET T   == fs.tree
      err == FirstError(<< <<p = <<>>, "EACCES">> >> \o ParentDir(T, p) \o WalkTo(T, p)
                        \o << <<IsDir(T, p) /\ HasChildren(T, p), "ENOTEMPTY">> >>)
  IN  Result(err, fs, Without(T, {p}), fs.nextIno)

Rmdir(fs, p) ==
  LET T   == fs.tree
      err == FirstError(WalkTo(T, p) \o << <<IsFile(T, p), "ENOTDIR">>,
                                           <<HasChildren(T, p), "ENOTEMPTY">> >>)
  IN  IF err = "ok" THEN Unlink(fs, p) ELSE [err |-> err, fs |-> fs]

Mkdir(fs, p, mode) ==
  LET T   == fs.tree
      err == FirstError(ParentDir(T, p) \o << <<p \in DOMAIN T, "EEXIST">> >>)
  IN  IF p = <<>> THEN [err |-> "ok", fs |-> fs]
      ELSE Result(err, fs, With(T, p, Dir(fs.nextIno, mode)), fs.nextIno + 1)

MakeNext(r, q, mode) ==
  IF IsFile(r.fs.tree, q) THEN [r EXCEPT !.err = "ENOTDIR"]
  ELSE IF IsDir(r.fs.tree, q) THEN r
  ELSE Result("ok", r.fs, With(r.fs.tree, q, Dir(r.fs.nextIno, mode)), r.fs.nextIno + 1)

(* What each turn of the loop has made; after an error nothing more is made. *)
MakeAll(fs, p, mode) ==
  LET made[i \in 0..Len(p)] ==
        IF i = 0 THEN [err |-> "ok", fs |-> fs]
        ELSE LET r == made[i - 1]
             IN  IF r.err = "ok" THEN MakeNext(r, SubSeq(p, 1, i), mode) ELSE r
  IN  made

OnTheWay(p) == [i \in 1..Len(p) |-> SubSeq(p, 1, i)]

(* Mutant: it goes on after an error, which it answers in the end.          *)
MkdirAllGoesOn(fs, p, mode) ==
  FoldLeft(LAMBDA r, q : [MakeNext(r, q, mode) EXCEPT !.err = IF r.err = "ok" THEN @ ELSE r.err],
           [err |-> "ok", fs |-> fs], OnTheWay(p))

(* Mutant: the directories on the way get the mode, too.                    *)
MkdirAllChmods(fs, p, mode) ==
  LET made == MakeAll(fs, p, mode)[Len(p)]
      Chmod(f, q) == [f EXCEPT !.tree[q].mode = mode]
  IN  IF made.err # "ok" THEN made ELSE [made EXCEPT !.fs = FoldLeft(Chmod, @, OnTheWay(p))]

(* mkdir, recursive: one name after the other; what was made before an      *)
(* error stays.  The last directory gets the mode even if it existed.       *)
MkdirAll(fs, p, mode) ==
  LET made == MakeAll(fs, p, mode)[Len(p)]
  IN  IF p = <<>> \/ made.err # "ok" THEN made
      ELSE [made EXCEPT !.fs.tree[p].mode = mode]

(* The string of these names that normalize() writes: "/a/b", or "/".       *)
Text(names) ==
  [names   |-> names,
   slashes |-> [i \in 1..(Len(names) + 1) |->
                  IF i <= Len(names) \/ names = <<>> THEN 1 ELSE 0]]

(* newPath begins with oldPath and a slash, as strings.                     *)
TextBelow(old, new) ==
  LET n == Len(old.names)
  IN  /\ IsPrefix(old.names, new.names)
      /\ \A i \in 1..n : new.slashes[i] = old.slashes[i]
      /\ new.slashes[n + 1] > old.slashes[n + 1]

(* The path p, below `old`, as it is below `new`.                            *)
Rebased(p, old, new) == new \o SubSeq(p, Len(old) + 1, Len(p))

(* The subtree is moved.  Moved into itself it is reachable no more: its    *)
(* nodes own each other.                                                    *)
Moved(T, old, new) ==
  LET sub  == Below(T, old)
      rest == DOMAIN T \ sub
  IN  IF IsStrictPrefix(old, new) THEN Without(T, sub)
      ELSE [p \in rest \union {Rebased(q, old, new) : q \in sub} |->
              IF IsPrefix(new, p) THEN T[Rebased(p, new, old)] ELSE T[p]]

(* Mutant: the destination may be a directory that is not empty.            *)
RenameOver(fs, old, new) ==
  LET T   == fs.tree
      err == FirstError(
               << <<old.names = <<>>, "EACCES">> >>
               \o ParentDir(T, old.names) \o WalkTo(T, old.names)
               \o << <<IsDir(T, old.names) /\ TextBelow(old, new), "EINVAL">>,
                     <<new.names = <<>>, "EACCES">> >>
               \o ParentDir(T, new.names))
  IN  IF old = new THEN [err |-> "ok", fs |-> fs]
      ELSE Result(err, fs, Moved(Without(T, Below(T, new.names) \ Below(T, old.names)),
                                 old.names, new.names), fs.nextIno)

Rename(fs, old, new) ==
  LET T   == fs.tree
      err == FirstError(
               << <<old.names = <<>>, "EACCES">> >>
               \o ParentDir(T, old.names) \o WalkTo(T, old.names)
               \o << <<IsDir(T, old.names) /\ TextBelow(old, new), "EINVAL">>,
                     <<new.names = <<>>, "EACCES">> >>
               \o ParentDir(T, new.names)
               \o << <<IsDir(T, new.names) /\ HasChildren(T, new.names), "ENOTEMPTY">> >>)
  IN  IF old = new THEN [err |-> "ok", fs |-> fs]
      ELSE Result(err, fs, Moved(T, old.names, new.names), fs.nextIno)

(* Mutant: the clone keeps the inode of the source.                         *)
CopyFileSameIno(fs, src, dst) ==
  LET T   == fs.tree
      err == FirstError(WalkTo(T, src)
                        \o << <<IsDir(T, src), "EISDIR">>, <<dst = <<>>, "EISDIR">> >>
                        \o ParentDir(T, dst) \o << <<IsDir(T, dst), "EISDIR">> >>)
  IN  Result(err, fs, With(T, dst, T[src]), fs.nextIno)

(* The clone has an inode of its own, also where it replaces a file, and    *)
(* the mode and times of the source.                                        *)
CopyFile(fs, src, dst) ==
  LET T   == fs.tree
      err == FirstError(WalkTo(T, src)
                        \o << <<IsDir(T, src), "EISDIR">>, <<dst = <<>>, "EISDIR">> >>
                        \o ParentDir(T, dst) \o << <<IsDir(T, dst), "EISDIR">> >>)
  IN  Result(err, fs, With(T, dst, [T[src] EXCEPT !.ino = fs.nextIno]), fs.nextIno + 1)

(* n is the size argument; a longer file is filled up with zero bytes.      *)
Truncate(fs, p, n) ==
  LET T    == fs.tree
      err  == FirstError(<< <<n < 0, "EINVAL">> >> \o WalkTo(T, p)
                         \o << <<IsDir(T, p), "EISDIR">> >>)
      old  == T[p].data
      data == [i \in 1..n |-> IF i <= Len(old) THEN old[i] ELSE 0]
  IN  Result(err, fs, With(T, p, Rewritten(T[p], data)), fs.nextIno)

Utimes(fs, p, mtime) ==
  LET err == FirstError(WalkTo(fs.tree, p))
  IN  Result(err, fs, With(fs.tree, p, [fs.tree[p] EXCEPT !.mtime = mtime]), fs.nextIno)

------------------------------------------------------------------------------
(* What makes a tree a tree.                                                *)

IsTree(T) ==
  /\ IsDir(T, <<>>)
  /\ \A p \in DOMAIN T \ {<<>>} : IsDir(T, Front(p))

Inos(fs) == {fs.tree[p].ino : p \in DOMAIN fs.tree}

(* What a backend is like after its constructor and any of the operations.  *)

Mode  == SUBSET {"read", "write", "exec"}
Errno == {"EACCES", "EINVAL", "EISDIR", "ENOTDIR", "ENOENT", "EEXIST", "ENOTEMPTY"}

Node == [kind : {"file", "dir"}, ino : Nat, data : Seq(0..255), size : Nat, mode : Mode,
         mtime : Int]

Typed(fs) ==
  /\ fs = [tree |-> fs.tree, nextIno |-> fs.nextIno]
  /\ fs.nextIno \in Nat
  /\ IsFiniteSet(DOMAIN fs.tree) /\ DOMAIN fs.tree \subseteq Seq(STRING)
  /\ fs.tree \in [DOMAIN fs.tree -> Node]

(* All that a path leads through are directories.                           *)
DirsAbove(T, p) == \A i \in 0..(Len(p) - 1) : IsDir(T, SubSeq(p, 1, i))

Rooted(fs) == IsDir(fs.tree, <<>>) /\ \A p \in DOMAIN fs.tree : DirsAbove(fs.tree, p)

Numbered(fs) ==
  /\ \A p \in DOMAIN fs.tree : fs.tree[p].ino < fs.nextIno
  /\ \A p, q \in DOMAIN fs.tree : fs.tree[p].ino = fs.tree[q].ino => p = q

Measured(fs) == \A p \in DOMAIN fs.tree : fs.tree[p].size = Len(fs.tree[p].data)

GoodFS(fs) == Typed(fs) /\ Rooted(fs) /\ Numbered(fs) /\ Measured(fs)
==============================================================================
