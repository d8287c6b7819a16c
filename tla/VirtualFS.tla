------------------------------ MODULE VirtualFS ------------------------------
(***************************************************************************)
(* VirtualFS (src/sandboxed-fs/src/vfs.cpp), the mount router, over        *)
(* backends that are MemFS trees.  A path is a sequence of names, "." and  *)
(* ".."; a mount's prefix likewise, without the last two.  The code sorts  *)
(* mounts by the characters of the prefix, the model by its names: for     *)
(* two prefixes of one path, which alone are compared, it is the same.     *)
(*                                                                         *)
(* A call is one action, which records what it answered in `last`.  Calls  *)
(* that change nothing (readFile, stat, lstat, exists, readdir, access)    *)
(* are operators without an action.  The host keeps its shared_ptr to a    *)
(* backend and may call it past the router, in strings of any form         *)
(* (HostRename).                                                           *)
(***************************************************************************)
EXTENDS MemFS

CONSTANTS
  Backends,       \* the VFSBackend objects
  InitialFS,      \* what the host put into them
  MountEntries,   \* the entries the host mounts
  MaxMounts,      \* bound: the length of m_mounts
  Paths,          \* the paths callers name
  Bytes,          \* the contents that are written
  Sizes,          \* the size arguments of truncate
  Modes,          \* the mode arguments of mkdir
  Times,          \* the mtimeMs arguments of utimes
  MaxIno,         \* bound, per backend: the inodes below it are handed out
  MaxSize,        \* bound: the size of a file
  MaxNodes,       \* bound, per backend: its nodes, those counted twice that have another
                  \* mode or time than new ones
  HostTexts,      \* the strings by which the host renames in a backend
  Letters         \* those names that are one character long

(* A string: its names, and the slashes before each and after the last.     *)
Texts == {t \in [names : Seq(STRING), slashes : Seq(Nat)] : Len(t.slashes) = Len(t.names) + 1}

(* The prefix is compared with normalized paths, as names; the backendPath  *)
(* goes to the backend as the string it is.                                 *)
MountEntry == [prefix : Seq(STRING), canonical : BOOLEAN, perm : SUBSET {"read", "write"},
               backend : Backends, backendPath : Texts]

(* The host fills a MemFSBackend by the operations of MemFS alone.           *)
ASSUME BackendsAssumption ==
  /\ InitialFS = [b \in Backends |-> InitialFS[b]]
  /\ \A b \in Backends : GoodFS(InitialFS[b])

ASSUME MountsAssumption == MountEntries \subseteq MountEntry

(* The types of the arguments.                                              *)
ASSUME ArgumentsAssumption ==
  /\ Paths \subseteq Seq(STRING) /\ HostTexts \subseteq Texts
  /\ Bytes \subseteq Seq(0..255)
  /\ Sizes \subseteq Int /\ Times \subseteq Int
  /\ Modes \subseteq Mode

VARIABLES
  mounts,   \* m_mounts
  fs,       \* the trees of the backends
  last      \* the last call: its name, what it returned, and what it named

vars == <<mounts, fs, last>>

------------------------------------------------------------------------------
(* normalize(), resolve(), and the mount table.                            *)

Enter(parts, part) ==
  CASE part = "."  -> parts
    [] part = ".." -> IF parts = <<>> THEN parts ELSE Front(parts)
    [] OTHER       -> Append(parts, part)

(* The parts after each turn of the loop.                                   *)
Parts(path) ==
  LET parts[i \in 0..Len(path)] == IF i = 0 THEN <<>> ELSE Enter(parts[i - 1], path[i])
  IN  parts

Normalize(path) ==
  IF Contains(path, ".") \/ Contains(path, "..") THEN Parts(path)[Len(path)] ELSE path

(* A prefix that is not written as normalize() writes paths ("/a/", "a")    *)
(* never matches.  The empty one, which always would, is left out.          *)
Matches(m, norm) == m.canonical /\ IsPrefix(m.prefix, norm)

(* backendPath.size() <= 1.                                                 *)
Short(t) ==
  \/ t.names = <<>> /\ t.slashes[1] <= 1
  \/ t.slashes = <<0, 0>> /\ t.names[1] \in Letters

(* The string t and after it one that begins with a slash.                  *)
Joined(t, rest) ==
  [names   |-> t.names \o rest.names,
   slashes |-> Front(t.slashes) \o <<Last(t.slashes) + Head(rest.slashes)>> \o Tail(rest.slashes)]

(* Mutant: the backendPath is never put in front.                           *)
SubPathBare(m, norm) ==
  IF m.prefix = <<>> THEN Text(norm)
  ELSE IF norm = m.prefix THEN m.backendPath
  ELSE Text(SubSeq(norm, Len(m.prefix) + 1, Len(norm)))

(* The root mount passes the path on as it is, whatever its backendPath,    *)
(* and a backendPath of one character is put before nothing.                *)
SubPath(m, norm) ==
  LET rest == Text(SubSeq(norm, Len(m.prefix) + 1, Len(norm)))
  IN  IF m.prefix = <<>> THEN Text(norm)
      ELSE IF norm = m.prefix THEN m.backendPath
      ELSE IF Short(m.backendPath) THEN rest ELSE Joined(m.backendPath, rest)

Denied == [err |-> "EACCES"]

(* The first mount that matches decides, also when it lacks the permission. *)
Resolve(path, needed) ==
  LET norm == Normalize(path)
      hits == {i \in DOMAIN mounts : Matches(mounts[i], norm)}
  IN  IF hits = {} THEN Denied
      ELSE LET m == mounts[CHOOSE i \in hits : \A j \in hits : i <= j]
           IN  IF needed \subseteq m.perm
               THEN [err |-> "ok", mount |-> m, backend |-> m.backend,
                     sub |-> SubPath(m, norm).names, text |-> SubPath(m, norm)]
               ELSE Denied

Conflict(m, n) == m.backend = n.backend /\ m.perm # n.perm

NoConflicts == \A i, j \in DOMAIN mounts : ~Conflict(mounts[i], mounts[j])

Sorted(s) == \A i, j \in DOMAIN s : i < j => Len(s[i].prefix) >= Len(s[j].prefix)

Answer(op, err, named) == last' = [op |-> op, err |-> err, named |-> named]

(* Mutant: the new entry is put last.                                       *)
MountLast(m) ==
  /\ Len(mounts) < MaxMounts
  /\ IF \E i \in DOMAIN mounts : Conflict(mounts[i], m)
     THEN Answer("mount", "invalid_argument", {}) /\ mounts' = mounts
     ELSE Answer("mount", "ok", {}) /\ mounts' = Append(mounts, m)
  /\ UNCHANGED fs

(* Mutant: the conflict check is missing.                                   *)
MountUnchecked(m) ==
  /\ Len(mounts) < MaxMounts
  /\ LET longer == {i \in DOMAIN mounts : Len(mounts[i].prefix) > Len(m.prefix)}
     IN  Answer("mount", "ok", {}) /\ mounts' = InsertAt(mounts, Cardinality(longer) + 1, m)
  /\ UNCHANGED fs

(* mount() throws on a conflict; otherwise the entry goes before those      *)
(* whose prefix is not longer.                                             *)
Mount(m) ==
  /\ Len(mounts) < MaxMounts
  /\ IF \E i \in DOMAIN mounts : Conflict(mounts[i], m)
     THEN Answer("mount", "invalid_argument", {}) /\ mounts' = mounts
     ELSE LET longer == {i \in DOMAIN mounts : Len(mounts[i].prefix) > Len(m.prefix)}
          IN  Answer("mount", "ok", {}) /\ mounts' = InsertAt(mounts, Cardinality(longer) + 1, m)
  /\ UNCHANGED fs

------------------------------------------------------------------------------
(* The calls.  r is where the path was resolved to, result what the backend *)
(* did; it is not called when r is an error.                               *)

Return(op, r, result) ==
  /\ IF r.err = "ok" THEN Answer(op, result.err, {<<r.backend, r.sub>>})
                     ELSE Answer(op, r.err, {})
  /\ fs' = IF r.err = "ok" THEN [fs EXCEPT ![r.backend] = result.fs] ELSE fs
  /\ UNCHANGED mounts

W(path) == Resolve(path, {"write"})

VWriteFile(path, d) ==
  LET r == W(path) IN Return("writeFile", r, WriteFile(fs[r.backend], r.sub, d))

VAppendFile(path, d) ==
  LET r == W(path) IN Return("appendFile", r, AppendFile(fs[r.backend], r.sub, d))

VUnlink(path) ==
  LET r == W(path) IN Return("unlink", r, Unlink(fs[r.backend], r.sub))

VRmdir(path) ==
  LET r == W(path) IN Return("rmdir", r, Rmdir(fs[r.backend], r.sub))

VMkdir(path, recursive, mode) ==
  LET r == W(path)
  IN  Return("mkdir", r, IF recursive THEN MkdirAll(fs[r.backend], r.sub, mode)
                                      ELSE Mkdir(fs[r.backend], r.sub, mode))

VUtimes(path, mtime) ==
  LET r == W(path) IN Return("utimes", r, Utimes(fs[r.backend], r.sub, mtime))

VTruncate(path, n) ==
  LET r == W(path) IN Return("truncate", r, Truncate(fs[r.backend], r.sub, n))

VRename(old, new) ==
  LET o == W(old)
      n == W(new)
      r == IF o.err = "ok" /\ n.err = "ok" /\ o.backend # n.backend
           THEN [err |-> "EXDEV"]
           ELSE IF o.err = "ok" THEN n ELSE o
  IN  Return("rename", r, Rename(fs[o.backend], o.text, n.text))

(* Between two backends: read all, then write all.                          *)
VCopyFile(src, dst) ==
  LET s    == Resolve(src, {"read"})
      d    == W(dst)
      data == ReadFile(fs[s.backend], s.sub)
  IN  Return("copyFile", IF s.err = "ok" THEN d ELSE s,
             CASE s.backend = d.backend -> CopyFile(fs[d.backend], s.sub, d.sub)
               [] s.backend # d.backend /\ data.err = "ok" ->
                    WriteFile(fs[d.backend], d.sub, data.data)
               [] OTHER -> [err |-> data.err, fs |-> fs[d.backend]])

(* The reading calls: exists answers FALSE where stat answers an errno.     *)
R(path) == Resolve(path, {"read"})

VReadFile(path) ==
  LET r == R(path)
  IN  IF r.err = "ok" THEN ReadFile(fs[r.backend], r.sub) ELSE [err |-> r.err, data |-> <<>>]

VStat(path) ==
  LET r == R(path)
  IN  IF r.err = "ok" THEN Stat(fs[r.backend], r.sub)
      ELSE [err |-> r.err, kind |-> "none", mode |-> {}]

VExists(path) == VStat(path).err = "ok"

VReaddir(path) ==
  LET r == R(path)
  IN  IF r.err = "ok" THEN Readdir(fs[r.backend], r.sub) ELSE [err |-> r.err, names |-> {}]

(* A mode is the set of its bits; kExist and kExec need no permission.      *)
NeededPermForAccess(mode) == mode \ {"exec"}

VAccess(path, mode) ==
  LET r == Resolve(path, NeededPermForAccess(mode))
  IN  IF r.err = "ok" THEN Access(fs[r.backend], r.sub, mode) ELSE r.err

HostRename(b, old, new) ==
  LET result == Rename(fs[b], old, new)
  IN  /\ Answer("hostRename", result.err, {})
      /\ fs' = [fs EXCEPT ![b] = result.fs]
      /\ UNCHANGED mounts

------------------------------------------------------------------------------
(* The constructor sorts its argument, entries with prefixes of one length  *)
(* in any order, and throws on a conflict.                                  *)
Init ==
  /\ mounts \in BoundedSeq(MountEntries, MaxMounts)
  /\ Sorted(mounts)
  /\ NoConflicts
  /\ fs = InitialFS
  /\ last = [op |-> "none", err |-> "ok", named |-> {}]

(* The bounds on a backend.                                                 *)
Bounded ==
  \A b \in {c \in Backends : fs'[c] # fs[c]} :
    /\ fs'[b].nextIno <= MaxIno[b]
    /\ \A p \in DOMAIN fs'[b].tree : Len(fs'[b].tree[p].data) <= MaxSize
    /\ LET T      == fs'[b].tree
           marked == {p \in DOMAIN T : \/ T[p].mtime # Now
                                       \/ IsDir(T, p) /\ T[p].mode # {"read", "write", "exec"}}
       IN  Cardinality(DOMAIN T) + Cardinality(marked) <= MaxNodes[b]

Next ==
  \/ \E m \in MountEntries : Mount(m)
  \/ \E p \in Paths, d \in Bytes : (VWriteFile(p, d) \/ VAppendFile(p, d)) /\ Bounded
  \/ \E p \in Paths : VUnlink(p) \/ VRmdir(p)
  \/ \E p \in Paths, recursive \in BOOLEAN, mode \in Modes :
       VMkdir(p, recursive, mode) /\ Bounded
  \/ \E p \in Paths, mtime \in Times : VUtimes(p, mtime) /\ Bounded
  \/ \E p \in Paths, n \in Sizes : VTruncate(p, n)
  \/ \E p, q \in Paths : VRename(p, q)
  \/ \E p, q \in Paths : VCopyFile(p, q) /\ Bounded
  \/ \E b \in Backends, t, u \in HostTexts : HostRename(b, t, u)

Spec == Init /\ [][Next]_vars

------------------------------------------------------------------------------
(* Correctness.                                                            *)

(* Whatever is mounted where, each backend stays a tree: every node but the *)
(* root lies in a directory.                                                *)
TypeOK ==
  /\ mounts \in Seq(MountEntries)
  /\ \A b \in Backends : IsTree(fs[b].tree)
  /\ last.err \in {"ok", "EACCES", "EINVAL", "EISDIR", "ENOTDIR", "ENOENT", "EEXIST",
                   "ENOTEMPTY", "EXDEV", "invalid_argument"}

(* No two nodes of a backend have one inode, through any sequence of        *)
(* writes, copies over files, renames and removals.                        *)
UniqueInodes ==
  \A b \in Backends :
    /\ Cardinality(Inos(fs[b])) = Cardinality(DOMAIN fs[b].tree)
    /\ \A i \in Inos(fs[b]) : i < fs[b].nextIno

(* st_size is the length of the file after every operation.                 *)
SizesMatch ==
  \A b \in Backends : \A p \in DOMAIN fs[b].tree :
    fs[b].tree[p].size = Len(fs[b].tree[p].data)

(* However the constructor and mount() were used, a path goes to the mount  *)
(* with the longest prefix of it, so a mount inside another one hides it.   *)
LongestPrefixWins ==
  \A path \in Paths :
    LET r == Resolve(path, {})
        hits == {i \in DOMAIN mounts : Matches(mounts[i], Normalize(path))}
    IN  /\ r.err = "ok" <=> hits # {}
        /\ r.err = "ok" =>
             \A i \in hits : Len(mounts[i].prefix) <= Len(r.mount.prefix)

(* The mount's backendPath is one relative character: below the prefix it    *)
(* is dropped, at the prefix it is not.                                     *)
Dropped(m) == m.prefix # <<>> /\ m.backendPath.names # <<>> /\ Short(m.backendPath)

(* The reading calls agree on one tree, across mounts: readFile serves what *)
(* stat calls a file and readdir what it calls a directory; access answers  *)
(* by the mode that stat shows, and a file that it calls writable can be    *)
(* written; and a name is listed exactly if it exists, except where a mount *)
(* begins, which no backend knows of.  It takes that no mount drops its     *)
(* backendPath: such a one lists one directory and opens files of another.  *)
Names == (UNION {{path[i] : i \in DOMAIN path} : path \in Paths}) \ {".", ".."}

MountPoint(path) == \E i \in DOMAIN mounts : mounts[i].prefix = Normalize(path)

ReadsAgree ==
  (\A i \in DOMAIN mounts : ~Dropped(mounts[i])) =>
  \A path \in Paths :
    LET stat    == VStat(path)
        readdir == VReaddir(path)
    IN  /\ VReadFile(path).err = "ok" <=> stat.kind = "file"
        /\ readdir.err = "ok" <=> stat.kind = "dir"
        /\ VExists(path) => \A bit \in {"read", "exec"} :
             bit \in stat.mode <=> VAccess(path, {bit}) = "ok"
        /\ stat.kind = "file" /\ VAccess(path, {"write"}) = "ok" =>
             WriteFile(fs[W(path).backend], W(path).sub, <<>>).err = "ok"
        /\ \A n \in Names :
             ~MountPoint(Append(path, n)) =>
               (n \in readdir.names <=> VExists(Append(path, n)))

Writable(b) == \E i \in DOMAIN mounts : mounts[i].backend = b /\ "write" \in mounts[i].perm

(* A backend that is mounted read-only does not change by calls of the      *)
(* router, through whichever of its mounts, now or after later mounts.      *)
ReadOnlyUntouched ==
  [][\A b \in Backends :
       (\E i \in DOMAIN mounts : mounts[i].backend = b /\ "write" \notin mounts[i].perm)
       /\ last'.op # "hostRename" => fs'[b] = fs[b]]_vars

(* A call changes a backend only below the backendPath of one of its        *)
(* writable mounts; mkdir may also make the directories above it.  It takes *)
(* that every mount honours its backendPath: the root mount does not, nor a *)
(* mount that drops it.                                                     *)
Honoured(m) == (m.prefix = <<>> => m.backendPath.names = <<>>) /\ ~Dropped(m)

WritesConfined ==
  [][last'.op # "hostRename" /\ (\A i \in DOMAIN mounts : Honoured(mounts[i])) =>
       \A b \in {c \in Backends : fs'[c] # fs[c]} :
         \A p \in {q \in DOMAIN fs[b].tree \union DOMAIN fs'[b].tree :
                     \/ q \notin DOMAIN fs[b].tree
                     \/ q \notin DOMAIN fs'[b].tree
                     \/ fs[b].tree[q] # fs'[b].tree[q]} :
           \E i \in DOMAIN mounts :
             /\ mounts[i].backend = b /\ "write" \in mounts[i].perm
             /\ \/ IsPrefix(mounts[i].backendPath.names, p)
                \/ last'.op = "mkdir" /\ IsPrefix(p, mounts[i].backendPath.names)]_vars

(* A call that answers an errno has changed nothing: no half-made           *)
(* directories, no half-done move.                                         *)
FailureChangesNothing == [][last'.err # "ok" => UNCHANGED <<mounts, fs>>]_vars

(* A rename loses no node but the one at the destination that it replaces,  *)
(* a file or an empty directory: by the router where every backendPath is   *)
(* written as normalize() writes paths, by the host where its strings are.  *)
Canonical(t) == t = Text(t.names)

RenameConserves ==
  [][\/ last'.op = "rename" /\ (\A i \in DOMAIN mounts : Canonical(mounts[i].backendPath))
     \/ last'.op = "hostRename" /\ (\A t \in HostTexts : Canonical(t)) =>
       \A b \in {c \in Backends : fs'[c] # fs[c]} :
         LET lost == Inos(fs[b]) \ Inos(fs'[b])
         IN  /\ Inos(fs'[b]) \subseteq Inos(fs[b])
             /\ Cardinality(lost) <= 1
             /\ \A p \in DOMAIN fs[b].tree :
                  fs[b].tree[p].ino \in lost => ~HasChildren(fs[b].tree, p)]_vars

NodeOf(f, ino) == f.tree[CHOOSE p \in DOMAIN f.tree : f.tree[p].ino = ino]

(* The mode and the time of a node stay with it wherever it is moved, and   *)
(* a call changes them in no node but the one it names: the mode only by    *)
(* mkdir, the time only by writing the file or by utimes.                   *)
MetadataStaysWithNode ==
  [][\A b \in {c \in Backends : fs'[c] # fs[c]} :
       LET kept   == Inos(fs[b]) \intersect Inos(fs'[b])
           remade == {i \in kept : NodeOf(fs[b], i).mode # NodeOf(fs'[b], i).mode}
           dated  == {i \in kept : NodeOf(fs[b], i).mtime # NodeOf(fs'[b], i).mtime}
       IN  /\ \A i \in remade \union dated :
                \E p \in DOMAIN fs'[b].tree :
                  fs'[b].tree[p].ino = i /\ <<b, p>> \in last'.named
           /\ remade # {} => last'.op = "mkdir"
           /\ dated # {} => last'.op \in {"writeFile", "appendFile", "copyFile",
                                         "truncate", "utimes"}]_vars

(* vfs_mem.cpp:292: "Reject rename of directory into its own descendant     *)
(* (creates cycle)".  The check compares the two strings, so other strings  *)
(* of the same paths pass it: the host's, or those that the router makes of *)
(* a backendPath "/a/".                                                     *)
SelfRenameRejected ==
  [][last'.op \in {"rename", "hostRename"} /\ last'.err = "ok" =>
       \A b \in Backends :
         Cardinality(Inos(fs[b]) \ Inos(fs'[b])) <= 1]_vars
==============================================================================
