--------------------------- MODULE VirtualFS_proofs ---------------------------
(***************************************************************************)
(* Proofs about the router and the trees below it, for any backends,       *)
(* mounts, paths and contents: which mount a path goes to and with which   *)
(* permissions, what a call does to the backends' trees, and what a call   *)
(* that reads answers.                                                     *)
(***************************************************************************)
EXTENDS VirtualFS, MemFS_proofs

(* What makes the permissions hold: no backend has two mounts that differ   *)
(* in them, and the mounted entries are those the host has.  They are       *)
(* sorted, the longest prefix first.                                        *)
RouterInv ==
  /\ mounts \in Seq(MountEntries)
  /\ NoConflicts
  /\ Sorted(mounts)
  /\ fs = [b \in Backends |-> fs[b]]

LEMMA IntervalCardinality ==
  ASSUME NEW n \in Nat
  PROVE  IsFiniteSet(1..n) /\ Cardinality(1..n) = n
<1>1. IsFiniteSet(1..n) /\ Cardinality(1..n) = IF 1 > n THEN 0 ELSE n - 1 + 1
  BY FS_Interval
<1>2. (IF 1 > n THEN 0 ELSE n - 1 + 1) = n
  OBVIOUS
<1> QED
  BY <1>1, <1>2

(* resolve() leads to a backend that one of the mounts opens as asked for.  *)
LEMMA ResolveFacts ==
  ASSUME mounts \in Seq(MountEntries), NEW path, NEW needed,
         Resolve(path, needed).err = "ok"
  PROVE  \E i \in DOMAIN mounts :
           /\ Resolve(path, needed).backend = mounts[i].backend
           /\ needed \subseteq mounts[i].perm
<1> DEFINE norm == Normalize(path)
           hits == {i \in DOMAIN mounts : Matches(mounts[i], norm)}
           first == CHOOSE i \in hits : \A j \in hits : i <= j
           m == mounts[first]
<1>1. hits # {}
  BY DEF Resolve, Denied
<1>2. hits \in SUBSET Nat
  OBVIOUS
<1>3. first \in hits
  <2> HIDE DEF hits
  <2>1. \E i \in hits : \A j \in hits : i <= j
    BY <1>1, <1>2, LeastNumber
  <2> QED
    BY <2>1
<1>4. Resolve(path, needed)
        = IF needed \subseteq m.perm
          THEN [err |-> "ok", mount |-> m, backend |-> m.backend,
                sub |-> SubPath(m, norm).names, text |-> SubPath(m, norm)]
          ELSE Denied
  BY <1>1 DEF Resolve
<1> HIDE DEF m, first, norm
<1>5. needed \subseteq m.perm /\ Resolve(path, needed).backend = m.backend
  BY <1>4 DEF Denied
<1> QED
  BY <1>3, <1>5 DEF m

(* mount() puts its entry between two of the old ones.                      *)
LEMMA InsertFacts ==
  ASSUME NEW s \in Seq(MountEntries), NEW k \in 1..(Len(s) + 1),
         NEW e \in MountEntries
  PROVE  /\ InsertAt(s, k, e) \in Seq(MountEntries)
         /\ DOMAIN InsertAt(s, k, e) = 1..(Len(s) + 1)
         /\ \A i \in 1..(Len(s) + 1) :
              \/ i = k /\ InsertAt(s, k, e)[i] = e
              \/ i < k /\ i \in DOMAIN s /\ InsertAt(s, k, e)[i] = s[i]
              \/ i > k /\ i - 1 \in DOMAIN s /\ InsertAt(s, k, e)[i] = s[i - 1]
<1> DEFINE a == SubSeq(s, 1, k - 1)
           b == SubSeq(s, k, Len(s))
<1>1. /\ a \in Seq(MountEntries) /\ Len(a) = k - 1
      /\ \A i \in 1..(k - 1) : a[i] = s[i]
  OBVIOUS
<1>2. /\ b \in Seq(MountEntries) /\ Len(b) = Len(s) - k + 1
      /\ \A i \in 1..(Len(s) - k + 1) : b[i] = s[k + i - 1]
  OBVIOUS
<1>3. InsertAt(s, k, e) = (a \o <<e>>) \o b
  BY DEF InsertAt
<1> HIDE DEF a, b
<1> DEFINE c == a \o <<e>>
<1>4. /\ c \in Seq(MountEntries) /\ Len(c) = k
      /\ \A i \in 1..k : c[i] = IF i = k THEN e ELSE a[i]
  BY <1>1
<1>4a. c = a \o <<e>>
  OBVIOUS
<1> HIDE DEF c
<1>5. /\ c \o b \in Seq(MountEntries) /\ Len(c \o b) = Len(s) + 1
      /\ \A i \in 1..(Len(s) + 1) : (c \o b)[i] = IF i <= k THEN c[i] ELSE b[i - k]
  <2>1. Len(s) \in Nat /\ k \in Nat /\ Len(c) + Len(b) = Len(s) + 1
    BY <1>2, <1>4
  <2>2. c \o b \in Seq(MountEntries) /\ Len(c \o b) = Len(c) + Len(b)
    BY <1>2, <1>4, ConcatProperties
  <2>3. \A i \in 1..(Len(c) + Len(b)) :
          (c \o b)[i] = IF i <= Len(c) THEN c[i] ELSE b[i - Len(c)]
    BY <1>2, <1>4, ConcatProperties
  <2> QED
    BY <1>4, <2>1, <2>2, <2>3
<1>6. ASSUME NEW i \in 1..(Len(s) + 1)
      PROVE  \/ i = k /\ (c \o b)[i] = e
             \/ i < k /\ i \in DOMAIN s /\ (c \o b)[i] = s[i]
             \/ i > k /\ i - 1 \in DOMAIN s /\ (c \o b)[i] = s[i - 1]
  <2>1. CASE i = k
    BY <1>4, <1>5, <2>1
  <2>2. CASE i < k
    BY <1>1, <1>4, <1>5, <2>2
  <2>3. CASE i > k
    <3>1. i - k \in 1..(Len(s) - k + 1) /\ i - 1 \in DOMAIN s
      BY <2>3
    <3>2. b[i - k] = s[i - 1]
      <4>1. b[i - k] = s[k + (i - k) - 1]
        BY <1>2, <3>1
      <4>2. k + (i - k) - 1 = i - 1
        OBVIOUS
      <4> QED
        BY <4>1, <4>2
    <3> QED
      <4>1. ~(i <= k)
        BY <2>3
      <4>2. (c \o b)[i] = b[i - k]
        BY <1>5, <4>1
      <4> QED
        BY <3>1, <3>2, <4>2
  <2>4. i = k \/ i < k \/ i > k
    <3>1. Len(s) \in Nat
      OBVIOUS
    <3>2. k \in Int /\ i \in Int
      BY <3>1
    <3> QED
      BY ONLY <3>2, SMT
  <2> QED
    BY ONLY <2>1, <2>2, <2>3, <2>4, Zenon
<1>7. DOMAIN (c \o b) = 1..(Len(s) + 1)
  BY <1>5
<1> QED
  BY <1>3, <1>5, <1>6, <1>7 DEF c

(* The prefixes that are longer than that of a new entry come first, so     *)
(* their number says where the entry goes.                                  *)
LEMMA LongerComeFirst ==
  ASSUME NEW s \in Seq(MountEntries), Sorted(s), NEW m \in MountEntries,
         NEW longer, longer = {i \in DOMAIN s : Len(s[i].prefix) > Len(m.prefix)}
  PROVE  /\ Cardinality(longer) \in 0..Len(s)
         /\ \A i \in DOMAIN s : i <= Cardinality(longer) <=> i \in longer
<1> DEFINE T == (1..(Len(s) + 1)) \ longer
<1>1. Len(s) \in Nat /\ DOMAIN s = 1..Len(s) /\ longer \subseteq 1..Len(s)
  OBVIOUS
<1>2. \A n \in MountEntries : Len(n.prefix) \in Nat
  BY MountsAssumption DEF MountEntry
<1>3. \A i, j \in DOMAIN s : j \in longer /\ i < j => i \in longer
  <2> SUFFICES ASSUME NEW i \in DOMAIN s, NEW j \in DOMAIN s, j \in longer, i < j
               PROVE  i \in longer
    OBVIOUS
  <2>1. s[i] \in MountEntries /\ s[j] \in MountEntries
    OBVIOUS
  <2>2. Len(s[i].prefix) >= Len(s[j].prefix) /\ Len(s[j].prefix) > Len(m.prefix)
    BY DEF Sorted
  <2>3. Len(s[i].prefix) > Len(m.prefix)
    BY <1>2, <2>1, <2>2
  <2> QED BY <2>3
<1>4. PICK x \in T : \A y \in T : x <= y
  <2>1. T \in SUBSET Nat /\ Len(s) + 1 \in T
    BY <1>1
  <2> HIDE DEF T
  <2> QED BY <2>1, LeastNumber
<1>5. x \in 1..(Len(s) + 1) /\ x \notin longer
  OBVIOUS
<1>6. ASSUME NEW i \in 1..Len(s) PROVE i < x <=> i \in longer
  <2>1. i < x => i \in longer
    BY <1>1, <1>4, <1>5
  <2>2. ASSUME i \in longer, ~(i < x) PROVE FALSE
    <3>1. x < i
      BY <1>1, <1>5, <2>2
    <3>2. x \in DOMAIN s
      BY <1>1, <1>5, <3>1
    <3> QED BY <1>1, <1>3, <1>5, <2>2, <3>1, <3>2
  <2> QED BY <2>1, <2>2
<1>7. longer = 1..(x - 1)
  BY <1>1, <1>5, <1>6
<1>8. Cardinality(longer) = x - 1
  <2>1. x - 1 \in Nat
    BY <1>1, <1>5
  <2> QED BY <1>7, <2>1, IntervalCardinality
<1>9. x - 1 \in 0..Len(s)
  BY <1>1, <1>5
<1>10. ASSUME NEW i \in DOMAIN s PROVE i <= x - 1 <=> i \in longer
  <2>1. i \in Int /\ x \in Int /\ i \in 1..Len(s)
    BY <1>1, <1>5
  <2>2. i <= x - 1 <=> i < x
    BY <2>1
  <2> QED BY <1>6, <2>1, <2>2
<1> QED
  BY <1>8, <1>9, <1>10

(* mount() keeps the entries sorted and free of conflicts.                  *)
LEMMA MountKeepsInv ==
  ASSUME RouterInv, NEW m \in MountEntries, Mount(m)
  PROVE  RouterInv'
<1> USE DEF RouterInv
<1>1. fs' = fs
  BY DEF Mount
<1>2. CASE \E i \in DOMAIN mounts : Conflict(mounts[i], m)
  <2>1. mounts' = mounts
    BY <1>2 DEF Mount
  <2> QED
    BY <1>1, <2>1 DEF NoConflicts, Conflict, Sorted
<1>3. CASE ~\E i \in DOMAIN mounts : Conflict(mounts[i], m)
  <2> DEFINE longer == {i \in DOMAIN mounts : Len(mounts[i].prefix) > Len(m.prefix)}
             k == Cardinality(longer) + 1
  <2>1. mounts' = InsertAt(mounts, k, m)
    BY <1>3 DEF Mount
  <2>2. /\ k \in 1..(Len(mounts) + 1)
        /\ \A i \in DOMAIN mounts : i < k <=> i \in longer
    <3>1. /\ Cardinality(longer) \in 0..Len(mounts)
          /\ \A i \in DOMAIN mounts : i <= Cardinality(longer) <=> i \in longer
      <4> HIDE DEF longer
      <4> QED BY LongerComeFirst DEF longer
    <3>2. Len(mounts) \in Nat /\ DOMAIN mounts = 1..Len(mounts)
      OBVIOUS
    <3> HIDE DEF longer
    <3> QED
      BY <3>1, <3>2
  <2> HIDE DEF k
  <2>3. /\ mounts' \in Seq(MountEntries)
        /\ DOMAIN mounts' = 1..(Len(mounts) + 1)
        /\ \A i \in 1..(Len(mounts) + 1) :
             \/ i = k /\ mounts'[i] = m
             \/ i < k /\ i \in DOMAIN mounts /\ mounts'[i] = mounts[i]
             \/ i > k /\ i - 1 \in DOMAIN mounts /\ mounts'[i] = mounts[i - 1]
    <3>1. k \in 1..(Len(mounts) + 1) /\ mounts \in Seq(MountEntries)
      BY <2>2
    <3> HIDE DEF RouterInv
    <3>2. /\ InsertAt(mounts, k, m) \in Seq(MountEntries)
          /\ DOMAIN InsertAt(mounts, k, m) = 1..(Len(mounts) + 1)
          /\ \A i \in 1..(Len(mounts) + 1) :
               \/ i = k /\ InsertAt(mounts, k, m)[i] = m
               \/ i < k /\ i \in DOMAIN mounts /\ InsertAt(mounts, k, m)[i] = mounts[i]
               \/ i > k /\ i - 1 \in DOMAIN mounts /\ InsertAt(mounts, k, m)[i] = mounts[i - 1]
      BY <3>1, InsertFacts
    <3> QED BY <2>1, <3>2
  <2>4. NoConflicts'
    <3> SUFFICES ASSUME NEW i \in DOMAIN mounts', NEW j \in DOMAIN mounts'
                 PROVE  ~Conflict(mounts'[i], mounts'[j])
      BY DEF NoConflicts, Conflict
    <3> QED
      <4>1. \A l \in DOMAIN mounts' :
              mounts'[l] = m \/ \E n \in DOMAIN mounts : mounts'[l] = mounts[n]
        BY <2>3
      <4>2. \/ mounts'[i] = m
            \/ \E n \in DOMAIN mounts : mounts'[i] = mounts[n]
        BY <4>1
      <4>3. \/ mounts'[j] = m
            \/ \E n \in DOMAIN mounts : mounts'[j] = mounts[n]
        BY <4>1
      <4> HIDE DEF RouterInv
      <4>4. NoConflicts
        BY DEF RouterInv
      <4> QED BY <1>3, <4>2, <4>3, <4>4 DEF NoConflicts, Conflict
  <2>5. Sorted(mounts')
    <3> SUFFICES ASSUME NEW i \in DOMAIN mounts', NEW j \in DOMAIN mounts', i < j
                 PROVE  Len(mounts'[i].prefix) >= Len(mounts'[j].prefix)
      BY DEF Sorted
    <3>1. \A n \in MountEntries : Len(n.prefix) \in Nat
      BY MountsAssumption DEF MountEntry
    <3>2. \A l \in DOMAIN mounts :
            /\ mounts[l] \in MountEntries
            /\ l < k => Len(mounts[l].prefix) > Len(m.prefix)
            /\ ~(l < k) => ~(Len(mounts[l].prefix) > Len(m.prefix))
      BY <2>2
    <3>3. \A l, n \in DOMAIN mounts : l < n => Len(mounts[l].prefix) >= Len(mounts[n].prefix)
      BY DEF Sorted
    <3>4. i \in Int /\ j \in Int /\ k \in Int
      BY <2>2, <2>3
    <3>5. /\ \/ i = k /\ mounts'[i] = m
             \/ i < k /\ i \in DOMAIN mounts /\ mounts'[i] = mounts[i]
             \/ i > k /\ i - 1 \in DOMAIN mounts /\ mounts'[i] = mounts[i - 1]
          /\ \/ j = k /\ mounts'[j] = m
             \/ j < k /\ j \in DOMAIN mounts /\ mounts'[j] = mounts[j]
             \/ j > k /\ j - 1 \in DOMAIN mounts /\ mounts'[j] = mounts[j - 1]
      BY <2>3
    <3>6. /\ j > k => ~(j - 1 < k) /\ j - 1 \in Int
          /\ i < k /\ j > k => i < j - 1
          /\ i > k => i - 1 < j - 1 /\ j > k
          /\ i = k => j > k
          /\ j < k => i < k
      BY <3>4
    <3> DEFINE L(n) == Len(n.prefix)
    <3>7. L(m) \in Nat /\ \A l \in DOMAIN mounts : L(mounts[l]) \in Nat
      BY <3>1, <3>2
    <3>8. CASE i < k
      <4>1. L(mounts'[i]) > L(m) /\ mounts'[i] = mounts[i] /\ i \in DOMAIN mounts
        BY <3>2, <3>4, <3>5, <3>8
      <4>2. CASE j = k
        BY <3>4, <3>5, <3>7, <4>1, <4>2
      <4>3. CASE j < k
        BY <3>3, <3>4, <3>5, <4>1, <4>3
      <4>4. CASE j > k
        BY <3>3, <3>4, <3>5, <3>6, <3>8, <4>1, <4>4
      <4> QED BY <3>4, <4>2, <4>3, <4>4
    <3>9. CASE i = k
      <4>1. j - 1 \in DOMAIN mounts /\ mounts'[j] = mounts[j - 1] /\ ~(j - 1 < k)
        BY <3>4, <3>5, <3>6, <3>9
      <4>2. ~(L(mounts[j - 1]) > L(m)) /\ mounts'[i] = m
        BY <3>2, <3>4, <3>5, <3>9, <4>1
      <4> QED BY <3>7, <4>1, <4>2
    <3>10. CASE i > k
      <4>1. /\ i - 1 \in DOMAIN mounts /\ mounts'[i] = mounts[i - 1]
            /\ j - 1 \in DOMAIN mounts /\ mounts'[j] = mounts[j - 1]
            /\ i - 1 < j - 1
        BY <3>4, <3>5, <3>6, <3>10
      <4> QED BY <3>3, <4>1
    <3> QED
      BY <3>4, <3>8, <3>9, <3>10
  <2> QED
    BY <1>1, <2>3, <2>4, <2>5
<1> QED
  BY <1>2, <1>3

(* A call that a backend executes was resolved for writing.                 *)
ReadOnly(b) ==
  \E i \in DOMAIN mounts : mounts[i].backend = b /\ "write" \notin mounts[i].perm

LEMMA WriteFacts ==
  ASSUME RouterInv, NEW path, W(path).err = "ok"
  PROVE  ~ReadOnly(W(path).backend)
<1>1. PICK i \in DOMAIN mounts :
        W(path).backend = mounts[i].backend /\ "write" \in mounts[i].perm
  BY ResolveFacts DEF W, RouterInv
<1> QED
  BY <1>1 DEF ReadOnly, RouterInv, NoConflicts, Conflict

(* Return changes no tree but that of the backend that was resolved to.     *)
LEMMA ReturnFacts ==
  ASSUME RouterInv, NEW op, NEW r, NEW result, Return(op, r, result),
         r.err = "ok" => ~ReadOnly(r.backend)
  PROVE  RouterInv' /\ \A b \in Backends : ReadOnly(b) => fs'[b] = fs[b]
<1>1. mounts' = mounts
  BY DEF Return
<1>2. fs' = IF r.err = "ok" THEN [fs EXCEPT ![r.backend] = result.fs] ELSE fs
  BY DEF Return
<1>3. fs = [b \in Backends |-> fs[b]]
  BY DEF RouterInv
<1>4. fs' = [b \in Backends |-> fs'[b]]
  BY <1>2, <1>3
<1>5. RouterInv'
  BY <1>1, <1>4 DEF RouterInv, NoConflicts, Conflict, Sorted
<1>6. ASSUME NEW b \in Backends, ReadOnly(b) PROVE fs'[b] = fs[b]
  <2>1. CASE r.err = "ok"
    <3>1. b # r.backend
      BY <1>6, <2>1
    <3> QED
      BY <1>2, <1>3, <2>1, <3>1
  <2>2. CASE r.err # "ok"
    BY <1>2, <2>2
  <2> QED
    BY <2>1, <2>2
<1> QED
  BY <1>5, <1>6

(* One step of the router: every call is a Return with such an r.           *)
LEMMA RouterStep ==
  RouterInv /\ [Next]_vars =>
    /\ RouterInv'
    /\ (last'.op # "hostRename" /\ ~UNCHANGED vars) =>
         \A b \in Backends : ReadOnly(b) => fs'[b] = fs[b]
<1> DEFINE Goal == /\ RouterInv'
                   /\ (last'.op # "hostRename" /\ ~UNCHANGED vars) =>
                        \A b \in Backends : ReadOnly(b) => fs'[b] = fs[b]
<1> SUFFICES ASSUME RouterInv, [Next]_vars PROVE Goal
  OBVIOUS
<1>1. ASSUME NEW m \in MountEntries, Mount(m) PROVE Goal
  <2>1. fs' = fs
    BY <1>1 DEF Mount
  <2> QED
    BY <1>1, <2>1, MountKeepsInv
<1>2. ASSUME NEW p, NEW op, NEW result, Return(op, W(p), result) PROVE Goal
  BY <1>2, WriteFacts, ReturnFacts
<1>3. ASSUME NEW p \in Paths, NEW d \in Bytes, VWriteFile(p, d) \/ VAppendFile(p, d)
      PROVE  Goal
  BY <1>2, <1>3 DEF VWriteFile, VAppendFile
<1>4. ASSUME NEW p \in Paths, VUnlink(p) \/ VRmdir(p) PROVE Goal
  BY <1>2, <1>4 DEF VUnlink, VRmdir
<1>5. ASSUME NEW p \in Paths, NEW recursive \in BOOLEAN, NEW mode \in Modes,
             VMkdir(p, recursive, mode)
      PROVE  Goal
  BY <1>2, <1>5 DEF VMkdir
<1>5a. ASSUME NEW p \in Paths, NEW mtime \in Times, VUtimes(p, mtime) PROVE Goal
  BY <1>2, <1>5a DEF VUtimes
<1>6. ASSUME NEW p \in Paths, NEW n \in Sizes, VTruncate(p, n) PROVE Goal
  BY <1>2, <1>6 DEF VTruncate
<1>7. ASSUME NEW p \in Paths, NEW q \in Paths, VRename(p, q) PROVE Goal
  <2> DEFINE o == W(p)
             n == W(q)
             r == IF o.err = "ok" /\ n.err = "ok" /\ o.backend # n.backend
                  THEN [err |-> "EXDEV"]
                  ELSE IF o.err = "ok" THEN n ELSE o
  <2>1. PICK result : Return("rename", r, result)
    BY <1>7 DEF VRename
  <2>2. r.err = "ok" => r = W(q)
    OBVIOUS
  <2>3. r.err = "ok" => ~ReadOnly(r.backend)
    BY <2>2, WriteFacts
  <2> HIDE DEF r
  <2> QED
    BY <2>1, <2>3, ReturnFacts
<1>8. ASSUME NEW p \in Paths, NEW q \in Paths, VCopyFile(p, q) PROVE Goal
  <2> DEFINE s == Resolve(p, {"read"})
             r == IF s.err = "ok" THEN W(q) ELSE s
  <2>1. PICK result : Return("copyFile", r, result)
    BY <1>8 DEF VCopyFile
  <2>2. r.err = "ok" => r = W(q)
    OBVIOUS
  <2>3. r.err = "ok" => ~ReadOnly(r.backend)
    BY <2>2, WriteFacts
  <2> HIDE DEF r
  <2> QED
    BY <2>1, <2>3, ReturnFacts
<1>9. ASSUME NEW b \in Backends, NEW old, NEW new, HostRename(b, old, new) PROVE Goal
  <2>1. mounts' = mounts /\ last'.op = "hostRename"
    BY <1>9 DEF HostRename, Answer
  <2>2. PICK tree : fs' = [fs EXCEPT ![b] = tree]
    BY <1>9 DEF HostRename
  <2>3. fs' = [c \in Backends |-> fs'[c]]
    BY <2>2 DEF RouterInv
  <2> QED
    BY <2>1, <2>3 DEF RouterInv, NoConflicts, Conflict, Sorted
<1>10. CASE UNCHANGED vars
  BY <1>10 DEF vars, RouterInv, NoConflicts, Conflict, Sorted
<1> QED
  BY <1>1, <1>3, <1>4, <1>5, <1>5a, <1>6, <1>7, <1>8, <1>9, <1>10 DEF Next

LEMMA InitRouter == Init => RouterInv
<1> SUFFICES ASSUME Init PROVE RouterInv
  OBVIOUS
<1>1. PICK n \in 0..MaxMounts : mounts \in [1..n -> MountEntries]
  BY DEF Init, BoundedSeq, SeqOf
<1>2. mounts \in Seq(MountEntries)
  BY <1>1
<1> QED
  BY <1>2, BackendsAssumption DEF Init, RouterInv

LEMMA RouterInvariant == Spec => []RouterInv
BY InitRouter, RouterStep, PTL DEF Spec

(* vfs.cpp:11-47: whatever the constructor and mount() are given, no        *)
(* backend is ever mounted with two different permissions.                  *)
THEOREM MountsNeverConflict == Spec => []NoConflicts
<1>1. RouterInv => NoConflicts
  BY DEF RouterInv
<1> QED
  BY RouterInvariant, <1>1, PTL

(* vfs.cpp:44-46 and 87-117: a path goes to the mount with the longest       *)
(* prefix of it, in whatever order the mounts were made.                    *)
THEOREM LongestPrefixRouted == Spec => []LongestPrefixWins
<1>1. RouterInv => LongestPrefixWins
  <2> SUFFICES ASSUME RouterInv, NEW path \in Paths
               PROVE  LET r == Resolve(path, {})
                          hits == {i \in DOMAIN mounts : Matches(mounts[i], Normalize(path))}
                      IN  /\ r.err = "ok" <=> hits # {}
                          /\ r.err = "ok" =>
                               \A i \in hits : Len(mounts[i].prefix) <= Len(r.mount.prefix)
    BY DEF LongestPrefixWins
  <2> DEFINE norm == Normalize(path)
             hits == {i \in DOMAIN mounts : Matches(mounts[i], norm)}
             first == CHOOSE i \in hits : \A j \in hits : i <= j
             m == mounts[first]
  <2>1. CASE hits = {}
    BY <2>1 DEF Resolve, Denied
  <2>2. CASE hits # {}
    <3>1. hits \in SUBSET Nat /\ hits \subseteq DOMAIN mounts
      BY DEF RouterInv
    <3>2. first \in hits /\ \A j \in hits : first <= j
      <4> HIDE DEF hits
      <4>1. \E i \in hits : \A j \in hits : i <= j
        BY <2>2, <3>1, LeastNumber
      <4> QED BY <4>1
    <3>3. Resolve(path, {})
            = [err |-> "ok", mount |-> m, backend |-> m.backend,
                sub |-> SubPath(m, norm).names, text |-> SubPath(m, norm)]
      BY <2>2 DEF Resolve
    <3>4. ASSUME NEW i \in hits PROVE Len(mounts[i].prefix) <= Len(m.prefix)
      <4> HIDE DEF hits, first
      <4>1. i \in DOMAIN mounts /\ first \in DOMAIN mounts /\ first <= i
        BY <3>1, <3>2
      <4>2. i \in Nat /\ first \in Nat
        BY <3>1, <3>2
      <4>3. Len(mounts[i].prefix) \in Nat
        <5>1. mounts[i] \in MountEntries
          BY <4>1 DEF RouterInv
        <5> QED BY <5>1, MountsAssumption DEF MountEntry
      <4>4. Len(m.prefix) \in Nat
        <5>1. m \in MountEntries
          BY <4>1 DEF RouterInv
        <5> HIDE DEF m
        <5> QED BY <5>1, MountsAssumption DEF MountEntry
      <4>5. first = i \/ first < i
        BY <4>1, <4>2
      <4>6. first < i => Len(m.prefix) >= Len(mounts[i].prefix)
        BY <4>1 DEF RouterInv, Sorted
      <4> QED BY <4>3, <4>4, <4>5, <4>6
    <3> HIDE DEF m, norm
    <3>5. Resolve(path, {}).err = "ok" /\ Resolve(path, {}).mount = m
      BY <3>3
    <3> QED BY <2>2, <3>4, <3>5 DEF norm
  <2> QED BY <2>1, <2>2
<1> QED
  BY RouterInvariant, <1>1, PTL

(* vfs.cpp:87-216: no call of the router changes a backend that is mounted  *)
(* read-only, through whichever path and in whatever operation.             *)
THEOREM ReadOnlyBackendsUntouched == Spec => ReadOnlyUntouched
<1> DEFINE Untouched ==
      \A b \in Backends :
        (\E i \in DOMAIN mounts : mounts[i].backend = b /\ "write" \notin mounts[i].perm)
        /\ last'.op # "hostRename" => fs'[b] = fs[b]
<1>1. RouterInv /\ [Next]_vars => [Untouched]_vars
  BY RouterStep DEF ReadOnly
<1> QED
  BY RouterInvariant, <1>1, PTL DEF Spec, ReadOnlyUntouched

------------------------------------------------------------------------------
(* normalize().  The function of the turns of its loop exists.              *)

LEMMA PartsExist ==
  ASSUME NEW path, NEW l \in Nat
  PROVE  \E f : f = [i \in 0..l |-> IF i = 0 THEN <<>> ELSE Enter(f[i - 1], path[i])]
<1> DEFINE Good(n, f) == f = [i \in 0..n |-> IF i = 0 THEN <<>> ELSE Enter(f[i - 1], path[i])]
           S == {n \in Nat : \E f : Good(n, f)}
<1>1. 0 \in S
  <2> DEFINE f == [i \in 0..0 |-> <<>>]
  <2>1. Good(0, f)
    OBVIOUS
  <2> QED BY <2>1
<1>2. ASSUME NEW n \in S PROVE n + 1 \in S
  <2>1. PICK f : Good(n, f)
    OBVIOUS
  <2> DEFINE g == [i \in 0..(n + 1) |-> IF i = n + 1 THEN Enter(f[n], path[n + 1]) ELSE f[i]]
  <2>2. ASSUME NEW i \in 0..(n + 1) PROVE g[i] = IF i = 0 THEN <<>> ELSE Enter(g[i - 1], path[i])
    <3>1. CASE i = n + 1
      BY <3>1
    <3>2. CASE i # n + 1
      BY <2>1, <3>2
    <3> QED BY <3>1, <3>2
  <2>3. Good(n + 1, g)
    BY <2>2
  <2> HIDE DEF Good, g
  <2> QED BY <2>3
<1> HIDE DEF S
<1>3. S = Nat
  <2>1. S \in SUBSET Nat
    BY DEF S
  <2> QED BY <1>1, <1>2, <2>1, Induction
<1> QED
  BY <1>3 DEF S

LEMMA PartsDef ==
  ASSUME NEW path, Len(path) \in Nat
  PROVE  /\ Parts(path)[0] = <<>>
         /\ \A i \in 1..Len(path) : Parts(path)[i] = Enter(Parts(path)[i - 1], path[i])
<1> DEFINE f == Parts(path)
<1>1. f = [i \in 0..Len(path) |-> IF i = 0 THEN <<>> ELSE Enter(f[i - 1], path[i])]
  BY PartsExist DEF Parts
<1> HIDE DEF f
<1>2. f[0] = <<>>
  BY <1>1
<1>3. ASSUME NEW i \in 1..Len(path) PROVE f[i] = Enter(f[i - 1], path[i])
  <2>1. i \in 0..Len(path) /\ i # 0
    OBVIOUS
  <2> QED BY <1>1, <2>1
<1> QED
  BY <1>2, <1>3 DEF f

LEMMA EnterTyped ==
  ASSUME NEW s \in Seq(STRING), NEW n \in STRING
  PROVE  Enter(s, n) \in Seq(STRING)
<1>1. s # <<>> => Front(s) \in Seq(STRING)
  BY FrontFacts
<1>2. Append(s, n) \in Seq(STRING)
  BY AppendProperties
<1> QED
  BY <1>1, <1>2 DEF Enter

LEMMA PartsTyped ==
  ASSUME NEW path \in Seq(STRING)
  PROVE  \A i \in 0..Len(path) : Parts(path)[i] \in Seq(STRING)
<1> DEFINE f == Parts(path)
           S == {i \in Nat : i <= Len(path) => f[i] \in Seq(STRING)}
<1>1. Len(path) \in Nat /\ f[0] = <<>>
      /\ \A i \in 1..Len(path) : f[i] = Enter(f[i - 1], path[i])
  BY PartsDef
<1> HIDE DEF f
<1>2. 0 \in S
  <2>1. f[0] \in Seq(STRING)
    BY <1>1, EmptySeq
  <2> QED BY <2>1
<1>3. ASSUME NEW i \in S PROVE i + 1 \in S
  <2> SUFFICES ASSUME i + 1 <= Len(path) PROVE f[i + 1] \in Seq(STRING)
    OBVIOUS
  <2>1. i \in Nat /\ i + 1 \in 1..Len(path) /\ (i + 1) - 1 = i /\ i <= Len(path)
    BY <1>1
  <2>2. f[i] \in Seq(STRING) /\ path[i + 1] \in STRING
    BY <2>1
  <2>3. f[i + 1] = Enter(f[i], path[i + 1])
    BY <1>1, <2>1
  <2> QED BY <2>2, <2>3, EnterTyped
<1> HIDE DEF S
<1>4. S = Nat
  <2>1. S \in SUBSET Nat
    BY DEF S
  <2> QED BY <1>2, <1>3, <2>1, Induction
<1>5. \A i \in 0..Len(path) : i \in S /\ i <= Len(path)
  BY <1>1, <1>4
<1> QED
  BY <1>5 DEF S, f

LEMMA NormalizeTyped ==
  ASSUME NEW path \in Seq(STRING)
  PROVE  Normalize(path) \in Seq(STRING)
<1>1. Len(path) \in 0..Len(path)
  OBVIOUS
<1> QED
  BY <1>1, PartsTyped DEF Normalize

LEMMA LongerPath ==
  ASSUME NEW path \in Seq(STRING), NEW n \in STRING
  PROVE  /\ Append(path, n) \in Seq(STRING) /\ Len(Append(path, n)) = Len(path) + 1
         /\ Len(path) \in Nat
         /\ \A i \in 1..Len(path) : Append(path, n)[i] = path[i]
         /\ Append(path, n)[Len(path) + 1] = n
<1>1. Append(path, n) \in Seq(STRING)
  BY AppendProperties
<1>2. Len(Append(path, n)) = Len(path) + 1 /\ Append(path, n)[Len(path) + 1] = n
  BY AppendProperties
<1>3. \A i \in 1..Len(path) : Append(path, n)[i] = path[i]
  BY AppendProperties
<1>4. Len(path) \in Nat
  BY LenProperties
<1> QED
  BY <1>1, <1>2, <1>3, <1>4, Zenon

(* The parts of a path do not depend on what follows.                       *)
LEMMA PartsOfFront ==
  ASSUME NEW path \in Seq(STRING), NEW n \in STRING
  PROVE  \A i \in 0..Len(path) : Parts(Append(path, n))[i] = Parts(path)[i]
<1> DEFINE longer == Append(path, n)
           f == Parts(path)
           g == Parts(longer)
           S == {i \in Nat : i <= Len(path) => g[i] = f[i]}
<1>1. /\ longer \in Seq(STRING) /\ Len(longer) = Len(path) + 1 /\ Len(path) \in Nat
      /\ \A i \in 1..Len(path) : longer[i] = path[i]
  BY LongerPath
<1> HIDE DEF longer
<1>2. f[0] = <<>> /\ \A i \in 1..Len(path) : f[i] = Enter(f[i - 1], path[i])
  <2>1. Len(path) \in Nat
    BY <1>1
  <2> QED BY <2>1, PartsDef
<1>3. g[0] = <<>> /\ \A i \in 1..Len(longer) : g[i] = Enter(g[i - 1], longer[i])
  <2>1. Len(longer) \in Nat
    BY <1>1
  <2> QED BY <2>1, PartsDef
<1> HIDE DEF f, g
<1>4. 0 \in S
  BY <1>2, <1>3
<1>5. ASSUME NEW i \in S PROVE i + 1 \in S
  <2> SUFFICES ASSUME i + 1 <= Len(path) PROVE g[i + 1] = f[i + 1]
    OBVIOUS
  <2>1. i \in Nat /\ i + 1 \in 1..Len(path) /\ i + 1 \in 1..Len(longer) /\ (i + 1) - 1 = i
        /\ i <= Len(path)
    BY <1>1
  <2>2. g[i] = f[i] /\ longer[i + 1] = path[i + 1]
    BY <1>1, <2>1
  <2>3. g[i + 1] = Enter(g[i], longer[i + 1]) /\ f[i + 1] = Enter(f[i], path[i + 1])
    BY <1>2, <1>3, <2>1
  <2> QED BY <2>2, <2>3
<1> HIDE DEF S
<1>6. S = Nat
  <2>1. S \in SUBSET Nat
    BY DEF S
  <2> QED BY <1>4, <1>5, <2>1, Induction
<1>7. \A i \in 0..Len(path) : i \in S /\ i <= Len(path)
  BY <1>1, <1>6
<1> QED
  BY <1>7 DEF S, f, g, longer

LEMMA NormalizeAppend ==
  ASSUME NEW path \in Seq(STRING), NEW n \in STRING, n \notin {".", ".."}
  PROVE  Normalize(Append(path, n)) = Append(Normalize(path), n)
<1> DEFINE longer == Append(path, n)
<1>1. /\ longer \in Seq(STRING) /\ Len(longer) = Len(path) + 1 /\ Len(path) \in Nat
      /\ \A i \in 1..Len(path) : longer[i] = path[i]
      /\ longer[Len(path) + 1] = n
  BY LongerPath
<1>2. Parts(longer)[Len(path)] = Parts(path)[Len(path)]
  <2>1. Len(path) \in 0..Len(path)
    OBVIOUS
  <2> QED BY <2>1, PartsOfFront
<1> HIDE DEF longer
<1>3. \A x \in {".", ".."} : Contains(longer, x) <=> Contains(path, x)
  <2> SUFFICES ASSUME NEW x \in {".", ".."} PROVE Contains(longer, x) <=> Contains(path, x)
    OBVIOUS
  <2>1. (1..(Len(path) + 1)) = (1..Len(path)) \union {Len(path) + 1}
    BY <1>1
  <2>2. (\E i \in 1..Len(longer) : longer[i] = x) <=> \E i \in 1..Len(path) : path[i] = x
    BY <1>1, <2>1
  <2> QED BY <2>2 DEF Contains
<1>4. CASE Contains(path, ".") \/ Contains(path, "..")
  <2>1. Parts(longer)[Len(longer)] = Enter(Parts(longer)[Len(longer) - 1], longer[Len(longer)])
    <3>1. Len(longer) \in Nat /\ Len(longer) \in 1..Len(longer)
      BY <1>1
    <3> QED BY <3>1, PartsDef
  <2>2. Len(longer) - 1 = Len(path)
    BY <1>1
  <2>3. Parts(longer)[Len(longer)] = Enter(Parts(path)[Len(path)], n)
    BY <1>1, <1>2, <2>1, <2>2
  <2>4. Parts(longer)[Len(longer)] = Append(Parts(path)[Len(path)], n)
    BY <2>3 DEF Enter
  <2>5. Normalize(longer) = Parts(longer)[Len(longer)] /\ Normalize(path) = Parts(path)[Len(path)]
    BY <1>3, <1>4 DEF Normalize
  <2> QED BY <2>4, <2>5 DEF longer
<1>5. CASE ~(Contains(path, ".") \/ Contains(path, ".."))
  BY <1>3, <1>5 DEF Normalize, longer
<1> QED
  BY <1>4, <1>5

------------------------------------------------------------------------------
(* Where a path leads does not depend on what is needed there.              *)

Hits(path) == {i \in DOMAIN mounts : Matches(mounts[i], Normalize(path))}

FirstHit(path) == CHOOSE i \in Hits(path) : \A j \in Hits(path) : i <= j

LEMMA ResolveDef ==
  ASSUME mounts \in Seq(MountEntries), NEW path, NEW needed
  PROVE  /\ Hits(path) = {} => Resolve(path, needed) = Denied
         /\ Hits(path) # {} =>
              /\ FirstHit(path) \in Hits(path)
              /\ Resolve(path, needed)
                   = LET m == mounts[FirstHit(path)]
                     IN  IF needed \subseteq m.perm
                         THEN [err |-> "ok", mount |-> m, backend |-> m.backend,
                               sub |-> SubPath(m, Normalize(path)).names,
                               text |-> SubPath(m, Normalize(path))]
                         ELSE Denied
<1> DEFINE norm == Normalize(path)
           hits == {i \in DOMAIN mounts : Matches(mounts[i], norm)}
<1>1. Hits(path) = hits
  BY DEF Hits
<1>2. hits \in SUBSET Nat
  OBVIOUS
<1>3. CASE hits = {}
  BY <1>1, <1>3 DEF Resolve
<1>4. CASE hits # {}
  <2>1. FirstHit(path) \in Hits(path)
    <3> HIDE DEF hits
    <3>1. \E i \in hits : \A j \in hits : i <= j
      BY <1>2, <1>4, LeastNumber
    <3> QED BY <1>1, <3>1 DEF FirstHit
  <2>2. FirstHit(path) = CHOOSE i \in hits : \A j \in hits : i <= j
    BY <1>1 DEF FirstHit
  <2> QED BY <1>1, <1>4, <2>1, <2>2 DEF Resolve
<1> QED
  BY <1>3, <1>4

(* Where a path leads in the backend, by what the mount does with its       *)
(* backendPath.                                                             *)
LEMMA SubPathNames ==
  ASSUME NEW m \in MountEntries, NEW norm \in Seq(STRING), IsPrefix(m.prefix, norm)
  PROVE  /\ m.prefix \in Seq(STRING) /\ m.backendPath.names \in Seq(STRING)
         /\ m.prefix = <<>> => SubPath(m, norm).names = norm
         /\ m.prefix # <<>> => SubPath(m, norm).names \in
              {Rebased(norm, m.prefix, m.backendPath.names), Rebased(norm, m.prefix, <<>>)}
         /\ (m.prefix # <<>> /\ ~Dropped(m)) =>
              SubPath(m, norm).names = Rebased(norm, m.prefix, m.backendPath.names)
<1> DEFINE t == m.backendPath
           p == m.prefix
           rest == SubSeq(norm, Len(p) + 1, Len(norm))
<1>1. p \in Seq(STRING) /\ t.names \in Seq(STRING)
  BY MountsAssumption DEF MountEntry, Texts
<1>2. SubPath(m, norm).names = IF p = <<>> THEN norm
                               ELSE IF norm = p THEN t.names
                               ELSE IF Short(t) THEN rest ELSE t.names \o rest
  BY DEF SubPath, Joined, Text
<1>3. Rebased(norm, p, t.names) = t.names \o rest /\ Rebased(norm, p, <<>>) = <<>> \o rest
  BY DEF Rebased
<1>4. rest \in Seq(STRING) /\ (norm = p => rest = <<>>)
  <2>1. Len(p) \in 0..Len(norm)
    BY <1>1, PrefixIsSubSeq
  <2>2. rest \in Seq(STRING) /\ Len(rest) = Len(norm) - Len(p)
    BY <2>1, TailFacts
  <2> HIDE DEF rest
  <2> QED BY <1>1, <2>2
<1>5. Dropped(m) <=> p # <<>> /\ t.names # <<>> /\ Short(t)
  BY DEF Dropped
<1> HIDE DEF t, p, rest
<1>6. <<>> \o rest = rest /\ t.names \o <<>> = t.names
  BY <1>1, <1>4
<1>7. norm = p => SubPath(m, norm).names = IF p = <<>> THEN norm ELSE t.names \o rest
  BY <1>2, <1>4, <1>6
<1>8. norm # p => SubPath(m, norm).names = IF p = <<>> THEN norm
                                           ELSE IF Short(t) THEN <<>> \o rest ELSE t.names \o rest
  BY <1>2, <1>6
<1>9. t.names = <<>> => t.names \o rest = <<>> \o rest
  OBVIOUS
<1> QED
  BY <1>1, <1>3, <1>5, <1>7, <1>8, <1>9 DEF p, t

LEMMA SubPathFacts ==
  ASSUME NEW m \in MountEntries, NEW norm \in Seq(STRING), IsPrefix(m.prefix, norm)
  PROVE  /\ SubPath(m, norm).names \in Seq(STRING)
         /\ Honoured(m) => IsPrefix(m.backendPath.names, SubPath(m, norm).names)
<1> DEFINE s == m.backendPath.names
           x == SubPath(m, norm).names
<1>1. /\ m.prefix \in Seq(STRING) /\ s \in Seq(STRING)
      /\ m.prefix = <<>> => x = norm
      /\ m.prefix # <<>> => x \in {Rebased(norm, m.prefix, s), Rebased(norm, m.prefix, <<>>)}
      /\ (m.prefix # <<>> /\ ~Dropped(m)) => x = Rebased(norm, m.prefix, s)
  BY SubPathNames
<1>2. Honoured(m) => (m.prefix = <<>> => s = <<>>) /\ ~Dropped(m)
  BY DEF Honoured
<1> HIDE DEF s, x
<1>3. /\ Rebased(norm, m.prefix, s) \in Seq(STRING)
      /\ IsPrefix(s, Rebased(norm, m.prefix, s))
      /\ Rebased(norm, m.prefix, <<>>) \in Seq(STRING)
  <2>1. <<>> \in Seq(STRING)
    OBVIOUS
  <2> QED BY <1>1, <2>1, RebasedFacts
<1>4. IsPrefix(<<>>, norm)
  BY PrefixIsSubSeq
<1>5. x \in Seq(STRING) /\ (Honoured(m) => IsPrefix(s, x))
  BY <1>1, <1>2, <1>3, <1>4
<1> QED
  BY <1>5 DEF s, x

(* The slashes of two strings one after the other.                          *)
LEMMA TextsJoined ==
  ASSUME NEW s \in Seq(STRING), NEW r \in Seq(STRING), s # <<>>, r # <<>>
  PROVE  Joined(Text(s), Text(r)) = Text(s \o r)
<1> DEFINE a == Text(s).slashes
           b == Text(r).slashes
           k == Len(s)
           l == Len(r)
           c == Front(a) \o <<Last(a) + Head(b)>> \o Tail(b)
           d == Text(s \o r).slashes
<1>1. k \in Nat \ {0} /\ l \in Nat \ {0} /\ s \o r \in Seq(STRING) /\ Len(s \o r) = k + l
      /\ s \o r # <<>>
  OBVIOUS
<1>2. /\ a = [i \in 1..(k + 1) |-> IF i <= k THEN 1 ELSE 0]
      /\ b = [i \in 1..(l + 1) |-> IF i <= l THEN 1 ELSE 0]
  BY <1>1 DEF Text
<1>3. d = [i \in 1..((k + l) + 1) |-> IF i <= k + l THEN 1 ELSE 0]
  BY <1>1 DEF Text
<1> HIDE DEF a, b, d, k, l
<1>4. a \in Seq(Nat) /\ Len(a) = k + 1 /\ b \in Seq(Nat) /\ Len(b) = l + 1
      /\ d \in Seq(Nat) /\ Len(d) = (k + l) + 1
  BY <1>1, <1>2, <1>3
<1> DEFINE x == Front(a)
           y == <<Last(a) + Head(b)>>
           z == Tail(b)
<1>5. x \in Seq(Nat) /\ Len(x) = k /\ \A i \in 1..k : x[i] = 1
  <2>1. x = SubSeq(a, 1, k)
    BY <1>1, <1>4 DEF Front
  <2>2. /\ \A i \in 1..k : a[i] \in Nat /\ a[i] = 1
        /\ 1 \in Int /\ k \in Int
    BY <1>1, <1>2
  <2>3. /\ SubSeq(a, 1, k) \in Seq(Nat)
        /\ Len(SubSeq(a, 1, k)) = IF 1 <= k THEN k - 1 + 1 ELSE 0
        /\ \A i \in 1..(k - 1 + 1) : SubSeq(a, 1, k)[i] = a[1 + i - 1]
    BY <2>2, SubSeqProperties
  <2> HIDE DEF x
  <2> QED BY <1>1, <2>1, <2>2, <2>3
<1>6. y \in Seq(Nat) /\ Len(y) = 1 /\ y[1] = 1
  <2>1. Last(a) = 0 /\ Head(b) = 1
    BY <1>1, <1>2, <1>4 DEF Last
  <2> QED BY <2>1
<1>7. z \in Seq(Nat) /\ Len(z) = l /\ \A i \in 1..l : z[i] = IF i < l THEN 1 ELSE 0
  <2>1. b # <<>>
    BY <1>1, <1>4
  <2>2. Tail(b) \in Seq(Nat) /\ Len(Tail(b)) = Len(b) - 1
        /\ \A i \in 1..Len(Tail(b)) : Tail(b)[i] = b[i + 1]
    BY <1>4, <2>1, HeadTailProperties
  <2>3. ASSUME NEW i \in 1..l PROVE b[i + 1] = IF i < l THEN 1 ELSE 0
    BY <1>1, <1>2
  <2>4. Len(b) - 1 = l
    BY <1>1, <1>4
  <2> QED BY <2>2, <2>3, <2>4
<1> HIDE DEF x, y, z
<1>8. /\ x \o y \in Seq(Nat) /\ Len(x \o y) = k + 1
      /\ \A i \in 1..(k + 1) : (x \o y)[i] = 1
  <2>1. /\ x \o y \in Seq(Nat) /\ Len(x \o y) = k + 1
        /\ \A i \in 1..(k + 1) : (x \o y)[i] = IF i <= k THEN x[i] ELSE y[i - k]
    <3>1. /\ x \o y \in Seq(Nat) /\ Len(x \o y) = Len(x) + Len(y)
          /\ \A i \in 1..(Len(x) + Len(y)) :
               (x \o y)[i] = IF i <= Len(x) THEN x[i] ELSE y[i - Len(x)]
      BY <1>5, <1>6, ConcatProperties
    <3>2. Len(x) = k /\ Len(y) = 1
      BY <1>5, <1>6
    <3> QED BY <3>1, <3>2
  <2>2. ASSUME NEW i \in 1..(k + 1) PROVE (x \o y)[i] = 1
    <3>1. i <= k => i \in 1..k
      BY <1>1
    <3>2. ~(i <= k) => i - k = 1
      BY <1>1
    <3> QED BY <1>5, <1>6, <2>1, <3>1, <3>2
  <2> QED BY <2>1, <2>2
<1>9. /\ c \in Seq(Nat) /\ Len(c) = (k + l) + 1
      /\ \A i \in 1..((k + l) + 1) : c[i] = IF i <= k + 1 THEN (x \o y)[i] ELSE z[i - (k + 1)]
  <2>1. c = (x \o y) \o z
    BY DEF x, y, z
  <2> HIDE DEF c
  <2> DEFINE w == x \o y
  <2>2. w \in Seq(Nat) /\ Len(w) = k + 1
    BY <1>8
  <2> HIDE DEF w
  <2>3. /\ w \o z \in Seq(Nat) /\ Len(w \o z) = (k + 1) + l
        /\ \A i \in 1..((k + 1) + l) : (w \o z)[i] = IF i <= k + 1 THEN w[i] ELSE z[i - (k + 1)]
    <3>1. /\ w \o z \in Seq(Nat) /\ Len(w \o z) = Len(w) + Len(z)
          /\ \A i \in 1..(Len(w) + Len(z)) :
               (w \o z)[i] = IF i <= Len(w) THEN w[i] ELSE z[i - Len(w)]
      BY <1>7, <2>2, ConcatProperties
    <3>2. Len(w) = k + 1 /\ Len(z) = l
      BY <1>7, <2>2
    <3> QED BY <3>1, <3>2
  <2>4. (k + 1) + l = (k + l) + 1
    BY <1>1
  <2> QED BY <2>1, <2>3, <2>4 DEF w
<1>10. c = d
  <2> HIDE DEF c
  <2>1. ASSUME NEW i \in 1..Len(c) PROVE c[i] = d[i]
    <3>1. i \in 1..((k + l) + 1) /\ d[i] = IF i <= k + l THEN 1 ELSE 0
      BY <1>3, <1>9
    <3>2. CASE i <= k + 1
      <4>1. i \in 1..(k + 1) /\ i <= k + l
        BY <1>1, <3>1, <3>2
      <4>2. c[i] = 1
        BY <1>8, <1>9, <3>1, <3>2, <4>1
      <4> QED BY <3>1, <4>1, <4>2
    <3>3. CASE ~(i <= k + 1)
      <4>1. i - (k + 1) \in 1..l /\ (i - (k + 1) < l <=> i <= k + l)
        BY <1>1, <3>1, <3>3
      <4>2. c[i] = z[i - (k + 1)]
        BY <1>9, <3>1, <3>3
      <4> QED BY <1>7, <3>1, <4>1, <4>2
    <3> QED BY <3>2, <3>3
  <2> QED BY <1>4, <1>9, <2>1, SeqEqual
<1>11. Joined(Text(s), Text(r)) = [names |-> s \o r, slashes |-> c]
  BY DEF Joined, Text, a, b
<1>12. Text(s \o r) = [names |-> s \o r, slashes |-> d]
  BY DEF Text, d
<1> QED
  BY <1>10, <1>11, <1>12

(* A backendPath as normalize() writes paths makes such strings.            *)
LEMMA SubPathCanonical ==
  ASSUME NEW m \in MountEntries, NEW norm \in Seq(STRING), IsPrefix(m.prefix, norm),
         Canonical(m.backendPath)
  PROVE  SubPath(m, norm) = Text(SubPath(m, norm).names)
<1> DEFINE t == m.backendPath
           p == m.prefix
           r == SubSeq(norm, Len(p) + 1, Len(norm))
<1>1. p \in Seq(STRING) /\ t.names \in Seq(STRING) /\ t = Text(t.names)
  BY MountsAssumption DEF MountEntry, Texts, Canonical
<1>2. SubPath(m, norm) = IF p = <<>> THEN Text(norm)
                         ELSE IF norm = p THEN t
                         ELSE IF Short(t) THEN Text(r) ELSE Joined(t, Text(r))
  BY DEF SubPath
<1>3. \A x : Text(x).names = x
  BY DEF Text
<1> HIDE DEF t, p, r
<1>4. CASE p = <<>> \/ norm = p \/ Short(t)
  BY <1>1, <1>2, <1>3, <1>4
<1>5. CASE ~(p = <<>> \/ norm = p \/ Short(t))
  <2>1. t.names # <<>>
    <3> SUFFICES ASSUME t.names = <<>> PROVE FALSE
      OBVIOUS
    <3>1. t = Text(<<>>)
      BY <1>1
    <3>2. Text(<<>>).names = <<>> /\ Text(<<>>).slashes[1] = 1
      BY DEF Text
    <3>3. Short(t)
      BY <3>1, <3>2 DEF Short
    <3> QED BY <1>5, <3>3
  <2>2. r \in Seq(STRING) /\ r # <<>>
    <3>1. Len(p) < Len(norm) /\ Len(p) \in 0..Len(norm)
      BY <1>1, <1>5, PrefixIsSubSeq DEF p
    <3>2. r \in Seq(STRING) /\ Len(r) = Len(norm) - Len(p)
      BY <1>1, <3>1, TailFacts DEF r
    <3> QED BY <3>1, <3>2
  <2>3. SubPath(m, norm) = Joined(Text(t.names), Text(r))
    BY <1>1, <1>2, <1>5
  <2>4. Joined(Text(t.names), Text(r)) = Text(t.names \o r)
    BY <1>1, <2>1, <2>2, TextsJoined
  <2> QED BY <1>3, <2>3, <2>4
<1> QED
  BY <1>4, <1>5

(* Where every backendPath is so, the router passes such strings on.        *)
AllCanonical == \A i \in DOMAIN mounts : Canonical(mounts[i].backendPath)

LEMMA ResolvedText ==
  ASSUME mounts \in Seq(MountEntries), NEW path \in Seq(STRING), NEW needed,
         Resolve(path, needed).err = "ok"
  PROVE  LET r == Resolve(path, needed)
         IN  r.text.names = r.sub /\ (AllCanonical => r.text = Text(r.sub))
<1> DEFINE norm == Normalize(path)
           r == Resolve(path, needed)
           m == mounts[FirstHit(path)]
           s == SubPath(m, norm)
<1>1. Hits(path) # {}
  BY ResolveDef DEF Denied
<1>2. /\ FirstHit(path) \in Hits(path)
      /\ r = IF needed \subseteq m.perm
             THEN [err |-> "ok", mount |-> m, backend |-> m.backend, sub |-> s.names, text |-> s]
             ELSE Denied
  BY <1>1, ResolveDef
<1>3. FirstHit(path) \in DOMAIN mounts /\ IsPrefix(m.prefix, norm)
  BY <1>2 DEF Hits, Matches
<1>4. m \in MountEntries /\ norm \in Seq(STRING)
  <2>1. m \in MountEntries
    BY <1>3
  <2>2. norm \in Seq(STRING)
    BY NormalizeTyped
  <2> QED BY <2>1, <2>2
<1>5. AllCanonical => Canonical(m.backendPath)
  BY <1>3 DEF AllCanonical
<1> HIDE DEF m, norm
<1>6. AllCanonical => s = Text(s.names)
  BY <1>3, <1>4, <1>5, SubPathCanonical
<1> HIDE DEF s
<1>7. r.text = s /\ r.sub = s.names
  <2>1. r.err = "ok"
    OBVIOUS
  <2> HIDE DEF r
  <2> QED BY <1>2, <2>1 DEF Denied
<1> QED
  BY <1>6, <1>7

LEMMA ResolvedFacts ==
  ASSUME mounts \in Seq(MountEntries), NEW path \in Seq(STRING), NEW needed
  PROVE  /\ Resolve(path, needed).err \in {"ok", "EACCES"}
         /\ Resolve(path, needed).err = "ok" =>
              /\ Resolve(path, needed).backend \in Backends
              /\ Resolve(path, needed).sub \in Seq(STRING)
              /\ \E i \in DOMAIN mounts :
                   /\ mounts[i].backend = Resolve(path, needed).backend
                   /\ needed \subseteq mounts[i].perm
                   /\ Honoured(mounts[i]) =>
                        IsPrefix(mounts[i].backendPath.names, Resolve(path, needed).sub)
<1> DEFINE norm == Normalize(path)
           r == Resolve(path, needed)
           i == FirstHit(path)
           m == mounts[i]
           s == SubPath(m, norm).names
<1>1. CASE Hits(path) = {}
  <2>1. r = Denied
    BY <1>1, ResolveDef
  <2> HIDE DEF r
  <2> QED BY <2>1 DEF Denied, r
<1>2. CASE Hits(path) # {}
  <2>1. /\ i \in Hits(path)
        /\ r = IF needed \subseteq m.perm
               THEN [err |-> "ok", mount |-> m, backend |-> m.backend, sub |-> s,
                     text |-> SubPath(m, norm)]
               ELSE Denied
    BY <1>2, ResolveDef
  <2> HIDE DEF i
  <2>2. i \in DOMAIN mounts /\ IsPrefix(m.prefix, norm)
    BY <2>1 DEF Hits, Matches
  <2>3. m \in MountEntries /\ norm \in Seq(STRING)
    <3>1. m \in MountEntries
      BY <2>2
    <3>2. norm \in Seq(STRING)
      BY NormalizeTyped
    <3> QED BY <3>1, <3>2
  <2>4. m.backend \in Backends
    BY <2>3, MountsAssumption DEF MountEntry
  <2> HIDE DEF norm
  <2>5. s \in Seq(STRING) /\ (Honoured(m) => IsPrefix(m.backendPath.names, s))
    <3> HIDE DEF m
    <3> QED BY <2>2, <2>3, SubPathFacts
  <2> HIDE DEF s, r
  <2>6. CASE needed \subseteq m.perm
    <3>1. r.err = "ok" /\ r.backend = m.backend /\ r.sub = s
      BY <2>1, <2>6
    <3>2. r.backend \in Backends /\ r.sub \in Seq(STRING)
      BY <2>4, <2>5, <3>1
    <3>3. \E j \in DOMAIN mounts :
            /\ mounts[j].backend = r.backend
            /\ needed \subseteq mounts[j].perm
            /\ Honoured(mounts[j]) => IsPrefix(mounts[j].backendPath.names, r.sub)
      BY <2>2, <2>5, <2>6, <3>1
    <3> QED BY <3>1, <3>2, <3>3 DEF r
  <2>7. CASE ~(needed \subseteq m.perm)
    <3>1. r.err = "EACCES"
      BY <2>1, <2>7 DEF Denied
    <3> QED BY <3>1 DEF r
  <2> QED BY <2>6, <2>7
<1> QED
  BY <1>1, <1>2

------------------------------------------------------------------------------
(* The trees under the router.  Every step is one of five kinds.            *)

Answers == Errno \union {"ok", "EXDEV", "invalid_argument"}

TreesInv ==
  /\ RouterInv
  /\ \A b \in Backends : GoodFS(fs[b])
  /\ last.err \in Answers

(* A mount is added or refused.                                             *)
Mounting ==
  /\ fs' = fs
  /\ last'.op = "mount" /\ last'.err \in {"ok", "invalid_argument"}
  /\ last'.err # "ok" => mounts' = mounts

(* No backend is called.                                                    *)
Refusing == mounts' = mounts /\ fs' = fs /\ last'.err \in {"EACCES", "EXDEV"}

(* A backend b is called, with what it answers and leaves in result.        *)
Executing(op, b, named, result) ==
  /\ b \in Backends
  /\ mounts' = mounts
  /\ fs' = [fs EXCEPT ![b] = result.fs]
  /\ last' = [op |-> op, err |-> result.err, named |-> named]
  /\ Outcome(fs[b], result)

Dating == {"writeFile", "appendFile", "copyFile", "truncate", "utimes"}

TreeOps == {"writeFile", "appendFile", "unlink", "rmdir", "mkdir", "utimes", "truncate", "copyFile"}

(* What an operation op on a path s of the backend may do to its tree.      *)
Effect(op, f, g, s) ==
  /\ Touches(f, g, s)
  /\ op # "mkdir" => AddsAt(f, g, s) /\ KeepsMode(f, g, s)
  /\ op \notin Dating => KeepsTime(f, g, s)

Acting(op, path, result) ==
  /\ W(path).err = "ok"
  /\ Executing(op, W(path).backend, {<<W(path).backend, W(path).sub>>}, result)
  /\ Effect(op, fs[W(path).backend], result.fs, W(path).sub)

Moving(p, q, result) ==
  /\ W(p).err = "ok" /\ W(q).err = "ok" /\ W(p).backend = W(q).backend
  /\ Executing("rename", W(q).backend, {<<W(q).backend, W(q).sub>>}, result)
  /\ Relocates(fs[W(q).backend], result.fs, W(p).sub, W(q).sub)
  /\ AllCanonical => Conserves(fs[W(q).backend], result.fs, W(q).sub)

(* The strings that the host passes are as normalize() writes paths.        *)
HostCanonical == \A t \in HostTexts : Canonical(t)

HostMoving(b, old, new, result) ==
  /\ Executing("hostRename", b, {}, result)
  /\ Relocates(fs[b], result.fs, old, new)
  /\ HostCanonical => Conserves(fs[b], result.fs, new)

(* A call on one path: where it is not refused, the backend has executed it. *)
LEMMA ReturnActs ==
  ASSUME TreesInv, NEW op, NEW path \in Seq(STRING), NEW result,
         Return(op, W(path), result),
         W(path).err = "ok" =>
           /\ Outcome(fs[W(path).backend], result)
           /\ Effect(op, fs[W(path).backend], result.fs, W(path).sub)
  PROVE  Refusing \/ Acting(op, path, result)
<1> DEFINE r == W(path)
<1>1. r.err \in {"ok", "EACCES"} /\ (r.err = "ok" => r.backend \in Backends)
  BY ResolvedFacts DEF TreesInv, RouterInv, W
<1> HIDE DEF r
<1>2. /\ mounts' = mounts
      /\ fs' = IF r.err = "ok" THEN [fs EXCEPT ![r.backend] = result.fs] ELSE fs
      /\ last' = IF r.err = "ok"
                 THEN [op |-> op, err |-> result.err, named |-> {<<r.backend, r.sub>>}]
                 ELSE [op |-> op, err |-> r.err, named |-> {}]
  BY DEF Return, Answer, r
<1>3. CASE r.err = "ok"
  BY <1>1, <1>2, <1>3 DEF Acting, Executing, r
<1>4. CASE r.err # "ok"
  <2>1. r.err = "EACCES"
    BY <1>1, <1>4
  <2> QED BY <1>2, <2>1 DEF Refusing
<1> QED
  BY <1>3, <1>4

LEMMA ResolvesToGood ==
  ASSUME TreesInv, NEW path \in Seq(STRING), NEW needed, Resolve(path, needed).err = "ok"
  PROVE  /\ Resolve(path, needed).backend \in Backends
         /\ GoodFS(fs[Resolve(path, needed).backend])
         /\ Resolve(path, needed).sub \in Seq(STRING)
BY ResolvedFacts DEF TreesInv, RouterInv

(* The calls on one path.                                                   *)
LEMMA CallsAct ==
  ASSUME TreesInv, NEW path \in Paths
  PROVE  /\ \A d \in Bytes : VWriteFile(path, d) => Refusing \/ \E result : Acting("writeFile", path, result)
         /\ \A d \in Bytes : VAppendFile(path, d) => Refusing \/ \E result : Acting("appendFile", path, result)
         /\ VUnlink(path) => Refusing \/ \E result : Acting("unlink", path, result)
         /\ VRmdir(path) => Refusing \/ \E result : Acting("rmdir", path, result)
         /\ \A recursive \in BOOLEAN, mode \in Modes :
              VMkdir(path, recursive, mode) => Refusing \/ \E result : Acting("mkdir", path, result)
         /\ \A mtime \in Times : VUtimes(path, mtime) => Refusing \/ \E result : Acting("utimes", path, result)
         /\ \A n \in Sizes : VTruncate(path, n) => Refusing \/ \E result : Acting("truncate", path, result)
<1> DEFINE r == W(path)
           f == fs[r.backend]
<1>1. path \in Seq(STRING)
  BY ArgumentsAssumption
<1>2. r.err = "ok" => GoodFS(f) /\ r.sub \in Seq(STRING)
  BY <1>1, ResolvesToGood DEF W
<1>3. ASSUME NEW op, NEW result, Return(op, W(path), result),
             r.err = "ok" => Outcome(f, result) /\ Effect(op, f, result.fs, r.sub)
      PROVE  Refusing \/ Acting(op, path, result)
  BY <1>1, <1>3, ReturnActs
<1>4. ASSUME NEW d \in Bytes, VWriteFile(path, d)
      PROVE  Refusing \/ \E result : Acting("writeFile", path, result)
  <2> DEFINE result == WriteFile(f, r.sub, d)
  <2>1. d \in Seq(0..255)
    BY ArgumentsAssumption
  <2>2. r.err = "ok" => Outcome(f, result) /\ Effect("writeFile", f, result.fs, r.sub)
    <3> HIDE DEF r, f
    <3> QED BY <1>2, <2>1, WriteFileFacts DEF Effect, Dating
  <2>3. Return("writeFile", W(path), result)
    BY <1>4 DEF VWriteFile
  <2> HIDE DEF result, r, f
  <2> QED BY <1>3, <2>2, <2>3
<1>5. ASSUME NEW d \in Bytes, VAppendFile(path, d)
      PROVE  Refusing \/ \E result : Acting("appendFile", path, result)
  <2> DEFINE result == AppendFile(f, r.sub, d)
  <2>1. d \in Seq(0..255)
    BY ArgumentsAssumption
  <2>2. r.err = "ok" => Outcome(f, result) /\ Effect("appendFile", f, result.fs, r.sub)
    <3> HIDE DEF r, f
    <3> QED BY <1>2, <2>1, AppendFileFacts DEF Effect, Dating
  <2>3. Return("appendFile", W(path), result)
    BY <1>5 DEF VAppendFile
  <2> HIDE DEF result, r, f
  <2> QED BY <1>3, <2>2, <2>3
<1>6. ASSUME VUnlink(path)
      PROVE  Refusing \/ \E result : Acting("unlink", path, result)
  <2> DEFINE result == Unlink(f, r.sub)
  <2>1. r.err = "ok" => Outcome(f, result) /\ Effect("unlink", f, result.fs, r.sub)
    <3> HIDE DEF r, f
    <3> QED BY <1>2, UnlinkFacts DEF Effect, Dating
  <2>2. Return("unlink", W(path), result)
    BY <1>6 DEF VUnlink
  <2> HIDE DEF result, r, f
  <2> QED BY <1>3, <2>1, <2>2
<1>7. ASSUME VRmdir(path)
      PROVE  Refusing \/ \E result : Acting("rmdir", path, result)
  <2> DEFINE result == Rmdir(f, r.sub)
  <2>1. r.err = "ok" => Outcome(f, result) /\ Effect("rmdir", f, result.fs, r.sub)
    <3> HIDE DEF r, f
    <3> QED BY <1>2, RmdirFacts DEF Effect, Dating
  <2>2. Return("rmdir", W(path), result)
    BY <1>7 DEF VRmdir
  <2> HIDE DEF result, r, f
  <2> QED BY <1>3, <2>1, <2>2
<1>8. ASSUME NEW recursive \in BOOLEAN, NEW mode \in Modes, VMkdir(path, recursive, mode)
      PROVE  Refusing \/ \E result : Acting("mkdir", path, result)
  <2> DEFINE result == IF recursive THEN MkdirAll(f, r.sub, mode) ELSE Mkdir(f, r.sub, mode)
  <2>1. mode \in Mode
    BY ArgumentsAssumption
  <2>2. r.err = "ok" => Outcome(f, result) /\ Effect("mkdir", f, result.fs, r.sub)
    <3> HIDE DEF r, f
    <3>1. CASE recursive
      BY <1>2, <2>1, <3>1, MkdirAllFacts DEF Effect
    <3>2. CASE ~recursive
      BY <1>2, <2>1, <3>2, MkdirFacts DEF Effect
    <3> QED BY <3>1, <3>2
  <2>3. Return("mkdir", W(path), result)
    BY <1>8 DEF VMkdir
  <2> HIDE DEF result, r, f
  <2> QED BY <1>3, <2>2, <2>3
<1>9. ASSUME NEW mtime \in Times, VUtimes(path, mtime)
      PROVE  Refusing \/ \E result : Acting("utimes", path, result)
  <2> DEFINE result == Utimes(f, r.sub, mtime)
  <2>1. mtime \in Int
    BY ArgumentsAssumption
  <2>2. r.err = "ok" => Outcome(f, result) /\ Effect("utimes", f, result.fs, r.sub)
    <3> HIDE DEF r, f
    <3> QED BY <1>2, <2>1, UtimesFacts DEF Effect, Dating
  <2>3. Return("utimes", W(path), result)
    BY <1>9 DEF VUtimes
  <2> HIDE DEF result, r, f
  <2> QED BY <1>3, <2>2, <2>3
<1>10. ASSUME NEW n \in Sizes, VTruncate(path, n)
      PROVE  Refusing \/ \E result : Acting("truncate", path, result)
  <2> DEFINE result == Truncate(f, r.sub, n)
  <2>1. n \in Int
    BY ArgumentsAssumption
  <2>2. r.err = "ok" => Outcome(f, result) /\ Effect("truncate", f, result.fs, r.sub)
    <3> HIDE DEF r, f
    <3> QED BY <1>2, <2>1, TruncateFacts DEF Effect, Dating
  <2>3. Return("truncate", W(path), result)
    BY <1>10 DEF VTruncate
  <2> HIDE DEF result, r, f
  <2> QED BY <1>3, <2>2, <2>3
<1> QED
  BY <1>4, <1>5, <1>6, <1>7, <1>8, <1>9, <1>10, Zenon

(* A call that resolve() has refused.                                       *)
LEMMA ReturnRefuses ==
  ASSUME NEW op, NEW r, NEW result, Return(op, r, result), r.err \in {"EACCES", "EXDEV"}
  PROVE  Refusing
BY DEF Return, Answer, Refusing

(* copyFile is a write at its destination, also between two backends.       *)
LEMMA CopyActs ==
  ASSUME TreesInv, NEW src \in Paths, NEW dst \in Paths, VCopyFile(src, dst)
  PROVE  Refusing \/ \E result : Acting("copyFile", dst, result)
<1> DEFINE s == Resolve(src, {"read"})
           d == W(dst)
           f == fs[d.backend]
           data == ReadFile(fs[s.backend], s.sub)
           result == CASE s.backend = d.backend -> CopyFile(f, s.sub, d.sub)
                       [] s.backend # d.backend /\ data.err = "ok" -> WriteFile(f, d.sub, data.data)
                       [] OTHER -> [err |-> data.err, fs |-> f]
<1>1. src \in Seq(STRING) /\ dst \in Seq(STRING)
  BY ArgumentsAssumption
<1>2. Return("copyFile", IF s.err = "ok" THEN W(dst) ELSE s, result)
  BY DEF VCopyFile
<1>3. CASE s.err = "ok"
  <2>1. GoodFS(fs[s.backend]) /\ s.sub \in Seq(STRING)
    BY <1>1, <1>3, ResolvesToGood
  <2>2. d.err = "ok" => GoodFS(f) /\ d.sub \in Seq(STRING)
    BY <1>1, ResolvesToGood DEF W
  <2>3. ASSUME d.err = "ok" PROVE Outcome(f, result) /\ Effect("copyFile", f, result.fs, d.sub)
    <3> HIDE DEF s, d, f
    <3>1. GoodFS(f) /\ d.sub \in Seq(STRING)
      BY <2>2, <2>3
    <3>2. CASE s.backend = d.backend
      <4>1. result = CopyFile(f, s.sub, d.sub)
        BY <3>2
      <4> HIDE DEF result
      <4> QED BY <2>1, <3>1, <4>1, CopyFileFacts DEF Effect, Dating
    <3>3. CASE s.backend # d.backend /\ data.err = "ok"
      <4>1. result = WriteFile(f, d.sub, data.data)
        BY <3>3
      <4>2. data.data \in Seq(0..255)
        BY <2>1, <3>3, ReadFileFacts
      <4> HIDE DEF result, data
      <4> QED BY <3>1, <4>1, <4>2, WriteFileFacts DEF Effect, Dating
    <3>4. CASE s.backend # d.backend /\ data.err # "ok"
      <4>1. result.err = data.err /\ result.fs = f
        BY <3>4
      <4>2. data.err \in Errno
        BY <2>1, <3>4, ReadFileFacts
      <4> HIDE DEF result, data
      <4>3. Touches(f, f, d.sub) /\ AddsAt(f, f, d.sub) /\ KeepsMode(f, f, d.sub)
        BY NothingTouched
      <4> QED BY <3>1, <4>1, <4>2, <4>3 DEF Outcome, Effect, Dating
    <3> QED BY <3>2, <3>3, <3>4
  <2>4. Return("copyFile", W(dst), result)
    BY <1>2, <1>3
  <2> HIDE DEF result
  <2> QED BY <1>1, <2>3, <2>4, ReturnActs
<1>4. CASE s.err # "ok"
  <2>1. s.err = "EACCES"
    BY <1>1, <1>4, ResolvedFacts DEF TreesInv, RouterInv
  <2>2. Return("copyFile", s, result)
    BY <1>2, <1>4
  <2> HIDE DEF s, result
  <2> QED BY <2>1, <2>2, ReturnRefuses
<1> QED
  BY <1>3, <1>4

LEMMA RenameActs ==
  ASSUME TreesInv, NEW old \in Paths, NEW new \in Paths, VRename(old, new)
  PROVE  Refusing \/ \E result : Moving(old, new, result)
<1> DEFINE o == W(old)
           n == W(new)
           r == IF o.err = "ok" /\ n.err = "ok" /\ o.backend # n.backend
                THEN [err |-> "EXDEV"]
                ELSE IF o.err = "ok" THEN n ELSE o
           result == Rename(fs[o.backend], o.text, n.text)
<1>1. old \in Seq(STRING) /\ new \in Seq(STRING)
  BY ArgumentsAssumption
<1>2. Return("rename", r, result)
  BY DEF VRename
<1>3. o.err \in {"ok", "EACCES"} /\ n.err \in {"ok", "EACCES"}
  BY <1>1, ResolvedFacts DEF TreesInv, RouterInv, W
<1>4. o.err = "ok" => GoodFS(fs[o.backend]) /\ o.sub \in Seq(STRING) /\ o.backend \in Backends
  BY <1>1, ResolvesToGood DEF W
<1>5. n.err = "ok" => n.sub \in Seq(STRING)
  BY <1>1, ResolvesToGood DEF W
<1>6. CASE o.err = "ok" /\ n.err = "ok" /\ o.backend = n.backend
  <2> DEFINE f == fs[n.backend]
             t == o.text
             u == n.text
  <2>1. r = n
    BY <1>6
  <2>2. /\ t.names = o.sub /\ u.names = n.sub
        /\ AllCanonical => t = Text(o.sub) /\ u = Text(n.sub)
    BY <1>1, <1>6, ResolvedText DEF TreesInv, RouterInv, W
  <2>3. GoodFS(f) /\ o.sub \in Seq(STRING) /\ n.sub \in Seq(STRING) /\ n.backend \in Backends
    BY <1>4, <1>5, <1>6
  <2>4. result = Rename(f, t, u)
    BY <1>6
  <2> HIDE DEF r, result, o, n, t, u, f
  <2>5. Outcome(f, Rename(f, t, u)) /\ Relocates(f, Rename(f, t, u).fs, t.names, u.names)
        /\ (AllCanonical => Conserves(f, Rename(f, t, u).fs, u.names))
    <3>1. t.names \in Seq(STRING) /\ u.names \in Seq(STRING)
          /\ (AllCanonical => t = Text(t.names) /\ u = Text(u.names))
      BY <2>2, <2>3
    <3> QED BY <2>3, <3>1, RenameFacts
  <2>6. Outcome(f, result) /\ Relocates(f, result.fs, o.sub, n.sub)
        /\ (AllCanonical => Conserves(f, result.fs, n.sub))
    BY <2>2, <2>4, <2>5
  <2>7. /\ mounts' = mounts
        /\ fs' = [fs EXCEPT ![n.backend] = result.fs]
        /\ last' = [op |-> "rename", err |-> result.err, named |-> {<<n.backend, n.sub>>}]
    BY <1>2, <1>6, <2>1 DEF Return, Answer
  <2>8. Executing("rename", n.backend, {<<n.backend, n.sub>>}, result)
    BY <2>3, <2>6, <2>7 DEF Executing, f
  <2> QED BY <1>6, <2>6, <2>8 DEF Moving, o, n, f
<1>7. CASE ~(o.err = "ok" /\ n.err = "ok" /\ o.backend = n.backend)
  <2> HIDE DEF o, n, result
  <2>1. r.err \in {"EACCES", "EXDEV"}
    BY <1>3, <1>7
  <2> HIDE DEF r
  <2> QED BY <1>2, <2>1, ReturnRefuses
<1> QED
  BY <1>6, <1>7

LEMMA HostActs ==
  ASSUME TreesInv, NEW b \in Backends, NEW old \in HostTexts, NEW new \in HostTexts,
         HostRename(b, old, new)
  PROVE  /\ old.names \in Seq(STRING) /\ new.names \in Seq(STRING)
         /\ \E result : HostMoving(b, old.names, new.names, result)
<1> DEFINE f == fs[b]
           result == Rename(f, old, new)
<1>1. old.names \in Seq(STRING) /\ new.names \in Seq(STRING)
  BY ArgumentsAssumption DEF Texts
<1>2. HostCanonical => old = Text(old.names) /\ new = Text(new.names)
  BY DEF HostCanonical, Canonical
<1>3. mounts' = mounts /\ fs' = [fs EXCEPT ![b] = result.fs]
      /\ last' = [op |-> "hostRename", err |-> result.err, named |-> {}]
  BY DEF HostRename, Answer
<1>4. GoodFS(f)
  BY DEF TreesInv
<1>5. /\ Outcome(f, result) /\ Relocates(f, result.fs, old.names, new.names)
      /\ HostCanonical => Conserves(f, result.fs, new.names)
  <2> HIDE DEF f
  <2> QED BY <1>1, <1>2, <1>4, RenameFacts
<1> HIDE DEF result
<1> QED
  BY <1>1, <1>3, <1>5 DEF HostMoving, Executing

(* Every step of the router and the host.                                   *)
LEMMA StepKinds ==
  ASSUME TreesInv, Next
  PROVE  \/ Mounting
         \/ Refusing
         \/ \E op \in TreeOps, path \in Seq(STRING) : \E result : Acting(op, path, result)
         \/ \E p, q \in Seq(STRING) : \E result : Moving(p, q, result)
         \/ \E b \in Backends, p, q \in Seq(STRING) : \E result : HostMoving(b, p, q, result)
<1> DEFINE Kinds ==
             \/ Mounting
             \/ Refusing
             \/ \E op \in TreeOps, path \in Seq(STRING) : \E result : Acting(op, path, result)
             \/ \E p, q \in Seq(STRING) : \E result : Moving(p, q, result)
             \/ \E b \in Backends, p, q \in Seq(STRING) : \E result : HostMoving(b, p, q, result)
<1>1. Paths \subseteq Seq(STRING)
  BY ArgumentsAssumption
<1>2. ASSUME NEW m \in MountEntries, Mount(m) PROVE Kinds
  <2>1. CASE \E i \in DOMAIN mounts : Conflict(mounts[i], m)
    BY <1>2, <2>1 DEF Mount, Answer, Mounting
  <2>2. CASE ~\E i \in DOMAIN mounts : Conflict(mounts[i], m)
    <3>1. last' = [op |-> "mount", err |-> "ok", named |-> {}] /\ fs' = fs
      BY <1>2, <2>2 DEF Mount, Answer
    <3> QED BY <3>1 DEF Mounting
  <2> QED BY <2>1, <2>2
<1>3. ASSUME NEW p \in Paths, NEW op \in TreeOps, Refusing \/ \E result : Acting(op, p, result)
      PROVE  Kinds
  BY <1>1, <1>3
<1>4. ASSUME NEW p \in Paths, NEW d \in Bytes, VWriteFile(p, d) \/ VAppendFile(p, d)
      PROVE  Kinds
  <2>1. {"writeFile", "appendFile"} \subseteq TreeOps
    BY DEF TreeOps
  <2> HIDE DEF Kinds
  <2> QED BY <1>3, <1>4, <2>1, CallsAct
<1>5. ASSUME NEW p \in Paths, VUnlink(p) \/ VRmdir(p) PROVE Kinds
  <2>1. {"unlink", "rmdir"} \subseteq TreeOps
    BY DEF TreeOps
  <2> HIDE DEF Kinds
  <2> QED BY <1>3, <1>5, <2>1, CallsAct
<1>6. ASSUME NEW p \in Paths, NEW recursive \in BOOLEAN, NEW mode \in Modes,
             VMkdir(p, recursive, mode)
      PROVE  Kinds
  <2>1. "mkdir" \in TreeOps
    BY DEF TreeOps
  <2> HIDE DEF Kinds
  <2> QED BY <1>3, <1>6, <2>1, CallsAct
<1>7. ASSUME NEW p \in Paths, NEW mtime \in Times, VUtimes(p, mtime) PROVE Kinds
  <2>1. "utimes" \in TreeOps
    BY DEF TreeOps
  <2> HIDE DEF Kinds
  <2> QED BY <1>3, <1>7, <2>1, CallsAct
<1>8. ASSUME NEW p \in Paths, NEW n \in Sizes, VTruncate(p, n) PROVE Kinds
  <2>1. "truncate" \in TreeOps
    BY DEF TreeOps
  <2> HIDE DEF Kinds
  <2> QED BY <1>3, <1>8, <2>1, CallsAct
<1>9. ASSUME NEW p \in Paths, NEW q \in Paths, VRename(p, q) PROVE Kinds
  BY <1>1, <1>9, RenameActs
<1>10. ASSUME NEW p \in Paths, NEW q \in Paths, VCopyFile(p, q) PROVE Kinds
  <2>1. "copyFile" \in TreeOps
    BY DEF TreeOps
  <2> QED BY <1>1, <1>10, <2>1, CopyActs
<1>11. ASSUME NEW b \in Backends, NEW t \in HostTexts, NEW u \in HostTexts, HostRename(b, t, u)
       PROVE  Kinds
  BY <1>11, HostActs
<1> HIDE DEF Kinds
<1>12. Kinds
  BY <1>2, <1>4, <1>5, <1>6, <1>7, <1>8, <1>9, <1>10, <1>11 DEF Next
<1> QED
  BY <1>12 DEF Kinds

(* The backend that is called is the only one that may change.              *)
LEMMA ExecutingFacts ==
  ASSUME TreesInv, NEW op, NEW b, NEW named, NEW result, Executing(op, b, named, result)
  PROVE  /\ b \in Backends /\ fs'[b] = result.fs /\ GoodFS(fs[b]) /\ GoodFS(fs'[b])
         /\ \A c \in Backends : fs'[c] # fs[c] => c = b
         /\ last'.op = op /\ last'.err = result.err /\ last'.named = named
         /\ result.err \in Errno \union {"ok"}
         /\ result.err # "ok" => mounts' = mounts /\ fs' = fs
<1>1. /\ b \in Backends /\ mounts' = mounts /\ fs' = [fs EXCEPT ![b] = result.fs]
      /\ last' = [op |-> op, err |-> result.err, named |-> named]
      /\ Outcome(fs[b], result)
  BY DEF Executing
<1>2. fs = [c \in Backends |-> fs[c]]
  BY DEF TreesInv, RouterInv
<1>3. fs'[b] = result.fs /\ \A c \in Backends : c # b => fs'[c] = fs[c]
  BY <1>1, <1>2
<1>4. /\ GoodFS(result.fs) /\ result.err \in Errno \union {"ok"}
      /\ result.err # "ok" => result.fs = fs[b]
  BY <1>1 DEF Outcome
<1>5. GoodFS(fs[b])
  BY <1>1 DEF TreesInv
<1>6. ASSUME result.err # "ok" PROVE fs' = fs
  BY <1>1, <1>2, <1>4, <1>6
<1>7. last'.op = op /\ last'.err = result.err /\ last'.named = named
  BY <1>1
<1> QED
  BY <1>1, <1>3, <1>4, <1>5, <1>6, <1>7

LEMMA TreesStep == TreesInv /\ [Next]_vars => TreesInv'
<1> SUFFICES ASSUME TreesInv, [Next]_vars PROVE TreesInv'
  OBVIOUS
<1>1. RouterInv'
  BY RouterStep DEF TreesInv
<1> DEFINE Goal == (\A b \in Backends : GoodFS(fs'[b])) /\ last'.err \in Answers
<1>2. ASSUME NEW op, NEW b, NEW named, NEW result, Executing(op, b, named, result) PROVE Goal
  <2>1. /\ GoodFS(fs'[b]) /\ last'.err \in Errno \union {"ok"}
        /\ \A c \in Backends : fs'[c] # fs[c] => c = b
    BY <1>2, ExecutingFacts
  <2>2. \A c \in Backends : GoodFS(fs[c])
    BY DEF TreesInv
  <2>3. \A c \in Backends : GoodFS(fs'[c])
    BY <2>1, <2>2
  <2> QED BY <2>1, <2>3 DEF Answers
<1>3. ASSUME Mounting \/ Refusing PROVE Goal
  <2>1. fs' = fs /\ last'.err \in {"ok", "invalid_argument", "EACCES", "EXDEV"}
    BY <1>3 DEF Mounting, Refusing
  <2> QED BY <2>1 DEF TreesInv, Answers, Errno
<1>4. ASSUME UNCHANGED vars PROVE Goal
  BY <1>4 DEF vars, TreesInv
<1>5. ASSUME Next PROVE Goal
  <2>1. ASSUME NEW op \in TreeOps, NEW path \in Seq(STRING), NEW result, Acting(op, path, result)
        PROVE  Goal
    BY <1>2, <2>1 DEF Acting
  <2>2. ASSUME NEW p \in Seq(STRING), NEW q \in Seq(STRING), NEW result, Moving(p, q, result)
        PROVE  Goal
    BY <1>2, <2>2 DEF Moving
  <2>3. ASSUME NEW b \in Backends, NEW p \in Seq(STRING), NEW q \in Seq(STRING), NEW result,
               HostMoving(b, p, q, result)
        PROVE  Goal
    BY <1>2, <2>3 DEF HostMoving
  <2> HIDE DEF Goal
  <2> QED BY <1>3, <1>5, <2>1, <2>2, <2>3, StepKinds
<1> HIDE DEF Goal
<1>6. Goal
  BY <1>4, <1>5
<1> QED
  BY <1>1, <1>6 DEF TreesInv, Goal

LEMMA InitTrees == Init => TreesInv
BY InitRouter, BackendsAssumption DEF Init, TreesInv, Answers

LEMMA TreesInvariant == Spec => []TreesInv
BY InitTrees, TreesStep, PTL DEF Spec

(* vfs_mem.cpp: no sequence of calls, by whichever mounts, leaves a node    *)
(* outside of the tree or below a file; a call answers "ok", an errno, or   *)
(* that mount() threw.                                                      *)
THEOREM TreesStayTrees == Spec => []TypeOK
<1>1. TreesInv => TypeOK
  BY GoodIsTree DEF TreesInv, RouterInv, TypeOK, Answers, Errno
<1> QED
  BY TreesInvariant, <1>1, PTL

(* vfs_mem.cpp:39, 128, 201, 228 and 343: an inode is never given to two   *)
(* nodes, whatever is written, copied over, renamed and removed.            *)
THEOREM InodesAreUnique == Spec => []UniqueInodes
<1>1. TreesInv => UniqueInodes
  BY GoodInos DEF TreesInv, UniqueInodes
<1> QED
  BY TreesInvariant, <1>1, PTL

(* vfs_mem.cpp:141, 165, 361 and 342: every operation that changes the      *)
(* contents of a file brings its st_size up to date.                        *)
THEOREM SizesAreLengths == Spec => []SizesMatch
<1>1. TreesInv => SizesMatch
  BY DEF TreesInv, SizesMatch, GoodFS, Measured
<1> QED
  BY TreesInvariant, <1>1, PTL

(* vfs.cpp:100-216 and vfs_mem.cpp: a call that answers an errno has        *)
(* changed no mount and no tree.                                            *)
THEOREM FailuresChangeNothing == Spec => FailureChangesNothing
<1> DEFINE A == last'.err # "ok" => UNCHANGED <<mounts, fs>>
<1>1. ASSUME TreesInv, Next PROVE A
  <2>1. ASSUME NEW op, NEW b, NEW named, NEW result, Executing(op, b, named, result) PROVE A
    BY <1>1, <2>1, ExecutingFacts
  <2>2. CASE Mounting \/ Refusing
    BY <2>2 DEF Mounting, Refusing
  <2>3. ASSUME NEW op \in TreeOps, NEW path \in Seq(STRING), NEW result, Acting(op, path, result)
        PROVE  A
    BY <2>1, <2>3 DEF Acting
  <2>4. ASSUME NEW p \in Seq(STRING), NEW q \in Seq(STRING), NEW result, Moving(p, q, result)
        PROVE  A
    BY <2>1, <2>4 DEF Moving
  <2>5. ASSUME NEW b \in Backends, NEW p \in Seq(STRING), NEW q \in Seq(STRING), NEW result,
               HostMoving(b, p, q, result)
        PROVE  A
    BY <2>1, <2>5 DEF HostMoving
  <2> HIDE DEF A
  <2> QED BY <1>1, <2>2, <2>3, <2>4, <2>5, StepKinds
<1>2. TreesInv /\ [Next]_vars => [A]_vars
  BY <1>1
<1> QED
  BY TreesInvariant, <1>2, PTL DEF Spec, FailureChangesNothing

(* Where a writable mount of b lies over the path p of it.                  *)
Opened(b, p) ==
  \E i \in DOMAIN mounts :
    mounts[i].backend = b /\ "write" \in mounts[i].perm /\ IsPrefix(mounts[i].backendPath.names, p)

AllHonoured == \A i \in DOMAIN mounts : Honoured(mounts[i])

LEMMA WritesAreOpened ==
  ASSUME TreesInv, AllHonoured, NEW path \in Seq(STRING), W(path).err = "ok",
         NEW q \in Seq(STRING)
  PROVE  /\ IsPrefix(W(path).sub, q) => Opened(W(path).backend, q)
         /\ IsPrefix(q, W(path).sub) =>
              \E i \in DOMAIN mounts :
                /\ mounts[i].backend = W(path).backend /\ "write" \in mounts[i].perm
                /\ IsPrefix(mounts[i].backendPath.names, q) \/ IsPrefix(q, mounts[i].backendPath.names)
<1> DEFINE r == W(path)
<1>1. r.sub \in Seq(STRING)
  BY ResolvesToGood DEF W
<1>2. PICK i \in DOMAIN mounts :
        /\ mounts[i].backend = r.backend /\ {"write"} \subseteq mounts[i].perm
        /\ Honoured(mounts[i]) => IsPrefix(mounts[i].backendPath.names, r.sub)
  BY ResolvedFacts DEF TreesInv, RouterInv, W
<1> HIDE DEF r
<1> DEFINE m == mounts[i]
<1>3. m \in MountEntries
  BY DEF TreesInv, RouterInv
<1>4. m.backendPath.names \in Seq(STRING) /\ IsPrefix(m.backendPath.names, r.sub)
  <2>1. Honoured(m)
    BY DEF AllHonoured
  <2>2. IsPrefix(m.backendPath.names, r.sub)
    BY <1>2, <2>1
  <2> HIDE DEF m
  <2> QED BY <1>3, <2>2, MountsAssumption DEF MountEntry, Texts
<1>5. m.backend = r.backend /\ "write" \in m.perm
  BY <1>2
<1>6. ASSUME IsPrefix(r.sub, q) PROVE Opened(r.backend, q)
  <2>1. IsPrefix(m.backendPath.names, q)
    <3> HIDE DEF m
    <3> QED BY <1>1, <1>4, <1>6, PrefixTransitive
  <2> QED BY <1>5, <2>1 DEF Opened
<1>7. ASSUME IsPrefix(q, r.sub) PROVE IsPrefix(m.backendPath.names, q) \/ IsPrefix(q, m.backendPath.names)
  <2> HIDE DEF m
  <2>1. Len(m.backendPath.names) <= Len(q) \/ Len(q) <= Len(m.backendPath.names)
    BY <1>4
  <2> QED BY <1>1, <1>4, <1>7, <2>1, PrefixesNest
<1> QED
  BY <1>5, <1>6, <1>7 DEF r

(* The paths where two trees differ.                                        *)
Changed(f, g) ==
  {q \in DOMAIN f.tree \union DOMAIN g.tree :
     q \notin DOMAIN f.tree \/ q \notin DOMAIN g.tree \/ f.tree[q] # g.tree[q]}

ConfinedAt(b, q) ==
  \E i \in DOMAIN mounts :
    /\ mounts[i].backend = b /\ "write" \in mounts[i].perm
    /\ \/ IsPrefix(mounts[i].backendPath.names, q)
       \/ last'.op = "mkdir" /\ IsPrefix(q, mounts[i].backendPath.names)

LEMMA ActingIsConfined ==
  ASSUME TreesInv, AllHonoured, NEW op, NEW path \in Seq(STRING), NEW result,
         Acting(op, path, result), NEW q \in Changed(fs[W(path).backend], result.fs)
  PROVE  ConfinedAt(W(path).backend, q)
<1> DEFINE b == W(path).backend
           s == W(path).sub
           f == fs[b]
           g == result.fs
<1>1. /\ W(path).err = "ok"
      /\ Executing(op, b, {<<b, s>>}, result)
      /\ Effect(op, f, g, s)
  BY DEF Acting
<1>2. last'.op = op /\ GoodFS(f) /\ GoodFS(g) /\ s \in Seq(STRING)
  <2>1. last'.op = op /\ fs'[b] = g /\ GoodFS(f) /\ GoodFS(fs'[b])
    BY <1>1, ExecutingFacts
  <2>2. s \in Seq(STRING)
    BY <1>1, ResolvesToGood DEF W
  <2> QED BY <2>1, <2>2
<1>3. \A p \in Seq(STRING) :
        /\ IsPrefix(s, p) => Opened(b, p)
        /\ IsPrefix(p, s) =>
             \E i \in DOMAIN mounts :
               /\ mounts[i].backend = b /\ "write" \in mounts[i].perm
               /\ IsPrefix(mounts[i].backendPath.names, p) \/ IsPrefix(p, mounts[i].backendPath.names)
  BY <1>1, WritesAreOpened
<1> HIDE DEF b, s, f, g
<1>4. q \in Seq(STRING)
  <2>1. q \in DOMAIN f.tree \union DOMAIN g.tree
    BY DEF Changed, b, f, g
  <2> QED BY <1>2, <2>1, GoodTypes
<1>5. q = s \/ (q \in DOMAIN g.tree \ DOMAIN f.tree /\ IsPrefix(q, s))
  <2>1. Touches(f, g, s)
    BY <1>1 DEF Effect
  <2>2. q \in Changed(f, g)
    BY DEF b, f, g
  <2> QED BY <2>1, <2>2 DEF Touches, Changed
<1>6. CASE q = s
  <2>1. IsPrefix(s, q)
    BY <1>4, <1>6, PrefixIsSubSeq
  <2>2. Opened(b, q)
    BY <1>3, <1>4, <2>1
  <2> QED BY <2>2 DEF Opened, ConfinedAt, b
<1>7. CASE q # s
  <2>1. q \in DOMAIN g.tree \ DOMAIN f.tree /\ IsPrefix(q, s)
    BY <1>5, <1>7
  <2>2. op = "mkdir"
    BY <1>1, <1>7, <2>1 DEF Effect, AddsAt
  <2>3. PICK i \in DOMAIN mounts :
          /\ mounts[i].backend = b /\ "write" \in mounts[i].perm
          /\ IsPrefix(mounts[i].backendPath.names, q) \/ IsPrefix(q, mounts[i].backendPath.names)
    BY <1>3, <1>4, <2>1
  <2> QED BY <1>2, <2>2, <2>3 DEF ConfinedAt, b
<1> QED
  BY <1>6, <1>7

LEMMA MovingIsConfined ==
  ASSUME TreesInv, AllHonoured, NEW old \in Seq(STRING), NEW new \in Seq(STRING), NEW result,
         Moving(old, new, result), NEW q \in Changed(fs[W(new).backend], result.fs)
  PROVE  ConfinedAt(W(new).backend, q)
<1> DEFINE b == W(new).backend
           f == fs[b]
           g == result.fs
           o == W(old).sub
           n == W(new).sub
<1>1. /\ W(old).err = "ok" /\ W(new).err = "ok" /\ W(old).backend = b
      /\ Executing("rename", b, {<<b, n>>}, result)
      /\ Relocates(f, g, o, n)
  BY DEF Moving
<1>2. GoodFS(f) /\ GoodFS(g)
  <2>1. fs'[b] = g /\ GoodFS(f) /\ GoodFS(fs'[b])
    BY <1>1, ExecutingFacts
  <2> QED BY <2>1
<1>3. \A p \in Seq(STRING) : IsPrefix(o, p) \/ IsPrefix(n, p) => Opened(b, p)
  BY <1>1, WritesAreOpened
<1> HIDE DEF b, f, g, o, n
<1>4. q \in Changed(f, g)
  BY DEF b, f, g
<1>5. q \in Seq(STRING)
  <2>1. q \in DOMAIN f.tree \union DOMAIN g.tree
    BY <1>4 DEF Changed
  <2> QED BY <1>2, <2>1, GoodTypes
<1>6. IsPrefix(o, q) \/ IsPrefix(n, q)
  BY <1>1, <1>4 DEF Relocates, Changed
<1>7. Opened(b, q)
  BY <1>3, <1>5, <1>6
<1> QED
  BY <1>7 DEF Opened, ConfinedAt, b

(* vfs.cpp:87-117 and 139-216: where every mount honours its backendPath,   *)
(* no call changes a node of a backend outside of what a writable mount     *)
(* shows of it; mkdir makes directories above it.  Those that do not are a  *)
(* root mount with a backendPath of its own (line 95) and mounts with a     *)
(* backendPath of one relative character (line 113).                        *)
THEOREM WritesStayInMounts == Spec => WritesConfined
<1> DEFINE A == last'.op # "hostRename" /\ (\A i \in DOMAIN mounts : Honoured(mounts[i])) =>
                  \A b \in {c \in Backends : fs'[c] # fs[c]} :
                    \A p \in {q \in DOMAIN fs[b].tree \union DOMAIN fs'[b].tree :
                                \/ q \notin DOMAIN fs[b].tree
                                \/ q \notin DOMAIN fs'[b].tree
                                \/ fs[b].tree[q] # fs'[b].tree[q]} :
                      \E i \in DOMAIN mounts :
                        /\ mounts[i].backend = b /\ "write" \in mounts[i].perm
                        /\ \/ IsPrefix(mounts[i].backendPath.names, p)
                           \/ last'.op = "mkdir" /\ IsPrefix(p, mounts[i].backendPath.names)
<1>1. ASSUME TreesInv, Next, AllHonoured PROVE A
  <2>1. ASSUME NEW b, \A c \in Backends : fs'[c] # fs[c] => c = b,
               \A q \in Changed(fs[b], fs'[b]) : ConfinedAt(b, q)
        PROVE  A
    <3> SUFFICES ASSUME NEW c \in Backends, fs'[c] # fs[c], NEW q \in Changed(fs[c], fs'[c])
                 PROVE  ConfinedAt(c, q)
      BY DEF Changed, ConfinedAt
    <3> QED BY <2>1
  <2>2. CASE Mounting \/ Refusing
    BY <2>2 DEF Mounting, Refusing
  <2>3. ASSUME NEW op \in TreeOps, NEW path \in Seq(STRING), NEW result, Acting(op, path, result)
        PROVE  A
    <3> DEFINE b == W(path).backend
    <3>1. fs'[b] = result.fs /\ \A c \in Backends : fs'[c] # fs[c] => c = b
      BY <1>1, <2>3, ExecutingFacts DEF Acting
    <3>2. \A q \in Changed(fs[b], result.fs) : ConfinedAt(b, q)
      BY <1>1, <2>3, ActingIsConfined
    <3> HIDE DEF b, A
    <3> QED BY <2>1, <3>1, <3>2
  <2>4. ASSUME NEW p \in Seq(STRING), NEW q \in Seq(STRING), NEW result, Moving(p, q, result)
        PROVE  A
    <3> DEFINE b == W(q).backend
    <3>1. fs'[b] = result.fs /\ \A c \in Backends : fs'[c] # fs[c] => c = b
      BY <1>1, <2>4, ExecutingFacts DEF Moving
    <3>2. \A x \in Changed(fs[b], result.fs) : ConfinedAt(b, x)
      BY <1>1, <2>4, MovingIsConfined
    <3> HIDE DEF b, A
    <3> QED BY <2>1, <3>1, <3>2
  <2>5. ASSUME NEW b \in Backends, NEW p \in Seq(STRING), NEW q \in Seq(STRING), NEW result,
               HostMoving(b, p, q, result)
        PROVE  A
    <3>1. last'.op = "hostRename"
      BY <1>1, <2>5, ExecutingFacts DEF HostMoving
    <3> QED BY <3>1
  <2> HIDE DEF A
  <2> QED BY <1>1, <2>2, <2>3, <2>4, <2>5, StepKinds
<1>2. TreesInv /\ [Next]_vars => [A]_vars
  BY <1>1 DEF AllHonoured
<1> QED
  BY TreesInvariant, <1>2, PTL DEF Spec, WritesConfined

(* vfs_mem.cpp:276-317, called by vfs.cpp:188-199 or by the host: where     *)
(* every backendPath, or every string of the host, is as normalize() writes *)
(* paths, a rename loses no inode but that of a file or an empty directory  *)
(* at its destination.  With other strings a directory can be moved into    *)
(* itself (SelfRenameRejected).                                             *)
THEOREM RenamesConserve == Spec => RenameConserves
<1> DEFINE Kept(f, g) ==
             LET lost == Inos(f) \ Inos(g)
             IN  /\ Inos(g) \subseteq Inos(f)
                 /\ Cardinality(lost) <= 1
                 /\ \A p \in DOMAIN f.tree : f.tree[p].ino \in lost => ~HasChildren(f.tree, p)
           A == \/ last'.op = "rename" /\ (\A i \in DOMAIN mounts : Canonical(mounts[i].backendPath))
                \/ last'.op = "hostRename" /\ (\A t \in HostTexts : Canonical(t)) =>
                  \A b \in {c \in Backends : fs'[c] # fs[c]} :
                    LET lost == Inos(fs[b]) \ Inos(fs'[b])
                    IN  /\ Inos(fs'[b]) \subseteq Inos(fs[b])
                        /\ Cardinality(lost) <= 1
                        /\ \A p \in DOMAIN fs[b].tree :
                             fs[b].tree[p].ino \in lost => ~HasChildren(fs[b].tree, p)
<1>1. ASSUME TreesInv, Next PROVE A
  <2>1. ASSUME NEW b, \A c \in Backends : fs'[c] # fs[c] => c = b, Kept(fs[b], fs'[b])
        PROVE  A
    <3> SUFFICES ASSUME NEW c \in Backends, fs'[c] # fs[c] PROVE Kept(fs[c], fs'[c])
      OBVIOUS
    <3> HIDE DEF Kept
    <3> QED BY <2>1
  <2>2. ASSUME NEW op, NEW b, NEW named, NEW result, NEW old, NEW new,
               Executing(op, b, named, result),
               Relocates(fs[b], result.fs, old, new), Conserves(fs[b], result.fs, new)
        PROVE  A
    <3>1. /\ fs'[b] = result.fs /\ GoodFS(fs[b]) /\ GoodFS(fs'[b])
          /\ \A c \in Backends : fs'[c] # fs[c] => c = b
      BY <1>1, <2>2, ExecutingFacts
    <3>2. Relocates(fs[b], fs'[b], old, new) /\ Conserves(fs[b], fs'[b], new)
      BY <2>2, <3>1
    <3>3. Kept(fs[b], fs'[b])
      BY <3>1, <3>2, RenameInos
    <3> HIDE DEF A, Kept
    <3> QED BY <2>1, <3>1, <3>3
  <2>3. CASE Mounting \/ Refusing
    BY <2>3 DEF Mounting, Refusing
  <2>4. ASSUME NEW op \in TreeOps, NEW path \in Seq(STRING), NEW result, Acting(op, path, result)
        PROVE  A
    <3>1. last'.op = op
      BY <1>1, <2>4, ExecutingFacts DEF Acting
    <3>2. op # "rename" /\ op # "hostRename"
      BY DEF TreeOps
    <3> QED BY <3>1, <3>2
  <2>5. ASSUME NEW p \in Seq(STRING), NEW q \in Seq(STRING), NEW result, Moving(p, q, result)
        PROVE  A
    <3>1. last'.op = "rename"
      BY <1>1, <2>5, ExecutingFacts DEF Moving
    <3>2. CASE AllCanonical
      <4> HIDE DEF A
      <4> QED BY <2>2, <2>5, <3>2 DEF Moving
    <3>3. CASE ~AllCanonical
      BY <3>1, <3>3 DEF AllCanonical
    <3> QED BY <3>2, <3>3
  <2>6. ASSUME NEW b \in Backends, NEW p \in Seq(STRING), NEW q \in Seq(STRING), NEW result,
               HostMoving(b, p, q, result)
        PROVE  A
    <3>1. last'.op = "hostRename"
      BY <1>1, <2>6, ExecutingFacts DEF HostMoving
    <3>2. CASE HostCanonical
      <4> HIDE DEF A
      <4> QED BY <2>2, <2>6, <3>2 DEF HostMoving
    <3>3. CASE ~HostCanonical
      BY <3>1, <3>3 DEF HostCanonical
    <3> QED BY <3>2, <3>3
  <2> HIDE DEF A
  <2> QED BY <1>1, <2>3, <2>4, <2>5, <2>6, StepKinds
<1>2. TreesInv /\ [Next]_vars => [A]_vars
  BY <1>1
<1> QED
  BY TreesInvariant, <1>2, PTL DEF Spec, RenameConserves

(* The node of an inode is where the inode is.                              *)
LEMMA NodeOfFacts ==
  ASSUME NEW f, GoodFS(f), NEW p \in DOMAIN f.tree
  PROVE  NodeOf(f, f.tree[p].ino) = f.tree[p]
<1>1. \A q \in DOMAIN f.tree : f.tree[q].ino = f.tree[p].ino => q = p
  BY DEF GoodFS, Numbered
<1>2. (CHOOSE q \in DOMAIN f.tree : f.tree[q].ino = f.tree[p].ino) = p
  BY <1>1
<1> QED
  BY <1>2 DEF NodeOf

(* A node that an operation on s leaves is as it was, or at s.              *)
LEMMA TouchedNodes ==
  ASSUME NEW f, GoodFS(f), NEW g, GoodFS(g), NEW s, Touches(f, g, s),
         NEW i \in Inos(f) \intersect Inos(g)
  PROVE  \/ NodeOf(g, i) = NodeOf(f, i)
         \/ Same(f, g, s) /\ i = g.tree[s].ino
            /\ NodeOf(f, i) = f.tree[s] /\ NodeOf(g, i) = g.tree[s]
<1>1. PICK p \in DOMAIN f.tree : f.tree[p].ino = i
  BY DEF Inos
<1>2. PICK q \in DOMAIN g.tree : g.tree[q].ino = i
  BY DEF Inos
<1>3. NodeOf(f, i) = f.tree[p] /\ NodeOf(g, i) = g.tree[q]
  BY <1>1, <1>2, NodeOfFacts
<1>4. CASE p # s
  <2>1. p \in DOMAIN g.tree /\ g.tree[p] = f.tree[p]
    BY <1>4 DEF Touches
  <2>2. p = q
    BY <1>1, <1>2, <2>1 DEF GoodFS, Numbered
  <2> QED BY <1>3, <2>1, <2>2
<1>5. CASE p = s /\ q = s
  BY <1>1, <1>2, <1>3, <1>5 DEF Same
<1>6. CASE p = s /\ q # s
  <2>1. CASE q \in DOMAIN f.tree
    <3>1. g.tree[q] = f.tree[q]
      BY <1>6, <2>1 DEF Touches
    <3>2. p = q
      BY <1>1, <1>2, <2>1, <3>1 DEF GoodFS, Numbered
    <3> QED BY <1>6, <3>2
  <2>2. CASE q \notin DOMAIN f.tree
    <3>1. g.tree[q].ino >= f.nextIno
      BY <2>2 DEF Touches
    <3>2. f.tree[p].ino < f.nextIno
      BY DEF GoodFS, Numbered
    <3>3. f.tree[p].ino \in Nat /\ f.nextIno \in Nat
      BY GoodTypes
    <3> QED BY <1>1, <1>2, <3>1, <3>2, <3>3
  <2> QED BY <2>1, <2>2
<1> QED
  BY <1>4, <1>5, <1>6

LEMMA RelocatedNodes ==
  ASSUME NEW f, GoodFS(f), NEW g, GoodFS(g), NEW old, NEW new, Relocates(f, g, old, new),
         NEW i \in Inos(f) \intersect Inos(g)
  PROVE  NodeOf(g, i) = NodeOf(f, i)
<1>1. PICK q \in DOMAIN g.tree : g.tree[q].ino = i
  BY DEF Inos
<1>2. PICK p \in DOMAIN f.tree : g.tree[q] = f.tree[p]
  BY DEF Relocates
<1> QED
  BY <1>1, <1>2, NodeOfFacts

(* What may change of the nodes of a backend b by an operation on paths of  *)
(* named.                                                                  *)
MetadataKept(b, f, g, op, named) ==
  LET kept   == Inos(f) \intersect Inos(g)
      remade == {i \in kept : NodeOf(f, i).mode # NodeOf(g, i).mode}
      dated  == {i \in kept : NodeOf(f, i).mtime # NodeOf(g, i).mtime}
  IN  /\ \A i \in remade \union dated :
           \E p \in DOMAIN g.tree : g.tree[p].ino = i /\ <<b, p>> \in named
      /\ remade # {} => op = "mkdir"
      /\ dated # {} => op \in Dating

LEMMA EffectKeepsMetadata ==
  ASSUME NEW b, NEW f, GoodFS(f), NEW g, GoodFS(g), NEW op, NEW s, Effect(op, f, g, s)
  PROVE  MetadataKept(b, f, g, op, {<<b, s>>})
<1> DEFINE kept   == Inos(f) \intersect Inos(g)
           remade == {i \in kept : NodeOf(f, i).mode # NodeOf(g, i).mode}
           dated  == {i \in kept : NodeOf(f, i).mtime # NodeOf(g, i).mtime}
<1>1. ASSUME NEW i \in kept, NodeOf(g, i) # NodeOf(f, i)
      PROVE  Same(f, g, s) /\ i = g.tree[s].ino
             /\ NodeOf(f, i) = f.tree[s] /\ NodeOf(g, i) = g.tree[s]
  BY <1>1, TouchedNodes DEF Effect
<1>2. \A i \in remade \union dated : s \in DOMAIN g.tree /\ g.tree[s].ino = i
  BY <1>1 DEF Same
<1>3. ASSUME NEW i \in remade PROVE op = "mkdir"
  <2>1. Same(f, g, s) /\ f.tree[s].mode # g.tree[s].mode
    BY <1>1
  <2> QED BY <2>1 DEF Effect, KeepsMode
<1>4. ASSUME NEW i \in dated PROVE op \in Dating
  <2>1. Same(f, g, s) /\ f.tree[s].mtime # g.tree[s].mtime
    BY <1>1
  <2> QED BY <2>1 DEF Effect, KeepsTime
<1> HIDE DEF remade, dated
<1>5. /\ \A i \in remade \union dated :
           \E p \in DOMAIN g.tree : g.tree[p].ino = i /\ <<b, p>> \in {<<b, s>>}
      /\ remade # {} => op = "mkdir"
      /\ dated # {} => op \in Dating
  BY <1>2, <1>3, <1>4
<1> QED
  BY <1>5 DEF MetadataKept, remade, dated

LEMMA RelocatingKeepsMetadata ==
  ASSUME NEW b, NEW f, GoodFS(f), NEW g, GoodFS(g), NEW op, NEW named, NEW old, NEW new,
         Relocates(f, g, old, new)
  PROVE  MetadataKept(b, f, g, op, named)
<1>1. \A i \in Inos(f) \intersect Inos(g) : NodeOf(g, i) = NodeOf(f, i)
  BY RelocatedNodes
<1> QED
  BY <1>1 DEF MetadataKept

(* vfs_mem.cpp:110-240, 276-317 and 348-376: mode and mtimeMs stay with the *)
(* inode through renames and writes; only mkdir gives a directory that      *)
(* exists another mode, and only a call that names the file dates it.       *)
THEOREM MetadataStays == Spec => MetadataStaysWithNode
<1> DEFINE A == \A b \in {c \in Backends : fs'[c] # fs[c]} :
                  LET kept   == Inos(fs[b]) \intersect Inos(fs'[b])
                      remade == {i \in kept : NodeOf(fs[b], i).mode # NodeOf(fs'[b], i).mode}
                      dated  == {i \in kept : NodeOf(fs[b], i).mtime # NodeOf(fs'[b], i).mtime}
                  IN  /\ \A i \in remade \union dated :
                           \E p \in DOMAIN fs'[b].tree :
                             fs'[b].tree[p].ino = i /\ <<b, p>> \in last'.named
                      /\ remade # {} => last'.op = "mkdir"
                      /\ dated # {} => last'.op \in {"writeFile", "appendFile", "copyFile",
                                                    "truncate", "utimes"}
<1>1. ASSUME TreesInv, Next PROVE A
  <2>1. ASSUME NEW b, \A c \in Backends : fs'[c] # fs[c] => c = b,
               MetadataKept(b, fs[b], fs'[b], last'.op, last'.named)
        PROVE  A
    <3>1. ASSUME NEW c \in Backends, fs'[c] # fs[c]
          PROVE  MetadataKept(c, fs[c], fs'[c], last'.op, last'.named)
      BY <2>1, <3>1
    <3> QED BY <3>1 DEF MetadataKept, Dating
  <2>2. CASE Mounting \/ Refusing
    BY <2>2 DEF Mounting, Refusing
  <2>3. ASSUME NEW op \in TreeOps, NEW path \in Seq(STRING), NEW result, Acting(op, path, result)
        PROVE  A
    <3> DEFINE b == W(path).backend
               s == W(path).sub
    <3>1. /\ fs'[b] = result.fs /\ GoodFS(fs[b]) /\ GoodFS(fs'[b])
          /\ \A c \in Backends : fs'[c] # fs[c] => c = b
          /\ last'.op = op /\ last'.named = {<<b, s>>}
      BY <1>1, <2>3, ExecutingFacts DEF Acting
    <3>2. Effect(op, fs[b], fs'[b], s)
      BY <2>3, <3>1 DEF Acting
    <3> HIDE DEF b, s, A
    <3>3. MetadataKept(b, fs[b], fs'[b], last'.op, last'.named)
      BY <3>1, <3>2, EffectKeepsMetadata
    <3> QED BY <2>1, <3>1, <3>3
  <2>4. ASSUME NEW op, NEW b, NEW named, NEW result, NEW old, NEW new,
               Executing(op, b, named, result), Relocates(fs[b], result.fs, old, new)
        PROVE  A
    <3>1. /\ fs'[b] = result.fs /\ GoodFS(fs[b]) /\ GoodFS(fs'[b])
          /\ \A c \in Backends : fs'[c] # fs[c] => c = b
      BY <1>1, <2>4, ExecutingFacts
    <3>2. Relocates(fs[b], fs'[b], old, new)
      BY <2>4, <3>1
    <3>3. MetadataKept(b, fs[b], fs'[b], last'.op, last'.named)
      BY <3>1, <3>2, RelocatingKeepsMetadata
    <3> HIDE DEF A
    <3> QED BY <2>1, <3>1, <3>3
  <2>5. ASSUME NEW p \in Seq(STRING), NEW q \in Seq(STRING), NEW result, Moving(p, q, result)
        PROVE  A
    <3> HIDE DEF A
    <3> QED BY <2>4, <2>5 DEF Moving
  <2>6. ASSUME NEW b \in Backends, NEW p \in Seq(STRING), NEW q \in Seq(STRING), NEW result,
               HostMoving(b, p, q, result)
        PROVE  A
    <3> HIDE DEF A
    <3> QED BY <2>4, <2>6 DEF HostMoving
  <2> HIDE DEF A
  <2> QED BY <1>1, <2>2, <2>3, <2>5, <2>6, StepKinds
<1>2. TreesInv /\ [Next]_vars => [A]_vars
  BY <1>1
<1> QED
  BY TreesInvariant, <1>2, PTL DEF Spec, MetadataStaysWithNode

------------------------------------------------------------------------------
(* The reading calls.                                                      *)

LEMMA PrefixOfAppend ==
  ASSUME NEW s \in Seq(STRING), NEW t \in Seq(STRING), NEW n \in STRING
  PROVE  IsPrefix(s, Append(t, n)) <=> IsPrefix(s, t) \/ s = Append(t, n)
<1> DEFINE u == Append(t, n)
<1>1. /\ u \in Seq(STRING) /\ Len(u) = Len(t) + 1 /\ Len(t) \in Nat
      /\ \A i \in 1..Len(t) : u[i] = t[i]
  BY LongerPath
<1> HIDE DEF u
<1>2. Len(s) \in Nat
  OBVIOUS
<1>3. ASSUME IsPrefix(s, u), s # u PROVE IsPrefix(s, t)
  <2>1. Len(s) < Len(u) /\ \A i \in 1..Len(s) : s[i] = u[i]
    BY <1>1, <1>3, PrefixFacts, PrefixIsSubSeq
  <2>2. Len(s) <= Len(t) /\ \A i \in 1..Len(s) : i \in 1..Len(t)
    BY <1>1, <1>2, <2>1
  <2>3. \A i \in 1..Len(s) : s[i] = t[i]
    BY <1>1, <2>1, <2>2
  <2> QED BY <2>2, <2>3, PrefixFacts
<1>4. ASSUME IsPrefix(s, t) PROVE IsPrefix(s, u)
  <2>1. Len(s) <= Len(t) /\ \A i \in 1..Len(s) : s[i] = t[i]
    BY <1>4, PrefixFacts
  <2>2. Len(s) <= Len(u) /\ \A i \in 1..Len(s) : i \in 1..Len(t)
    BY <1>1, <1>2, <2>1
  <2>3. \A i \in 1..Len(s) : s[i] = u[i]
    BY <1>1, <2>1, <2>2
  <2> QED BY <1>1, <2>2, <2>3, PrefixFacts
<1>5. IsPrefix(u, u)
  BY <1>1, PrefixIsSubSeq
<1>6. IsPrefix(s, u) <=> IsPrefix(s, t) \/ s = u
  BY <1>3, <1>4, <1>5
<1> QED
  BY <1>6 DEF u

LEMMA RebasedAppend ==
  ASSUME NEW a \in Seq(STRING), NEW b \in Seq(STRING), NEW p \in Seq(STRING), IsPrefix(a, p),
         NEW n \in STRING
  PROVE  Rebased(Append(p, n), a, b) = Append(Rebased(p, a, b), n)
<1> DEFINE u == Append(p, n)
           r == Rebased(p, a, b)
           x == Rebased(u, a, b)
           y == Append(r, n)
<1>1. /\ u \in Seq(STRING) /\ Len(u) = Len(p) + 1 /\ Len(p) \in Nat
      /\ \A i \in 1..Len(p) : u[i] = p[i]
      /\ u[Len(p) + 1] = n
  BY LongerPath
<1>2. IsPrefix(a, u)
  BY PrefixOfAppend
<1>3. Len(a) <= Len(p) /\ Len(a) \in Nat /\ Len(b) \in Nat
  BY PrefixIsSubSeq
<1>4. /\ r \in Seq(STRING) /\ Len(r) = Len(b) + (Len(p) - Len(a))
      /\ \A i \in 1..Len(b) : r[i] = b[i]
      /\ \A i \in 1..(Len(p) - Len(a)) : r[Len(b) + i] = p[Len(a) + i]
  <2>1. IsRebased(r, p, a, b)
    BY RebasedFacts
  <2> QED BY <2>1 DEF IsRebased
<1> HIDE DEF u
<1>5. /\ x \in Seq(STRING) /\ Len(x) = Len(b) + (Len(u) - Len(a))
      /\ \A i \in 1..Len(b) : x[i] = b[i]
      /\ \A i \in 1..(Len(u) - Len(a)) : x[Len(b) + i] = u[Len(a) + i]
  <2>1. IsRebased(x, u, a, b)
    BY <1>1, <1>2, RebasedFacts
  <2> QED BY <2>1 DEF IsRebased
<1> HIDE DEF r, x
<1>6. /\ y \in Seq(STRING) /\ Len(y) = Len(r) + 1
      /\ \A i \in 1..Len(r) : y[i] = r[i]
      /\ y[Len(r) + 1] = n
  BY <1>4, LongerPath
<1> HIDE DEF y
<1>7. Len(x) = Len(y)
  BY <1>1, <1>3, <1>4, <1>5, <1>6
<1>8. ASSUME NEW i \in 1..Len(x) PROVE x[i] = y[i]
  <2>1. CASE i <= Len(b)
    <3>1. i \in 1..Len(b) /\ i \in 1..Len(r)
      BY <1>3, <1>4, <2>1
    <3> QED BY <1>4, <1>5, <1>6, <3>1
  <2>2. CASE ~(i <= Len(b))
    <3> DEFINE j == i - Len(b)
    <3>1. j \in 1..(Len(u) - Len(a)) /\ i = Len(b) + j
      BY <1>1, <1>3, <1>5, <2>2
    <3> HIDE DEF j
    <3>2. x[i] = u[Len(a) + j]
      BY <1>5, <3>1
    <3>3. CASE j <= Len(p) - Len(a)
      <4>1. j \in 1..(Len(p) - Len(a)) /\ Len(a) + j \in 1..Len(p) /\ i \in 1..Len(r)
        BY <1>1, <1>3, <1>4, <3>1, <3>3
      <4>2. u[Len(a) + j] = p[Len(a) + j]
        BY <1>1, <4>1
      <4>3. y[i] = r[i] /\ r[Len(b) + j] = p[Len(a) + j]
        BY <1>4, <1>6, <4>1
      <4> QED BY <3>1, <3>2, <4>2, <4>3
    <3>4. CASE ~(j <= Len(p) - Len(a))
      <4>1. Len(a) + j = Len(p) + 1 /\ i = Len(r) + 1
        BY <1>1, <1>3, <1>4, <3>1, <3>4
      <4> QED BY <1>1, <1>6, <3>2, <4>1
    <3> QED BY <3>3, <3>4
  <2> QED BY <2>1, <2>2
<1>9. x = y
  BY <1>5, <1>6, <1>7, <1>8, SeqEqual
<1> QED
  BY <1>9 DEF x, y, u, r

LEMMA SubPathAppend ==
  ASSUME NEW m \in MountEntries, NEW norm \in Seq(STRING), IsPrefix(m.prefix, norm),
         NEW n \in STRING, ~Dropped(m)
  PROVE  SubPath(m, Append(norm, n)).names = Append(SubPath(m, norm).names, n)
<1> DEFINE s == m.backendPath.names
           longer == Append(norm, n)
<1>1. /\ m.prefix \in Seq(STRING) /\ s \in Seq(STRING)
      /\ m.prefix = <<>> => SubPath(m, norm).names = norm
      /\ m.prefix # <<>> => SubPath(m, norm).names = Rebased(norm, m.prefix, s)
  BY SubPathNames
<1>2. longer \in Seq(STRING) /\ IsPrefix(m.prefix, longer)
  <2>1. longer \in Seq(STRING)
    OBVIOUS
  <2>2. IsPrefix(m.prefix, longer)
    BY <1>1, PrefixOfAppend
  <2> QED BY <2>1, <2>2
<1> HIDE DEF longer, s
<1>3. /\ m.prefix = <<>> => SubPath(m, longer).names = longer
      /\ m.prefix # <<>> => SubPath(m, longer).names = Rebased(longer, m.prefix, s)
  BY <1>2, SubPathNames DEF s
<1>4. Rebased(longer, m.prefix, s) = Append(Rebased(norm, m.prefix, s), n)
  BY <1>1, RebasedAppend DEF longer
<1> QED
  BY <1>1, <1>3, <1>4 DEF longer

(* Where a path leads is the same for whatever permissions it has.          *)
LEMMA ResolvesAlike ==
  ASSUME mounts \in Seq(MountEntries), NEW path, NEW needed, NEW other,
         Resolve(path, needed).err = "ok", other \subseteq needed
  PROVE  /\ Resolve(path, other).err = "ok"
         /\ Resolve(path, other).backend = Resolve(path, needed).backend
         /\ Resolve(path, other).sub = Resolve(path, needed).sub
<1> DEFINE m == mounts[FirstHit(path)]
           found == [err |-> "ok", mount |-> m, backend |-> m.backend,
                     sub |-> SubPath(m, Normalize(path)).names,
                               text |-> SubPath(m, Normalize(path))]
<1>1. Hits(path) # {}
  BY ResolveDef DEF Denied
<1>2. /\ Resolve(path, needed) = IF needed \subseteq m.perm THEN found ELSE Denied
      /\ Resolve(path, other) = IF other \subseteq m.perm THEN found ELSE Denied
  BY <1>1, ResolveDef
<1> HIDE DEF m
<1>3. needed \subseteq m.perm
  BY <1>2 DEF Denied
<1> QED
  BY <1>2, <1>3

(* A name more leads to the same mount, where no mount begins.              *)
LEMMA ResolveAppend ==
  ASSUME mounts \in Seq(MountEntries), NEW path \in Seq(STRING), NEW needed,
         NEW n \in STRING, n \notin {".", ".."}, ~MountPoint(Append(path, n)),
         \A i \in DOMAIN mounts : ~Dropped(mounts[i])
  PROVE  /\ Resolve(Append(path, n), needed).err = Resolve(path, needed).err
         /\ Resolve(path, needed).err = "ok" =>
              /\ Resolve(Append(path, n), needed).backend = Resolve(path, needed).backend
              /\ Resolve(Append(path, n), needed).sub = Append(Resolve(path, needed).sub, n)
<1> DEFINE norm == Normalize(path)
           longer == Append(path, n)
           m == mounts[FirstHit(path)]
<1>1. norm \in Seq(STRING) /\ Normalize(longer) = Append(norm, n)
  BY NormalizeTyped, NormalizeAppend
<1> HIDE DEF norm, longer
<1>2. ASSUME NEW i \in DOMAIN mounts
      PROVE  IsPrefix(mounts[i].prefix, Append(norm, n)) <=> IsPrefix(mounts[i].prefix, norm)
  <2>1. mounts[i].prefix \in Seq(STRING)
    <3>1. mounts[i] \in MountEntries
      OBVIOUS
    <3> QED BY <3>1, MountsAssumption DEF MountEntry
  <2>2. mounts[i].prefix # Append(norm, n)
    BY <1>1 DEF MountPoint, longer
  <2> QED BY <1>1, <2>1, <2>2, PrefixOfAppend
<1>3. Hits(longer) = Hits(path)
  BY <1>1, <1>2 DEF Hits, Matches, norm
<1>4. FirstHit(longer) = FirstHit(path)
  BY <1>3 DEF FirstHit
<1>5. CASE Hits(path) = {}
  <2>1. Resolve(longer, needed) = Denied /\ Resolve(path, needed) = Denied
    BY <1>3, <1>5, ResolveDef
  <2> QED BY <2>1 DEF Denied, longer
<1>6. CASE Hits(path) # {}
  <2> DEFINE a == Resolve(path, needed)
             b == Resolve(longer, needed)
  <2>1. /\ FirstHit(path) \in Hits(path)
        /\ a = IF needed \subseteq m.perm
               THEN [err |-> "ok", mount |-> m, backend |-> m.backend,
                sub |-> SubPath(m, norm).names, text |-> SubPath(m, norm)]
               ELSE Denied
    BY <1>6, ResolveDef DEF norm
  <2>2. b = IF needed \subseteq m.perm
            THEN [err |-> "ok", mount |-> m, backend |-> m.backend,
                  sub |-> SubPath(m, Append(norm, n)).names, text |-> SubPath(m, Append(norm, n))]
            ELSE Denied
    BY <1>1, <1>3, <1>4, <1>6, ResolveDef
  <2>3. m \in MountEntries /\ IsPrefix(m.prefix, norm) /\ ~Dropped(m)
    BY <2>1 DEF Hits, Matches, norm
  <2> HIDE DEF a, b, m
  <2>4. SubPath(m, Append(norm, n)).names = Append(SubPath(m, norm).names, n)
    BY <1>1, <2>3, SubPathAppend
  <2>5. b.err = a.err /\ (a.err = "ok" => b.backend = a.backend /\ b.sub = Append(a.sub, n))
    BY <2>1, <2>2, <2>4 DEF Denied
  <2> QED BY <2>5 DEF a, b, longer
<1> QED
  BY <1>5, <1>6

(* A file is written where its path leads, if its directory is there.       *)
LEMMA FilesCanBeWritten ==
  ASSUME NEW f, GoodFS(f), NEW p \in Seq(STRING), IsFile(f.tree, p)
  PROVE  WriteFile(f, p, <<>>).err = "ok"
<1>1. Proper(f.tree)
  BY GoodIsProper
<1>2. p # <<>> /\ ~IsDir(f.tree, p) /\ p \in DOMAIN f.tree
  BY <1>1 DEF Proper, IsDir, IsFile
<1>3. Front(p) \in DOMAIN f.tree /\ ~IsFile(f.tree, Front(p))
  <2>1. \A q \in DOMAIN f.tree \ {<<>>} : IsDir(f.tree, Front(q))
    BY GoodIsTree DEF IsTree
  <2>2. IsDir(f.tree, Front(p))
    BY <1>2, <2>1
  <2> QED BY <2>2 DEF IsDir, IsFile
<1>4. Passes(ParentDir(f.tree, p))
  BY <1>3, ParentChecks
<1>5. <<>> \in Seq(0..255)
  OBVIOUS
<1> QED
  BY <1>2, <1>4, <1>5, WriteFileFacts

(* vfs.cpp:87-149, 167-186 and 218-224, vfs_mem.cpp:92-109, 252-274 and     *)
(* 378-390: readFile, readdir, exists and access agree with stat, for       *)
(* every path, across mounts; and what readdir lists is what exists, where  *)
(* no mount begins.  It takes that no mount has a backendPath of one        *)
(* relative character, which vfs.cpp:113 drops below the prefix.            *)
THEOREM ReadingCallsAgree == Spec => []ReadsAgree
<1>1. ASSUME TreesInv, \A i \in DOMAIN mounts : ~Dropped(mounts[i]), NEW path \in Paths
      PROVE  LET stat    == VStat(path)
                 readdir == VReaddir(path)
             IN  /\ VReadFile(path).err = "ok" <=> stat.kind = "file"
                 /\ readdir.err = "ok" <=> stat.kind = "dir"
                 /\ VExists(path) => \A bit \in {"read", "exec"} :
                      bit \in stat.mode <=> VAccess(path, {bit}) = "ok"
                 /\ stat.kind = "file" /\ VAccess(path, {"write"}) = "ok" =>
                      WriteFile(fs[W(path).backend], W(path).sub, <<>>).err = "ok"
                 /\ \A n \in Names :
                      ~MountPoint(Append(path, n)) =>
                        (n \in readdir.names <=> VExists(Append(path, n)))
  <2> DEFINE r == R(path)
             f == fs[r.backend]
             s == r.sub
             stat == VStat(path)
             readdir == VReaddir(path)
  <2>1. path \in Seq(STRING) /\ mounts \in Seq(MountEntries)
    BY <1>1, ArgumentsAssumption DEF TreesInv, RouterInv
  <2>2. r.err \in {"ok", "EACCES"}
    BY <2>1, ResolvedFacts DEF R
  <2>3. ASSUME NEW n \in Names, ~MountPoint(Append(path, n))
        PROVE  /\ n \in STRING
               /\ R(Append(path, n)).err = r.err
               /\ r.err = "ok" => /\ R(Append(path, n)).backend = r.backend
                                  /\ R(Append(path, n)).sub = Append(s, n)
    <3>1. n \in STRING /\ n \notin {".", ".."}
      <4>1. n \notin {".", ".."}
        BY DEF Names
      <4>2. PICK p \in Paths : n \in {p[i] : i \in DOMAIN p}
        BY DEF Names
      <4>3. p \in Seq(STRING)
        BY ArgumentsAssumption
      <4>4. PICK i \in DOMAIN p : n = p[i]
        BY <4>2
      <4>5. p[i] \in STRING
        BY <4>3, ElementOfSeq
      <4> QED BY <4>1, <4>4, <4>5
    <3> QED BY <1>1, <2>1, <2>3, <3>1, ResolveAppend DEF R
  <2>4. CASE r.err = "ok"
    <3>1. GoodFS(f) /\ s \in Seq(STRING)
      BY <1>1, <2>1, <2>4, ResolvesToGood DEF R
    <3>2. stat = Stat(f, s) /\ readdir = Readdir(f, s) /\ VReadFile(path) = ReadFile(f, s)
      BY <2>4 DEF VStat, VReaddir, VReadFile
    <3>3. VExists(path) <=> stat.err = "ok"
      BY DEF VExists
    <3> HIDE DEF stat, readdir
    <3>4. VReadFile(path).err = "ok" <=> stat.kind = "file"
      <4> HIDE DEF f, s
      <4> QED BY <3>1, <3>2, ReadFileFacts, StatFacts
    <3>5. readdir.err = "ok" <=> stat.kind = "dir"
      <4> HIDE DEF f, s
      <4> QED BY <3>1, <3>2, ReaddirFacts, StatFacts
    <3>6. ASSUME NEW mode \in {{"read"}, {"exec"}}
          PROVE  VAccess(path, mode) = Access(f, s, mode)
      <4> DEFINE needed == NeededPermForAccess(mode)
                 a == Resolve(path, needed)
      <4>1. needed \subseteq {"read"}
        BY DEF NeededPermForAccess
      <4> HIDE DEF needed
      <4>2. a.err = "ok" /\ a.backend = r.backend /\ a.sub = s
        <5> DEFINE all == {"read"}
        <5>1. R(path) = Resolve(path, all)
          BY DEF R
        <5>2. needed \subseteq all
          BY <4>1
        <5>3. mounts \in Seq(MountEntries)
          BY <2>1
        <5>4. Resolve(path, all).err = "ok"
          BY <2>4, <5>1
        <5> HIDE DEF all, f
        <5>5. /\ Resolve(path, needed).err = "ok"
              /\ Resolve(path, needed).backend = Resolve(path, all).backend
              /\ Resolve(path, needed).sub = Resolve(path, all).sub
          BY <5>2, <5>3, <5>4, ResolvesAlike
        <5> QED BY <5>1, <5>5
      <4> QED BY <4>2 DEF VAccess, needed
    <3>7. ASSUME VExists(path), NEW bit \in {"read", "exec"}
          PROVE  bit \in stat.mode <=> VAccess(path, {bit}) = "ok"
      <4>1. VAccess(path, {bit}) = Access(f, s, {bit})
        BY <3>6
      <4> HIDE DEF f, s
      <4>2. s \in DOMAIN f.tree /\ stat.mode = f.tree[s].mode
        BY <3>1, <3>2, <3>3, <3>7, StatFacts
      <4> QED BY <4>1, <4>2, AccessFacts
    <3>8. ASSUME stat.kind = "file", VAccess(path, {"write"}) = "ok"
          PROVE  WriteFile(fs[W(path).backend], W(path).sub, <<>>).err = "ok"
      <4>1. NeededPermForAccess({"write"}) = {"write"}
        BY DEF NeededPermForAccess
      <4>2. W(path).err = "ok"
        <5> SUFFICES ASSUME W(path).err # "ok" PROVE FALSE
          OBVIOUS
        <5>1. VAccess(path, {"write"}) = W(path).err
          BY <4>1 DEF VAccess, W
        <5> QED BY <3>8, <5>1
      <4>3. W(path).backend = r.backend /\ W(path).sub = s
        <5>1. {} \subseteq {"read"} /\ {} \subseteq {"write"}
          OBVIOUS
        <5>2. Resolve(path, {}).backend = r.backend /\ Resolve(path, {}).sub = s
          BY <2>1, <2>4, <5>1, ResolvesAlike DEF R
        <5>3. Resolve(path, {}).backend = W(path).backend /\ Resolve(path, {}).sub = W(path).sub
          BY <2>1, <4>2, <5>1, ResolvesAlike DEF W
        <5> QED BY <5>2, <5>3
      <4>4. fs[W(path).backend] = f
        BY <4>3
      <4> HIDE DEF f, s
      <4>5. IsFile(f.tree, s)
        BY <3>1, <3>2, <3>8, StatFacts
      <4> QED BY <3>1, <4>3, <4>4, <4>5, FilesCanBeWritten
    <3>9. ASSUME NEW n \in Names, ~MountPoint(Append(path, n))
          PROVE  n \in readdir.names <=> VExists(Append(path, n))
      <4> DEFINE q == Append(path, n)
      <4>1. n \in STRING /\ R(q).err = "ok" /\ R(q).backend = r.backend /\ R(q).sub = Append(s, n)
        BY <2>3, <2>4, <3>9
      <4>2. VExists(q) <=> Stat(f, Append(s, n)).err = "ok"
        BY <4>1 DEF VExists, VStat
      <4> HIDE DEF q, f, s
      <4>3. Stat(f, Append(s, n)).err = "ok" <=> Append(s, n) \in DOMAIN f.tree
        BY <3>1, StatFacts
      <4>4. n \in readdir.names <=> Append(s, n) \in DOMAIN f.tree
        BY <3>1, <3>2, <4>1, ReaddirFacts
      <4> QED BY <4>2, <4>3, <4>4 DEF q
    <3> QED BY <3>4, <3>5, <3>7, <3>8, <3>9 DEF stat, readdir
  <2>5. CASE r.err = "EACCES"
    <3>1. /\ stat.err = "EACCES" /\ stat.kind = "none"
          /\ readdir.err = "EACCES" /\ readdir.names = {}
          /\ VReadFile(path).err = "EACCES"
      BY <2>5 DEF VStat, VReaddir, VReadFile
    <3>2. ~VExists(path)
      BY <3>1 DEF VExists
    <3>3. ASSUME NEW n \in Names, ~MountPoint(Append(path, n))
          PROVE  ~VExists(Append(path, n))
      <4>1. R(Append(path, n)).err = "EACCES"
        BY <2>3, <2>5, <3>3
      <4> QED BY <4>1 DEF VExists, VStat
    <3> HIDE DEF stat, readdir
    <3> QED BY <3>1, <3>2, <3>3 DEF stat, readdir
  <2> QED BY <2>2, <2>4, <2>5
<1>2. TreesInv => ReadsAgree
  BY <1>1 DEF ReadsAgree
<1> QED
  BY TreesInvariant, <1>2, PTL
==============================================================================
