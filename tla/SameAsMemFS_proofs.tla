-------------------------- MODULE SameAsMemFS_proofs --------------------------
(***************************************************************************)
(* Proof that RealFSBackend does what MemFSBackend does, call by call, for *)
(* any disk, links, paths and contents: SameAsMemFS of RealFS.             *)
(***************************************************************************)
EXTENDS RealFS_proofs

------------------------------------------------------------------------------
(* Where paths lead.                                                       *)

Grounded(D) == GoodDisk(D) /\ IsDir(D, <<>>)

LEMMA RootThere ==
  ASSUME NEW D, Grounded(D), NEW p \in Seq(STRING)
  PROVE  Exist(D, p) # {} /\ <<>> \in DOMAIN D /\ Follow(D, <<>>) = <<>>
<1>1. GoodDisk(D) /\ <<>> \in DOMAIN D /\ ~IsLink(D, <<>>) /\ <<>> \in Seq(STRING)
  BY GoodDiskFacts DEF Grounded, IsDir, IsLink
<1>2. 0 \in 0..Len(p) /\ SubSeq(p, 1, 0) = <<>>
  BY EmptySeq
<1>3. Follow(D, <<>>) = <<>>
  BY <1>1, NotLinkStays
<1>4. Existing(D, <<>>).err = "ok"
  BY <1>1, <1>3, ExistingFacts
<1>5. 0 \in Exist(D, p)
  BY <1>2, <1>4 DEF Exist
<1> QED
  BY <1>1, <1>3, <1>5

(* What weakly_canonical makes of a path: it exists, or its first name that *)
(* does not exist is z, after x; and then v is left.                        *)
Missing(D, p, x, z, v) ==
  /\ x \in Seq(STRING) /\ z \in Seq(STRING) /\ v \in Seq(STRING) /\ Len(z) = 1
  /\ p = (x \o z) \o v
  /\ Follow(D, x) \in DOMAIN D /\ ~IsLink(D, Follow(D, x))
  /\ Existing(D, x \o z).err # "ok"
  /\ Creating(D, p).path = (Follow(D, x) \o z) \o v
  /\ Creating(D, p).err # "ok" <=> Existing(D, x \o z).err = "ELOOP"

LEMMA CreatingCases ==
  ASSUME NEW D, Grounded(D), NEW p \in Seq(STRING)
  PROVE  \/ /\ Creating(D, p).err = "ok" /\ Creating(D, p).path = Follow(D, p)
            /\ Follow(D, p) \in DOMAIN D /\ ~IsLink(D, Follow(D, p))
         \/ \E x, z, v : Missing(D, p, x, z, v)
<1>1. GoodDisk(D) /\ Exist(D, p) # {}
  BY RootThere DEF Grounded
<1>2. PICK k \in Exist(D, p) :
        /\ \A j \in Exist(D, p) : j <= k
        /\ Creating(D, p).path = Follow(D, SubSeq(p, 1, k)) \o SubSeq(p, k + 1, Len(p))
        /\ Creating(D, p).err # "ok" <=>
             k < Len(p) /\ Existing(D, SubSeq(p, 1, k + 1)).err = "ELOOP"
  BY <1>1, CreatingFacts
<1> DEFINE x == SubSeq(p, 1, k)
           y == SubSeq(p, k + 1, Len(p))
           F == Follow(D, x)
<1>3. k \in 0..Len(p) /\ Len(p) \in Nat /\ Existing(D, x).err = "ok"
  BY <1>2 DEF Exist
<1>4. x \in Seq(STRING) /\ y \in Seq(STRING) /\ Len(y) = Len(p) - k /\ p = x \o y
  BY <1>3, SplitAt
<1>5. F \in Seq(STRING) /\ F \in DOMAIN D /\ ~IsLink(D, F)
  <2> HIDE DEF x
  <2> QED BY <1>1, <1>3, <1>4, ExistingFacts
<1>6. CASE k = Len(p)
  <2>1. Len(y) = 0 /\ x = p
    BY <1>3, <1>4, <1>6, WholeSubSeq
  <2>2. Creating(D, p).path = F \o y /\ Creating(D, p).err = "ok"
    BY <1>2, <1>3, <1>6
  <2> HIDE DEF y, x
  <2>3. y = <<>>
    BY <1>4, <2>1, EmptySeq
  <2>4. F \o y = F
    BY <1>5, <2>3, ConcatEmptySeq
  <2> QED BY <1>5, <2>1, <2>2, <2>4
<1>7. CASE k < Len(p)
  <2>1. PICK z \in Seq(STRING), v \in Seq(STRING) :
          /\ Len(z) = 1 /\ y = z \o v /\ SubSeq(p, 1, k + 1) = x \o z
    <3>1. k \in Nat
      BY <1>3
    <3> QED BY <1>7, <3>1, FirstOfRest
  <2>2. k + 1 \in 0..Len(p) /\ ~(k + 1 <= k)
    BY <1>3, <1>7
  <2>3. Existing(D, x \o z).err # "ok"
    BY <1>2, <2>1, <2>2 DEF Exist
  <2>4. Creating(D, p).err # "ok" <=> Existing(D, x \o z).err = "ELOOP"
    BY <1>2, <1>7, <2>1
  <2>5. Creating(D, p).path = F \o y
    BY <1>2
  <2> HIDE DEF F, x, y
  <2>6. p = (x \o z) \o v /\ F \o y = (F \o z) \o v
    <3> DEFINE a == x \o z
               b == F \o z
               c == F \o y
    <3>1. IsJoin(a, x, z) /\ IsJoin(y, z, v) /\ IsJoin(p, x, y)
      BY <1>4, <2>1 DEF IsJoin
    <3>2. IsJoin(b, F, z) /\ IsJoin(c, F, y)
      BY DEF IsJoin
    <3> HIDE DEF a, b, c
    <3>3. IsJoin(p, a, v) /\ IsJoin(c, b, v)
      BY <1>4, <1>5, <2>1, <3>1, <3>2, JoinedPaths
    <3> QED BY <3>3 DEF IsJoin, a, b, c
  <2>7. Missing(D, p, x, z, v)
    BY <1>4, <1>5, <2>1, <2>3, <2>4, <2>5, <2>6 DEF Missing, F
  <2> QED BY <2>7
<1> QED
  BY <1>3, <1>6, <1>7

(* A path that is resolved without an error leads where it did, and not to *)
(* a link.                                                                 *)
LEMMA CreatingLeads ==
  ASSUME NEW D, Grounded(D), NEW p \in Seq(STRING), Creating(D, p).err = "ok"
  PROVE  /\ Creating(D, p).path \in Seq(STRING)
         /\ Follow(D, Creating(D, p).path) = Follow(D, p)
         /\ LinksOn(D, Follow(D, p)) = {}
<1>1. GoodDisk(D) /\ Creating(D, p).path \in Seq(STRING) /\ Follow(D, p) \in Seq(STRING)
  BY CreatingFacts, FollowType DEF Grounded
<1>2. CASE /\ Creating(D, p).path = Follow(D, p)
           /\ Follow(D, p) \in DOMAIN D /\ ~IsLink(D, Follow(D, p))
  BY <1>1, <1>2, NotLinkStays
<1>3. ASSUME NEW x, NEW z, NEW v, Missing(D, p, x, z, v)
      PROVE  /\ Follow(D, Creating(D, p).path) = Follow(D, p)
             /\ LinksOn(D, Follow(D, p)) = {}
  <2> DEFINE F == Follow(D, x)
             a == x \o z
             u == F \o z
             e == Follow(D, a)
  <2>1. /\ x \in Seq(STRING) /\ z \in Seq(STRING) /\ v \in Seq(STRING)
        /\ p = a \o v /\ F \in DOMAIN D /\ ~IsLink(D, F)
        /\ Existing(D, a).err # "ok" /\ Existing(D, a).err # "ELOOP"
        /\ Creating(D, p).path = u \o v
    BY <1>3 DEF Missing
  <2>2. a \in Seq(STRING) /\ u \in Seq(STRING) /\ F \in Seq(STRING)
    BY <1>1, <2>1, FollowType
  <2>3. e \in Seq(STRING) /\ LinksOn(D, e) = {} /\ e \notin DOMAIN D
    <3> HIDE DEF a
    <3> QED BY <1>1, <2>1, <2>2, LoopsAre, FollowType
  <2>4. LinksOn(D, F) = {}
    <3> HIDE DEF F
    <3> QED BY <1>1, <2>1, NotLinkStays
  <2>5. Follow(D, u) = e
    <3>1. LinksOn(D, Follow(D, x)) = {} /\ LinksOn(D, Follow(D, x \o z)) = {}
      BY <2>3, <2>4
    <3>2. GoodDisk(D) /\ x \in Seq(STRING) /\ z \in Seq(STRING)
      BY <1>1, <2>1
    <3>3. Follow(D, Follow(D, x) \o z) = Follow(D, x \o z)
      <4> HIDE DEF F, a, u, e
      <4> QED BY <3>1, <3>2, FollowOn
    <3> QED BY <3>3
  <2> HIDE DEF a, u, e, F
  <2>6. LinksOn(D, e \o v) = {}
    BY <1>1, <2>1, <2>3, NothingBeyond
  <2>7. Follow(D, a \o v) = e \o v
    <3>1. LinksOn(D, Follow(D, a) \o v) = {}
      BY <2>6 DEF e
    <3> QED BY <1>1, <2>1, <2>2, <3>1, FollowBeyond DEF e
  <2>8. Follow(D, u \o v) = e \o v
    <3>1. LinksOn(D, Follow(D, u) \o v) = {}
      BY <2>5, <2>6
    <3>2. Follow(D, u \o v) = Follow(D, u) \o v
      BY <1>1, <2>1, <2>2, <3>1, FollowBeyond
    <3> QED BY <2>5, <3>2
  <2> QED BY <2>1, <2>6, <2>7, <2>8
<1> QED
  BY <1>1, <1>2, <1>3, CreatingCases

LEMMA NoLinkNoLoop ==
  ASSUME NEW D, NEW p, LinksOn(D, Follow(D, p)) = {}
  PROVE  Existing(D, p).err # "ELOOP"
<1> DEFINE q == Follow(D, p)
           b == \E i \in 0..(Len(q) - 1) : IsFile(D, SubSeq(q, 1, i))
           c == q \notin DOMAIN D
           s == << <<FALSE, "ELOOP">>, <<b, "ENOTDIR">>, <<c, "ENOENT">> >>
           failing == {i \in DOMAIN s : s[i][1]}
           first == CHOOSE i \in failing : \A j \in failing : i <= j
<1>1. Existing(D, p).err = FirstError(s)
  BY DEF Existing, Lookup
<1> HIDE DEF b, c
<1>2. DOMAIN s = {1, 2, 3} /\ ~s[1][1] /\ s[2][2] = "ENOTDIR" /\ s[3][2] = "ENOENT"
  OBVIOUS
<1>3. failing \subseteq {2, 3}
  BY <1>2
<1>4. FirstError(s) = IF failing = {} THEN "ok" ELSE s[first][2]
  BY DEF FirstError
<1>5. ASSUME failing # {} PROVE first \in failing
  <2> HIDE DEF failing
  <2>1. \E i \in failing : \A j \in failing : i <= j
    <3>1. failing \in SUBSET Nat
      BY <1>3
    <3> QED BY <1>5, <3>1, LeastNumber
  <2> QED BY <2>1
<1> HIDE DEF failing, first, s
<1> QED
  BY <1>1, <1>2, <1>3, <1>4, <1>5

(* One that is not, and leads nowhere else, goes through a link.            *)
LEMMA CreatingLoops ==
  ASSUME NEW D, Grounded(D), NEW p \in Seq(STRING), Creating(D, p).err # "ok",
         Creating(D, p).path = Follow(D, p)
  PROVE  LinksOn(D, Follow(D, p)) # {}
<1> SUFFICES ASSUME LinksOn(D, Follow(D, p)) = {} PROVE FALSE
  OBVIOUS
<1>1. GoodDisk(D)
  BY DEF Grounded
<1>2. PICK x, z, v : Missing(D, p, x, z, v)
  BY CreatingCases
<1> DEFINE F == Follow(D, x)
           a == x \o z
           u == F \o z
<1>3. /\ x \in Seq(STRING) /\ z \in Seq(STRING) /\ v \in Seq(STRING)
      /\ F \in DOMAIN D /\ ~IsLink(D, F) /\ Existing(D, a).err = "ELOOP"
      /\ Follow(D, p) = u \o v
  BY <1>2 DEF Missing
<1>4. a \in Seq(STRING) /\ u \in Seq(STRING) /\ F \in Seq(STRING)
  BY <1>1, <1>3, FollowType
<1>5. LinksOn(D, u) = {}
  <2> SUFFICES ASSUME NEW i \in 1..Len(u), IsLink(D, SubSeq(u, 1, i)) PROVE FALSE
    BY DEF LinksOn
  <2> HIDE DEF u
  <2> DEFINE w == u \o v
  <2>1. i \in 0..Len(u) /\ Len(w) = Len(u) + Len(v) /\ Len(u) \in Nat /\ Len(v) \in Nat
    BY <1>3, <1>4
  <2>2. SubSeq(w, 1, i) = SubSeq(u, 1, i)
    BY <1>3, <1>4, <2>1, PrefixOfConcat
  <2>3. i \in 1..Len(w)
    BY <2>1
  <2> HIDE DEF w
  <2>4. i \in LinksOn(D, w)
    BY <2>2, <2>3 DEF LinksOn
  <2> QED BY <1>3, <2>4 DEF w
<1>6. Follow(D, a) = u
  BY <1>1, <1>3, <1>5, FollowBeyond
<1>7. Existing(D, a).err # "ELOOP"
  <2> HIDE DEF a
  <2> QED BY <1>4, <1>5, <1>6, NoLinkNoLoop
<1> QED
  BY <1>3, <1>7

------------------------------------------------------------------------------
(* Checks of which only some with one error fail.                          *)

FailsWith(c, e) == \A i \in DOMAIN c : c[i][1] => c[i][2] = e

LEMMA OnlyError ==
  ASSUME NEW c \in DiskChecks, ~Passes(c), NEW e, FailsWith(c, e)
  PROVE  FirstError(c) = e
<1> DEFINE failing == {i \in DOMAIN c : c[i][1]}
           first == CHOOSE i \in failing : \A j \in failing : i <= j
<1>1. failing # {}
  BY DEF Passes
<1>2. DOMAIN c \subseteq Nat
  BY DEF DiskChecks, ChecksOf
<1>3. failing \in SUBSET Nat
  BY <1>2
<1>4. FirstError(c) = c[first][2]
  BY <1>1 DEF FirstError
<1>5. first \in failing
  <2> HIDE DEF failing
  <2>1. \E i \in failing : \A j \in failing : i <= j
    BY <1>1, <1>3, LeastNumber
  <2> QED BY <2>1
<1> HIDE DEF first
<1> QED
  BY <1>4, <1>5 DEF FailsWith

LEMMA OneFailsWith ==
  ASSUME NEW a \in BOOLEAN, NEW k \in Code, NEW e, a => k = e
  PROVE  FailsWith(<< <<a, k>> >>, e)
BY DEF FailsWith

LEMMA PassingFailsWith ==
  ASSUME NEW c, Passes(c), NEW e
  PROVE  FailsWith(c, e)
BY DEF FailsWith, Passes

LEMMA MoreFailWith ==
  ASSUME NEW c \in DiskChecks, NEW d \in DiskChecks, NEW e, FailsWith(c, e), FailsWith(d, e)
  PROVE  FailsWith(c \o d, e)
<1>1. /\ c \in Seq(BOOLEAN \X Code) /\ d \in Seq(BOOLEAN \X Code)
      /\ Len(c) \in Nat /\ Len(d) \in Nat
  BY DEF DiskChecks, ChecksOf
<1>2. /\ DOMAIN c = 1..Len(c) /\ DOMAIN d = 1..Len(d) /\ DOMAIN (c \o d) = 1..(Len(c) + Len(d))
      /\ \A i \in 1..Len(c) : (c \o d)[i] = c[i]
      /\ \A i \in (Len(c) + 1)..(Len(c) + Len(d)) : (c \o d)[i] = d[i - Len(c)]
  BY <1>1
<1> DEFINE s == c \o d
<1> HIDE DEF s
<1>3. SUFFICES ASSUME NEW i \in DOMAIN s, s[i][1] PROVE s[i][2] = e
  BY DEF FailsWith, s
<1>4. CASE i \in 1..Len(c)
  BY <1>2, <1>3, <1>4 DEF FailsWith, s
<1>5. CASE i \in (Len(c) + 1)..(Len(c) + Len(d))
  <2>1. i - Len(c) \in 1..Len(d)
    BY <1>1, <1>5
  <2> QED BY <1>2, <1>3, <1>5, <2>1 DEF FailsWith, s
<1> QED
  BY <1>1, <1>2, <1>3, <1>4, <1>5 DEF s

------------------------------------------------------------------------------
(* A disk in memory.                                                       *)

Remembered(n) ==
  [kind |-> IF n.kind = "dir" THEN "dir" ELSE "file", ino |-> 0, data |-> n.data,
   size |-> Len(n.data), mode |-> n.mode, mtime |-> n.mtime]

LEMMA MemoryFacts ==
  ASSUME NEW D
  PROVE  /\ InMemory(D).tree = [p \in DOMAIN D |-> Remembered(D[p])]
         /\ DOMAIN InMemory(D).tree = DOMAIN D
         /\ \A p \in DOMAIN D : InMemory(D).tree[p] = Remembered(D[p])
<1>1. InMemory(D).tree = [p \in DOMAIN D |-> Remembered(D[p])]
  BY DEF InMemory, Remembered, IsDir
<1> QED
  BY <1>1

LEMMA RememberedFacts ==
  ASSUME NEW n
  PROVE  /\ Remembered(n).kind = IF n.kind = "dir" THEN "dir" ELSE "file"
         /\ Remembered(n).data = n.data /\ Remembered(n).size = Len(n.data)
         /\ Remembered(n).mode = n.mode /\ Remembered(n).mtime = n.mtime
         /\ Remembered(n).ino = 0
BY DEF Remembered

LEMMA MemoryKinds ==
  ASSUME NEW D, NEW p
  PROVE  /\ IsDir(InMemory(D).tree, p) <=> IsDir(D, p)
         /\ IsFile(InMemory(D).tree, p) <=> p \in DOMAIN D /\ ~IsDir(D, p)
         /\ Below(InMemory(D).tree, p) = Below(D, p)
         /\ HasChildren(InMemory(D).tree, p) <=> HasChildren(D, p)
<1> DEFINE M == InMemory(D).tree
<1>1. DOMAIN M = DOMAIN D
      /\ \A r \in DOMAIN D : M[r].kind = IF D[r].kind = "dir" THEN "dir" ELSE "file"
  <2>1. DOMAIN M = DOMAIN D /\ \A r \in DOMAIN D : M[r] = Remembered(D[r])
    BY MemoryFacts
  <2> HIDE DEF M
  <2>2. \A n : Remembered(n).kind = IF n.kind = "dir" THEN "dir" ELSE "file"
    BY RememberedFacts
  <2> QED BY <2>1, <2>2
<1> HIDE DEF M
<1>2. /\ IsDir(M, p) <=> IsDir(D, p)
      /\ IsFile(M, p) <=> p \in DOMAIN D /\ ~IsDir(D, p)
  BY <1>1 DEF IsDir, IsFile
<1>3. Below(M, p) = Below(D, p)
  BY <1>1 DEF Below
<1>4. HasChildren(M, p) <=> HasChildren(D, p)
  BY <1>3 DEF HasChildren
<1> QED
  BY <1>2, <1>3, <1>4 DEF M

LEMMA MemoryParent ==
  ASSUME NEW D, Grounded(D), NEW q \in Seq(STRING)
  PROVE  Passes(ParentDir(InMemory(D).tree, q)) <=> (q # <<>> => IsDir(D, Front(q)))
<1>1. Passes(ParentDir(InMemory(D).tree, q)) <=> (Len(q) > 1 => IsDir(D, Front(q)))
  BY ParentChecks, MemoryFacts, MemoryKinds DEF IsDir
<1>2. CASE q = <<>>
  BY <1>1, <1>2
<1>3. CASE q # <<>> /\ Len(q) = 1
  <2>1. Front(q) \in Seq(STRING) /\ Len(Front(q)) = 0
    BY <1>3, FrontFacts
  <2>2. Front(q) = <<>>
    BY <2>1, EmptySeq
  <2> QED BY <1>1, <1>3, <2>2 DEF Grounded
<1>4. CASE Len(q) > 1
  BY <1>1, <1>4
<1>5. Len(q) \in Nat /\ (Len(q) = 0 => q = <<>>)
  BY EmptySeq
<1>6. q = <<>> \/ (q # <<>> /\ Len(q) = 1) \/ Len(q) > 1
  BY <1>5
<1> QED
  BY <1>2, <1>3, <1>4, <1>6

(* A call was answered with err and out, and has left E of the disk D.      *)
Agree(args, D, err, out, E) ==
  LET memory == MemoryDoes(args, D)
  IN  /\ err = "ok" <=> memory.err = "ok"
      /\ err = "ok" => out = memory.out
      /\ Looks(args, D, InMemory(E).tree) = Looks(args, D, memory.fs.tree)

AlikeAt(args, D, r, n, m) ==
  /\ n.kind = m.kind /\ n.data = m.data
  /\ n.mode = m.mode \/ (args.op = "mkdir" /\ r # Follow(D, args.path))
  /\ \/ n.mtime = m.mtime
     \/ n.kind = "dir" \/ args.op \in {"copyFile", "truncate"}
     \/ args.op = "appendFile" /\ args.data = <<>>
     \/ args.op = "utimes" /\ EpochOffset # 0 /\ r = Follow(D, args.path)

LEMMA LooksAlike ==
  ASSUME NEW args, NEW D, NEW T, NEW U, DOMAIN T = DOMAIN U,
         \A r \in DOMAIN T : AlikeAt(args, D, r, T[r], U[r])
  PROVE  Looks(args, D, T) = Looks(args, D, U)
<1> DEFINE At0(r, n) ==
             [kind |-> n.kind, data |-> n.data,
              mode |-> IF args.op = "mkdir" /\ r # Follow(D, args.path) THEN {} ELSE n.mode,
              mtime |-> IF \/ n.kind = "dir" \/ args.op \in {"copyFile", "truncate"}
                           \/ args.op = "appendFile" /\ args.data = <<>>
                           \/ args.op = "utimes" /\ EpochOffset # 0 /\ r = Follow(D, args.path)
                        THEN Now ELSE n.mtime]
<1>1. Looks(args, D, T) = [r \in DOMAIN T |-> At0(r, T[r])]
      /\ Looks(args, D, U) = [r \in DOMAIN U |-> At0(r, U[r])]
  BY DEF Looks
<1>2. \A r \in DOMAIN T : At0(r, T[r]) = At0(r, U[r])
  BY DEF AlikeAt
<1> HIDE DEF At0
<1> QED
  BY <1>1, <1>2

LEMMA SameIsAlike ==
  ASSUME NEW args, NEW D, NEW r, NEW n
  PROVE  AlikeAt(args, D, r, n, n)
BY DEF AlikeAt

(* One node is put onto the disk, and one into memory.                      *)
LEMMA LooksPut ==
  ASSUME NEW args, NEW D, NEW p, NEW E, NEW m, SameBut(D, E, {p}), p \in DOMAIN E,
         AlikeAt(args, D, p, Remembered(E[p]), m)
  PROVE  Looks(args, D, InMemory(E).tree) = Looks(args, D, With(InMemory(D).tree, p, m))
<1> DEFINE T == InMemory(E).tree
           M == InMemory(D).tree
           U == With(M, p, m)
<1>1. /\ DOMAIN M = DOMAIN D /\ DOMAIN T = DOMAIN E
      /\ \A r \in DOMAIN E : T[r] = Remembered(E[r])
      /\ \A r \in DOMAIN D : M[r] = Remembered(D[r])
  BY MemoryFacts
<1> HIDE DEF T, M
<1>2. DOMAIN U = DOMAIN M \union {p} /\ U[p] = m /\ \A r \in DOMAIN M : r # p => U[r] = M[r]
  BY DEF With
<1> HIDE DEF U
<1>3. DOMAIN T = DOMAIN U
  BY <1>1, <1>2 DEF SameBut
<1>4. ASSUME NEW r \in DOMAIN T PROVE AlikeAt(args, D, r, T[r], U[r])
  <2>1. CASE r = p
    BY <1>1, <1>2, <2>1
  <2>2. CASE r # p
    <3>1. r \in DOMAIN D /\ E[r] = D[r]
      BY <1>1, <2>2 DEF SameBut
    <3>2. T[r] = U[r]
      BY <1>1, <1>2, <2>2, <3>1
    <3> QED BY <3>2, SameIsAlike
  <2> QED BY <2>1, <2>2
<1>5. Looks(args, D, T) = Looks(args, D, U)
  BY <1>3, <1>4, LooksAlike
<1> QED
  BY <1>5 DEF T, U, M

LEMMA MemoryWithout ==
  ASSUME NEW D, NEW P
  PROVE  InMemory(Without(D, P)).tree = Without(InMemory(D).tree, P)
<1> DEFINE E == Without(D, P)
           M == InMemory(D).tree
<1>1. DOMAIN E = DOMAIN D \ P /\ \A p \in DOMAIN E : E[p] = D[p]
  BY DEF Without
<1>2. DOMAIN M = DOMAIN D /\ \A p \in DOMAIN D : M[p] = Remembered(D[p])
  BY MemoryFacts
<1> HIDE DEF E, M
<1>3. InMemory(E).tree = [p \in DOMAIN E |-> Remembered(E[p])]
  BY MemoryFacts
<1>4. Without(M, P) = [p \in DOMAIN D \ P |-> M[p]]
  BY <1>2 DEF Without
<1>5. \A p \in DOMAIN E : Remembered(E[p]) = M[p]
  BY <1>1, <1>2
<1>6. InMemory(E).tree = Without(M, P)
  BY <1>1, <1>3, <1>4, <1>5
<1> QED
  BY <1>6 DEF E, M

------------------------------------------------------------------------------
(* The invariant: how far a call that no one has interfered with has come,  *)
(* said of the disk that it found.                                         *)

Found ==
  LET r == Resolve(call.start, call.args.op, call.args.path)
  IN  /\ r.err = "ok" /\ (call.pc # "open" => call.q = r.path)
      /\ call.args.op = "truncate" => call.args.n >= 0
      /\ call.pc = "second" => call.args.op \in {"rename", "copyFile"}

OldNode(D, t) == IF t \in DOMAIN D THEN D[t] ELSE NewFile

OpenedNode(D, op, t) ==
  IF op = "appendFile" THEN OldNode(D, t)
  ELSE [OldNode(D, t) EXCEPT !.data = <<>>, !.mtime = Now]

OpenedAs(D, op, t) == With(D, t, OpenedNode(D, op, t))

(* What a mkdir that succeeds makes, and when the one in memory succeeds.   *)
NewOn(D, p) == PrefixesOf(p) \ DOMAIN D

CanMake(D, p, recursive) ==
  /\ p \notin DOMAIN D
  /\ IF recursive THEN \A s \in PrefixesOf(p) \cap DOMAIN D : IsDir(D, s)
                  ELSE IsDir(D, Front(p))

Makeable(args, D) ==
  /\ Grounded(D) /\ ~IsDir(D, Follow(D, args.path))
  /\ Creating(D, args.path).path = Follow(D, args.path)

ReadOpen ==
  /\ call.args.op = "readFile" /\ call.q = Follow(call.start, call.args.path)
  /\ IsFile(call.start, call.q) /\ call.size = Len(call.start[call.q].data)

WriteOpen ==
  /\ call.args.op \in {"writeFile", "appendFile"}
  /\ call.q = Follow(call.start, Creating(call.start, call.args.path).path)
  /\ CanOpen(call.start, call.q) /\ disk = OpenedAs(call.start, call.args.op, call.q)

(* E is D with directories at the prefixes of p that are shorter than n.    *)
UpTo(p, i) == {SubSeq(p, 1, j) : j \in 0..i}

HalfWay(D, E, p, n) ==
  /\ n \in 1..Len(p) /\ CanMake(D, p, TRUE)
  /\ IsDir(E, SubSeq(p, 1, n - 1))
  /\ \A j \in n..Len(p) : SubSeq(p, 1, j) \notin DOMAIN E
  /\ E = AddDirs(D, UpTo(p, n - 1) \ DOMAIN D)

DirsOnTheWay ==
  /\ call.args.op = "mkdir" /\ call.args.recursive
  /\ Makeable(call.args, call.start) =>
       HalfWay(call.start, disk, Follow(call.start, call.args.path), call.size)

DirsMade ==
  /\ call.args.op = "mkdir"
  /\ Makeable(call.args, call.start) =>
       LET p == Follow(call.start, call.args.path)
       IN  CanMake(call.start, p, call.args.recursive)
           /\ disk = AddDirs(call.start, NewOn(call.start, p))

HalfStat ==
  /\ call.args.op \in {"stat", "lstat"}
  /\ call.got = [kind |-> call.start[call.q].kind, mode |-> call.start[call.q].mode]

CalmInv ==
  call # Idle /\ call.alone =>
    /\ call.pc # "called" => Found
    /\ call.pc = "resolved" /\ call.args.op \in {"rename", "copyFile"} =>
         /\ Creating(call.start, call.args.to).err = "ok"
         /\ call.q2 = Creating(call.start, call.args.to).path
    /\ call.pc = "open" => ReadOpen \/ WriteOpen
    /\ call.pc = "making" => DirsOnTheWay
    /\ call.pc = "made" => DirsMade
    /\ call.pc = "status" => HalfStat

LEMMA AnsweredCalm ==
  ASSUME call' = Idle
  PROVE  CalmInv'
BY DEF CalmInv

LEMMA HostCalm ==
  ASSUME RealInv, HostPut \/ HostRemove
  PROVE  CalmInv'
<1>1. PICK p : /\ GoodDisk(disk') /\ Noticed(p)
               /\ p \in DOMAIN disk \/ p \in DOMAIN disk'
  BY HostChanges
<1>2. call' = Idle \/ ~call'.alone \/ call'.pc = "called"
  BY <1>1, NoticedFacts
<1> QED
  BY <1>2 DEF CalmInv

LEMMA BeginCalm ==
  ASSUME RealInv, BeginCall
  PROVE  CalmInv'
<1>1. PICK args \in CallArgs : Begin(args)
  BY BeginsWith
<1>2. call'.pc = "called"
  BY <1>1, BeginFacts
<1> QED
  BY <1>2 DEF CalmInv

LEMMA ResolveFirstCalm ==
  ASSUME RealInv, AloneInv, ResolveFirst
  PROVE  CalmInv'
<1> DEFINE r == Resolve(disk, call.args.op, call.args.path)
<1>1. CASE call' = Idle
  BY <1>1, AnsweredCalm
<1>2. CASE call' # Idle
  <2> SUFFICES ASSUME call'.alone PROVE CalmInv'
    BY DEF CalmInv
  <2>1. /\ GoodCall(call) /\ call.pc = "called"
        /\ call'.args = call.args /\ call'.pc \in {"second", "resolved"}
        /\ call'.pc = "second" <=> call.args.op \in {"rename", "copyFile"}
        /\ call'.q = r.path /\ r.err = "ok"
        /\ ~(call.args.op = "truncate" /\ call.args.n < 0)
        /\ call.alone /\ call'.start = call.start
    BY <1>2, ResolveFirstFacts
  <2>2. disk = call.start
    BY <2>1, ResolvedAlone
  <2>3. call.args.n \in Int
    BY <2>1 DEF GoodCall, CallOf, CallArgs
  <2>4. call.args.op = "truncate" => call.args.n >= 0
    BY <2>1, <2>3
  <2>5. r = Resolve(call.start, call'.args.op, call'.args.path)
    BY <2>1, <2>2
  <2> HIDE DEF r
  <2>6. Found'
    BY <2>1, <2>4, <2>5 DEF Found
  <2> QED BY <2>1, <2>6 DEF CalmInv
<1> QED
  BY <1>1, <1>2

LEMMA ResolveSecondCalm ==
  ASSUME RealInv, AloneInv, CalmInv, ResolveSecond
  PROVE  CalmInv'
<1>1. CASE call' = Idle
  BY <1>1, AnsweredCalm
<1>2. CASE call' # Idle
  <2> SUFFICES ASSUME call'.alone PROVE CalmInv'
    BY DEF CalmInv
  <2>1. /\ call.pc = "second" /\ disk' = disk
        /\ call'.pc = "resolved" /\ call'.args = call.args
        /\ call'.q = call.q /\ call'.q2 = Creating(disk, call.args.to).path
        /\ Creating(disk, call.args.to).err = "ok"
        /\ call.alone /\ call'.start = call.start
    BY <1>2, ResolveSecondFacts
  <2>2. call # Idle /\ disk = call.start
    BY <2>1, ResolvedAlone
  <2>3. Found
    BY <2>1, <2>2 DEF CalmInv
  <2>4. Found'
    BY <2>1, <2>3 DEF Found
  <2> QED BY <2>1, <2>2, <2>4 DEF CalmInv
<1> QED
  BY <1>1, <1>2

(* What is resolved before a call that needs it to exist.                   *)
LEMMA ExistingFound ==
  ASSUME RealInv, AloneInv, CalmInv, call.pc \in {"second", "resolved", "status"}, call.alone,
         call.args.op \notin {"writeFile", "appendFile", "mkdir"}
  PROVE  /\ call.q = Follow(call.start, call.args.path) /\ call.q \in DOMAIN call.start
         /\ ~IsLink(call.start, call.q) /\ Follow(call.start, call.q) = call.q
         /\ Named(call.start, call.q) = call.q
         /\ call # Idle /\ GoodDisk(call.start) /\ GoodCall(call) /\ disk = call.start
         /\ call.args \in CallArgs
<1>1. call # Idle /\ GoodDisk(call.start) /\ disk = call.start
  BY ResolvedAlone
<1>2. GoodCall(call) /\ call.args \in CallArgs
  BY <1>1 DEF RealInv, GoodCall, CallOf
<1> DEFINE D == call.start
           p == call.args.path
<1>3. Resolve(D, call.args.op, p).err = "ok" /\ call.q = Resolve(D, call.args.op, p).path
  BY <1>1 DEF CalmInv, Found
<1>4. Resolve(D, call.args.op, p) = Existing(D, p) /\ p \in Seq(STRING)
  BY <1>2 DEF Resolve, CallArgs
<1> HIDE DEF D, p
<1>5. GoodDisk(D)
  BY <1>1 DEF D
<1>6. call.q = Follow(D, p) /\ call.q \in DOMAIN D /\ ~IsLink(D, call.q)
  BY <1>3, <1>4, <1>5, ExistingFacts
<1>7. Follow(D, call.q) = call.q /\ Named(D, call.q) = call.q
  BY <1>5, <1>6, NotLinkStays, NamedNode
<1> QED
  BY <1>1, <1>2, <1>6, <1>7 DEF D, p

LEMMA OpenReadCalm ==
  ASSUME RealInv, AloneInv, CalmInv, OpenRead
  PROVE  CalmInv'
<1>1. CASE call' = Idle
  BY <1>1, AnsweredCalm
<1>2. CASE call' # Idle
  <2> SUFFICES ASSUME call'.alone PROVE CalmInv'
    BY DEF CalmInv
  <2>1. /\ call.pc = "resolved" /\ call.args.op = "readFile" /\ disk' = disk
        /\ call'.pc = "open" /\ call'.args = call.args
        /\ call'.q = Follow(disk, call.q) /\ IsFile(disk, call'.q)
        /\ call'.size = Len(disk[call'.q].data)
        /\ call.alone /\ call'.start = call.start
    BY <1>2, OpenReadFacts
  <2>2. /\ call # Idle /\ disk = call.start /\ call.q = Follow(call.start, call.args.path)
        /\ Follow(call.start, call.q) = call.q
    BY <2>1, ExistingFound
  <2>3. Found
    BY <2>1, <2>2 DEF CalmInv
  <2>4. Found'
    BY <2>1, <2>3 DEF Found
  <2>5. ReadOpen'
    BY <2>1, <2>2 DEF ReadOpen
  <2> QED BY <2>1, <2>4, <2>5 DEF CalmInv
<1> QED
  BY <1>1, <1>2

LEMMA OpenWriteOpens ==
  ASSUME RealInv, OpenWrite, call' # Idle
  PROVE  /\ call'.q = Follow(disk, call.q) /\ CanOpen(disk, call'.q)
         /\ disk' = OpenedAs(disk, call.args.op, call'.q)
<1> DEFINE t == Follow(disk, call.q)
           c == [call EXCEPT !.pc = "open", !.q = t]
<1>1. GoodCall(call) /\ GoodDisk(disk) /\ t \in Seq(STRING)
  <2>1. GoodCall(call) /\ GoodDisk(disk)
    BY InCall DEF OpenWrite
  <2> QED BY <2>1, FollowType DEF GoodCall, CallOf
<1>2. CanOpen(disk, t) /\ disk' = OpenedAs(disk, call.args.op, t) /\ call' = c
  BY DEF OpenWrite, Answer, Answered, OpenedAs, OpenedNode, OldNode
<1>3. c = OnPath(GoesTo(call, "open"), t)
  BY DEF GoesTo, OnPath
<1> HIDE DEF c, t
<1>4. GoodCall(GoesTo(call, "open"))
  BY <1>1, Goes DEF Pcs
<1>5. c.q = t
  BY <1>1, <1>3, <1>4, TakesPath
<1> QED
  BY <1>2, <1>5 DEF t

LEMMA OpenWriteCalm ==
  ASSUME RealInv, AloneInv, CalmInv, OpenWrite
  PROVE  CalmInv'
<1>1. CASE call' = Idle
  BY <1>1, AnsweredCalm
<1>2. CASE call' # Idle
  <2> SUFFICES ASSUME call'.alone PROVE CalmInv'
    BY DEF CalmInv
  <2>1. /\ call.pc = "resolved" /\ call.args.op \in {"writeFile", "appendFile"}
        /\ call'.pc = "open" /\ call'.args = call.args
        /\ call.alone /\ call'.start = call.start
    BY <1>2, OpenWriteFacts
  <2>2. /\ call'.q = Follow(disk, call.q) /\ CanOpen(disk, call'.q)
        /\ disk' = OpenedAs(disk, call.args.op, call'.q)
    BY <1>2, OpenWriteOpens
  <2>3. call # Idle /\ disk = call.start
    BY <2>1, ResolvedAlone
  <2>4. Found
    BY <2>1, <2>3 DEF CalmInv
  <2>5. Found'
    BY <2>1, <2>4 DEF Found
  <2>6. call.q = Creating(call.start, call.args.path).path
    BY <2>1, <2>4 DEF Found, Resolve
  <2>7. WriteOpen'
    BY <2>1, <2>2, <2>3, <2>6 DEF WriteOpen
  <2> QED BY <2>1, <2>5, <2>7 DEF CalmInv
<1> QED
  BY <1>1, <1>2

LEMMA StatusCalm ==
  ASSUME RealInv, AloneInv, CalmInv, Status
  PROVE  CalmInv'
<1>1. CASE call' = Idle
  BY <1>1, AnsweredCalm
<1>2. CASE call' # Idle
  <2> SUFFICES ASSUME call'.alone PROVE CalmInv'
    BY DEF CalmInv
  <2>1. /\ call.pc = "resolved" /\ call.args.op \in {"stat", "lstat"} /\ disk' = disk
        /\ call'.pc = "status" /\ call'.args = call.args /\ call'.q = call.q
        /\ call.alone /\ call'.start = call.start
    BY <1>2, StatusFacts
  <2>2. /\ call # Idle /\ disk = call.start /\ GoodCall(call)
        /\ Follow(call.start, call.q) = call.q /\ Named(call.start, call.q) = call.q
    BY <2>1, ExistingFound
  <2>3. Found
    BY <2>1, <2>2 DEF CalmInv
  <2>4. Found'
    BY <2>1, <2>3 DEF Found
  <2>5. call'.got = [kind |-> disk[call.q].kind, mode |-> disk[call.q].mode]
    <3> DEFINE t == IF call.args.op = "stat" THEN Follow(disk, call.q) ELSE Named(disk, call.q)
               g == [kind |-> disk[t].kind, mode |-> disk[t].mode]
               c == [call EXCEPT !.pc = "status", !.got = g]
    <3>1. call' = c
      BY <1>2 DEF Status, Answer, Answered
    <3>2. t = call.q
      BY <2>2
    <3> HIDE DEF t, g
    <3>3. c.got = g
      BY <2>2 DEF GoodCall, CallOf
    <3> QED BY <3>1, <3>2, <3>3 DEF g
  <2>6. HalfStat'
    BY <2>1, <2>2, <2>5 DEF HalfStat
  <2> QED BY <2>1, <2>4, <2>6 DEF CalmInv
<1> QED
  BY <1>1, <1>2

(* mkdir.  Without a link on the way, a path leads through its prefixes.    *)
LEMMA PrefixStays ==
  ASSUME NEW D, NEW q \in Seq(STRING), LinksOn(D, q) = {}, NEW j \in 0..Len(q)
  PROVE  Follow(D, SubSeq(q, 1, j)) = SubSeq(q, 1, j)
<1> DEFINE x == SubSeq(q, 1, j)
           y == SubSeq(q, j + 1, Len(q))
<1>1. x \in Seq(STRING) /\ y \in Seq(STRING) /\ q = x \o y
  BY SplitAt
<1>2. Len(x) = j /\ Len(q) \in Nat
  BY SubSeqFacts
<1> HIDE DEF x, y
<1>3. LinksOn(D, x) = {}
  <2> SUFFICES ASSUME NEW i \in 1..Len(x), IsLink(D, SubSeq(x, 1, i)) PROVE FALSE
    BY DEF LinksOn
  <2>1. i \in 0..Len(x) /\ i \in 1..Len(q)
    BY <1>2
  <2>2. SubSeq(x, 1, i) = SubSeq(q, 1, i)
    BY <1>1, <2>1, PrefixOfConcat
  <2>3. i \in LinksOn(D, q)
    BY <2>1, <2>2 DEF LinksOn
  <2> QED BY <2>3
<1>4. Follow(D, x) = x
  BY <1>3, FollowStays
<1> QED
  BY <1>4 DEF x

LEMMA NamedStays ==
  ASSUME NEW D, NEW q \in Seq(STRING), LinksOn(D, q) = {}
  PROVE  Follow(D, q) = q /\ Named(D, q) = q
<1>1. Follow(D, q) = q
  BY FollowStays
<1>2. CASE q = <<>>
  BY <1>1, <1>2 DEF Named
<1>3. CASE q # <<>>
  <2>1. /\ Front(q) \in Seq(STRING) /\ <<Last(q)>> \in Seq(STRING)
        /\ q = Front(q) \o <<Last(q)>>
    BY <1>3, FrontAndLast
  <2>2. Front(q) = SubSeq(q, 1, Len(q) - 1) /\ Len(q) - 1 \in 0..Len(q)
    BY <1>3, FrontFacts
  <2>3. Follow(D, Front(q)) = Front(q)
    BY <2>2, PrefixStays
  <2>4. Named(D, q) = Append(Front(q), Last(q))
    BY <1>3, <2>3 DEF Named
  <2>5. Named(D, q) = Front(q) \o <<Last(q)>>
    BY <2>1, <2>4
  <2> QED BY <1>1, <2>1, <2>5
<1> QED
  BY <1>2, <1>3

(* The prefixes of a path, those that exist first.                          *)
LEMMA PrefixBeyond ==
  ASSUME NEW q \in Seq(STRING), NEW k \in 0..Len(q), NEW j \in (k + 1)..Len(q)
  PROVE  SubSeq(q, 1, k) \o SubSeq(q, k + 1, j) = SubSeq(q, 1, j)
<1> DEFINE x == SubSeq(q, 1, k)
           y == SubSeq(q, k + 1, Len(q))
           h == j - k
           z == SubSeq(y, 1, h)
           w == x \o z
           v == SubSeq(q, 1, j)
<1>1. Len(q) \in Nat /\ k \in Nat /\ j \in Nat /\ h \in Nat /\ j = k + h /\ j <= Len(q)
  OBVIOUS
<1>2. SubSeq(q, k + 1, j) = z
  BY SplitAt
<1>3. x \in Seq(STRING) /\ Len(x) = k /\ \A i \in 1..k : x[i] = q[i]
  BY SubSeqFacts
<1>4. y \in Seq(STRING) /\ Len(y) = Len(q) - k /\ \A i \in 1..(Len(q) - k) : y[i] = q[k + i]
  BY TailFacts
<1>5. v \in Seq(STRING) /\ Len(v) = j /\ \A i \in 1..j : v[i] = q[i]
  <2>1. j \in 0..Len(q)
    BY <1>1
  <2> QED BY <2>1, SubSeqFacts
<1> HIDE DEF v, x, y, h
<1>6. h \in 0..Len(y)
  BY <1>1, <1>4
<1>7. z \in Seq(STRING) /\ Len(z) = h /\ \A i \in 1..h : z[i] = y[i]
  BY <1>4, <1>6, SubSeqFacts
<1> HIDE DEF z
<1>8. /\ w \in Seq(STRING) /\ Len(w) = Len(x) + Len(z)
      /\ \A i \in 1..(Len(x) + Len(z)) : w[i] = IF i <= Len(x) THEN x[i] ELSE z[i - Len(x)]
  <2>1. x \in Seq(STRING) /\ z \in Seq(STRING)
    BY <1>3, <1>7
  <2> QED BY <2>1, ConcatProperties
<1> HIDE DEF w
<1>9. Len(w) = j /\ \A i \in 1..j : w[i] = IF i <= k THEN x[i] ELSE z[i - k]
  BY <1>1, <1>3, <1>7, <1>8
<1>10. ASSUME NEW i \in 1..j PROVE w[i] = v[i]
  <2>1. CASE i <= k
    <3>1. i \in 1..k
      BY <1>1, <2>1
    <3> QED BY <1>3, <1>5, <1>9, <2>1, <3>1
  <2>2. CASE ~(i <= k)
    <3>1. i - k \in 1..h /\ i - k \in 1..(Len(q) - k) /\ k + (i - k) = i
      BY <1>1, <2>2
    <3>2. w[i] = z[i - k] /\ z[i - k] = y[i - k] /\ y[i - k] = q[k + (i - k)]
      BY <1>4, <1>7, <1>9, <2>2, <3>1
    <3> QED BY <1>5, <3>1, <3>2
  <2> QED BY <2>1, <2>2
<1>11. w = v
  BY <1>5, <1>8, <1>9, <1>10, SeqEqual
<1> QED
  BY <1>2, <1>11 DEF w, x, v

LEMMA PrefixThere ==
  ASSUME NEW D, GoodDisk(D), NEW q \in Seq(STRING), NEW k \in 0..Len(q),
         SubSeq(q, 1, k) \in DOMAIN D, NEW j \in 0..Len(q), j < k
  PROVE  IsDir(D, SubSeq(q, 1, j))
<1> DEFINE x == SubSeq(q, 1, k)
           s == SubSeq(q, 1, j)
<1>1. x \in Seq(STRING) /\ s \in Seq(STRING) /\ Len(x) = k /\ Len(s) = j
  BY SubSeqFacts
<1>2. IsPrefix(x, q) /\ IsPrefix(s, q)
  BY PrefixIsSubSeq
<1>3. j <= k /\ j # k
  OBVIOUS
<1>4. LeadTo(D, x)
  BY NodeLeadTo
<1> HIDE DEF x, s
<1>5. IsPrefix(s, x)
  BY <1>1, <1>2, <1>3, PrefixesNest
<1>6. IsDir(D, s)
  BY <1>1, <1>3, <1>4, <1>5 DEF LeadTo
<1> QED
  BY <1>6 DEF s

LEMMA TwoFailWith ==
  ASSUME NEW a, NEW e, NEW b, NEW h, NEW x, a => e = x, b => h = x
  PROVE  FailsWith(<< <<a, e>>, <<b, h>> >>, x)
<1> DEFINE c == << <<a, e>>, <<b, h>> >>
<1>1. DOMAIN c = {1, 2} /\ c[1][1] = a /\ c[1][2] = e /\ c[2][1] = b /\ c[2][2] = h
  OBVIOUS
<1> HIDE DEF c
<1>2. FailsWith(c, x)
  BY <1>1 DEF FailsWith
<1> QED
  BY <1>2 DEF c

LEMMA ThreeFailWith ==
  ASSUME NEW a, NEW e, NEW b, NEW h, NEW d, NEW k, NEW x, a => e = x, b => h = x, d => k = x
  PROVE  FailsWith(<< <<a, e>>, <<b, h>>, <<d, k>> >>, x)
<1> DEFINE c == << <<a, e>>, <<b, h>>, <<d, k>> >>
<1>1. DOMAIN c = {1, 2, 3} /\ c[1][1] = a /\ c[1][2] = e /\ c[2][1] = b /\ c[2][2] = h
      /\ c[3][1] = d /\ c[3][2] = k
  OBVIOUS
<1> HIDE DEF c
<1>2. FailsWith(c, x)
  BY <1>1 DEF FailsWith
<1> QED
  BY <1>2 DEF c

LEMMA NewPrefixes ==
  ASSUME NEW D, GoodDisk(D), NEW q \in Seq(STRING), NEW k \in 0..Len(q),
         SubSeq(q, 1, k) \in DOMAIN D,
         \A j \in (k + 1)..Len(q) : SubSeq(q, 1, j) \notin DOMAIN D
  PROVE  /\ NewOn(D, q) = {SubSeq(q, 1, j) : j \in (k + 1)..Len(q)}
         /\ \A s \in PrefixesOf(q) \cap DOMAIN D : s = SubSeq(q, 1, k) \/ IsDir(D, s)
<1>1. Len(q) \in Nat /\ k \in Nat /\ k <= Len(q)
  OBVIOUS
<1>2. \A j \in 0..Len(q) : j < k => IsDir(D, SubSeq(q, 1, j))
  BY PrefixThere
<1>3. \A j \in 0..Len(q) : j = k \/ j < k \/ j \in (k + 1)..Len(q)
  BY <1>1
<1>4. (k + 1)..Len(q) \subseteq 0..Len(q)
  BY <1>1
<1>5. NewOn(D, q) = {SubSeq(q, 1, j) : j \in (k + 1)..Len(q)}
  BY <1>2, <1>3, <1>4 DEF NewOn, PrefixesOf, IsDir
<1>6. \A s \in PrefixesOf(q) \cap DOMAIN D : s = SubSeq(q, 1, k) \/ IsDir(D, s)
  BY <1>2, <1>3 DEF PrefixesOf
<1> QED
  BY <1>5, <1>6

LEMMA OneNew ==
  ASSUME NEW D, GoodDisk(D), NEW q \in Seq(STRING), q # <<>>, CanMake(D, q, FALSE)
  PROVE  NewOn(D, q) = {q}
<1> DEFINE k == Len(q) - 1
<1>1. Front(q) = SubSeq(q, 1, k) /\ Len(q) >= 1 /\ Len(q) \in Nat
  BY FrontFacts
<1>2. k \in 0..Len(q) /\ (k + 1)..Len(q) = {Len(q)}
  BY <1>1
<1>3. SubSeq(q, 1, Len(q)) = q /\ q \notin DOMAIN D /\ SubSeq(q, 1, k) \in DOMAIN D
  BY <1>1, WholeSubSeq DEF CanMake, IsDir
<1> HIDE DEF k
<1>4. NewOn(D, q) = {SubSeq(q, 1, j) : j \in (k + 1)..Len(q)}
  <2>1. \A j \in (k + 1)..Len(q) : SubSeq(q, 1, j) \notin DOMAIN D
    BY <1>2, <1>3
  <2> QED BY <1>2, <1>3, <2>1, NewPrefixes
<1> QED
  BY <1>2, <1>3, <1>4

(* What a function that makes directories does where there was none, and    *)
(* there are no links on the way.                                          *)
MakesMissing(q, m, recursive) ==
  /\ m.err = "ok" => CanMake(disk, q, recursive) /\ m.disk = AddDirs(disk, NewOn(disk, q))
  /\ m.err # "ok" => m.disk = disk
  /\ CanMake(disk, q, recursive) /\ m.err # "ok" =>
       m.err = "EACCES" /\ \E r \in DOMAIN disk : ReadOnly(disk, r)

LEMMA CreateDirectoryDoes ==
  ASSUME Grounded(disk), NEW q \in Seq(STRING), LinksOn(disk, q) = {}, ~IsDir(disk, q)
  PROVE  MakesMissing(q, CreateDirectory(q), FALSE)
<1> DEFINE m == CreateDirectory(q)
           a == q \in DOMAIN disk
           b == Closed(disk, q)
           d == << <<a, "EEXIST">>, <<b, "EACCES">> >>
           c == InDir(disk, q) \o d
           err == FirstError(c)
<1>1. GoodDisk(disk) /\ q # <<>>
  BY DEF Grounded
<1>2. Follow(disk, q) = q /\ Named(disk, q) = q
  BY NamedStays
<1>3. m = Made(err, {q})
  BY <1>2 DEF CreateDirectory
<1>4. a \in BOOLEAN /\ b \in BOOLEAN /\ (b => \E r \in DOMAIN disk : ReadOnly(disk, r))
  BY DEF Closed, ReadOnly
<1>5. InDir(disk, q) \in DiskChecks /\ (Passes(InDir(disk, q)) <=> IsDir(disk, Front(q)))
  BY <1>1, InDirChecks, InDirFinds
<1>6. CanMake(disk, q, FALSE) <=> ~a /\ IsDir(disk, Front(q))
  BY DEF CanMake
<1>7. CanMake(disk, q, FALSE) => NewOn(disk, q) = {q}
  BY <1>1, OneNew
<1> HIDE DEF a, b
<1>8. d \in DiskChecks /\ (Passes(d) <=> ~a /\ ~b)
  BY <1>4, CodesAre, TwoDiskChecks
<1>9. ~a => FailsWith(d, "EACCES")
  <2> SUFFICES ASSUME ~a PROVE FailsWith(d, "EACCES")
    OBVIOUS
  <2> QED BY TwoFailWith
<1> HIDE DEF d
<1>10. c \in DiskChecks /\ (Passes(c) <=> Passes(InDir(disk, q)) /\ Passes(d))
  BY <1>5, <1>8, MoreDiskChecks
<1>11. CanMake(disk, q, FALSE) => FailsWith(c, "EACCES")
  BY <1>5, <1>6, <1>8, <1>9, PassingFailsWith, MoreFailWith
<1> HIDE DEF c
<1>12. err = "ok" <=> CanMake(disk, q, FALSE) /\ ~b
  BY <1>5, <1>6, <1>8, <1>10, DiskError
<1>13. CanMake(disk, q, FALSE) /\ err # "ok" => err = "EACCES"
  BY <1>10, <1>11, <1>12, DiskError, OnlyError
<1> HIDE DEF err, m
<1>14. MakesMissing(q, m, FALSE)
  BY <1>3, <1>4, <1>7, <1>12, <1>13, MadeIs DEF MakesMissing
<1> QED
  BY <1>14 DEF m

(* The prefixes of q of which FindMissing finds the longest.                *)
LEMMA WayFound ==
  ASSUME Grounded(disk), NEW q \in Seq(STRING), LinksOn(disk, q) = {}, ~IsDir(disk, q),
         NEW k, k = Longest(disk, q)
  PROVE  /\ Leading(disk, q) # {}
         /\ IF IsDir(disk, Follow(disk, SubSeq(q, 1, k))) THEN HalfWay(disk, disk, q, k + 1)
            ELSE ~CanMake(disk, q, TRUE)
<1>1. GoodDisk(disk) /\ <<>> \in DOMAIN disk /\ Len(q) \in Nat
  BY DEF Grounded, IsDir
<1>2. \A i \in 0..Len(q) : Follow(disk, SubSeq(q, 1, i)) = SubSeq(q, 1, i)
  BY PrefixStays
<1>3. Leading(disk, q) = {i \in 0..Len(q) : SubSeq(q, 1, i) \in DOMAIN disk}
  BY <1>2 DEF Leading
<1>4. 0 \in Leading(disk, q)
  <2>1. 0 \in 0..Len(q) /\ SubSeq(q, 1, 0) = <<>>
    BY <1>1
  <2> QED BY <1>1, <1>3, <2>1
<1>5. k \in Leading(disk, q) /\ \A j \in Leading(disk, q) : j <= k
  BY <1>4, LongestFacts
<1>6. k \in 0..Len(q) /\ SubSeq(q, 1, k) \in DOMAIN disk
  BY <1>3, <1>5
<1>7. \A j \in (k + 1)..Len(q) : SubSeq(q, 1, j) \notin DOMAIN disk
  <2>1. \A j \in (k + 1)..Len(q) : j \in 0..Len(q) /\ ~(j <= k)
    BY <1>1, <1>6
  <2> QED BY <1>3, <1>5, <2>1
<1> DEFINE base == SubSeq(q, 1, k)
<1>8. Follow(disk, base) = base
  BY <1>2, <1>6
<1>9. /\ \A s \in PrefixesOf(q) \cap DOMAIN disk : s = base \/ IsDir(disk, s)
      /\ base \in PrefixesOf(q) \cap DOMAIN disk
  BY <1>1, <1>6, <1>7, NewPrefixes DEF PrefixesOf
<1>10. CASE IsDir(disk, base)
  <2>1. k # Len(q)
    BY <1>10, WholeSubSeq
  <2>2. k + 1 \in 1..Len(q) /\ Len(q) \in (k + 1)..Len(q) /\ (k + 1) - 1 = k
    BY <1>1, <1>6, <2>1
  <2>3. q \notin DOMAIN disk
    <3>1. SubSeq(q, 1, Len(q)) = q
      BY WholeSubSeq
    <3>2. SubSeq(q, 1, Len(q)) \notin DOMAIN disk
      BY <1>7, <2>2
    <3> QED BY <3>1, <3>2
  <2>4. CanMake(disk, q, TRUE)
    BY <1>9, <1>10, <2>3 DEF CanMake
  <2>5. UpTo(q, k) \subseteq DOMAIN disk
    <3> SUFFICES ASSUME NEW j \in 0..k PROVE SubSeq(q, 1, j) \in DOMAIN disk
      BY DEF UpTo
    <3>1. j \in 0..Len(q) /\ (j = k \/ j < k)
      BY <1>1, <1>6
    <3> QED BY <1>1, <1>6, <3>1, PrefixThere DEF IsDir
  <2>6. AddDirs(disk, {}) = disk
    BY <1>1, AddDirsFacts
  <2>7. UpTo(q, k) \ DOMAIN disk = {}
    BY <2>5
  <2>8. HalfWay(disk, disk, q, k + 1)
    BY <1>7, <1>10, <2>2, <2>4, <2>6, <2>7 DEF HalfWay
  <2> QED BY <1>4, <1>8, <1>10, <2>8
<1>11. CASE ~IsDir(disk, base)
  <2>1. ~CanMake(disk, q, TRUE)
    BY <1>9, <1>11 DEF CanMake
  <2> QED BY <1>4, <1>8, <1>11, <2>1
<1> QED
  BY <1>10, <1>11

(* New directories are no links.                                            *)
LEMMA NoNewLinks ==
  ASSUME NEW D, NEW P, NEW p, LinksOn(D, p) = {}
  PROVE  LinksOn(AddDirs(D, P), p) = {}
<1>1. \A s : IsLink(AddDirs(D, P), s) => IsLink(D, s)
  BY DEF IsLink, AddDirs, NewDir, DiskNode
<1> HIDE DEF AddDirs
<1> QED
  BY <1>1 DEF LinksOn

LEMMA NoLinksBefore ==
  ASSUME NEW D, NEW q \in Seq(STRING), LinksOn(D, q) = {}, NEW n \in 0..Len(q)
  PROVE  LinksOn(D, SubSeq(q, 1, n)) = {}
<1> DEFINE x == SubSeq(q, 1, n)
           y == SubSeq(q, n + 1, Len(q))
<1>1. x \in Seq(STRING) /\ y \in Seq(STRING) /\ q = x \o y
  BY SplitAt
<1>2. Len(x) = n /\ Len(q) \in Nat
  BY SubSeqFacts
<1> HIDE DEF x, y
<1>3. LinksOn(D, x) = {}
  <2> SUFFICES ASSUME NEW i \in 1..Len(x), IsLink(D, SubSeq(x, 1, i)) PROVE FALSE
    BY DEF LinksOn
  <2>1. i \in 0..Len(x) /\ i \in 1..Len(q)
    BY <1>2
  <2>2. SubSeq(x, 1, i) = SubSeq(q, 1, i)
    BY <1>1, <2>1, PrefixOfConcat
  <2>3. i \in LinksOn(D, q)
    BY <2>1, <2>2 DEF LinksOn
  <2> QED BY <2>3
<1> QED
  BY <1>3 DEF x

(* One directory more, and one name of p further.                           *)
LEMMA WayOn ==
  ASSUME NEW D, NEW p \in Seq(STRING), NEW n, HalfWay(D, disk, p, n),
         NEW E, E = AddDirs(disk, {SubSeq(p, 1, n)})
  PROVE  IF n = Len(p) THEN E = AddDirs(D, NewOn(D, p)) ELSE HalfWay(D, E, p, n + 1)
<1> DEFINE x == SubSeq(p, 1, n)
           P == UpTo(p, n - 1) \ DOMAIN D
           Q == UpTo(p, n) \ DOMAIN D
<1>1. /\ n \in 1..Len(p) /\ CanMake(D, p, TRUE) /\ IsDir(disk, SubSeq(p, 1, n - 1))
      /\ \A j \in n..Len(p) : SubSeq(p, 1, j) \notin DOMAIN disk
      /\ disk = AddDirs(D, P)
  BY DEF HalfWay
<1>2. n \in Nat /\ Len(p) \in Nat /\ n <= Len(p) /\ n \in n..Len(p)
  BY <1>1
<1>3. x \notin DOMAIN disk
  BY <1>1, <1>2
<1>4. 0..n = 0..(n - 1) \union {n}
  BY <1>1, <1>2
<1>5. UpTo(p, n) = UpTo(p, n - 1) \union {x}
  BY <1>4 DEF UpTo
<1>6. DOMAIN disk = DOMAIN D \union P
  BY <1>1 DEF AddDirs
<1>7. Q = P \union {x}
  BY <1>3, <1>5, <1>6
<1> HIDE DEF P, Q, x
<1>8. E = AddDirs(D, Q)
  BY <1>1, <1>3, <1>6, <1>7 DEF AddDirs, x
<1>9. CASE n = Len(p)
  <2>1. Q = NewOn(D, p)
    BY <1>9 DEF Q, NewOn, UpTo, PrefixesOf
  <2> QED BY <1>8, <1>9, <2>1
<1>10. CASE n # Len(p)
  <2>1. n + 1 \in 1..Len(p) /\ (n + 1) - 1 = n
    BY <1>1, <1>2, <1>10
  <2>2. DOMAIN E = DOMAIN disk \union {x} /\ IsDir(E, x)
    BY DEF AddDirs, IsDir, NewDir, DiskNode, x
  <2>3. ASSUME NEW j \in (n + 1)..Len(p) PROVE SubSeq(p, 1, j) \notin DOMAIN E
    <3>1. j \in n..Len(p) /\ j # n /\ j \in 0..Len(p) /\ n \in 0..Len(p)
      BY <1>2
    <3>2. Len(SubSeq(p, 1, j)) = j /\ Len(x) = n
      BY <3>1, SubSeqFacts DEF x
    <3>3. SubSeq(p, 1, j) \notin DOMAIN disk
      BY <1>1, <3>1
    <3> QED BY <2>2, <3>1, <3>2, <3>3
  <2>4. HalfWay(D, E, p, n + 1)
    BY <1>1, <1>8, <2>1, <2>2, <2>3 DEF HalfWay, Q, x
  <2> QED BY <1>10, <2>4
<1> QED
  BY <1>9, <1>10

LEMMA MakesNext ==
  ASSUME GoodDisk(disk), NEW D, Grounded(D), NEW p \in Seq(STRING), LinksOn(D, p) = {},
         NEW n, HalfWay(D, disk, p, n), NEW m, m = CreateDirectory(SubSeq(p, 1, n))
  PROVE  /\ m.err = "ok" => IF n = Len(p) THEN m.disk = AddDirs(D, NewOn(D, p))
                            ELSE HalfWay(D, m.disk, p, n + 1)
         /\ m.err # "ok" => m.err = "EACCES" /\ \E r \in DOMAIN D : ReadOnly(D, r)
<1> DEFINE x == SubSeq(p, 1, n)
           P == UpTo(p, n - 1) \ DOMAIN D
<1>1. /\ n \in 1..Len(p) /\ CanMake(D, p, TRUE) /\ IsDir(disk, SubSeq(p, 1, n - 1))
      /\ \A j \in n..Len(p) : SubSeq(p, 1, j) \notin DOMAIN disk
      /\ disk = AddDirs(D, P)
  BY DEF HalfWay
<1>2. n \in 0..Len(p) /\ n \in n..Len(p) /\ n - 1 \in 0..Len(p) /\ n >= 1 /\ Len(p) \in Nat
  <2>1. n \in 1..Len(p) /\ Len(p) \in Nat
    BY <1>1, LenProperties
  <2> HIDE DEF x, P
  <2> DEFINE l == Len(p)
  <2>2. l \in Nat /\ n \in Nat /\ n >= 1 /\ n <= l
    BY <2>1
  <2> HIDE DEF l
  <2>3. n \in 0..l /\ n \in n..l /\ n - 1 \in 0..l
    BY <2>2
  <2> QED BY <2>2, <2>3 DEF l
<1>3. x \in Seq(STRING) /\ Len(x) = n /\ x \notin DOMAIN disk /\ x # <<>>
  <2>1. x \in Seq(STRING) /\ Len(x) = n
    BY <1>2, SubSeqFacts
  <2>2. x \notin DOMAIN disk
    BY <1>1, <1>2
  <2> HIDE DEF x
  <2> QED BY <1>2, <2>1, <2>2, EmptySeq
<1>4. Front(x) = SubSeq(p, 1, n - 1)
  <2>1. Front(x) = SubSeq(x, 1, n - 1)
    <3> HIDE DEF x
    <3> QED BY <1>3, FrontFacts
  <2>2. p = x \o SubSeq(p, n + 1, Len(p)) /\ SubSeq(p, n + 1, Len(p)) \in Seq(STRING)
    BY <1>2, SplitAt
  <2>3. n - 1 \in 0..Len(x)
    BY <1>2, <1>3
  <2> HIDE DEF x
  <2>4. SubSeq(x, 1, n - 1) = SubSeq(p, 1, n - 1)
    BY <1>3, <2>2, <2>3, PrefixOfConcat
  <2> QED BY <2>1, <2>4
<1>5. LinksOn(disk, x) = {}
  <2>1. LinksOn(disk, p) = {}
    BY <1>1, NoNewLinks
  <2> QED BY <1>2, <2>1, NoLinksBefore
<1>6. Grounded(disk)
  <2>1. \A s \in DOMAIN D : s \in DOMAIN disk /\ (s \notin P => disk[s] = D[s])
    BY <1>1 DEF AddDirs
  <2> QED BY <2>1 DEF Grounded, IsDir
<1>7. CanMake(disk, x, FALSE)
  BY <1>1, <1>3, <1>4 DEF CanMake
<1>8. MakesMissing(x, m, FALSE)
  <2> HIDE DEF x
  <2>1. ~IsDir(disk, x)
    BY <1>3 DEF IsDir
  <2> QED BY <1>3, <1>5, <1>6, <2>1, CreateDirectoryDoes DEF x
<1>9. NewOn(disk, x) = {x}
  <2> HIDE DEF x
  <2> QED BY <1>3, <1>7, OneNew
<1>10. CASE m.err = "ok"
  <2>1. m.disk = AddDirs(disk, {x})
    BY <1>8, <1>9, <1>10 DEF MakesMissing
  <2> QED BY <1>10, <2>1, WayOn
<1>11. CASE m.err # "ok"
  <2>1. m.err = "EACCES"
    BY <1>7, <1>8, <1>11 DEF MakesMissing
  <2>2. PICK r \in DOMAIN disk : ReadOnly(disk, r)
    BY <1>7, <1>8, <1>11 DEF MakesMissing
  <2>3. r \in DOMAIN D /\ disk[r] = D[r]
    BY <1>1, <2>2 DEF AddDirs, ReadOnly, NewDir, DiskNode, RWX
  <2>4. ReadOnly(D, r)
    BY <2>2, <2>3 DEF ReadOnly
  <2> QED BY <1>11, <2>1, <2>3, <2>4
<1> QED
  BY <1>10, <1>11

(* Where mkdir begins, if there was no directory.                           *)
LEMMA MkdirFound ==
  ASSUME RealInv, AloneInv, CalmInv, call.alone, call.args.op = "mkdir",
         call.pc \in {"resolved", "making"}, Makeable(call.args, call.start)
  PROVE  /\ call # Idle /\ GoodCall(call) /\ Grounded(call.start)
         /\ call.q = Follow(call.start, call.args.path) /\ call.q \in Seq(STRING)
         /\ LinksOn(call.start, call.q) = {} /\ ~IsDir(call.start, call.q)
         /\ Named(call.start, call.q) = call.q
<1> DEFINE p == call.args.path
           D == call.start
<1>1. call # Idle
  BY IdleIs
<1>2. GoodCall(call)
  BY <1>1 DEF RealInv
<1>3. p \in Seq(STRING) /\ call.q \in Seq(STRING)
  BY <1>2 DEF GoodCall, CallOf, CallArgs
<1>4. Creating(D, p).err = "ok" /\ call.q = Creating(D, p).path
  BY <1>1 DEF CalmInv, Found, Resolve
<1>5. Grounded(D) /\ ~IsDir(D, Follow(D, p)) /\ Creating(D, p).path = Follow(D, p)
  BY DEF Makeable
<1> HIDE DEF D, p
<1>6. LinksOn(D, Follow(D, p)) = {}
  BY <1>3, <1>4, <1>5, CreatingLeads
<1>7. call.q = Follow(D, p) /\ LinksOn(D, call.q) = {} /\ ~IsDir(D, call.q)
  BY <1>4, <1>5, <1>6
<1>8. Named(D, call.q) = call.q
  BY <1>3, <1>7, NamedStays
<1> QED
  BY <1>1, <1>2, <1>3, <1>5, <1>7, <1>8 DEF D, p

(* Steps that do not end a mkdir keep what was found at first.              *)
LEMMA MkdirGoesOn ==
  ASSUME CalmInv, call # Idle, call.alone, call.pc \in {"resolved", "making"},
         call.args.op = "mkdir", call' # Idle, call'.args = call.args, call'.q = call.q,
         call'.start = call.start,
         \/ call'.pc = "making" /\ DirsOnTheWay'
         \/ call'.pc = "made" /\ DirsMade'
  PROVE  CalmInv'
<1>1. Found
  BY DEF CalmInv
<1>2. Found'
  BY <1>1 DEF Found
<1> QED
  BY <1>2 DEF CalmInv

LEMMA FindMissingCalm ==
  ASSUME RealInv, AloneInv, CalmInv, FindMissing
  PROVE  CalmInv'
<1>1. CASE call' = Idle
  BY <1>1, AnsweredCalm
<1>2. CASE call' # Idle
  <2> SUFFICES ASSUME call'.alone PROVE CalmInv'
    BY DEF CalmInv
  <2>1. /\ GoodCall(call) /\ call.pc = "resolved" /\ call.args.op = "mkdir"
        /\ call.args.recursive /\ disk' = disk
        /\ \/ AllMade /\ IsDir(disk, Follow(disk, call.q))
           \/ /\ call'.pc = "making" /\ call'.args = call.args
              /\ call'.size = Longest(disk, call.q) + 1
              /\ call'.q = call.q /\ call'.alone = call.alone
              /\ call'.start = call.start
              /\ \/ Leading(disk, call.q) = {}
                 \/ IsDir(disk, Follow(disk, SubSeq(call.q, 1, Longest(disk, call.q))))
    BY <1>2, FindMissingFacts
  <2>2. \/ call'.pc = "made" /\ IsDir(disk, Follow(disk, call.q))
        \/ /\ call'.pc = "making" /\ call'.size = Longest(disk, call.q) + 1
           /\ \/ Leading(disk, call.q) = {}
              \/ IsDir(disk, Follow(disk, SubSeq(call.q, 1, Longest(disk, call.q))))
    BY <1>2, <2>1, AllMadeFacts
  <2>3. /\ call'.args = call.args /\ call'.q = call.q /\ call'.alone = call.alone
        /\ call'.start = call.start
    BY <1>2, <2>1, AllMadeFacts
  <2>4. call # Idle /\ disk = call.start
    BY <2>1, <2>3, ResolvedAlone
  <2>5. CASE Makeable(call.args, call.start)
    <3>1. /\ Grounded(disk) /\ call.q = Follow(disk, call.args.path) /\ call.q \in Seq(STRING)
          /\ LinksOn(disk, call.q) = {} /\ ~IsDir(disk, call.q)
      BY <2>1, <2>3, <2>4, <2>5, MkdirFound
    <3>2. Follow(disk, call.q) = call.q
      BY <3>1, FollowStays
    <3> DEFINE k == Longest(disk, call.q)
    <3>3. /\ Leading(disk, call.q) # {}
          /\ IsDir(disk, Follow(disk, SubSeq(call.q, 1, k))) => HalfWay(disk, disk, call.q, k + 1)
      BY <3>1, WayFound
    <3>4. call'.pc = "making" /\ call'.size = k + 1 /\ HalfWay(disk, disk, call.q, k + 1)
      BY <2>2, <3>1, <3>2, <3>3
    <3>5. HalfWay(call'.start, disk', Follow(call'.start, call'.args.path), call'.size)
      BY <2>1, <2>3, <2>4, <3>1, <3>4
    <3>6. DirsOnTheWay'
      BY <2>1, <2>3, <3>5 DEF DirsOnTheWay
    <3> QED BY <1>2, <2>1, <2>3, <2>4, <3>4, <3>6, MkdirGoesOn
  <2>6. CASE ~Makeable(call.args, call.start)
    <3>1. DirsOnTheWay' /\ DirsMade'
      BY <2>1, <2>3, <2>6 DEF DirsOnTheWay, DirsMade
    <3> QED BY <1>2, <2>1, <2>2, <2>3, <2>4, <3>1, MkdirGoesOn
  <2> QED BY <2>5, <2>6
<1> QED
  BY <1>1, <1>2

(* What a step of MakeDir does where there was no directory.                *)
LEMMA MakeDirDoes ==
  ASSUME RealInv, AloneInv, CalmInv, MakeDir, call.alone, Makeable(call.args, call.start),
         NEW n, n = NextLength(call), NEW m, m = CreateDirectory(SubSeq(call.q, 1, n))
  PROVE  /\ m.err = "ok" => \/ /\ n = Len(call.q) /\ CanMake(call.start, call.q, call.args.recursive)
                               /\ m.disk = AddDirs(call.start, NewOn(call.start, call.q))
                            \/ /\ n # Len(call.q) /\ call.args.recursive
                               /\ HalfWay(call.start, m.disk, call.q, n + 1)
         /\ m.err # "ok" => \/ ~CanMake(call.start, call.q, call.args.recursive)
                            \/ m.err = "EACCES" /\ \E r \in DOMAIN call.start : ReadOnly(call.start, r)
<1>1. /\ GoodCall(call) /\ call.args.op = "mkdir" /\ GoodDisk(disk)
      /\ call.pc = "making" \/ (call.pc = "resolved" /\ ~call.args.recursive)
  BY MakeDirFacts
<1>2. /\ call # Idle /\ Grounded(call.start)
      /\ call.q = Follow(call.start, call.args.path) /\ call.q \in Seq(STRING)
      /\ LinksOn(call.start, call.q) = {} /\ ~IsDir(call.start, call.q)
  BY <1>1, MkdirFound
<1>3. CASE call.pc = "making"
  <2>1. DirsOnTheWay
    BY <1>2, <1>3 DEF CalmInv
  <2>2. call.args.recursive /\ HalfWay(call.start, disk, call.q, call.size)
    BY <1>2, <2>1 DEF DirsOnTheWay
  <2>3. n = call.size
    BY <1>3 DEF NextLength
  <2>4. HalfWay(call.start, disk, call.q, n) /\ CanMake(call.start, call.q, TRUE)
    BY <2>2, <2>3 DEF HalfWay
  <2>5. call.args.recursive = TRUE
    BY <1>1, <2>2 DEF GoodCall, CallOf, CallArgs
  <2>6. /\ m.err = "ok" => IF n = Len(call.q) THEN m.disk = AddDirs(call.start, NewOn(call.start, call.q))
                           ELSE HalfWay(call.start, m.disk, call.q, n + 1)
        /\ m.err # "ok" => m.err = "EACCES" /\ \E r \in DOMAIN call.start : ReadOnly(call.start, r)
    BY <1>1, <1>2, <2>4, MakesNext
  <2> QED BY <2>4, <2>5, <2>6
<1>4. CASE call.pc = "resolved" /\ ~call.args.recursive
  <2>1. disk = call.start
    BY <1>4, ResolvedAlone
  <2>2. n = Len(call.q) /\ SubSeq(call.q, 1, n) = call.q
    BY <1>2, <1>4, WholeSubSeq DEF NextLength
  <2>3. call.args.recursive = FALSE
    BY <1>1, <1>4 DEF GoodCall, CallOf, CallArgs
  <2>4. MakesMissing(call.q, m, FALSE)
    BY <1>2, <2>1, <2>2, CreateDirectoryDoes
  <2> QED BY <2>1, <2>2, <2>3, <2>4 DEF MakesMissing
<1> QED
  BY <1>1, <1>3, <1>4

LEMMA MakeDirCalm ==
  ASSUME RealInv, AloneInv, CalmInv, MakeDir
  PROVE  CalmInv'
<1> DEFINE n == NextLength(call)
           m == CreateDirectory(SubSeq(call.q, 1, n))
<1>1. CASE call' = Idle
  BY <1>1, AnsweredCalm
<1>2. CASE call' # Idle
  <2> SUFFICES ASSUME call'.alone PROVE CalmInv'
    BY DEF CalmInv
  <2>1. /\ GoodCall(call) /\ call.args.op = "mkdir" /\ GoodDisk(disk)
        /\ call.pc = "making" \/ (call.pc = "resolved" /\ ~call.args.recursive)
        /\ n \in 0..Len(call.q) /\ m.err = "ok" /\ disk' = m.disk
        /\ \/ n = Len(call.q) /\ AllMade
           \/ /\ n < Len(call.q) /\ call'.pc = call.pc /\ call'.args = call.args
              /\ call'.size = n + 1 /\ call'.q = call.q
              /\ call'.alone = call.alone /\ call'.start = call.start
    BY <1>2, MakeDirFacts
  <2>2. /\ call'.args = call.args /\ call'.q = call.q /\ call'.alone = call.alone
        /\ call'.start = call.start
    BY <1>2, <2>1, AllMadeFacts
  <2>3. \/ n = Len(call.q) /\ call'.pc = "made"
        \/ n # Len(call.q) /\ call'.pc = call.pc /\ call'.size = n + 1
    <3>1. n < Len(call.q) => n # Len(call.q)
      <4>1. call.q \in Seq(STRING)
        BY <2>1 DEF GoodCall, CallOf
      <4> HIDE DEF n
      <4> QED BY <2>1, <4>1
    <3> HIDE DEF n, m
    <3> QED BY <1>2, <2>1, <3>1, AllMadeFacts
  <2>4. n # Len(call.q) => call.pc = "making"
    BY <2>1 DEF NextLength
  <2>5. call # Idle /\ call.alone
    BY <2>1, <2>2, IdleIs
  <2>6. call.pc = "making" => call.args.recursive
    BY <2>5 DEF CalmInv, DirsOnTheWay
  <2>7. CASE Makeable(call.args, call.start)
    <3>1. \/ /\ n = Len(call.q) /\ CanMake(call.start, call.q, call.args.recursive)
             /\ m.disk = AddDirs(call.start, NewOn(call.start, call.q))
          \/ /\ n # Len(call.q) /\ call.args.recursive
             /\ HalfWay(call.start, m.disk, call.q, n + 1)
      <4> HIDE DEF n
      <4> QED BY <2>1, <2>5, <2>7, MakeDirDoes DEF n
    <3>2. call.q = Follow(call.start, call.args.path)
      BY <2>1, <2>5, <2>7, MkdirFound
    <3> HIDE DEF n, m
    <3>3. CASE /\ n = Len(call.q) /\ CanMake(call.start, call.q, call.args.recursive)
               /\ m.disk = AddDirs(call.start, NewOn(call.start, call.q))
      <4>1. DirsMade'
        BY <2>1, <2>2, <3>2, <3>3 DEF DirsMade
      <4> QED BY <1>2, <2>1, <2>2, <2>3, <2>5, <3>3, <4>1, MkdirGoesOn
    <3>4. CASE /\ n # Len(call.q) /\ call.args.recursive
               /\ HalfWay(call.start, m.disk, call.q, n + 1)
      <4>1. call'.pc = "making" /\ call'.size = n + 1
        BY <2>3, <2>4, <3>4
      <4>2. DirsOnTheWay'
        BY <2>1, <2>2, <3>2, <3>4, <4>1 DEF DirsOnTheWay
      <4> QED BY <1>2, <2>1, <2>2, <2>5, <4>1, <4>2, MkdirGoesOn
    <3> QED BY <3>1, <3>3, <3>4
  <2>8. CASE ~Makeable(call.args, call.start)
    <3>1. DirsMade'
      BY <2>1, <2>2, <2>8 DEF DirsMade
    <3>2. call.pc = "making" => DirsOnTheWay'
      BY <2>1, <2>2, <2>6, <2>8 DEF DirsOnTheWay
    <3> HIDE DEF n, m
    <3> QED BY <1>2, <2>1, <2>2, <2>3, <2>4, <2>5, <3>1, <3>2, MkdirGoesOn
  <2> QED BY <2>7, <2>8
<1> QED
  BY <1>1, <1>2

LEMMA CalmInvNext ==
  ASSUME RealInv, AloneInv, CalmInv, [Next]_vars
  PROVE  CalmInv'
<1>1. CASE UNCHANGED vars
  BY <1>1 DEF vars, CalmInv, Found, ReadOpen, WriteOpen, DirsOnTheWay, DirsMade, HalfStat
<1>2. CASE HostPut \/ HostRemove
  BY <1>2, HostCalm
<1>3. CASE BeginCall
  BY <1>3, BeginCalm
<1>4. CASE \/ ResolveFirst \/ ResolveSecond \/ OpenRead \/ OpenWrite
           \/ FindMissing \/ MakeDir \/ Status
  BY <1>4, ResolveFirstCalm, ResolveSecondCalm, OpenReadCalm, OpenWriteCalm,
     FindMissingCalm, MakeDirCalm, StatusCalm
<1>5. CASE Read \/ ListDir \/ FileSize \/ AccessBits
  BY <1>5, LookingInv, AnsweredCalm
<1>6. CASE \/ FlushFails \/ Flush \/ RemoveNode \/ Chmod
           \/ RenameNode \/ CopyNode \/ Resize \/ SetTime
  BY <1>6, FlushFailsFacts, FlushFacts, RemoveNodeFacts, ChmodFacts, RenameNodeFacts, CopyNodeFacts,
     ResizeFacts, SetTimeFacts, AnsweredCalm
<1> QED
  BY <1>1, <1>2, <1>3, <1>4, <1>5, <1>6 DEF Next, CallStep

------------------------------------------------------------------------------
(* What memory does, operation by operation.                               *)

Does(err, f, out) == [err |-> err, fs |-> f, out |-> out]

(* It answers err and out and stays as it is, or what r says.               *)
Reads(args, D, err, out) == MemoryDoes(args, D) = Does(err, InMemory(D), out)

Changes(args, D, r) == MemoryDoes(args, D) = Does(r.err, r.fs, "none")

LEMMA DoesReadFile ==
  ASSUME NEW args, NEW D, NEW p, p = Follow(D, args.path), args.op = "readFile"
  PROVE  Reads(args, D, ReadFile(InMemory(D), p).err, ReadFile(InMemory(D), p).data)
BY DEF Reads, MemoryDoes, Does

LEMMA DoesReaddir ==
  ASSUME NEW args, NEW D, NEW p, p = Follow(D, args.path), args.op = "readdir"
  PROVE  Reads(args, D, Readdir(InMemory(D), p).err, Readdir(InMemory(D), p).names)
BY DEF Reads, MemoryDoes, Does

StatIn(D, p) ==
  LET n == InMemory(D).tree[p]
  IN  [kind |-> n.kind, mode |-> n.mode, size |-> n.size, mtime |-> n.mtime]

LEMMA DoesStat ==
  ASSUME NEW args, NEW D, NEW p, p = Follow(D, args.path), args.op \in {"stat", "lstat"},
         p \in DOMAIN D
  PROVE  Reads(args, D, Stat(InMemory(D), p).err, StatIn(D, p))
BY DEF Reads, MemoryDoes, Does, StatIn

LEMMA DoesAccess ==
  ASSUME NEW args, NEW D, NEW p, p = Follow(D, args.path), args.op = "access"
  PROVE  Reads(args, D, Access(InMemory(D), p, args.mode), "none")
BY DEF Reads, MemoryDoes, Does

LEMMA DoesWriteFile ==
  ASSUME NEW args, NEW D, NEW p, p = Follow(D, args.path), args.op = "writeFile"
  PROVE  Changes(args, D, WriteFile(InMemory(D), p, args.data))
BY DEF Changes, MemoryDoes, Does

LEMMA DoesAppendFile ==
  ASSUME NEW args, NEW D, NEW p, p = Follow(D, args.path), args.op = "appendFile"
  PROVE  Changes(args, D, AppendFile(InMemory(D), p, args.data))
BY DEF Changes, MemoryDoes, Does

LEMMA DoesUnlink ==
  ASSUME NEW args, NEW D, NEW p, p = Follow(D, args.path), args.op = "unlink"
  PROVE  Changes(args, D, Unlink(InMemory(D), p))
BY DEF Changes, MemoryDoes, Does

LEMMA DoesRmdir ==
  ASSUME NEW args, NEW D, NEW p, p = Follow(D, args.path), args.op = "rmdir"
  PROVE  Changes(args, D, Rmdir(InMemory(D), p))
BY DEF Changes, MemoryDoes, Does

LEMMA DoesMkdir ==
  ASSUME NEW args, NEW D, NEW p, p = Follow(D, args.path), args.op = "mkdir"
  PROVE  Changes(args, D, IF args.recursive THEN MkdirAll(InMemory(D), p, args.mode)
                          ELSE Mkdir(InMemory(D), p, args.mode))
BY DEF Changes, MemoryDoes, Does

LEMMA DoesTruncate ==
  ASSUME NEW args, NEW D, NEW p, p = Follow(D, args.path), args.op = "truncate"
  PROVE  Changes(args, D, Truncate(InMemory(D), p, args.n))
BY DEF Changes, MemoryDoes, Does

LEMMA DoesUtimes ==
  ASSUME NEW args, NEW D, NEW p, p = Follow(D, args.path), args.op = "utimes"
  PROVE  Changes(args, D, Utimes(InMemory(D), p, args.n))
BY DEF Changes, MemoryDoes, Does

LEMMA DoesRename ==
  ASSUME NEW args, NEW D, NEW p, p = Follow(D, args.path), NEW q, q = Follow(D, args.to),
         args.op = "rename"
  PROVE  Changes(args, D, Rename(InMemory(D), Text(p), Text(q)))
BY DEF Changes, MemoryDoes, Does

LEMMA DoesCopyFile ==
  ASSUME NEW args, NEW D, NEW p, p = Follow(D, args.path), NEW q, q = Follow(D, args.to),
         args.op = "copyFile"
  PROVE  Changes(args, D, CopyFile(InMemory(D), p, q))
BY DEF Changes, MemoryDoes, Does

(* An operation that looks.                                                *)
LEMMA AgreeReading ==
  ASSUME NEW args, NEW D, NEW err, NEW out, NEW merr, NEW mout,
         Reads(args, D, merr, mout), err = "ok" <=> merr = "ok", err = "ok" => out = mout
  PROVE  Agree(args, D, err, out, D)
BY DEF Agree, Reads, Does

(* An operation that changes the disk: both fail and leave it, or both      *)
(* succeed.                                                                *)
LEMMA AgreeFailing ==
  ASSUME NEW args, NEW D, NEW err, NEW out, NEW r,
         Changes(args, D, r),
         err # "ok", r.err # "ok", r.fs = InMemory(D)
  PROVE  Agree(args, D, err, out, D)
BY DEF Agree, Changes, Does

LEMMA AgreeChanging ==
  ASSUME NEW args, NEW D, NEW E, NEW r,
         Changes(args, D, r), r.err = "ok",
         Looks(args, D, InMemory(E).tree) = Looks(args, D, r.fs.tree)
  PROVE  Agree(args, D, "ok", "none", E)
BY DEF Agree, Changes, Does

LEMMA ResultIs ==
  ASSUME NEW err, NEW f, NEW T, NEW k
  PROVE  /\ Result(err, f, T, k).err = err
         /\ err = "ok" => Result(err, f, T, k).fs.tree = T
         /\ err # "ok" => Result(err, f, T, k).fs = f
BY DEF Result

------------------------------------------------------------------------------
(* Call by call: what is answered agrees with what memory does.            *)

AnswersAlike ==
  ~last'.full /\ ~Differs(call.args, call.start, last'.err) =>
    Agree(call.args, call.start, last'.err, last'.out, disk')

(* Modes forbid a call.                                                    *)
LEMMA Forbidden ==
  ASSUME last'.err = "EACCES", NEW r \in DOMAIN call.start,
         ReadOnly(call.start, r) \/ Unreadable(call.start, r)
  PROVE  AnswersAlike
BY DEF AnswersAlike, Differs

LEMMA MemoryOfFile ==
  ASSUME NEW D, NEW p
  PROVE  /\ ReadFile(InMemory(D), p).err = "ok" <=> p \in DOMAIN D /\ ~IsDir(D, p)
         /\ p \in DOMAIN D /\ ~IsDir(D, p) => ReadFile(InMemory(D), p).data = D[p].data
<1> DEFINE f == InMemory(D)
           a == IsDir(f.tree, p)
           w == WalkTo(f.tree, p)
           d == << <<a, "EISDIR">> >>
           c == w \o d
           err == FirstError(c)
<1>1. DOMAIN f.tree = DOMAIN D /\ (p \in DOMAIN D => f.tree[p].data = D[p].data)
  <2>1. DOMAIN f.tree = DOMAIN D /\ \A r \in DOMAIN D : f.tree[r] = Remembered(D[r])
    BY MemoryFacts
  <2>2. Remembered(D[p]).data = D[p].data
    BY RememberedFacts
  <2> HIDE DEF f
  <2> QED BY <2>1, <2>2
<1>2. a <=> IsDir(D, p)
  BY MemoryKinds
<1>3. a \in BOOLEAN
  BY DEF IsDir
<1>4. ReadFile(f, p) = [err |-> err, data |-> IF err = "ok" THEN f.tree[p].data ELSE <<>>]
  BY DEF ReadFile
<1> HIDE DEF a, f
<1>5. d \in Checks /\ (Passes(d) <=> ~a)
  BY <1>3, NoCheck DEF Errno
<1>6. w \in Checks /\ (Passes(w) <=> p \in DOMAIN f.tree)
  BY WalkChecks
<1> HIDE DEF d, w
<1>7. c \in Checks /\ (Passes(c) <=> p \in DOMAIN f.tree /\ ~a)
  BY <1>5, <1>6, MoreChecks
<1> HIDE DEF c
<1>8. err = "ok" <=> p \in DOMAIN D /\ ~IsDir(D, p)
  BY <1>1, <1>2, <1>7, FirstErrorFacts
<1> HIDE DEF err
<1> QED
  BY <1>1, <1>4, <1>8 DEF f

LEMMA OpenReadAlike ==
  ASSUME RealInv, AloneInv, CalmInv, Undisturbed, OpenRead
  PROVE  AnswersAlike
<1> DEFINE D == call.start
           q == call.q
<1>1. call.pc = "resolved" /\ call.args.op = "readFile" /\ call.alone /\ call' = Idle
      /\ disk' = disk
  BY OpenReadFacts DEF Undisturbed, Answers
<1>2. /\ q = Follow(D, call.args.path) /\ q \in DOMAIN D /\ ~IsLink(D, q) /\ disk = D
      /\ Follow(disk, q) = q /\ GoodDisk(D)
  BY <1>1, ExistingFound
<1>3. D[q].kind \in {"file", "dir", "link"}
  BY <1>2, GoodDiskFacts
<1>4. GoodCall(call)
  BY <1>1, InCall
<1>5. /\ ~(IsFile(D, q) /\ ~Unreadable(D, q))
      /\ last'.err \in {"EACCES"} \union (IF IsDir(D, q) THEN {"EIO", "exception"} ELSE {})
  <2> DEFINE c == [call EXCEPT !.pc = "open", !.q = q, !.size = Len(disk[q].data)]
  <2>1. ASSUME call' = c PROVE FALSE
    <3>1. c = OfSize(OnPath(GoesTo(call, "open"), q), Len(disk[q].data))
      BY DEF OfSize, OnPath, GoesTo
    <3>2. c.pc = "open"
      BY <1>4 DEF GoodCall, CallOf
    <3> QED BY <1>1, <2>1, <3>2, IdleIs
  <2> HIDE DEF c
  <2>2. IF IsFile(disk, q) /\ ~Unreadable(disk, q)
        THEN call' = c /\ UNCHANGED last
        ELSE \E err \in {"EACCES"} \union (IF IsDir(disk, q) THEN {"EIO", "exception"} ELSE {}) :
               Answer(err)
    BY <1>2 DEF OpenRead, c
  <2> QED BY <1>2, <2>1, <2>2 DEF Answer, Answered
<1>6. CASE IsDir(D, q)
  <2>1. last'.err # "ok" /\ ReadFile(InMemory(D), q).err # "ok"
    BY <1>5, <1>6, MemoryOfFile
  <2>2. Reads(call.args, D, ReadFile(InMemory(D), q).err, ReadFile(InMemory(D), q).data)
    BY <1>1, <1>2, DoesReadFile
  <2>3. Agree(call.args, D, last'.err, last'.out, D)
    BY <2>1, <2>2, AgreeReading
  <2> QED BY <1>1, <1>2, <2>3 DEF AnswersAlike
<1>7. CASE ~IsDir(D, q)
  <2>1. IsFile(D, q)
    BY <1>2, <1>3, <1>7 DEF IsFile, IsDir, IsLink
  <2>2. last'.err = "EACCES" /\ Unreadable(D, q)
    BY <1>5, <1>7, <2>1
  <2> QED BY <1>2, <2>2, Forbidden
<1> QED
  BY <1>6, <1>7

LEMMA ReadAlike ==
  ASSUME RealInv, AloneInv, CalmInv, Undisturbed, Read
  PROVE  AnswersAlike
<1> DEFINE D == call.start
           q == call.q
           h == D[q].data
<1>1. call.pc = "open" /\ call.args.op = "readFile" /\ call.alone /\ call # Idle
      /\ disk' = disk /\ last'.err = "ok"
  BY DEF Undisturbed, Answers, Read, At, Return, Answered
<1>2. disk = D /\ call.lost = {} /\ GoodDisk(D)
  BY <1>1 DEF AloneInv, Writing, DirsUnderway, Making
<1>3. q = Follow(D, call.args.path) /\ IsFile(D, q) /\ call.size = Len(h)
  BY <1>1 DEF CalmInv, ReadOpen, WriteOpen
<1>4. h \in Seq(0..255) /\ q \in DOMAIN D /\ ~IsDir(D, q)
  BY <1>2, <1>3, GoodDiskFacts DEF IsFile, IsDir
<1>5. last'.out = [i \in 1..Len(h) |-> IF i <= Len(h) THEN h[i] ELSE 0]
  <2>1. last'.out = [i \in 1..call.size |-> IF i <= Len(Held) THEN Held[i] ELSE 0]
    BY DEF Read, Return, Answered
  <2>2. Held = h
    BY <1>2 DEF Held
  <2> QED BY <1>3, <2>1, <2>2
<1>6. last'.out = h
  <2> HIDE DEF h
  <2>1. h = [i \in 1..Len(h) |-> h[i]]
    BY <1>4
  <2>2. \A i \in 1..Len(h) : (IF i <= Len(h) THEN h[i] ELSE 0) = h[i]
    BY <1>4
  <2> QED BY <1>5, <2>1, <2>2
<1>7. ReadFile(InMemory(D), q).err = "ok" /\ ReadFile(InMemory(D), q).data = h
  BY <1>4, MemoryOfFile
<1>8. Reads(call.args, D, ReadFile(InMemory(D), q).err, ReadFile(InMemory(D), q).data)
  BY <1>1, <1>3, DoesReadFile
<1>9. Agree(call.args, D, last'.err, last'.out, D)
  BY <1>1, <1>6, <1>7, <1>8, AgreeReading
<1> QED
  BY <1>1, <1>2, <1>9 DEF AnswersAlike

LEMMA MemoryOfDir ==
  ASSUME NEW D, NEW p
  PROVE  /\ Readdir(InMemory(D), p).err = "ok" <=> IsDir(D, p)
         /\ Readdir(InMemory(D), p).names = Readdir([tree |-> D], p).names
<1> DEFINE f == InMemory(D)
           a == IsFile(f.tree, p)
           w == WalkTo(f.tree, p)
           d == << <<a, "ENOTDIR">> >>
           c == w \o d
           err == FirstError(c)
<1>1. DOMAIN f.tree = DOMAIN D /\ (a <=> p \in DOMAIN D /\ ~IsDir(D, p))
  BY MemoryFacts, MemoryKinds
<1>2. Below(f.tree, p) = Below(D, p)
  BY MemoryKinds
<1>3. a \in BOOLEAN
  BY DEF IsFile
<1>4. Readdir(f, p).err = err
  BY DEF Readdir
<1>5. Readdir(f, p).names = Readdir([tree |-> D], p).names
  BY <1>2 DEF Readdir
<1> HIDE DEF a, f
<1>6. d \in Checks /\ (Passes(d) <=> ~a)
  BY <1>3, NoCheck DEF Errno
<1>7. w \in Checks /\ (Passes(w) <=> p \in DOMAIN f.tree)
  BY WalkChecks
<1> HIDE DEF d, w
<1>8. c \in Checks /\ (Passes(c) <=> p \in DOMAIN f.tree /\ ~a)
  BY <1>6, <1>7, MoreChecks
<1> HIDE DEF c
<1>9. err = "ok" <=> IsDir(D, p)
  BY <1>1, <1>8, FirstErrorFacts DEF IsDir
<1> HIDE DEF err
<1> QED
  BY <1>4, <1>5, <1>9 DEF f

LEMMA LookupOneMore ==
  ASSUME NEW D, GoodDisk(D), NEW q \in DOMAIN D, ~IsLink(D, q), NEW a \in BOOLEAN, NEW e \in Code
  PROVE  /\ Lookup(D, q) \o << <<a, e>> >> \in DiskChecks
         /\ FirstError(Lookup(D, q) \o << <<a, e>> >>) = "ok" <=> ~a
<1> DEFINE w == Lookup(D, q)
           d == << <<a, e>> >>
           c == w \o d
<1>1. w \in DiskChecks /\ Passes(w)
  BY LookupChecks, LookupFinds, GoodDiskFacts
<1>2. d \in DiskChecks /\ (Passes(d) <=> ~a)
  BY OneDiskCheck
<1> HIDE DEF w, d
<1>3. c \in DiskChecks /\ (Passes(c) <=> ~a)
  BY <1>1, <1>2, MoreDiskChecks
<1> HIDE DEF c
<1>4. FirstError(c) = "ok" <=> ~a
  BY <1>3, DiskError
<1> QED
  BY <1>3, <1>4 DEF c, d, w

LEMMA ListDirAlike ==
  ASSUME RealInv, AloneInv, CalmInv, Undisturbed, ListDir
  PROVE  AnswersAlike
<1> DEFINE D == call.start
           q == call.q
           f == InMemory(D)
           a == ~IsDir(D, q)
           err == FirstError(Lookup(D, q) \o << <<a, "ENOTDIR">> >>)
           names == Readdir([tree |-> D], q).names
<1>1. call.pc = "resolved" /\ call.args.op = "readdir" /\ call.alone
  BY DEF ListDir, At, Undisturbed
<1>2. /\ q = Follow(D, call.args.path) /\ q \in DOMAIN D /\ ~IsLink(D, q) /\ disk = D
      /\ Follow(D, q) = q /\ GoodDisk(D)
  BY <1>1, ExistingFound
<1>3. last'.err = err /\ last'.out = names /\ disk' = D
  BY <1>2 DEF ListDir, Answered
<1>4. a \in BOOLEAN
  BY DEF IsDir
<1>5. Readdir(f, q).err = "ok" <=> ~a
  BY MemoryOfDir
<1>6. Readdir(f, q).names = names
  BY MemoryOfDir
<1> HIDE DEF a, names
<1>7. err = "ok" <=> ~a
  BY <1>2, <1>4, CodesAre, LookupOneMore
<1> HIDE DEF err
<1>8. Reads(call.args, D, Readdir(f, q).err, Readdir(f, q).names)
  BY <1>1, <1>2, DoesReaddir
<1>9. Agree(call.args, D, last'.err, last'.out, D)
  <2> HIDE DEF f, D
  <2> QED BY <1>3, <1>5, <1>6, <1>7, <1>8, AgreeReading DEF f
<1> QED
  BY <1>3, <1>9 DEF AnswersAlike

LEMMA StatusAlike ==
  ASSUME RealInv, AloneInv, CalmInv, Undisturbed, Status
  PROVE  AnswersAlike
<1> DEFINE q == call.q
           t == IF call.args.op = "stat" THEN Follow(disk, q) ELSE Named(disk, q)
           c == [call EXCEPT !.pc = "status",
                             !.got = [kind |-> disk[t].kind, mode |-> disk[t].mode]]
<1>1. call.pc = "resolved" /\ call.args.op \in {"stat", "lstat"} /\ call.alone /\ call' = Idle
  BY DEF Status, Undisturbed, Answers
<1>2. q \in DOMAIN disk /\ Follow(disk, q) = q /\ Named(disk, q) = q /\ GoodCall(call)
  <2>1. /\ q \in DOMAIN call.start /\ Follow(call.start, q) = q /\ Named(call.start, q) = q
        /\ disk = call.start /\ GoodCall(call)
    BY <1>1, ExistingFound
  <2> QED BY <2>1
<1>3. t \in DOMAIN disk
  BY <1>2
<1>4. call' = c
  BY <1>3 DEF Status
<1> HIDE DEF t
<1>5. c.pc = "status"
  BY <1>2 DEF GoodCall, CallOf
<1> QED
  BY <1>1, <1>4, <1>5, IdleIs

LEMMA FileSizeAlike ==
  ASSUME RealInv, AloneInv, CalmInv, Undisturbed, FileSize
  PROVE  AnswersAlike
<1> DEFINE D == call.start
           q == call.q
           a == IsDir(D, q)
           err == FirstError(Lookup(D, q) \o << <<a, "EISDIR">> >>)
           s == [kind |-> call.got.kind, mode |-> call.got.mode,
                 size |-> Len(disk[q].data), mtime |-> disk[q].mtime]
<1>1. call.pc = "status" /\ call.alone /\ call # Idle
  BY DEF FileSize, Undisturbed, Answers
<1>2. /\ call.args.op \in {"stat", "lstat"}
      /\ call.got = [kind |-> D[q].kind, mode |-> D[q].mode]
  BY <1>1 DEF CalmInv, HalfStat
<1>3. /\ q = Follow(D, call.args.path) /\ q \in DOMAIN D /\ ~IsLink(D, q) /\ disk = D
      /\ Follow(D, q) = q /\ GoodDisk(D)
  BY <1>1, <1>2, ExistingFound
<1>4. CASE a
  <2>1. Differs(call.args, D, last'.err)
    BY <1>2, <1>3, <1>4 DEF Differs
  <2> QED BY <2>1 DEF AnswersAlike
<1>5. CASE ~a
  <2>1. a \in BOOLEAN
    BY DEF IsDir
  <2> HIDE DEF a
  <2>2. err = "ok"
    BY <1>3, <1>5, <2>1, CodesAre, LookupOneMore
  <2>3. IF err # "ok" THEN Answer(err) ELSE Return(s)
    BY <1>3 DEF FileSize, a
  <2>4. last'.err = "ok" /\ last'.out = s /\ disk' = D
    <3> HIDE DEF err, s, D, q
    <3> QED BY <1>3, <2>2, <2>3 DEF Return, Answered, FileSize
  <2> USE DEF a
  <2>5. s = StatIn(D, q)
    <3>1. InMemory(D).tree[q] = Remembered(D[q])
      BY <1>3, MemoryFacts
    <3>2. D[q].kind = "file"
      <4>1. D[q].kind \in {"file", "dir", "link"}
        BY <1>3, GoodDiskFacts
      <4> QED BY <1>3, <1>5, <4>1 DEF IsDir, IsLink
    <3>3. StatIn(D, q) = [kind |-> "file", mode |-> D[q].mode, size |-> Len(D[q].data),
                          mtime |-> D[q].mtime]
      BY <3>1, <3>2 DEF StatIn, Remembered
    <3>4. call.got.kind = "file" /\ call.got.mode = D[q].mode
      BY <1>2, <3>2
    <3> QED BY <1>3, <3>3, <3>4
  <2>6. Stat(InMemory(D), q).err = "ok"
    <3> DEFINE f == InMemory(D)
    <3>1. q \in DOMAIN f.tree
      BY <1>3, MemoryFacts
    <3> HIDE DEF f
    <3>2. WalkTo(f.tree, q) \in Checks /\ Passes(WalkTo(f.tree, q))
      BY <3>1, WalkChecks
    <3>3. FirstError(WalkTo(f.tree, q)) = "ok"
      BY <3>2, FirstErrorFacts
    <3>4. Stat(f, q).err = "ok"
      BY <3>3 DEF Stat
    <3> QED BY <3>4 DEF f
  <2>7. Reads(call.args, D, Stat(InMemory(D), q).err, StatIn(D, q))
    BY <1>2, <1>3, DoesStat
  <2> HIDE DEF s
  <2>8. Agree(call.args, D, last'.err, last'.out, D)
    BY <2>4, <2>5, <2>6, <2>7, AgreeReading
  <2> QED BY <2>4, <2>8 DEF AnswersAlike
<1> QED
  BY <1>4, <1>5

LEMMA AccessBitsAlike ==
  ASSUME RealInv, AloneInv, CalmInv, Undisturbed, AccessBits
  PROVE  AnswersAlike
<1> DEFINE D == call.start
           q == call.q
           m == call.args.mode
           f == InMemory(D)
<1>1. call.pc = "resolved" /\ call.args.op = "access" /\ call.alone
  BY DEF AccessBits, At, Undisturbed
<1>2. /\ q = Follow(D, call.args.path) /\ q \in DOMAIN D /\ disk = D
      /\ Follow(D, q) = q
  BY <1>1, ExistingFound
<1>3. /\ last'.err = IF m \subseteq D[q].mode THEN "ok" ELSE "EACCES"
      /\ last'.out = "none" /\ disk' = D
  BY <1>2 DEF AccessBits, Answer, Answered
<1>4. q \in DOMAIN f.tree /\ f.tree[q].mode = D[q].mode
  BY <1>2, MemoryFacts, RememberedFacts
<1> HIDE DEF f, m
<1>5. Access(f, q, m) = "ok" <=> m \subseteq D[q].mode
  BY <1>4, AccessFacts
<1>6. Reads(call.args, D, Access(f, q, m), "none")
  BY <1>1, <1>2, DoesAccess DEF f, m
<1>7. last'.err = "ok" <=> Access(f, q, m) = "ok"
  BY <1>3, <1>5
<1>8. Agree(call.args, D, last'.err, last'.out, D)
  <2> HIDE DEF D, q
  <2> QED BY <1>3, <1>6, <1>7, AgreeReading
<1> QED
  BY <1>3, <1>8 DEF AnswersAlike

(* writeFile and appendFile.                                                *)
CanWrite(D, p) == p # <<>> /\ IsDir(D, Front(p)) /\ ~IsDir(D, p)

(* r is what has become of f, in memory, where n was to be put at p.        *)
PutsIn(f, p, n, can, r) ==
  /\ r.err = "ok" <=> can
  /\ r.err = "ok" => r.fs.tree = With(f.tree, p, n)
  /\ r.err # "ok" => r.fs = f

LEMMA MemoryOfWriting ==
  ASSUME NEW D, Grounded(D), NEW p \in Seq(STRING), NEW d, NEW f, f = InMemory(D),
         NEW old, old = f.tree[p]
  PROVE  /\ PutsIn(f, p, IF p \in DOMAIN D THEN Rewritten(old, d) ELSE File(0, d),
                   CanWrite(D, p), WriteFile(f, p, d))
         /\ PutsIn(f, p, IF p \in DOMAIN D THEN Rewritten(old, old.data \o d) ELSE File(0, d),
                   CanWrite(D, p), AppendFile(f, p, d))
<1> DEFINE T == f.tree
           c == WritingChecks(T, p)
           err == FirstError(c)
           o == IsFile(T, p)
           w == WriteFile(f, p, d)
           a == AppendFile(f, p, d)
           k == IF o THEN f.nextIno ELSE f.nextIno + 1
<1>1. f.nextIno = 0 /\ DOMAIN T = DOMAIN D
      /\ (IsDir(T, p) <=> IsDir(D, p)) /\ (o <=> p \in DOMAIN D /\ ~IsDir(D, p))
      /\ (Passes(ParentDir(T, p)) <=> (p # <<>> => IsDir(D, Front(p))))
  <2> DEFINE g == InMemory(D)
  <2>1. DOMAIN g.tree = DOMAIN D /\ g.nextIno = 0
    BY MemoryFacts DEF InMemory
  <2>2. (IsDir(g.tree, p) <=> IsDir(D, p)) /\ (IsFile(g.tree, p) <=> p \in DOMAIN D /\ ~IsDir(D, p))
    BY MemoryKinds
  <2>3. Passes(ParentDir(g.tree, p)) <=> (p # <<>> => IsDir(D, Front(p)))
    BY MemoryParent
  <2> HIDE DEF g
  <2> QED BY <2>1, <2>2, <2>3 DEF g
<1>2. err = "ok" <=> CanWrite(D, p)
  <2>1. c \in Checks /\ (Passes(c) <=> p # <<>> /\ Passes(ParentDir(T, p)) /\ ~IsDir(T, p))
    BY WriteChecks
  <2> HIDE DEF c, T
  <2>2. err = "ok" <=> Passes(c)
    BY <2>1, FirstErrorFacts
  <2> QED BY <1>1, <2>1, <2>2 DEF CanWrite, T
<1>3. err = "ok" => (o <=> p \in DOMAIN D)
  BY <1>1, <1>2 DEF CanWrite
<1>4. w = Result(err, f, With(T, p, IF o THEN Rewritten(T[p], d) ELSE File(f.nextIno, d)), k)
  BY DEF WriteFile, WritingChecks
<1>5. /\ err = "ok" /\ p \notin DOMAIN T => a = w
      /\ ~(err = "ok" /\ p \notin DOMAIN T) =>
           a = Result(err, f, With(T, p, Rewritten(T[p], T[p].data \o d)), f.nextIno)
  BY DEF AppendFile, WritingChecks
<1> HIDE DEF err, c, w, a, o, k, T
<1>6. w.err = err /\ (err # "ok" => w.fs = f)
      /\ (err = "ok" =>
            w.fs.tree = With(T, p, IF p \in DOMAIN D THEN Rewritten(T[p], d) ELSE File(0, d)))
  BY <1>1, <1>3, <1>4, ResultIs
<1>7. a.err = err /\ (err # "ok" => a.fs = f)
      /\ (err = "ok" =>
            a.fs.tree = With(T, p, IF p \in DOMAIN D THEN Rewritten(T[p], T[p].data \o d)
                                   ELSE File(0, d)))
  <2>1. CASE err = "ok" /\ p \notin DOMAIN T
    BY <1>1, <1>5, <1>6, <2>1
  <2>2. CASE ~(err = "ok" /\ p \notin DOMAIN T)
    BY <1>1, <1>5, <2>2, ResultIs
  <2> QED BY <2>1, <2>2
<1> QED
  BY <1>2, <1>6, <1>7 DEF PutsIn, T, w, a

LEMMA WritesAre ==
  ASSUME NEW args, NEW D, Grounded(D), NEW p \in Seq(STRING), p = Follow(D, args.path),
         args.op \in {"writeFile", "appendFile"}
  PROVE  LET f == InMemory(D)
             d == IF args.op = "appendFile" THEN f.tree[p].data \o args.data ELSE args.data
         IN  \E r : /\ Changes(args, D, r)
                    /\ PutsIn(f, p, IF p \in DOMAIN D THEN Rewritten(f.tree[p], d)
                                    ELSE File(0, args.data), CanWrite(D, p), r)
<1>1. CASE args.op = "writeFile"
  <2>1. Changes(args, D, WriteFile(InMemory(D), p, args.data))
    BY <1>1, DoesWriteFile
  <2> QED BY <1>1, <2>1, MemoryOfWriting
<1>2. CASE args.op = "appendFile"
  <2>1. Changes(args, D, AppendFile(InMemory(D), p, args.data))
    BY <1>2, DoesAppendFile
  <2> QED BY <1>2, <2>1, MemoryOfWriting
<1> QED
  BY <1>1, <1>2

(* What the two open: a path that leads, by no link, to where they write.   *)
LEMMA WritesTo ==
  ASSUME NEW D, Grounded(D), NEW path \in Seq(STRING), Creating(D, path).err = "ok"
  PROVE  LET q == Creating(D, path).path
             t == Follow(D, path)
         IN  /\ Follow(D, q) = t /\ t \in Seq(STRING) /\ GoodDisk(D)
             /\ t \in DOMAIN D /\ ~IsDir(D, t) => IsFile(D, t)
             /\ CanOpen(D, t) => CanWrite(D, t)
             /\ CanWrite(D, t) /\ ~CanOpen(D, t) => \E r \in DOMAIN D : ReadOnly(D, r)
<1> DEFINE t == Follow(D, path)
<1>1. GoodDisk(D) /\ t \in Seq(STRING) /\ Follow(D, Creating(D, path).path) = t
      /\ LinksOn(D, t) = {}
  BY CreatingLeads, FollowType DEF Grounded
<1> HIDE DEF t
<1>2. ASSUME t \in DOMAIN D PROVE ~IsLink(D, t) /\ D[t].kind \in {"file", "dir", "link"}
                                 /\ (t # <<>> => IsDir(D, Front(t)))
  <2>1. LeadTo(D, t)
    BY <1>1, <1>2, NodeLeadTo
  <2>2. t # <<>> => IsDir(D, Front(t))
    <3> SUFFICES ASSUME t # <<>> PROVE IsDir(D, Front(t))
      OBVIOUS
    <3>1. Front(t) \in Seq(STRING) /\ Len(Front(t)) = Len(t) - 1 /\ Len(t) >= 1
          /\ Front(t) = SubSeq(t, 1, Len(t) - 1)
      BY <1>1, FrontFacts
    <3>2. Len(t) \in Nat /\ Len(t) - 1 \in 0..Len(t) /\ Front(t) # t
      BY <1>1, <3>1
    <3>3. IsPrefix(Front(t), t)
      BY <1>1, <3>1, <3>2, PrefixIsSubSeq
    <3> QED BY <2>1, <3>1, <3>2, <3>3 DEF LeadTo
  <2>3. ~IsLink(D, t)
    BY <1>1, <2>1, LinksUpTo
  <2> QED BY <1>1, <1>2, <2>2, <2>3, GoodDiskFacts
<1>3. t \in DOMAIN D /\ ~IsDir(D, t) => IsFile(D, t)
  BY <1>2 DEF IsFile, IsDir, IsLink
<1>4. InDir(D, t) \in DiskChecks
      /\ (Passes(InDir(D, t)) <=> (t # <<>> => IsDir(D, Front(t))))
  BY <1>1, InDirChecks, InDirFinds
<1>5. FirstError(InDir(D, t)) = "ok" <=> (t # <<>> => IsDir(D, Front(t)))
  BY <1>4, DiskError
<1>6. IsDir(D, <<>>)
  BY DEF Grounded
<1>7. CASE t \in DOMAIN D
  <2>1. CanOpen(D, t) <=> IsFile(D, t) /\ ~ReadOnly(D, t)
    BY <1>7 DEF CanOpen
  <2>2. CanOpen(D, t) => CanWrite(D, t)
    <3> SUFFICES ASSUME IsFile(D, t) PROVE CanWrite(D, t)
      BY <2>1
    <3>1. D[t].kind = "file" /\ D[<<>>].kind = "dir"
      BY <1>6 DEF IsFile, IsDir
    <3>2. t # <<>> /\ ~IsDir(D, t)
      BY <3>1 DEF IsDir
    <3> QED BY <1>2, <1>7, <3>2 DEF CanWrite
  <2>3. CanWrite(D, t) => IsFile(D, t)
    BY <1>3, <1>7 DEF CanWrite
  <2> QED BY <1>1, <1>3, <1>7, <2>1, <2>2, <2>3 DEF t
<1>8. CASE t \notin DOMAIN D
  <2>1. CanOpen(D, t) <=> (t # <<>> => IsDir(D, Front(t))) /\ ~Closed(D, t)
    BY <1>5, <1>8 DEF CanOpen
  <2>2. CanWrite(D, t) <=> IsDir(D, Front(t))
    BY <1>6, <1>8 DEF CanWrite, IsDir
  <2>3. Closed(D, t) => \E r \in DOMAIN D : ReadOnly(D, r)
    BY DEF Closed, ReadOnly
  <2> QED BY <1>1, <1>3, <1>6, <1>8, <2>1, <2>2, <2>3 DEF t, IsDir
<1> QED
  BY <1>7, <1>8

LEMMA DiffersNot ==
  ASSUME NEW args, NEW D, NEW err, GoodDisk(D), ~Differs(args, D, err)
  PROVE  /\ Grounded(D)
         /\ err = "EACCES" => ~\E r \in DOMAIN D : ReadOnly(D, r) \/ Unreadable(D, r)
BY DEF Differs, Grounded

LEMMA WritingFrom ==
  ASSUME CalmInv, call # Idle, call.alone, call.pc \in {"resolved", "open"},
         call.args.op \in {"writeFile", "appendFile"}
  PROVE  /\ Creating(call.start, call.args.path).err = "ok"
         /\ call.pc = "resolved" => call.q = Creating(call.start, call.args.path).path
<1>1. Found
  BY DEF CalmInv
<1> QED
  BY <1>1 DEF Found, Resolve

LEMMA OpenWriteAlike ==
  ASSUME RealInv, AloneInv, CalmInv, Undisturbed, OpenWrite
  PROVE  AnswersAlike
<1> SUFFICES ASSUME ~last'.full, ~Differs(call.args, call.start, last'.err)
             PROVE  Agree(call.args, call.start, last'.err, last'.out, disk')
  BY DEF AnswersAlike
<1> DEFINE D == call.start
           t == Follow(D, call.args.path)
           d == IF call.args.op = "appendFile"
                THEN InMemory(D).tree[t].data \o call.args.data ELSE call.args.data
           n == IF t \in DOMAIN D THEN Rewritten(InMemory(D).tree[t], d)
                ELSE File(0, call.args.data)
<1>1. /\ call.pc = "resolved" /\ call.args.op \in {"writeFile", "appendFile"}
      /\ call.alone /\ call' = Idle /\ GoodCall(call) /\ call # Idle
  BY OpenWriteFacts DEF Undisturbed, Answers
<1>2. disk = D /\ GoodDisk(D) /\ call.args.path \in Seq(STRING)
  BY <1>1, ResolvedAlone DEF GoodCall, CallOf, CallArgs
<1>3. Grounded(D)
  BY <1>2, DiffersNot
<1>4. Creating(D, call.args.path).err = "ok" /\ call.q = Creating(D, call.args.path).path
  BY <1>1, WritingFrom
<1>5. /\ Follow(D, call.q) = t /\ t \in Seq(STRING)
      /\ CanWrite(D, t) /\ ~CanOpen(D, t) => \E r \in DOMAIN D : ReadOnly(D, r)
  BY <1>2, <1>3, <1>4, WritesTo
<1>6. ~CanOpen(D, t) /\ last'.err = "EACCES" /\ disk' = D
  <2> DEFINE x == [call EXCEPT !.pc = "open", !.q = t]
  <2>1. (~CanOpen(D, t) /\ Answer("EACCES") /\ UNCHANGED disk) \/ call' = x
    BY <1>2, <1>5 DEF OpenWrite, Answered
  <2>2. x.pc = "open"
    BY <1>1 DEF GoodCall, CallOf
  <2>3. call' # x
    BY <1>1, <2>2, IdleIs
  <2> HIDE DEF x, t
  <2> QED BY <1>2, <2>1, <2>3 DEF Answer, Answered
<1>7. ~CanWrite(D, t)
  BY <1>2, <1>5, <1>6, DiffersNot
<1>8. PICK r : Changes(call.args, D, r) /\ PutsIn(InMemory(D), t, n, CanWrite(D, t), r)
  BY <1>1, <1>3, <1>5, WritesAre
<1>9. r.err # "ok" /\ r.fs = InMemory(D)
  BY <1>7, <1>8 DEF PutsIn
<1> QED
  BY <1>6, <1>8, <1>9, AgreeFailing

LEMMA FlushAlike ==
  ASSUME RealInv, AloneInv, CalmInv, Undisturbed, Flush
  PROVE  AnswersAlike
<1> SUFFICES ASSUME ~Differs(call.args, call.start, last'.err)
             PROVE  Agree(call.args, call.start, last'.err, last'.out, disk')
  BY DEF AnswersAlike
<1> DEFINE D == call.start
           q == call.q
           args == call.args
           M == InMemory(D).tree
           d == IF args.op = "appendFile" THEN M[q].data \o args.data ELSE args.data
           n == IF q \in DOMAIN D THEN Rewritten(M[q], d) ELSE File(0, args.data)
           o == OpenedNode(D, args.op, q)
           x == [o EXCEPT !.data = Written(args.op, @, args.data), !.mtime = Now]
           w == IF args.data = <<>> THEN o ELSE x
<1>1. /\ call.pc = "open" /\ args.op \in {"writeFile", "appendFile"}
      /\ call.alone /\ call # Idle /\ GoodCall(call) /\ last'.err = "ok" /\ last'.out = "none"
  BY FlushFacts DEF Undisturbed, Answers, Flush, Answer, Answered
<1>2. GoodDisk(D) /\ call.lost = {} /\ args.path \in Seq(STRING) /\ args.data \in Seq(0..255)
  BY <1>1 DEF AloneInv, GoodCall, CallOf, CallArgs
<1>3. Grounded(D)
  BY <1>2, DiffersNot
<1>4. /\ q = Follow(D, Creating(D, args.path).path)
      /\ CanOpen(D, q) /\ disk = OpenedAs(D, args.op, q)
  BY <1>1 DEF CalmInv, ReadOpen, WriteOpen
<1>5. Creating(D, args.path).err = "ok"
  BY <1>1, WritingFrom
<1>6. q = Follow(D, args.path) /\ q \in Seq(STRING) /\ CanWrite(D, q)
      /\ (q \in DOMAIN D => IsFile(D, q))
  <2>1. /\ q = Follow(D, args.path) /\ q \in Seq(STRING) /\ CanWrite(D, q)
        /\ (q \in DOMAIN D /\ ~IsDir(D, q) => IsFile(D, q))
    BY <1>2, <1>3, <1>4, <1>5, WritesTo
  <2> QED BY <2>1 DEF CanWrite
<1>7. OldNode(D, q) \in DiskNodes /\ OldNode(D, q).kind = "file"
  BY <1>2, <1>6, GoodDiskFacts, NewNodes DEF OldNode, IsFile
<1>8. /\ o \in DiskNodes /\ o.kind = "file" /\ o.mode = OldNode(D, q).mode
      /\ o.data = IF args.op = "appendFile" THEN OldNode(D, q).data ELSE <<>>
      /\ o.mtime = Now \/ args.op = "appendFile"
  <2> DEFINE old == OldNode(D, q)
             e == [old EXCEPT !.data = <<>>, !.mtime = Now]
  <2>1. old \in DiskNodes /\ old.kind = "file"
    BY <1>7
  <2> HIDE DEF old
  <2>2. e \in DiskNodes /\ e.kind = "file" /\ e.data = <<>>
    <3>1. <<>> \in Seq(0..255)
      OBVIOUS
    <3> QED BY <2>1, <3>1, NodeWritten
  <2>3. e.mode = old.mode /\ e.mtime = Now
    BY <2>1 DEF DiskNodes
  <2>4. o = IF args.op = "appendFile" THEN old ELSE e
    BY DEF OpenedNode, old
  <2> QED BY <2>1, <2>2, <2>3, <2>4 DEF old
<1>9. disk[q] = o /\ q \in DOMAIN disk /\ SameBut(D, disk, {q})
  <2>1. disk = With(D, q, o)
    BY <1>4 DEF OpenedAs
  <2> DEFINE E == With(D, q, o)
  <2>2. SameBut(D, E, {q}) /\ E[q] = o /\ DOMAIN E = DOMAIN D \union {q}
    <3> HIDE DEF o, D, q
    <3> QED BY WithFacts
  <2> HIDE DEF E, o
  <2>3. disk = E
    BY <2>1 DEF E
  <2> QED BY <2>2, <2>3
<1>10. /\ w.kind = "file" /\ w.mode = OldNode(D, q).mode
       /\ w.data = Written(args.op, o.data, args.data)
       /\ w.mtime = Now \/ (args.op = "appendFile" /\ args.data = <<>>)
  <2> HIDE DEF o
  <2>1. CASE args.data # <<>>
    BY <1>8, <2>1 DEF DiskNodes
  <2>2. CASE args.data = <<>>
    <3>1. o.data \in Seq(0..255)
      BY <1>8 DEF DiskNodes
    <3>2. o.data = Written(args.op, o.data, <<>>)
      <4>1. CASE args.op = "appendFile"
        BY <3>1, <4>1, ConcatEmptySeq DEF Written
      <4>2. CASE args.op # "appendFile"
        <5>1. Written(args.op, o.data, <<>>) = <<>> \o SubSeq(<<>>, Len(<<>>) + 1, Len(<<>>))
          BY <1>8, <4>2 DEF Written
        <5>2. SubSeq(<<>>, Len(<<>>) + 1, Len(<<>>)) = <<>> /\ <<>> \o <<>> = <<>>
          OBVIOUS
        <5> QED BY <1>8, <4>2, <5>1, <5>2
      <4> QED BY <4>1, <4>2
    <3> QED BY <1>8, <2>2, <3>2
  <2> QED BY <2>1, <2>2
<1>11. SameBut(D, disk', {q}) /\ q \in DOMAIN disk' /\ disk'[q] = w
  <2>1. disk' = IF args.data = <<>> THEN disk
                ELSE [disk EXCEPT ![q].data = Written(args.op, @, args.data), ![q].mtime = Now]
    BY <1>2 DEF Flush, Put
  <2> HIDE DEF o, D
  <2>2. CASE args.data = <<>>
    BY <1>9, <2>1, <2>2
  <2>3. CASE args.data # <<>>
    <3>1. disk' = [disk EXCEPT ![q] = x] /\ w = x
      BY <1>9, <2>1, <2>3
    <3> HIDE DEF x, w
    <3> QED BY <1>9, <3>1 DEF SameBut
  <2> QED BY <2>2, <2>3
<1> HIDE DEF o, w
<1>12. w.data = IF args.op = "appendFile" THEN OldNode(D, q).data \o args.data ELSE args.data
  <2>1. CASE args.op = "appendFile"
    BY <1>8, <1>10, <2>1 DEF Written
  <2>2. CASE args.op # "appendFile"
    <3> DEFINE y == args.data
    <3>1. w.data = y \o SubSeq(<<>>, Len(y) + 1, Len(<<>>))
      BY <1>8, <1>10, <2>2 DEF Written
    <3>2. y \in Seq(0..255)
      BY <1>2
    <3> HIDE DEF y
    <3>3. Len(y) \in Nat /\ Len(<<>>) = 0
      BY <3>2
    <3>4. SubSeq(<<>>, Len(y) + 1, Len(<<>>)) = <<>>
      BY <3>3
    <3>5. y \o <<>> = y
      BY <3>2, ConcatEmptySeq
    <3> QED BY <2>2, <3>1, <3>4, <3>5 DEF y
  <2> QED BY <2>1, <2>2
<1>13. AlikeAt(args, D, q, Remembered(w), n)
  <2> DEFINE m == Remembered(w)
  <2>1. /\ m.kind = "file" /\ m.data = w.data /\ m.mode = OldNode(D, q).mode
        /\ m.mtime = Now \/ (args.op = "appendFile" /\ args.data = <<>>)
    BY <1>10, RememberedFacts
  <2> HIDE DEF m
  <2>2. CASE q \in DOMAIN D
    <3>1. M[q] = Remembered(D[q]) /\ D[q].kind = "file" /\ OldNode(D, q) = D[q]
      BY <1>6, <2>2, MemoryFacts DEF IsFile, OldNode
    <3>2. M[q].kind = "file" /\ M[q].data = D[q].data /\ M[q].mode = D[q].mode
      BY <3>1, RememberedFacts
    <3>3. n = Rewritten(M[q], d)
      BY <2>2
    <3>4. n.kind = M[q].kind /\ n.mode = M[q].mode /\ n.data = d /\ n.mtime = Now
      <4> DEFINE k == Remembered(D[q])
      <4>1. /\ Rewritten(k, d).kind = k.kind /\ Rewritten(k, d).mode = k.mode
            /\ Rewritten(k, d).data = d /\ Rewritten(k, d).mtime = Now
        BY DEF Rewritten, Remembered
      <4> QED BY <3>1, <3>3, <4>1
    <3>5. w.data = d
      BY <1>12, <3>1, <3>2
    <3> HIDE DEF n, d, M, D, args, q
    <3>6. AlikeAt(args, D, q, m, n)
      BY <2>1, <3>1, <3>2, <3>4, <3>5 DEF AlikeAt
    <3> QED BY <3>6 DEF m
  <2>3. CASE q \notin DOMAIN D
    <3>1. OldNode(D, q) = NewFile /\ n = File(0, args.data)
      BY <2>3 DEF OldNode
    <3>2. n.kind = "file" /\ n.data = args.data /\ n.mode = {"read", "write"} /\ n.mtime = Now
      BY <3>1 DEF File
    <3>3. NewFile.data = <<>> /\ NewFile.mode = {"read", "write"}
      BY DEF NewFile, DiskNode
    <3>4. <<>> \o args.data = args.data
      BY <1>2, ConcatEmptySeq
    <3>5. w.data = args.data
      BY <1>12, <3>1, <3>3, <3>4
    <3> HIDE DEF n, d, M, D, args, q
    <3>6. AlikeAt(args, D, q, m, n)
      BY <2>1, <3>1, <3>2, <3>3, <3>5 DEF AlikeAt
    <3> QED BY <3>6 DEF m
  <2> QED BY <2>2, <2>3 DEF m
<1> HIDE DEF n
<1>14. Looks(args, D, InMemory(disk').tree) = Looks(args, D, With(M, q, n))
  BY <1>11, <1>13, LooksPut
<1>15. PICK r : Changes(args, D, r) /\ PutsIn(InMemory(D), q, n, CanWrite(D, q), r)
  BY <1>1, <1>3, <1>6, WritesAre DEF n
<1>16. r.err = "ok" /\ r.fs.tree = With(M, q, n)
  BY <1>6, <1>15 DEF PutsIn
<1>17. Agree(args, D, "ok", "none", disk')
  BY <1>14, <1>15, <1>16, AgreeChanging
<1> QED
  BY <1>1, <1>17

(* unlink and rmdir.                                                        *)
LEMMA ParentThere ==
  ASSUME NEW D, GoodDisk(D), NEW q \in DOMAIN D, q # <<>>
  PROVE  IsDir(D, Front(q))
<1>1. q \in Seq(STRING) /\ LeadTo(D, q)
  BY NodeLeadTo
<1>2. Front(q) \in Seq(STRING) /\ Len(Front(q)) = Len(q) - 1 /\ Len(q) >= 1
      /\ Front(q) = SubSeq(q, 1, Len(q) - 1)
  BY <1>1, FrontFacts
<1>3. Len(q) \in Nat /\ Len(q) - 1 \in 0..Len(q) /\ Front(q) # q
  BY <1>1, <1>2
<1>4. IsPrefix(Front(q), q)
  BY <1>1, <1>2, <1>3, PrefixIsSubSeq
<1> QED
  BY <1>1, <1>2, <1>3, <1>4 DEF LeadTo

TakesOut(f, p, can, r) ==
  /\ r.err = "ok" <=> can
  /\ r.err = "ok" => r.fs.tree = Without(f.tree, {p})
  /\ r.err # "ok" => r.fs = f

LEMMA MemoryOfRemoving ==
  ASSUME NEW D, Grounded(D), NEW p \in DOMAIN D, p # <<>>
  PROVE  LET f == InMemory(D)
             can == ~(IsDir(D, p) /\ HasChildren(D, p))
         IN  /\ TakesOut(f, p, can, Unlink(f, p))
             /\ IsDir(D, p) => TakesOut(f, p, can, Rmdir(f, p))
<1> DEFINE f == InMemory(D)
           T == f.tree
           can == ~(IsDir(D, p) /\ HasChildren(D, p))
           c == UnlinkingChecks(T, p)
           a == IsFile(T, p)
           b == HasChildren(T, p)
           w == WalkTo(T, p)
           d == << <<a, "ENOTDIR">>, <<b, "ENOTEMPTY">> >>
           e == w \o d
           u == Unlink(f, p)
           r == Rmdir(f, p)
<1>1. GoodDisk(D) /\ p \in Seq(STRING)
  BY NodeLeadTo DEF Grounded
<1>2. p \in DOMAIN T /\ (IsDir(T, p) <=> IsDir(D, p)) /\ (a <=> ~IsDir(D, p))
      /\ (b <=> HasChildren(D, p))
  BY MemoryFacts, MemoryKinds
<1>3. Passes(ParentDir(T, p))
  <2>1. IsDir(D, Front(p))
    BY <1>1, ParentThere
  <2> QED BY <1>1, <2>1, MemoryParent
<1>4. a \in BOOLEAN /\ b \in BOOLEAN
  BY DEF IsFile, HasChildren
<1>5. u = Result(FirstError(c), f, Without(T, {p}), f.nextIno)
  BY DEF Unlink, UnlinkingChecks
<1>6. FirstError(c) = "ok" <=> can
  <2>1. c \in Checks /\ (Passes(c) <=> /\ p # <<>> /\ Passes(ParentDir(T, p)) /\ p \in DOMAIN T
                                      /\ ~(IsDir(T, p) /\ b))
    BY UnlinkChecks
  <2> HIDE DEF a, b, c, T
  <2>2. FirstError(c) = "ok" <=> Passes(c)
    BY <2>1, FirstErrorFacts
  <2>3. Passes(c) <=> ~(IsDir(T, p) /\ b)
    BY <1>2, <1>3, <2>1
  <2>4. ~(IsDir(T, p) /\ b) <=> can
    BY <1>2
  <2> QED BY <2>2, <2>3, <2>4
<1>7. r = IF FirstError(e) = "ok" THEN u ELSE [err |-> FirstError(e), fs |-> f]
  BY DEF Rmdir
<1> HIDE DEF a, b
<1>8. FirstError(e) = "ok" <=> ~a /\ ~b
  <2>1. d \in Checks /\ (Passes(d) <=> ~a /\ ~b)
    <3>1. "ENOTDIR" \in Errno /\ "ENOTEMPTY" \in Errno
      BY DEF Errno
    <3> QED BY <1>4, <3>1, TwoChecks
  <2>2. w \in Checks /\ Passes(w)
    BY <1>2, WalkChecks
  <2> HIDE DEF d, w
  <2>3. e \in Checks /\ (Passes(e) <=> ~a /\ ~b)
    BY <2>1, <2>2, MoreChecks
  <2> HIDE DEF e
  <2> QED BY <2>3, FirstErrorFacts
<1> HIDE DEF c, e, u, r, f, T
<1>9. TakesOut(f, p, can, u)
  <2>1. u.err = FirstError(c) /\ (FirstError(c) = "ok" => u.fs.tree = Without(T, {p}))
        /\ (FirstError(c) # "ok" => u.fs = f)
    BY <1>5, ResultIs
  <2> QED BY <1>6, <2>1 DEF TakesOut, T
<1>10. IsDir(D, p) => TakesOut(f, p, can, r)
  <2> SUFFICES ASSUME IsDir(D, p) PROVE TakesOut(f, p, can, r)
    OBVIOUS
  <2>1. FirstError(e) = "ok" <=> can
    BY <1>2, <1>8
  <2>2. CASE can
    BY <1>7, <1>9, <2>1, <2>2
  <2>3. CASE ~can
    <3>1. r.err = FirstError(e) /\ r.fs = f
      BY <1>7, <2>1, <2>3
    <3> HIDE DEF can
    <3> QED BY <2>1, <2>3, <3>1 DEF TakesOut
  <2> QED BY <2>2, <2>3
<1> QED
  BY <1>9, <1>10 DEF f, u, r

LEMMA RemoveNodeAlike ==
  ASSUME RealInv, AloneInv, CalmInv, Undisturbed, RemoveNode
  PROVE  AnswersAlike
<1> SUFFICES ASSUME ~Differs(call.args, call.start, last'.err)
             PROVE  Agree(call.args, call.start, last'.err, last'.out, disk')
  BY DEF AnswersAlike
<1> DEFINE D == call.start
           q == call.q
           a == Closed(D, q)
           can == ~(IsDir(D, q) /\ HasChildren(D, q))
           c == << <<a, "EACCES">>, <<~can, "ENOTEMPTY">> >>
           E == Without(D, {q})
<1>1. call.pc = "resolved" /\ call.args.op \in {"unlink", "rmdir"} /\ call.alone
  BY DEF RemoveNode, Undisturbed
<1>2. /\ q = Follow(D, call.args.path) /\ q \in DOMAIN D /\ ~IsLink(D, q) /\ disk = D
      /\ Named(D, q) = q /\ GoodDisk(D)
  BY <1>1, ExistingFound
<1>3. Grounded(D) /\ q # <<>> /\ (call.args.op = "rmdir" => IsDir(D, q))
  <2>1. Grounded(D) /\ q # <<>> /\ (call.args.op = "rmdir" => ~IsFile(D, q))
    BY <1>1, <1>2, DiffersNot DEF Differs
  <2>2. D[q].kind \in {"file", "dir", "link"}
    BY <1>2, GoodDiskFacts
  <2> QED BY <1>2, <2>1, <2>2 DEF IsFile, IsDir, IsLink
<1>4. Act(c, E)
  <2>1. Act(<< <<Closed(D, q), "EACCES">>,
               <<IsDir(D, q) /\ HasChildren(D, q), "ENOTEMPTY">> >>, Without(D, {q}))
    BY <1>2 DEF RemoveNode
  <2>2. (IsDir(D, q) /\ HasChildren(D, q)) = ~can
    OBVIOUS
  <2> QED BY <2>1, <2>2
<1>4a. (~can) \in BOOLEAN
  BY DEF IsDir, HasChildren
<1>5. (a => \E r \in DOMAIN D : ReadOnly(D, r)) /\ a \in BOOLEAN
  <2>1. a => Front(q) \in DOMAIN D /\ ReadOnly(D, Front(q))
    BY DEF Closed, ReadOnly
  <2>2. a \in BOOLEAN
    BY DEF Closed, ReadOnly
  <2> HIDE DEF a, D, q
  <2> QED BY <2>1, <2>2
<1>6. PICK r : Changes(call.args, D, r) /\ TakesOut(InMemory(D), q, can, r)
  <2>1. CASE call.args.op = "unlink"
    <3>1. Changes(call.args, D, Unlink(InMemory(D), q))
      BY <1>2, <2>1, DoesUnlink
    <3> QED BY <1>2, <1>3, <3>1, MemoryOfRemoving
  <2>2. CASE call.args.op = "rmdir"
    <3>1. Changes(call.args, D, Rmdir(InMemory(D), q))
      BY <1>2, <2>2, DoesRmdir
    <3> QED BY <1>2, <1>3, <2>2, <3>1, MemoryOfRemoving
  <2> QED BY <1>1, <2>1, <2>2
<1>7. last'.err = FirstError(c) /\ last'.out = "none"
      /\ disk' = IF FirstError(c) = "ok" THEN E ELSE D
  BY <1>2, <1>4 DEF Act, Answer, Answered
<1>8. InMemory(E).tree = Without(InMemory(D).tree, {q})
  BY MemoryWithout
<1> HIDE DEF a, can, E
<1>9. c \in DiskChecks /\ (Passes(c) <=> ~a /\ can)
  BY <1>4a, <1>5, CodesAre, TwoDiskChecks
<1>10. can => FailsWith(c, "EACCES")
  BY TwoFailWith
<1> HIDE DEF c
<1>11. FirstError(c) = "ok" <=> ~a /\ can
  BY <1>9, DiskError
<1>12. CASE FirstError(c) = "ok"
  <2>1. r.err = "ok" /\ r.fs.tree = InMemory(E).tree
    BY <1>6, <1>8, <1>11, <1>12 DEF TakesOut
  <2>2. Agree(call.args, D, "ok", "none", E)
    BY <1>6, <2>1, AgreeChanging
  <2> QED BY <1>7, <1>12, <2>2
<1>13. CASE FirstError(c) # "ok" /\ ~can
  <2>1. r.err # "ok" /\ r.fs = InMemory(D)
    BY <1>6, <1>13 DEF TakesOut
  <2> QED BY <1>6, <1>7, <1>13, <2>1, AgreeFailing
<1>14. CASE FirstError(c) # "ok" /\ can
  <2>1. FirstError(c) = "EACCES" /\ a
    BY <1>9, <1>10, <1>11, <1>14, OnlyError
  <2> QED BY <1>2, <1>5, <1>7, <2>1, DiffersNot
<1> QED
  BY <1>12, <1>13, <1>14

------------------------------------------------------------------------------
(* truncate and utimes: a node that is there changes.                       *)
LEMMA PutAgrees ==
  ASSUME NEW args, NEW D, NEW p, NEW n, NEW can, NEW r, NEW E,
         Changes(args, D, r), PutsIn(InMemory(D), p, n, can, r), can,
         SameBut(D, E, {p}), p \in DOMAIN E, AlikeAt(args, D, p, Remembered(E[p]), n)
  PROVE  Agree(args, D, "ok", "none", E)
<1>1. Looks(args, D, InMemory(E).tree) = Looks(args, D, With(InMemory(D).tree, p, n))
  BY LooksPut
<1>2. r.err = "ok" /\ r.fs.tree = With(InMemory(D).tree, p, n)
  BY DEF PutsIn
<1> QED
  BY <1>1, <1>2, AgreeChanging

LEMMA MemoryOfTruncate ==
  ASSUME NEW D, NEW p \in DOMAIN D, NEW n \in Int, n >= 0, NEW T, T = InMemory(D).tree,
         NEW d, d = [i \in 1..n |-> IF i <= Len(T[p].data) THEN T[p].data[i] ELSE 0]
  PROVE  PutsIn(InMemory(D), p, Rewritten(T[p], d), ~IsDir(D, p), Truncate(InMemory(D), p, n))
<1> DEFINE f == InMemory(D)
           a == n < 0
           b == IsDir(T, p)
           w == WalkTo(T, p)
           s == << <<a, "EINVAL">> >>
           e == << <<b, "EISDIR">> >>
           c == (s \o w) \o e
           r == Truncate(f, p, n)
<1>1. p \in DOMAIN T /\ (b <=> IsDir(D, p)) /\ ~a /\ a \in BOOLEAN /\ b \in BOOLEAN
  <2>1. b \in BOOLEAN
    BY DEF IsDir
  <2>2. p \in DOMAIN T /\ (b <=> IsDir(D, p))
    BY MemoryFacts, MemoryKinds
  <2> QED BY <2>1, <2>2
<1>2. r = Result(FirstError(c), f, With(T, p, Rewritten(T[p], d)), f.nextIno)
  BY DEF Truncate
<1> HIDE DEF a, b, f, r
<1>3. s \in Checks /\ Passes(s) /\ e \in Checks /\ (Passes(e) <=> ~b)
  BY <1>1, NoCheck DEF Errno
<1>4. w \in Checks /\ Passes(w)
  BY <1>1, WalkChecks
<1> HIDE DEF s, w, e
<1>5. s \o w \in Checks /\ Passes(s \o w)
  BY <1>3, <1>4, MoreChecks
<1>6. c \in Checks /\ (Passes(c) <=> ~b)
  BY <1>3, <1>5, MoreChecks
<1> HIDE DEF c
<1>7. FirstError(c) = "ok" <=> ~b
  BY <1>6, FirstErrorFacts
<1>8. r.err = FirstError(c) /\ (FirstError(c) = "ok" => r.fs.tree = With(T, p, Rewritten(T[p], d)))
      /\ (FirstError(c) # "ok" => r.fs = f)
  BY <1>2, ResultIs
<1>9. PutsIn(f, p, Rewritten(T[p], d), ~IsDir(D, p), r)
  BY <1>1, <1>7, <1>8 DEF PutsIn, f
<1> QED
  BY <1>9 DEF f, r

LEMMA MemoryOfUtimes ==
  ASSUME NEW D, NEW p \in DOMAIN D, NEW t, NEW T, T = InMemory(D).tree
  PROVE  PutsIn(InMemory(D), p, [T[p] EXCEPT !.mtime = t], TRUE, Utimes(InMemory(D), p, t))
<1> DEFINE f == InMemory(D)
           w == WalkTo(T, p)
           n == [T[p] EXCEPT !.mtime = t]
           r == Utimes(f, p, t)
<1>1. w \in Checks /\ Passes(w)
  BY WalkChecks, MemoryFacts
<1>2. r = Result(FirstError(w), f, With(T, p, n), f.nextIno)
  BY DEF Utimes
<1> HIDE DEF w, n, f, r
<1>3. FirstError(w) = "ok"
  BY <1>1, FirstErrorFacts
<1>4. r.err = "ok" /\ r.fs.tree = With(T, p, n)
  BY <1>2, <1>3, ResultIs
<1>5. PutsIn(f, p, n, TRUE, r)
  BY <1>4 DEF PutsIn, f
<1> QED
  BY <1>5 DEF f, r, n

LEMMA ResizeAlike ==
  ASSUME RealInv, AloneInv, CalmInv, Undisturbed, Resize
  PROVE  AnswersAlike
<1> SUFFICES ASSUME ~Differs(call.args, call.start, last'.err)
             PROVE  Agree(call.args, call.start, last'.err, last'.out, disk')
  BY DEF AnswersAlike
<1> DEFINE D == call.start
           args == call.args
           q == call.q
           n == args.n
           M == InMemory(D).tree
           old == D[q].data
           data == [i \in 1..n |-> IF i <= Len(old) THEN old[i] ELSE 0]
           a == IsDir(D, q)
           b == ReadOnly(D, q)
           s == << <<a, "EISDIR">>, <<b, "EACCES">> >>
           w == Lookup(D, q)
           c == w \o s
           E == IF data = old THEN D ELSE [D EXCEPT ![q].data = data, ![q].mtime = Now]
           m == [D[q] EXCEPT !.data = data, !.mtime = Now]
           r == Truncate(InMemory(D), q, n)
<1>1. call.pc = "resolved" /\ args.op = "truncate" /\ call.alone /\ call # Idle
  BY DEF Resize, At, Undisturbed, Answers
<1>2. /\ q = Follow(D, args.path) /\ q \in DOMAIN D /\ ~IsLink(D, q) /\ disk = D
      /\ Follow(D, q) = q /\ GoodDisk(D) /\ args \in CallArgs
  BY <1>1, ExistingFound
<1>3. n >= 0 /\ n \in Int
  BY <1>1, <1>2 DEF CalmInv, Found, CallArgs
<1>4. Changes(args, D, r)
  BY <1>1, <1>2, DoesTruncate
<1>5. PutsIn(InMemory(D), q, Rewritten(M[q], data), ~a, r)
  <2> DEFINE d == [i \in 1..n |-> IF i <= Len(M[q].data) THEN M[q].data[i] ELSE 0]
  <2>1. M[q].data = old
    BY <1>2, MemoryFacts, RememberedFacts
  <2>2. d = data
    BY <2>1
  <2>3. PutsIn(InMemory(D), q, Rewritten(M[q], d), ~a, r)
    <3> HIDE DEF D, q, n
    <3> QED BY <1>2, <1>3, MemoryOfTruncate
  <2> HIDE DEF d, data
  <2> QED BY <2>2, <2>3
<1>6. Act(c, E)
  BY <1>2 DEF Resize
<1>7. last'.err = FirstError(c) /\ last'.out = "none"
      /\ disk' = IF FirstError(c) = "ok" THEN E ELSE D
  BY <1>2, <1>6 DEF Act, Answer, Answered
<1>8. a \in BOOLEAN /\ b \in BOOLEAN
  BY DEF IsDir, ReadOnly
<1> HIDE DEF a, r
<1>9. FirstError(c) = "ok" <=> ~a /\ ~b
  <2>1. s \in DiskChecks /\ (Passes(s) <=> ~a /\ ~b)
    BY <1>8, CodesAre, TwoDiskChecks
  <2>2. w \in DiskChecks /\ Passes(w)
    BY <1>2, LookupChecks, LookupFinds, GoodDiskFacts
  <2> HIDE DEF s, w
  <2>3. c \in DiskChecks /\ (Passes(c) <=> ~a /\ ~b)
    BY <2>1, <2>2, MoreDiskChecks
  <2> HIDE DEF c
  <2> QED BY <2>3, DiskError
<1>10. ~a /\ b => FirstError(c) = "EACCES"
  <2>1. s \in DiskChecks /\ (Passes(s) <=> ~a /\ ~b)
    BY <1>8, CodesAre, TwoDiskChecks
  <2>2. w \in DiskChecks /\ Passes(w)
    BY <1>2, LookupChecks, LookupFinds, GoodDiskFacts
  <2>3. ~a => FailsWith(s, "EACCES")
    BY TwoFailWith
  <2> HIDE DEF s, w
  <2>4. FailsWith(w, "EACCES")
    BY <2>2, PassingFailsWith
  <2>5. c \in DiskChecks /\ (Passes(c) <=> ~a /\ ~b) /\ (~a => FailsWith(c, "EACCES"))
    BY <2>1, <2>2, <2>3, <2>4, MoreDiskChecks, MoreFailWith
  <2> HIDE DEF c
  <2> QED BY <2>5, OnlyError
<1> HIDE DEF c
<1>11. CASE a
  <2>1. last'.err # "ok" /\ disk' = D
    BY <1>7, <1>9, <1>11
  <2>2. r.err # "ok" /\ r.fs = InMemory(D)
    BY <1>5, <1>11 DEF PutsIn
  <2> QED BY <1>4, <2>1, <2>2, AgreeFailing
<1>12. CASE ~a /\ b
  <2>1. last'.err = "EACCES"
    BY <1>7, <1>10, <1>12
  <2> HIDE DEF E
  <2> QED BY <1>2, <1>12, <2>1, DiffersNot
<1>13. CASE ~a /\ ~b
  <2>1. last'.err = "ok" /\ disk' = E
    BY <1>7, <1>9, <1>13
  <2>2. D[q] \in DiskNodes /\ old \in Seq(0..255) /\ D[q].kind # "dir"
    <3>1. D[q] \in DiskNodes /\ old \in Seq(0..255)
      BY <1>2, GoodDiskFacts
    <3> QED BY <1>2, <1>13, <3>1 DEF a, IsDir
  <2>3. data \in Seq(0..255)
    BY <1>3, <2>2, ResizedType
  <2> HIDE DEF data
  <2>4. m \in DiskNodes /\ m.kind = D[q].kind /\ m.data = data
    <3> DEFINE x == D[q]
    <3>1. x \in DiskNodes
      BY <2>2
    <3> HIDE DEF x
    <3>2. /\ [x EXCEPT !.data = data, !.mtime = Now] \in DiskNodes
          /\ [x EXCEPT !.data = data, !.mtime = Now].kind = x.kind
          /\ [x EXCEPT !.data = data, !.mtime = Now].data = data
      BY <2>3, <3>1, NodeWritten
    <3> QED BY <3>2 DEF x
  <2>5. m.mode = D[q].mode
    BY <2>2 DEF DiskNodes
  <2> HIDE DEF m
  <2>6. SameBut(D, E, {q}) /\ q \in DOMAIN E /\ E[q].kind = D[q].kind /\ E[q].data = data
        /\ E[q].mode = D[q].mode
    <3>1. CASE data = old
      BY <1>2, <3>1 DEF SameBut
    <3>2. CASE data # old
      <4>1. E = [D EXCEPT ![q] = m]
        BY <3>2 DEF m
      <4> HIDE DEF E
      <4> QED BY <1>2, <2>4, <2>5, <4>1 DEF SameBut
    <3> QED BY <3>1, <3>2
  <2> HIDE DEF E
  <2>7. AlikeAt(args, D, q, Remembered(E[q]), Rewritten(M[q], data))
    <3> DEFINE x == Remembered(E[q])
               k == Remembered(D[q])
               y == Rewritten(k, data)
    <3>1. x.kind = "file" /\ x.data = data /\ x.mode = D[q].mode
      BY <2>2, <2>6, RememberedFacts
    <3>2. M[q] = k /\ k.kind = "file" /\ k.mode = D[q].mode
      BY <1>2, <2>2, MemoryFacts, RememberedFacts
    <3>3. y.kind = k.kind /\ y.mode = k.mode /\ y.data = data
      BY DEF Rewritten, Remembered
    <3> HIDE DEF x, k, y
    <3>4. AlikeAt(args, D, q, x, y)
      BY <1>1, <3>1, <3>2, <3>3 DEF AlikeAt
    <3> QED BY <3>2, <3>4 DEF x, y
  <2>8. Agree(args, D, "ok", "none", E)
    <3> HIDE DEF D, q
    <3> QED BY <1>4, <1>5, <1>13, <2>6, <2>7, PutAgrees
  <2> QED BY <1>7, <2>1, <2>8
<1> QED
  BY <1>11, <1>12, <1>13

LEMMA SetTimeAlike ==
  ASSUME RealInv, AloneInv, CalmInv, Undisturbed, SetTime
  PROVE  AnswersAlike
<1> SUFFICES ASSUME ~Differs(call.args, call.start, last'.err)
             PROVE  Agree(call.args, call.start, last'.err, last'.out, disk')
  BY DEF AnswersAlike
<1> DEFINE D == call.start
           args == call.args
           q == call.q
           h == args.n
           x == h + EpochOffset
           M == InMemory(D).tree
           w == Lookup(D, q)
           E == IF IsFile(D, q) THEN [D EXCEPT ![q].mtime = x] ELSE D
           m == [D[q] EXCEPT !.mtime = x]
           r == Utimes(InMemory(D), q, h)
           y == [M[q] EXCEPT !.mtime = h]
<1>1. call.pc = "resolved" /\ args.op = "utimes" /\ call.alone /\ call # Idle
  BY DEF SetTime, At, Undisturbed, Answers
<1>2. /\ q = Follow(D, args.path) /\ q \in DOMAIN D /\ ~IsLink(D, q) /\ disk = D
      /\ Follow(D, q) = q /\ GoodDisk(D) /\ args \in CallArgs
  BY <1>1, ExistingFound
<1>3. x \in Int /\ (x = h \/ EpochOffset # 0)
  <2>1. h \in Int
    BY <1>2 DEF CallArgs
  <2>2. EpochOffset \in Int
    BY RealAssumption
  <2> QED BY <2>1, <2>2
<1>4. Changes(args, D, r)
  BY <1>1, <1>2, DoesUtimes
<1>5. Act(w, E)
  BY <1>2 DEF SetTime
<1> HIDE DEF h, x, r, y
<1>6. PutsIn(InMemory(D), q, y, TRUE, r)
  BY <1>2, MemoryOfUtimes DEF y, r
<1>7. FirstError(w) = "ok"
  <2>1. w \in DiskChecks /\ Passes(w)
    BY <1>2, LookupChecks, LookupFinds, GoodDiskFacts
  <2> HIDE DEF w
  <2> QED BY <2>1, DiskError
<1> HIDE DEF w, E
<1>8. last'.err = "ok" /\ last'.out = "none" /\ disk' = E
  BY <1>5, <1>7 DEF Act, Answer, Answered
<1>9. D[q] \in DiskNodes /\ D[q].kind \in {"file", "dir"}
  BY <1>2, GoodDiskFacts DEF IsLink
<1>10. m.kind = D[q].kind /\ m.data = D[q].data /\ m.mode = D[q].mode /\ m.mtime = x
  BY <1>9 DEF DiskNodes
<1> HIDE DEF m
<1>11. SameBut(D, E, {q}) /\ q \in DOMAIN E /\ E[q].kind = D[q].kind /\ E[q].data = D[q].data
       /\ E[q].mode = D[q].mode /\ (E[q].kind = "dir" \/ E[q].mtime = x)
  <2>1. CASE IsFile(D, q)
    <3>1. E = [D EXCEPT ![q] = m]
      BY <2>1 DEF E, m
    <3> QED BY <1>2, <1>10, <3>1 DEF SameBut
  <2>2. CASE ~IsFile(D, q)
    <3>1. E = D /\ D[q].kind = "dir"
      BY <1>2, <1>9, <2>2 DEF E, IsFile
    <3> QED BY <1>2, <3>1 DEF SameBut
  <2> QED BY <2>1, <2>2
<1>12. AlikeAt(args, D, q, Remembered(E[q]), y)
  <2> DEFINE z == Remembered(E[q])
             k == Remembered(D[q])
             v == [k EXCEPT !.mtime = h]
  <2>1. z.kind = D[q].kind /\ z.data = D[q].data /\ z.mode = D[q].mode
        /\ (z.kind = "dir" \/ z.mtime = x)
    BY <1>9, <1>11, RememberedFacts
  <2>2. M[q] = k /\ k.kind = D[q].kind /\ k.mode = D[q].mode /\ k.data = D[q].data
    BY <1>2, <1>9, MemoryFacts, RememberedFacts
  <2>3. v.kind = k.kind /\ v.mode = k.mode /\ v.data = k.data /\ v.mtime = h
    BY DEF Remembered
  <2>4. y = v
    BY <2>2 DEF y
  <2> HIDE DEF z, k, v
  <2>5. AlikeAt(args, D, q, z, y)
    BY <1>1, <1>2, <1>3, <2>1, <2>2, <2>3, <2>4 DEF AlikeAt
  <2> QED BY <2>5 DEF z
<1> HIDE DEF D, q, M
<1>13. Agree(args, D, "ok", "none", E)
  BY <1>4, <1>6, <1>11, <1>12, PutAgrees
<1> QED
  BY <1>8, <1>13 DEF D

(* copyFile.                                                                *)
LEMMA MemoryOfCopying ==
  ASSUME NEW D, Grounded(D), NEW p \in DOMAIN D, NEW t \in Seq(STRING), t \notin DOMAIN D,
         NEW T, T = InMemory(D).tree
  PROVE  PutsIn(InMemory(D), t, [T[p] EXCEPT !.ino = 0], ~IsDir(D, p) /\ IsDir(D, Front(t)),
                CopyFile(InMemory(D), p, t))
<1> DEFINE f == InMemory(D)
           a == << <<IsDir(T, p), "EISDIR">>, <<t = <<>>, "EISDIR">> >>
           b == << <<IsDir(T, t), "EISDIR">> >>
           w == WalkTo(T, p)
           u == ParentDir(T, t)
           c == ((w \o a) \o u) \o b
           n == [T[p] EXCEPT !.ino = 0]
           r == CopyFile(f, p, t)
<1>1. t # <<>> /\ f.nextIno = 0
  BY DEF Grounded, IsDir, InMemory
<1>2. p \in DOMAIN T /\ t \notin DOMAIN T /\ (IsDir(T, p) <=> IsDir(D, p)) /\ ~IsDir(T, t)
  BY MemoryFacts, MemoryKinds DEF IsDir
<1>3. Passes(u) <=> IsDir(D, Front(t))
  BY <1>1, MemoryParent
<1>4. r = Result(FirstError(c), f, With(T, t, n), 1)
  <2>1. r = Result(FirstError(c), f, With(T, t, [T[p] EXCEPT !.ino = f.nextIno]), f.nextIno + 1)
    BY DEF CopyFile
  <2> HIDE DEF c, f, r
  <2> QED BY <1>1, <2>1
<1>5. c \in Checks /\ (Passes(c) <=> ~IsDir(D, p) /\ IsDir(D, Front(t)))
  <2>1. a \in Checks /\ (Passes(a) <=> ~IsDir(T, p) /\ t # <<>>)
        /\ b \in Checks /\ (Passes(b) <=> ~IsDir(T, t))
    <3>1. IsDir(T, p) \in BOOLEAN /\ IsDir(T, t) \in BOOLEAN /\ (t = <<>>) \in BOOLEAN
          /\ "EISDIR" \in Errno
      BY DEF IsDir, Errno
    <3> QED BY <3>1, NoCheck, TwoChecks
  <2>2. u \in Checks /\ w \in Checks /\ (Passes(w) <=> p \in DOMAIN T)
    BY ParentChecks, WalkChecks
  <2> HIDE DEF a, b, u, w
  <2>3. w \o a \in Checks /\ (Passes(w \o a) <=> Passes(w) /\ Passes(a))
    BY <2>1, <2>2, MoreChecks
  <2>4. (w \o a) \o u \in Checks /\ (Passes((w \o a) \o u) <=> Passes(w \o a) /\ Passes(u))
    BY <2>2, <2>3, MoreChecks
  <2>5. ((w \o a) \o u) \o b \in Checks
        /\ (Passes(((w \o a) \o u) \o b) <=> Passes((w \o a) \o u) /\ Passes(b))
    BY <2>1, <2>4, MoreChecks
  <2> QED BY <1>1, <1>2, <1>3, <2>1, <2>2, <2>3, <2>4, <2>5
<1> HIDE DEF c, n, f, r
<1>6. FirstError(c) = "ok" <=> ~IsDir(D, p) /\ IsDir(D, Front(t))
  BY <1>5, FirstErrorFacts
<1>7. r.err = FirstError(c) /\ (FirstError(c) = "ok" => r.fs.tree = With(T, t, n))
      /\ (FirstError(c) # "ok" => r.fs = f)
  BY <1>4, ResultIs
<1>8. PutsIn(f, t, n, ~IsDir(D, p) /\ IsDir(D, Front(t)), r)
  BY <1>6, <1>7 DEF PutsIn, f
<1> QED
  BY <1>8 DEF f, r, n

(* The second path, where it leads to itself.                               *)
LEMMA TargetLeads ==
  ASSUME RealInv, AloneInv, CalmInv, call.pc = "resolved", call.alone,
         call.args.op \in {"rename", "copyFile"}, Grounded(call.start),
         Creating(call.start, call.args.to).path = Follow(call.start, call.args.to)
  PROVE  /\ call.q2 = Follow(call.start, call.args.to) /\ call.q2 \in Seq(STRING)
         /\ Follow(call.start, call.q2) = call.q2 /\ Named(call.start, call.q2) = call.q2
         /\ LinksOn(call.start, call.q2) = {}
<1> DEFINE D == call.start
           to == call.args.to
           q == call.q2
<1>1. call # Idle /\ GoodCall(call)
  BY InCall DEF Idle
<1>2. to \in Seq(STRING) /\ q \in Seq(STRING)
  BY <1>1 DEF GoodCall, CallOf, CallArgs
<1>3. Creating(D, to).err = "ok" /\ q = Follow(D, to)
  BY <1>1 DEF CalmInv
<1> HIDE DEF D, to, q
<1>4. LinksOn(D, q) = {}
  BY <1>2, <1>3, CreatingLeads DEF D
<1>5. Follow(D, q) = q /\ Named(D, q) = q
  BY <1>2, <1>4, NamedStays
<1> QED
  BY <1>2, <1>3, <1>4, <1>5 DEF D, to, q

LEMMA CopyNodeAlike ==
  ASSUME RealInv, AloneInv, CalmInv, Undisturbed, CopyNode
  PROVE  AnswersAlike
<1> SUFFICES ASSUME ~Differs(call.args, call.start, last'.err), ~last'.full
             PROVE  Agree(call.args, call.start, last'.err, last'.out, disk')
  BY DEF AnswersAlike
<1> DEFINE D == call.start
           args == call.args
           q == call.q
           t == call.q2
           M == InMemory(D).tree
           can == ~IsDir(D, q) /\ IsDir(D, Front(t))
           a == t \in DOMAIN D
           b == ~IsFile(D, q)
           x == Unreadable(D, q)
           e == Closed(D, t)
           w == Lookup(D, q)
           s1 == << <<a, "EEXIST">>, <<b, "ENOTSUP">>, <<x, "EACCES">> >>
           in == InDir(D, t)
           s2 == << <<a, "EEXIST">>, <<e, "EACCES">> >>
           c == ((w \o s1) \o in) \o s2
           copy == [D[q] EXCEPT !.mtime = Now]
           E == With(D, t, copy)
           y == [M[q] EXCEPT !.ino = 0]
           r == CopyFile(InMemory(D), q, t)
<1>1. call.pc = "resolved" /\ args.op = "copyFile" /\ call.alone /\ call # Idle
  BY DEF CopyNode, At, Undisturbed, Answers
<1>2. /\ q = Follow(D, args.path) /\ q \in DOMAIN D /\ ~IsLink(D, q) /\ disk = D
      /\ Follow(D, q) = q /\ GoodDisk(D) /\ args \in CallArgs
  BY <1>1, ExistingFound
<1>3. Grounded(D)
  BY <1>2, DiffersNot
<1>4. Creating(D, args.to).path = Follow(D, args.to) /\ Follow(D, args.to) \notin DOMAIN D
  BY <1>1 DEF Differs
<1>5. /\ t = Follow(D, args.to) /\ t \in Seq(STRING) /\ Follow(D, t) = t /\ Named(D, t) = t
      /\ t \notin DOMAIN D
  BY <1>1, <1>3, <1>4, TargetLeads
<1>6. Changes(args, D, r)
  BY <1>1, <1>2, <1>5, DoesCopyFile
<1>7. PutsIn(InMemory(D), t, y, can, r)
  BY <1>2, <1>3, <1>5, MemoryOfCopying
<1>8. \/ FirstError(c) # "ok" /\ Answer(FirstError(c)) /\ UNCHANGED disk
      \/ FirstError(c) = "ok" /\ Answer("ok") /\ disk' = E
  <2>1. last'.full => FALSE
    OBVIOUS
  <2>2. Answered(call.args, "ENOSPC", "none", TRUE) => last'.full
    BY DEF Answered
  <2>3. Follow(disk, call.q) = q /\ Named(disk, call.q2) = t /\ Follow(disk, t) = t
    BY <1>2, <1>5
  <2>4. \/ FirstError(c) # "ok" /\ Answer(FirstError(c)) /\ UNCHANGED disk
        \/ FirstError(c) = "ok" /\ Answer("ok") /\ disk' = E
        \/ Answered(call.args, "ENOSPC", "none", TRUE)
    BY <1>2, <2>3 DEF CopyNode
  <2> HIDE DEF c, E
  <2> QED BY <2>1, <2>2, <2>4
<1>9. last'.err = FirstError(c) /\ last'.out = "none"
      /\ disk' = IF FirstError(c) = "ok" THEN E ELSE D
  <2> HIDE DEF c, E
  <2> QED BY <1>2, <1>8 DEF Answer, Answered
<1>10. a \in BOOLEAN /\ b \in BOOLEAN /\ x \in BOOLEAN /\ e \in BOOLEAN
  BY DEF IsFile, Unreadable, Closed, ReadOnly
<1>11. ~a /\ (b <=> IsDir(D, q)) /\ (Passes(in) <=> IsDir(D, Front(t)))
  <2>1. D[q].kind \in {"file", "dir", "link"}
    BY <1>2, GoodDiskFacts
  <2>2. b <=> IsDir(D, q)
    BY <1>2, <2>1 DEF IsFile, IsDir, IsLink
  <2>3. t # <<>>
    BY <1>3, <1>5 DEF Grounded, IsDir
  <2> QED BY <1>2, <1>5, <2>2, <2>3, InDirFinds
<1>12. /\ x => \E s \in DOMAIN D : Unreadable(D, s)
       /\ e => \E s \in DOMAIN D : ReadOnly(D, s)
  <2>1. x => Unreadable(D, q)
    OBVIOUS
  <2>2. e => Front(t) \in DOMAIN D /\ ReadOnly(D, Front(t))
    BY DEF Closed, ReadOnly
  <2> HIDE DEF x, e, D, q, t
  <2> QED BY <1>2, <2>1, <2>2
<1> HIDE DEF a, b, x, e, r, y
<1>13. /\ s1 \in DiskChecks /\ (Passes(s1) <=> ~b /\ ~x)
       /\ s2 \in DiskChecks /\ (Passes(s2) <=> ~e)
  BY <1>10, <1>11, CodesAre, TwoDiskChecks, ThreeDiskChecks
<1>14. can => FailsWith(s1, "EACCES") /\ FailsWith(s2, "EACCES")
  BY <1>11, TwoFailWith, ThreeFailWith
<1>15. w \in DiskChecks /\ Passes(w) /\ in \in DiskChecks
  BY <1>2, LookupChecks, LookupFinds, GoodDiskFacts, InDirChecks
<1> HIDE DEF s1, s2, w, in
<1>16. FailsWith(w, "EACCES") /\ (can => FailsWith(in, "EACCES"))
  BY <1>11, <1>15, PassingFailsWith
<1>17. /\ c \in DiskChecks /\ (Passes(c) <=> can /\ ~x /\ ~e)
       /\ can => FailsWith(c, "EACCES")
  <2> DEFINE c1 == w \o s1
             c2 == c1 \o in
             c3 == c2 \o s2
  <2>1. c1 \in DiskChecks /\ (Passes(c1) <=> ~b /\ ~x) /\ (can => FailsWith(c1, "EACCES"))
    BY <1>13, <1>14, <1>15, <1>16, MoreDiskChecks, MoreFailWith
  <2> HIDE DEF c1
  <2>2. c2 \in DiskChecks /\ (Passes(c2) <=> can /\ ~x) /\ (can => FailsWith(c2, "EACCES"))
    BY <1>11, <1>15, <1>16, <2>1, MoreDiskChecks, MoreFailWith
  <2> HIDE DEF c2
  <2>3. c3 \in DiskChecks /\ (Passes(c3) <=> can /\ ~x /\ ~e) /\ (can => FailsWith(c3, "EACCES"))
    BY <1>13, <1>14, <2>2, MoreDiskChecks, MoreFailWith
  <2> QED BY <2>3 DEF c1, c2
<1> HIDE DEF c
<1>18. FirstError(c) = "ok" <=> can /\ ~x /\ ~e
  BY <1>17, DiskError
<1>19. CASE ~can
  <2>1. last'.err # "ok" /\ disk' = D
    BY <1>9, <1>18, <1>19
  <2>2. r.err # "ok" /\ r.fs = InMemory(D)
    BY <1>7, <1>19 DEF PutsIn
  <2> QED BY <1>6, <2>1, <2>2, AgreeFailing
<1>20. CASE can /\ FirstError(c) # "ok"
  <2>1. last'.err = "EACCES"
    BY <1>9, <1>17, <1>18, <1>20, OnlyError
  <2>2. x \/ e
    BY <1>18, <1>20
  <2> HIDE DEF E
  <2> QED BY <1>2, <1>12, <2>1, <2>2, DiffersNot
<1>21. CASE can /\ FirstError(c) = "ok"
  <2>1. D[q] \in DiskNodes /\ D[q].kind # "dir"
    <3>1. D[q] \in DiskNodes
      BY <1>2, GoodDiskFacts
    <3> QED BY <1>2, <1>21, <3>1 DEF IsDir
  <2>2. copy.kind = D[q].kind /\ copy.data = D[q].data /\ copy.mode = D[q].mode
    BY <2>1 DEF DiskNodes
  <2> HIDE DEF copy
  <2>3. SameBut(D, E, {t}) /\ E[t] = copy /\ t \in DOMAIN E
    <3> HIDE DEF D, t
    <3>1. SameBut(D, E, {t}) /\ E[t] = copy /\ DOMAIN E = DOMAIN D \union {t}
      BY WithFacts
    <3> HIDE DEF E
    <3> QED BY <3>1
  <2> HIDE DEF E
  <2>4. AlikeAt(args, D, t, Remembered(E[t]), y)
    <3> DEFINE z == Remembered(E[t])
               k == Remembered(D[q])
               v == [k EXCEPT !.ino = 0]
    <3>1. z.kind = "file" /\ z.data = D[q].data /\ z.mode = D[q].mode
      BY <2>1, <2>2, <2>3, RememberedFacts
    <3>2. M[q] = k /\ k.kind = "file" /\ k.mode = D[q].mode /\ k.data = D[q].data
      BY <1>2, <2>1, MemoryFacts, RememberedFacts
    <3>3. v.kind = k.kind /\ v.mode = k.mode /\ v.data = k.data
      BY DEF Remembered
    <3>4. y = v
      BY <3>2 DEF y
    <3> HIDE DEF z, k, v
    <3>5. AlikeAt(args, D, t, z, y)
      BY <1>1, <3>1, <3>2, <3>3, <3>4 DEF AlikeAt
    <3> QED BY <3>5 DEF z
  <2>5. Agree(args, D, "ok", "none", E)
    <3> HIDE DEF D, q, M, t, can
    <3> QED BY <1>6, <1>7, <1>21, <2>3, <2>4, PutAgrees
  <2> QED BY <1>9, <1>21, <2>5
<1> QED
  BY <1>19, <1>20, <1>21

(* rename.  Moving is the same on the disk as in memory.                    *)
LEMMA MemoryBranching ==
  ASSUME NEW D, GoodDisk(D)
  PROVE  Branching(InMemory(D).tree)
<1> DEFINE T == InMemory(D).tree
<1>1. Branching(D)
  BY GoodDiskFacts
<1>2. DOMAIN T = DOMAIN D /\ \A p : IsDir(T, p) <=> IsDir(D, p)
  BY MemoryFacts, MemoryKinds
<1> HIDE DEF T
<1>3. Branching(T)
  BY <1>1, <1>2 DEF Branching
<1> QED
  BY <1>3 DEF T

LEMMA MovedAlike ==
  ASSUME NEW D, GoodDisk(D), NEW o \in DOMAIN D, NEW n \in Seq(STRING),
         ~IsStrictPrefix(o, n), ~(IsDir(D, n) /\ HasChildren(D, n))
  PROVE  InMemory(Moved(D, o, n)).tree = Moved(InMemory(D).tree, o, n)
<1> DEFINE T == InMemory(D).tree
           U == Moved(D, o, n)
           V == Moved(T, o, n)
           W == InMemory(U).tree
<1>1. o \in Seq(STRING) /\ Branching(D) /\ Branching(T)
  BY GoodDiskFacts, MemoryBranching
<1>2. DOMAIN T = DOMAIN D /\ (IsDir(T, n) <=> IsDir(D, n)) /\ Below(T, o) = Below(D, o)
      /\ (HasChildren(T, n) <=> HasChildren(D, n))
      /\ \A p \in DOMAIN D : T[p] = Remembered(D[p])
  BY MemoryFacts, MemoryKinds
<1>3. DOMAIN W = DOMAIN U /\ W = [p \in DOMAIN U |-> Remembered(U[p])]
  BY MemoryFacts
<1> HIDE DEF T, U, W
<1>4. IsMoved(D, o, n, U)
  BY <1>1, MovedNodes DEF U
<1>5. IsMoved(T, o, n, V)
  BY <1>1, <1>2, MovedNodes
<1> HIDE DEF V
<1>6. Staying(T, o, n) = Staying(D, o, n) /\ MovedTo(T, o, n) = MovedTo(D, o, n)
  BY <1>2 DEF Staying, MovedTo
<1>7. DOMAIN V = DOMAIN U /\ V = [p \in DOMAIN U |-> V[p]]
  BY <1>4, <1>5, <1>6 DEF IsMoved
<1>8. ASSUME NEW p \in DOMAIN U
      PROVE  V[p] = Remembered(U[p])
  <2>1. p \in Staying(D, o, n) \/ p \in MovedTo(D, o, n)
    BY <1>4 DEF IsMoved
  <2>2. CASE p \in Staying(D, o, n)
    <3>1. p \in DOMAIN D
      BY <2>2 DEF Staying
    <3>2. U[p] = D[p] /\ V[p] = T[p]
      BY <1>4, <1>5, <1>6, <2>2 DEF IsMoved
    <3> QED BY <1>2, <3>1, <3>2
  <2>3. CASE p \in MovedTo(D, o, n)
    <3>1. PICK q \in Below(D, o) : p = Rebased(q, o, n)
      BY <2>3 DEF MovedTo
    <3>2. q \in DOMAIN D
      BY DEF Below
    <3>3. U[p] = D[q] /\ V[p] = T[q]
      BY <1>2, <1>4, <1>5, <3>1 DEF IsMoved
    <3> QED BY <1>2, <3>2, <3>3
  <2> QED BY <2>1, <2>2, <2>3
<1>9. V = W
  BY <1>3, <1>7, <1>8
<1> QED
  BY <1>9 DEF U, V, W, T

CanRename(D, o, n) ==
  /\ o # <<>> /\ n # <<>> /\ IsDir(D, Front(n))
  /\ ~(IsDir(D, o) /\ IsStrictPrefix(o, n)) /\ ~(IsDir(D, n) /\ HasChildren(D, n))

LEMMA MemoryOfRenaming ==
  ASSUME NEW D, Grounded(D), NEW o \in DOMAIN D, NEW n \in Seq(STRING), o # n,
         NEW r, r = Rename(InMemory(D), Text(o), Text(n))
  PROVE  /\ r.err = "ok" <=> CanRename(D, o, n)
         /\ r.err = "ok" => r.fs.tree = Moved(InMemory(D).tree, o, n)
         /\ r.err # "ok" => r.fs = InMemory(D)
<1> DEFINE f == InMemory(D)
           T == f.tree
           a == Text(o)
           b == Text(n)
           c == RenamingChecks(T, a, b)
<1>1. a.names = o /\ b.names = n /\ a # b
  BY DEF Text
<1>2. o \in DOMAIN T /\ (IsDir(T, o) <=> IsDir(D, o)) /\ (IsDir(T, n) <=> IsDir(D, n))
      /\ (HasChildren(T, n) <=> HasChildren(D, n))
  BY MemoryFacts, MemoryKinds
<1>3. o # <<>> => Passes(ParentDir(T, o))
  <2>1. GoodDisk(D) /\ o \in Seq(STRING)
    BY NodeLeadTo DEF Grounded
  <2>2. o # <<>> => IsDir(D, Front(o))
    BY <2>1, ParentThere
  <2> QED BY <2>1, <2>2, MemoryParent
<1>4. n # <<>> => (Passes(ParentDir(T, n)) <=> IsDir(D, Front(n)))
  BY MemoryParent
<1>5. r = Result(FirstError(c), f, Moved(T, o, n), f.nextIno)
  <2>1. Rename(f, a, b) = IF a = b THEN [err |-> "ok", fs |-> f]
                          ELSE Result(FirstError(c), f, Moved(T, a.names, b.names), f.nextIno)
    BY DEF Rename, RenamingChecks
  <2> HIDE DEF a, b, c, f, T
  <2>2. r = Rename(f, a, b)
    BY DEF a, b, f
  <2> QED BY <1>1, <2>1, <2>2
<1> HIDE DEF a, b, f, T
<1>6. c \in Checks
      /\ (Passes(c) <=> /\ o # <<>> /\ Passes(ParentDir(T, o)) /\ o \in DOMAIN T
                        /\ ~(IsDir(T, o) /\ TextBelow(a, b))
                        /\ n # <<>> /\ Passes(ParentDir(T, n))
                        /\ ~(IsDir(T, n) /\ HasChildren(T, n)))
  BY <1>1, RenameChecks
<1>7. o # <<>> => (TextBelow(a, b) <=> IsStrictPrefix(o, n))
  <2>1. o \in Seq(STRING)
    BY NodeLeadTo DEF Grounded
  <2> QED BY <2>1, TextsBelow DEF a, b
<1> HIDE DEF c
<1>8. FirstError(c) = "ok" <=> CanRename(D, o, n)
  <2>1. Passes(c) <=> CanRename(D, o, n)
    BY <1>2, <1>3, <1>4, <1>6, <1>7 DEF CanRename
  <2>2. FirstError(c) = "ok" <=> Passes(c)
    BY <1>6, FirstErrorFacts
  <2> QED BY <2>1, <2>2
<1>9. r.err = FirstError(c) /\ (FirstError(c) = "ok" => r.fs.tree = Moved(T, o, n))
      /\ (FirstError(c) # "ok" => r.fs = f)
  BY <1>5, ResultIs
<1> QED
  BY <1>8, <1>9 DEF f, T

(* A node that has others below it is a directory.                          *)
LEMMA AboveNode ==
  ASSUME NEW D, GoodDisk(D), NEW o \in DOMAIN D, NEW n \in Seq(STRING), IsStrictPrefix(n, o)
  PROVE  IsDir(D, n) /\ HasChildren(D, n)
<1>1. o \in Seq(STRING) /\ LeadTo(D, o)
  BY NodeLeadTo
<1>2. IsPrefix(n, o) /\ n # o
  BY DEF IsStrictPrefix
<1>3. IsDir(D, n)
  BY <1>1, <1>2 DEF LeadTo
<1>4. o \in Below(D, n)
  BY <1>2 DEF Below
<1> QED
  BY <1>2, <1>3, <1>4 DEF HasChildren

(* The checks of rename(2).                                                 *)
NamingChecks(D, o, n) ==
  LET moves == o # n
  IN  InDir(D, o) \o << <<o \notin DOMAIN D, "ENOENT">> >> \o InDir(D, n)
      \o << <<IsStrictPrefix(o, n), "EINVAL">>,
            <<IsStrictPrefix(n, o), "ENOTEMPTY">>,
            <<moves /\ (Closed(D, o) \/ Closed(D, n)), "EACCES">>,
            <<IsDir(D, o) /\ n \in DOMAIN D /\ ~IsDir(D, n), "ENOTDIR">>,
            <<~IsDir(D, o) /\ IsDir(D, n), "EISDIR">>,
            <<moves /\ IsDir(D, n) /\ HasChildren(D, n), "ENOTEMPTY">>,
            <<IsDir(D, o) /\ ReadOnly(D, o) /\ Front(o) # Front(n), "EACCES">> >>

InParts(a, b, c, d, e, f, g) ==
  <<a, b, c, d, e, f, g>> = <<a, b, c>> \o <<d, e, f>> \o <<g>>

LEMMA SevenInParts ==
  ASSUME NEW a, NEW b, NEW c, NEW d, NEW e, NEW f, NEW g
  PROVE  InParts(a, b, c, d, e, f, g)
BY DEF InParts

LEMMA RenamingDisk ==
  ASSUME NEW D, Grounded(D), NEW o \in DOMAIN D, NEW n \in Seq(STRING),
         n \in DOMAIN D => D[o].kind = D[n].kind
  PROVE  LET err == FirstError(NamingChecks(D, o, n))
         IN  /\ o = n => err = "ok"
             /\ o # n /\ err = "ok" => CanRename(D, o, n) /\ ~IsStrictPrefix(o, n)
             /\ o # n /\ CanRename(D, o, n) /\ err # "ok" =>
                  err = "EACCES" /\ \E s \in DOMAIN D : ReadOnly(D, s)
<1> DEFINE z == o \notin DOMAIN D
           a == IsStrictPrefix(o, n)
           b == IsStrictPrefix(n, o)
           c == o # n /\ (Closed(D, o) \/ Closed(D, n))
           d == IsDir(D, o) /\ n \in DOMAIN D /\ ~IsDir(D, n)
           e == ~IsDir(D, o) /\ IsDir(D, n)
           f == o # n /\ IsDir(D, n) /\ HasChildren(D, n)
           g == IsDir(D, o) /\ ReadOnly(D, o) /\ Front(o) # Front(n)
           io == InDir(D, o)
           zz == << <<z, "ENOENT">> >>
           in == InDir(D, n)
           s == << <<a, "EINVAL">>, <<b, "ENOTEMPTY">>, <<c, "EACCES">>, <<d, "ENOTDIR">>,
                   <<e, "EISDIR">>, <<f, "ENOTEMPTY">>, <<g, "EACCES">> >>
           ch == io \o zz \o in \o s
           can == CanRename(D, o, n)
<1>1. GoodDisk(D) /\ o \in Seq(STRING) /\ <<>> \in DOMAIN D
  BY NodeLeadTo DEF Grounded, IsDir
<1>2. NamingChecks(D, o, n) = ch
  BY DEF NamingChecks
<1>3. /\ z \in BOOLEAN /\ a \in BOOLEAN /\ b \in BOOLEAN /\ c \in BOOLEAN /\ d \in BOOLEAN
      /\ e \in BOOLEAN /\ f \in BOOLEAN /\ g \in BOOLEAN
  BY DEF IsStrictPrefix, Closed, ReadOnly, IsDir, HasChildren
<1>4. Passes(io) /\ (Passes(in) <=> (n # <<>> => IsDir(D, Front(n)))) /\ ~z
  <2>1. Passes(io) <=> (o # <<>> => IsDir(D, Front(o)))
    BY <1>1, InDirFinds
  <2>2. o # <<>> => IsDir(D, Front(o))
    BY <1>1, ParentThere
  <2>3. Passes(in) <=> (n # <<>> => IsDir(D, Front(n)))
    BY <1>1, InDirFinds
  <2> HIDE DEF io, in
  <2> QED BY <2>1, <2>2, <2>3
<1>5. ~d /\ ~e
  BY DEF IsDir
<1>6. b => f
  <2> SUFFICES ASSUME b PROVE f
    OBVIOUS
  <2>1. IsDir(D, n) /\ HasChildren(D, n)
    BY <1>1, AboveNode
  <2> QED BY <2>1 DEF IsStrictPrefix
<1>7. o = n => ~a /\ ~b /\ ~c /\ ~f /\ ~g
  BY DEF IsStrictPrefix
<1>8. a /\ can => ~Passes(in)
  <2> SUFFICES ASSUME a, can, Passes(in) PROVE FALSE
    OBVIOUS
  <2>1. LeadTo(D, n)
    BY <1>1, InDirFinds
  <2>2. IsDir(D, o)
    BY <1>1, <2>1 DEF LeadTo, IsStrictPrefix
  <2> QED BY <2>2 DEF CanRename
<1>9. (c \/ g) => \E x \in DOMAIN D : ReadOnly(D, x)
  <2>1. Closed(D, o) => Front(o) \in DOMAIN D /\ ReadOnly(D, Front(o))
    BY DEF Closed, ReadOnly
  <2>2. Closed(D, n) => Front(n) \in DOMAIN D /\ ReadOnly(D, Front(n))
    BY DEF Closed, ReadOnly
  <2> QED BY <2>1, <2>2
<1>10. can /\ o # n => ~b /\ ~f /\ Passes(in)
  BY <1>4, <1>6 DEF CanRename
<1>11. o # n /\ Passes(in) /\ ~a /\ ~f => can
  <2> SUFFICES ASSUME o # n, Passes(in), ~a, ~f PROVE can
    OBVIOUS
  <2>1. IsPrefix(<<>>, o) /\ IsPrefix(<<>>, n)
    BY <1>1, PrefixIsSubSeq
  <2>2. o # <<>>
    BY <2>1 DEF IsStrictPrefix
  <2>3. n # <<>>
    BY <1>6, <2>1 DEF IsStrictPrefix
  <2> QED BY <1>4, <2>2, <2>3 DEF CanRename
<1>12. can /\ o # n => ~a
  BY <1>8, <1>10
<1> HIDE DEF z, a, b, c, d, e, f, g, can
<1>13. s \in DiskChecks /\ (Passes(s) <=> ~a /\ ~b /\ ~c /\ ~d /\ ~e /\ ~f /\ ~g)
       /\ (~a /\ ~b /\ ~d /\ ~e /\ ~f => FailsWith(s, "EACCES"))
  <2> DEFINE s1 == << <<a, "EINVAL">>, <<b, "ENOTEMPTY">>, <<c, "EACCES">> >>
             s2 == << <<d, "ENOTDIR">>, <<e, "EISDIR">>, <<f, "ENOTEMPTY">> >>
             s3 == << <<g, "EACCES">> >>
             s4 == s1 \o s2
             s5 == s4 \o s3
  <2>1. s = s5
    <3> DEFINE k1 == <<a, "EINVAL">>
               k2 == <<b, "ENOTEMPTY">>
               k3 == <<c, "EACCES">>
               k4 == <<d, "ENOTDIR">>
               k5 == <<e, "EISDIR">>
               k6 == <<f, "ENOTEMPTY">>
               k7 == <<g, "EACCES">>
    <3> HIDE DEF k1, k2, k3, k4, k5, k6, k7
    <3>1. InParts(k1, k2, k3, k4, k5, k6, k7)
      BY SevenInParts
    <3> QED BY <3>1, Zenon DEF InParts, k1, k2, k3, k4, k5, k6, k7
  <2>2. {"EINVAL", "ENOTEMPTY", "EACCES", "ENOTDIR", "EISDIR"} \subseteq Code
    BY CodesAre
  <2>3. s1 \in DiskChecks /\ (Passes(s1) <=> ~a /\ ~b /\ ~c)
    <3>1. "EINVAL" \in Code /\ "ENOTEMPTY" \in Code /\ "EACCES" \in Code
      BY <2>2
    <3> QED BY <1>3, <3>1, ThreeDiskChecks
  <2>4. s2 \in DiskChecks /\ (Passes(s2) <=> ~d /\ ~e /\ ~f)
    <3>1. "ENOTDIR" \in Code /\ "EISDIR" \in Code /\ "ENOTEMPTY" \in Code
      BY <2>2
    <3> QED BY <1>3, <3>1, ThreeDiskChecks
  <2>5. s3 \in DiskChecks /\ (Passes(s3) <=> ~g)
    BY <1>3, CodesAre, OneDiskCheck
  <2>6. ~a /\ ~b => FailsWith(s1, "EACCES")
    BY ThreeFailWith
  <2>7. ~d /\ ~e /\ ~f => FailsWith(s2, "EACCES")
    BY ThreeFailWith
  <2>8. FailsWith(s3, "EACCES")
    <3>1. "EACCES" \in Code
      BY <2>2
    <3> QED BY <1>3, <3>1, OneFailsWith
  <2> HIDE DEF s, s1, s2, s3
  <2>9. s4 \in DiskChecks /\ (Passes(s4) <=> ~a /\ ~b /\ ~c /\ ~d /\ ~e /\ ~f)
        /\ (~a /\ ~b /\ ~d /\ ~e /\ ~f => FailsWith(s4, "EACCES"))
    BY <2>3, <2>4, <2>6, <2>7, MoreDiskChecks, MoreFailWith
  <2> HIDE DEF s4
  <2>10. s5 \in DiskChecks /\ (Passes(s5) <=> ~a /\ ~b /\ ~c /\ ~d /\ ~e /\ ~f /\ ~g)
         /\ (~a /\ ~b /\ ~d /\ ~e /\ ~f => FailsWith(s5, "EACCES"))
    BY <2>5, <2>8, <2>9, MoreDiskChecks, MoreFailWith
  <2> QED BY <2>1, <2>10
<1>14. zz \in DiskChecks /\ Passes(zz)
  BY <1>3, <1>4, CodesAre, OneDiskCheck
<1>15. io \in DiskChecks /\ in \in DiskChecks
  BY InDirChecks
<1> HIDE DEF s, zz, io, in
<1>16. FailsWith(io, "EACCES") /\ FailsWith(zz, "EACCES")
       /\ (Passes(in) => FailsWith(in, "EACCES"))
  BY <1>4, <1>14, PassingFailsWith
<1>17. ch \in DiskChecks /\ (Passes(ch) <=> Passes(in) /\ Passes(s))
       /\ (Passes(in) /\ FailsWith(s, "EACCES") => FailsWith(ch, "EACCES"))
  <2> DEFINE c1 == io \o zz
             c2 == c1 \o in
             c3 == c2 \o s
  <2>1. c1 \in DiskChecks /\ Passes(c1) /\ FailsWith(c1, "EACCES")
    BY <1>4, <1>14, <1>15, <1>16, MoreDiskChecks, MoreFailWith
  <2> HIDE DEF c1
  <2>2. c2 \in DiskChecks /\ (Passes(c2) <=> Passes(in))
        /\ (Passes(in) => FailsWith(c2, "EACCES"))
    BY <1>15, <1>16, <2>1, MoreDiskChecks, MoreFailWith
  <2> HIDE DEF c2
  <2>3. c3 \in DiskChecks /\ (Passes(c3) <=> Passes(in) /\ Passes(s))
        /\ (Passes(in) /\ FailsWith(s, "EACCES") => FailsWith(c3, "EACCES"))
    BY <1>13, <2>2, MoreDiskChecks, MoreFailWith
  <2> QED BY <2>3 DEF c1, c2
<1> HIDE DEF ch
<1>18. FirstError(ch) = "ok" <=> Passes(in) /\ ~a /\ ~b /\ ~c /\ ~f /\ ~g
  BY <1>5, <1>13, <1>17, DiskError
<1>19. o = n => FirstError(ch) = "ok"
  <2>1. o = n => Passes(in)
    <3>1. o # <<>> => IsDir(D, Front(o))
      BY <1>1, ParentThere
    <3> QED BY <1>4, <3>1
  <2> QED BY <1>7, <1>18, <2>1
<1>20. o # n /\ FirstError(ch) = "ok" => can /\ ~a
  BY <1>11, <1>18
<1>21. o # n /\ can /\ FirstError(ch) # "ok" =>
         FirstError(ch) = "EACCES" /\ \E x \in DOMAIN D : ReadOnly(D, x)
  <2> SUFFICES ASSUME o # n, can, FirstError(ch) # "ok"
               PROVE  FirstError(ch) = "EACCES" /\ \E x \in DOMAIN D : ReadOnly(D, x)
    OBVIOUS
  <2>1. FailsWith(ch, "EACCES") /\ ~Passes(ch)
    BY <1>5, <1>10, <1>12, <1>13, <1>17, DiskError
  <2>2. FirstError(ch) = "EACCES"
    BY <1>17, <2>1, OnlyError
  <2>3. c \/ g
    BY <1>10, <1>12, <1>18
  <2> QED BY <1>9, <2>2, <2>3
<1> QED
  BY <1>2, <1>19, <1>20, <1>21 DEF a, can

LEMMA RenameNodeAlike ==
  ASSUME RealInv, AloneInv, CalmInv, Undisturbed, RenameNode
  PROVE  AnswersAlike
<1> SUFFICES ASSUME ~Differs(call.args, call.start, last'.err)
             PROVE  Agree(call.args, call.start, last'.err, last'.out, disk')
  BY DEF AnswersAlike
<1> DEFINE D == call.start
           args == call.args
           o == call.q
           n == call.q2
           err == FirstError(NamingChecks(D, o, n))
           U == Moved(D, o, n)
           V == Moved(InMemory(D).tree, o, n)
           r == Rename(InMemory(D), Text(o), Text(n))
<1>1. call.pc = "resolved" /\ args.op = "rename" /\ call.alone /\ call # Idle
  BY DEF RenameNode, At, Undisturbed, Answers
<1>2. /\ o = Follow(D, args.path) /\ o \in DOMAIN D /\ Named(D, o) = o /\ disk = D
      /\ GoodDisk(D) /\ args \in CallArgs
  BY <1>1, ExistingFound
<1>3. Grounded(D)
  BY <1>2, DiffersNot
<1>4. Creating(D, args.to).path = Follow(D, args.to)
  BY <1>1 DEF Differs
<1>5. n = Follow(D, args.to) /\ n \in Seq(STRING) /\ Named(D, n) = n
  BY <1>1, <1>3, <1>4, TargetLeads
<1>6. n \in DOMAIN D => D[o].kind = D[n].kind
  BY <1>1, <1>2, <1>5 DEF Differs
<1>7. Changes(args, D, r)
  BY <1>1, <1>2, <1>5, DoesRename
<1>8. Act(NamingChecks(D, o, n), U)
  <2>1. Named(disk, call.q) = o /\ Named(disk, call.q2) = n
    BY <1>2, <1>5
  <2> QED BY <1>2, <2>1 DEF RenameNode, NamingChecks
<1> HIDE DEF U, V, r, D, o, n
<1>9. last'.err = err /\ last'.out = "none" /\ disk' = IF err = "ok" THEN U ELSE D
  <2> HIDE DEF err
  <2>1. Answer(err) /\ disk' = IF err = "ok" THEN U ELSE disk
    BY <1>8 DEF Act, err
  <2> QED BY <1>2, <2>1 DEF Answer, Answered
<1>10. /\ o = n => err = "ok"
       /\ o # n /\ err = "ok" => CanRename(D, o, n) /\ ~IsStrictPrefix(o, n)
       /\ o # n /\ CanRename(D, o, n) /\ err # "ok" =>
            err = "EACCES" /\ \E s \in DOMAIN D : ReadOnly(D, s)
  BY <1>2, <1>3, <1>5, <1>6, RenamingDisk
<1> HIDE DEF err
<1>11. CASE o = n
  <2>1. U = D /\ last'.err = "ok" /\ disk' = D
    BY <1>2, <1>9, <1>10, <1>11, MovedNowhere DEF U
  <2>2. r.err = "ok" /\ r.fs = InMemory(D)
    BY <1>11 DEF r, Rename
  <2>3. Agree(args, D, "ok", "none", D)
    BY <1>7, <2>2, AgreeChanging
  <2> QED BY <1>9, <2>1, <2>3 DEF D
<1>12. CASE o # n
  <2>1. /\ r.err = "ok" <=> CanRename(D, o, n)
        /\ r.err = "ok" => r.fs.tree = V
        /\ r.err # "ok" => r.fs = InMemory(D)
    BY <1>2, <1>3, <1>5, <1>12, MemoryOfRenaming DEF r, V
  <2>2. CASE ~CanRename(D, o, n)
    <3>1. last'.err # "ok" /\ disk' = D
      BY <1>9, <1>10, <1>12, <2>2
    <3> QED BY <1>7, <2>1, <2>2, <3>1, AgreeFailing DEF D
  <2>3. CASE CanRename(D, o, n) /\ err # "ok"
    <3>1. last'.err = "EACCES" /\ \E s \in DOMAIN D : ReadOnly(D, s)
      BY <1>9, <1>10, <1>12, <2>3
    <3> QED BY <1>2, <3>1, DiffersNot DEF D
  <2>4. CASE CanRename(D, o, n) /\ err = "ok"
    <3>1. InMemory(U).tree = V
      BY <1>2, <1>5, <1>10, <1>12, <2>4, MovedAlike DEF CanRename, U, V
    <3>2. Agree(args, D, "ok", "none", U)
      BY <1>7, <2>1, <2>4, <3>1, AgreeChanging
    <3> QED BY <1>9, <2>4, <3>2 DEF D
  <2> QED BY <2>2, <2>3, <2>4
<1> QED
  BY <1>11, <1>12

(* A second path that goes through a link that leads nowhere.               *)
LEMMA BehindLink ==
  ASSUME NEW D, GoodDisk(D), NEW t \in Seq(STRING), LinksOn(D, t) # {}, ~IsLink(D, t)
  PROVE  t # <<>> /\ ~IsDir(D, Front(t))
<1> SUFFICES ASSUME t # <<>> => IsDir(D, Front(t)) PROVE FALSE
  OBVIOUS
<1>1. LeadTo(D, t)
  BY DirLeadTo
<1> QED
  BY <1>1, LinksUpTo

LEMMA ResolveSecondAlike ==
  ASSUME RealInv, AloneInv, CalmInv, Undisturbed, ResolveSecond
  PROVE  AnswersAlike
<1> SUFFICES ASSUME ~Differs(call.args, call.start, last'.err)
             PROVE  Agree(call.args, call.start, last'.err, last'.out, disk')
  BY DEF AnswersAlike
<1> DEFINE D == call.start
           args == call.args
           o == call.q
           to == args.to
           t == Follow(D, to)
           err == Creating(D, to).err
<1>1. call.pc = "second" /\ call.alone /\ call # Idle /\ call' = Idle
  BY DEF ResolveSecond, Undisturbed, Answers
<1>2. args.op \in {"rename", "copyFile"}
  BY <1>1 DEF CalmInv, Found
<1>3. /\ o = Follow(D, args.path) /\ o \in DOMAIN D /\ ~IsLink(D, o) /\ disk = D
      /\ GoodDisk(D) /\ args \in CallArgs
  BY <1>1, <1>2, ExistingFound
<1>4. Grounded(D) /\ to \in Seq(STRING)
  BY <1>3, DiffersNot DEF CallArgs
<1>5. last'.err = err /\ last'.out = "none" /\ err # "ok" /\ disk' = D
  <2>1. disk' = disk
    BY DEF ResolveSecond
  <2>2. \/ err # "ok" /\ Answer(err)
        \/ call' = [call EXCEPT !.pc = "resolved", !.q2 = Creating(D, to).path]
    BY <1>3 DEF ResolveSecond
  <2>3. [call EXCEPT !.pc = "resolved", !.q2 = Creating(D, to).path].pc # "idle"
    <3>1. GoodCall(call)
      BY <1>1, InCall
    <3>2. DOMAIN call = {"pc", "args", "q", "q2", "size", "lost", "got", "alone", "start"}
      BY <3>1 DEF GoodCall, CallOf
    <3> QED BY <3>2
  <2>4. err # "ok" /\ Answer(err)
    BY <1>1, <2>2, <2>3, IdleIs
  <2> HIDE DEF err, D
  <2> QED BY <1>3, <2>1, <2>4 DEF Answer, Answered, D
<1>6. Creating(D, to).path = t
  BY <1>2 DEF Differs
<1>7. LinksOn(D, t) # {} /\ t \in Seq(STRING)
  BY <1>3, <1>4, <1>5, <1>6, CreatingLoops, FollowType
<1>8. t # <<>> /\ ~IsDir(D, Front(t))
  <2>1. ~IsLink(D, t)
    <3>1. args.op = "copyFile" => t \notin DOMAIN D
      BY DEF Differs
    <3>2. args.op = "rename" /\ t \in DOMAIN D => D[o].kind = D[t].kind
      BY <1>3 DEF Differs
    <3> QED BY <1>2, <1>3, <3>1, <3>2 DEF IsLink
  <2> HIDE DEF t, D
  <2> QED BY <1>3, <1>7, <2>1, BehindLink
<1>9. CASE args.op = "copyFile"
  <2> DEFINE r == CopyFile(InMemory(D), o, t)
             y == [InMemory(D).tree[o] EXCEPT !.ino = 0]
             can == ~IsDir(D, o) /\ IsDir(D, Front(t))
  <2>1. Changes(args, D, r)
    BY <1>3, <1>9, DoesCopyFile
  <2>2. t \notin DOMAIN D
    BY <1>9 DEF Differs
  <2> HIDE DEF t, D
  <2>3. PutsIn(InMemory(D), t, y, can, r)
    BY <1>3, <1>4, <1>7, <2>2, MemoryOfCopying
  <2> HIDE DEF r, y
  <2>4. r.err # "ok" /\ r.fs = InMemory(D)
    BY <1>8, <2>3 DEF PutsIn
  <2> QED BY <1>5, <2>1, <2>4, AgreeFailing DEF D
<1>10. CASE args.op = "rename"
  <2> DEFINE r == Rename(InMemory(D), Text(o), Text(t))
  <2>1. Changes(args, D, r)
    BY <1>3, <1>10, DoesRename
  <2> HIDE DEF t, D, r
  <2>2. o # t
    BY <1>3, <1>7, NotLinkStays
  <2>3. r.err # "ok" /\ r.fs = InMemory(D)
    BY <1>3, <1>4, <1>7, <1>8, <2>2, MemoryOfRenaming DEF CanRename, r
  <2> QED BY <1>5, <2>1, <2>3, AgreeFailing DEF D
<1> QED
  BY <1>2, <1>9, <1>10

------------------------------------------------------------------------------
(* mkdir: what a disk is in memory, with directories at P, too.             *)
Filled(D, mode, P, U) ==
  /\ U = [s \in DOMAIN D \union P |-> U[s]]
  /\ \A s \in DOMAIN D : U[s] = Remembered(D[s])
  /\ \A s \in P : s \notin DOMAIN D => \E k : U[s] = Dir(k, mode)

LEMMA FilledMore ==
  ASSUME NEW D, NEW mode, NEW P, NEW U, Filled(D, mode, P, U), NEW q, q \notin DOMAIN U, NEW k
  PROVE  Filled(D, mode, P \union {q}, With(U, q, Dir(k, mode)))
<1> DEFINE n == Dir(k, mode)
           V == With(U, q, n)
<1>1. DOMAIN U = DOMAIN D \union P
  BY DEF Filled
<1>2. V = [s \in DOMAIN U \union {q} |-> IF s = q THEN n ELSE U[s]]
  BY DEF With
<1> HIDE DEF V
<1>3. V = [s \in DOMAIN D \union (P \union {q}) |-> V[s]]
  BY <1>1, <1>2
<1>4. \A s \in DOMAIN U : V[s] = U[s]
  BY <1>2
<1>5. V[q] = n
  BY <1>2
<1>6. \A s \in DOMAIN D : V[s] = Remembered(D[s])
  BY <1>1, <1>4 DEF Filled
<1>7. ASSUME NEW s \in P \union {q}, s \notin DOMAIN D PROVE \E l : V[s] = Dir(l, mode)
  <2>1. CASE s = q
    BY <1>5, <2>1
  <2>2. CASE s # q
    <3>1. s \in P /\ V[s] = U[s]
      BY <1>1, <1>4, <2>2
    <3> QED BY <1>7, <3>1 DEF Filled
  <2> QED BY <2>1, <2>2
<1>8. Filled(D, mode, P \union {q}, V)
  BY <1>3, <1>6, <1>7 DEF Filled
<1> QED
  BY <1>8 DEF V

LEMMA FilledKinds ==
  ASSUME NEW D, NEW mode, NEW P, NEW U, Filled(D, mode, P, U), NEW q
  PROVE  /\ DOMAIN U = DOMAIN D \union P
         /\ IsFile(U, q) <=> q \in DOMAIN D /\ ~IsDir(D, q)
         /\ IsDir(U, q) <=> IsDir(D, q) \/ (q \in P /\ q \notin DOMAIN D)
<1>1. DOMAIN U = DOMAIN D \union P
  BY DEF Filled
<1>2. CASE q \in DOMAIN D
  <2>1. U[q] = Remembered(D[q])
    BY <1>2 DEF Filled
  <2>2. U[q].kind = IF D[q].kind = "dir" THEN "dir" ELSE "file"
    BY <2>1, RememberedFacts
  <2> QED BY <1>1, <1>2, <2>2 DEF IsFile, IsDir
<1>3. CASE q \notin DOMAIN D /\ q \in P
  <2>1. PICK k : U[q] = Dir(k, mode)
    BY <1>3 DEF Filled
  <2>2. U[q].kind = "dir"
    BY <2>1 DEF Dir
  <2> QED BY <1>1, <1>3, <2>2 DEF IsFile, IsDir
<1>4. CASE q \notin DOMAIN U
  BY <1>1, <1>4 DEF IsFile, IsDir
<1> QED
  BY <1>1, <1>2, <1>3, <1>4

(* mkdir, recursive, after i turns.                                         *)
MadeInMemory(D, p, mode, i, r) ==
  /\ r = [err |-> r.err, fs |-> r.fs]
  /\ r.fs = [tree |-> r.fs.tree, nextIno |-> r.fs.nextIno]
  /\ r.err # "ok" => /\ r.fs = InMemory(D)
                     /\ \E s \in PrefixesOf(p) \cap DOMAIN D : ~IsDir(D, s)
  /\ r.err = "ok" => /\ r.fs = InMemory(D) \/ SubSeq(p, 1, i) \notin DOMAIN D
                     /\ \A s \in UpTo(p, i) \cap DOMAIN D : IsDir(D, s)
                     /\ Filled(D, mode, UpTo(p, i), r.fs.tree)

LEMMA MemoryMakesNext ==
  ASSUME NEW D, GoodDisk(D), NEW p \in Seq(STRING), NEW mode, NEW i \in Nat,
         i + 1 \in 1..Len(p), NEW r, MadeInMemory(D, p, mode, i, r), r.err = "ok"
  PROVE  MadeInMemory(D, p, mode, i + 1, MakeNext(r, SubSeq(p, 1, i + 1), mode))
<1> DEFINE q == SubSeq(p, 1, i + 1)
           U == r.fs.tree
           P == UpTo(p, i)
           Q == UpTo(p, i + 1)
           k == r.fs.nextIno
           V == With(U, q, Dir(k, mode))
           g == [tree |-> V, nextIno |-> k + 1]
           s == MakeNext(r, q, mode)
<1>1. i + 1 \in 0..Len(p) /\ i \in 0..Len(p) /\ i < i + 1
  OBVIOUS
<1>2. Q = P \union {q}
  <2>1. 0..(i + 1) = (0..i) \union {i + 1}
    OBVIOUS
  <2> QED BY <2>1 DEF UpTo
<1>3. q \in PrefixesOf(p)
  BY <1>1 DEF PrefixesOf
<1>4. /\ r = [err |-> "ok", fs |-> r.fs] /\ r.fs = [tree |-> U, nextIno |-> k]
      /\ r.fs = InMemory(D) \/ SubSeq(p, 1, i) \notin DOMAIN D
      /\ (\A x \in P \cap DOMAIN D : IsDir(D, x)) /\ Filled(D, mode, P, U)
  BY DEF MadeInMemory
<1>5. q \in DOMAIN D => r.fs = InMemory(D)
  <2> SUFFICES ASSUME q \in DOMAIN D PROVE SubSeq(p, 1, i) \in DOMAIN D
    BY <1>4
  <2>1. IsDir(D, SubSeq(p, 1, i))
    BY <1>1, PrefixThere
  <2> QED BY <2>1 DEF IsDir
<1> HIDE DEF q, P, Q, U, k
<1>6. /\ DOMAIN U = DOMAIN D \union P
      /\ IsFile(U, q) <=> q \in DOMAIN D /\ ~IsDir(D, q)
      /\ IsDir(U, q) <=> IsDir(D, q) \/ (q \in P /\ q \notin DOMAIN D)
  BY <1>4, FilledKinds
<1>7. CASE IsFile(U, q)
  <2>1. s = [r EXCEPT !.err = "ENOTDIR"]
    BY <1>7 DEF MakeNext, U
  <2>2. s = [err |-> "ENOTDIR", fs |-> r.fs]
    BY <1>4, <2>1
  <2>3. s.err = "ENOTDIR" /\ s.fs = r.fs
    BY <2>2
  <2> HIDE DEF s
  <2>4. \E x \in PrefixesOf(p) \cap DOMAIN D : ~IsDir(D, x)
    BY <1>3, <1>6, <1>7
  <2>5. s.fs = InMemory(D)
    BY <1>5, <1>6, <1>7, <2>3
  <2>6. s.fs = [tree |-> s.fs.tree, nextIno |-> s.fs.nextIno]
    BY <1>4, <2>3 DEF U, k
  <2>7. MadeInMemory(D, p, mode, i + 1, s)
    BY <2>2, <2>3, <2>4, <2>5, <2>6 DEF MadeInMemory
  <2> QED BY <2>7 DEF s, q
<1>8. CASE IsDir(U, q)
  <2>1. s = r
    BY <1>8 DEF MakeNext, U, IsFile, IsDir
  <2> HIDE DEF s
  <2>2. r.fs = InMemory(D) \/ q \notin DOMAIN D
    BY <1>5
  <2>3. \A x \in Q \cap DOMAIN D : IsDir(D, x)
    BY <1>2, <1>4, <1>6, <1>8
  <2>4. Filled(D, mode, Q, U)
    <3>1. DOMAIN D \union Q = DOMAIN D \union P
      BY <1>2, <1>6, <1>8 DEF IsDir
    <3>2. \A x \in Q : x \notin DOMAIN D => x \in P
      BY <1>2, <1>6, <1>8 DEF IsDir
    <3> QED BY <1>4, <3>1, <3>2 DEF Filled
  <2>5. r.fs = [tree |-> r.fs.tree, nextIno |-> r.fs.nextIno]
    BY <1>4 DEF U, k
  <2>6. MadeInMemory(D, p, mode, i + 1, r)
    BY <1>4, <2>2, <2>3, <2>4, <2>5 DEF MadeInMemory, Q, q, U
  <2> QED BY <2>1, <2>6 DEF s, q
<1>9. CASE ~IsFile(U, q) /\ ~IsDir(U, q)
  <2>1. s = [err |-> "ok", fs |-> g]
    BY <1>9 DEF MakeNext, Result, U, k
  <2>2. s.err = "ok" /\ s.fs = g
    BY <2>1
  <2>3. g.tree = V /\ g = [tree |-> g.tree, nextIno |-> g.nextIno]
    OBVIOUS
  <2>4. q \notin DOMAIN U /\ q \notin DOMAIN D
    BY <1>6, <1>9 DEF IsDir
  <2>5. Filled(D, mode, Q, V)
    BY <1>2, <1>4, <2>4, FilledMore
  <2>6. \A x \in Q \cap DOMAIN D : IsDir(D, x)
    BY <1>2, <1>4, <2>4
  <2> HIDE DEF s, g, V
  <2>7. s = [err |-> s.err, fs |-> s.fs]
    BY <2>1, <2>2
  <2>8. MadeInMemory(D, p, mode, i + 1, s)
    BY <2>2, <2>3, <2>4, <2>5, <2>6, <2>7 DEF MadeInMemory, Q, q
  <2> QED BY <2>8 DEF s, q
<1> QED
  BY <1>7, <1>8, <1>9

LEMMA MemoryMakesAll ==
  ASSUME NEW D, Grounded(D), NEW p \in Seq(STRING), NEW mode
  PROVE  MadeInMemory(D, p, mode, Len(p), MakeAll(InMemory(D), p, mode)[Len(p)])
<1> DEFINE f == InMemory(D)
           made == MakeAll(f, p, mode)
           S == {i \in Nat : i <= Len(p) => MadeInMemory(D, p, mode, i, made[i])}
<1>1. /\ made[0] = [err |-> "ok", fs |-> f]
      /\ \A i \in 1..Len(p) :
           made[i] = IF made[i - 1].err = "ok" THEN MakeNext(made[i - 1], SubSeq(p, 1, i), mode)
                                               ELSE made[i - 1]
  BY MadeDef
<1>2. GoodDisk(D) /\ IsDir(D, <<>>)
  BY DEF Grounded
<1> HIDE DEF made
<1>3. 0 \in S
  <2>1. UpTo(p, 0) = {<<>>}
    <3>1. SubSeq(p, 1, 0) = <<>>
      BY SubSeqEmpty
    <3>2. \A j : j \in 0..0 <=> j = 0
      OBVIOUS
    <3>3. \A x : x \in UpTo(p, 0) <=> x = <<>>
      BY <3>1, <3>2, Zenon DEF UpTo
    <3> QED BY <3>3, Zenon
  <2>2. f = [tree |-> f.tree, nextIno |-> f.nextIno]
    BY DEF InMemory
  <2>3. Filled(D, mode, {<<>>}, f.tree)
    <3>1. f.tree = [s \in DOMAIN D |-> Remembered(D[s])]
      BY MemoryFacts
    <3> HIDE DEF f
    <3>2. \A s \in DOMAIN D : f.tree[s] = Remembered(D[s])
      BY <3>1
    <3>3. <<>> \in DOMAIN D
      BY <1>2 DEF IsDir
    <3>4. DOMAIN f.tree = DOMAIN D \union {<<>>} /\ f.tree = [s \in DOMAIN f.tree |-> f.tree[s]]
      BY <3>1, <3>3
    <3>5. f.tree = [s \in DOMAIN D \union {<<>>} |-> f.tree[s]]
      BY <3>4
    <3> QED BY <3>2, <3>3, <3>5 DEF Filled
  <2>4. MadeInMemory(D, p, mode, 0, made[0])
    <3> DEFINE m == made[0]
    <3>1. m = [err |-> "ok", fs |-> f]
      BY <1>1
    <3>2. m.err = "ok" /\ m.fs = f /\ m = [err |-> m.err, fs |-> m.fs]
      BY <3>1
    <3>3. \A s \in {<<>>} \cap DOMAIN D : IsDir(D, s)
      BY <1>2
    <3> HIDE DEF m, f
    <3>4. MadeInMemory(D, p, mode, 0, m)
      BY <2>1, <2>2, <2>3, <3>2, <3>3 DEF MadeInMemory, f
    <3> QED BY <3>4 DEF m
  <2> QED BY <2>4
<1>4. ASSUME NEW i \in S PROVE i + 1 \in S
  <2> SUFFICES ASSUME i + 1 <= Len(p) PROVE MadeInMemory(D, p, mode, i + 1, made[i + 1])
    OBVIOUS
  <2>1. i \in Nat /\ i + 1 \in 1..Len(p) /\ i <= Len(p) /\ (i + 1) - 1 = i
    OBVIOUS
  <2>2. MadeInMemory(D, p, mode, i, made[i])
    BY <2>1
  <2>3. made[i + 1] = IF made[i].err = "ok" THEN MakeNext(made[i], SubSeq(p, 1, i + 1), mode)
                                            ELSE made[i]
    BY <1>1, <2>1
  <2>4. CASE made[i].err = "ok"
    BY <1>2, <2>1, <2>2, <2>3, <2>4, MemoryMakesNext
  <2>5. CASE made[i].err # "ok"
    BY <2>2, <2>3, <2>5 DEF MadeInMemory
  <2> QED BY <2>4, <2>5
<1> HIDE DEF S
<1>5. S = Nat
  <2>1. S \in SUBSET Nat
    BY DEF S
  <2> QED BY <1>3, <1>4, <2>1, Induction
<1>6. Len(p) \in S /\ Len(p) <= Len(p)
  <2>1. Len(p) \in Nat
    OBVIOUS
  <2> QED BY <1>5, <2>1
<1> QED
  BY <1>6 DEF S, made, f

(* What mkdir in memory does where there was no directory.                  *)
MadeDirs(D, p, mode, recursive, r) ==
  /\ r.err = "ok" <=> CanMake(D, p, recursive)
  /\ r.err # "ok" => r.fs = InMemory(D)
  /\ r.err = "ok" => Filled(D, mode, NewOn(D, p), r.fs.tree)

LEMMA MemoryOfMkdirAll ==
  ASSUME NEW D, Grounded(D), NEW p \in Seq(STRING), NEW mode, ~IsDir(D, p)
  PROVE  MadeDirs(D, p, mode, TRUE, MkdirAll(InMemory(D), p, mode))
<1> DEFINE made == MakeAll(InMemory(D), p, mode)[Len(p)]
           r == MkdirAll(InMemory(D), p, mode)
           U == made.fs.tree
<1>1. MadeInMemory(D, p, mode, Len(p), made)
  BY MemoryMakesAll
<1>2. r = IF p = <<>> \/ made.err # "ok" THEN made ELSE [made EXCEPT !.fs.tree[p].mode = mode]
  BY DEF MkdirAll
<1> HIDE DEF made, r
<1>3. p # <<>>
  BY DEF Grounded
<1>4. UpTo(p, Len(p)) = PrefixesOf(p)
  BY DEF UpTo, PrefixesOf
<1>5. p \in PrefixesOf(p)
  <2>1. SubSeq(p, 1, Len(p)) = p /\ Len(p) \in 0..Len(p)
    BY WholeSubSeq
  <2> QED BY <2>1 DEF PrefixesOf
<1>6. CASE made.err # "ok"
  <2>1. r = made /\ r.fs = InMemory(D)
    BY <1>1, <1>2, <1>6 DEF MadeInMemory
  <2>2. ~CanMake(D, p, TRUE)
    BY <1>1, <1>6 DEF MadeInMemory, CanMake
  <2> QED BY <1>6, <2>1, <2>2 DEF MadeDirs, r
<1>7. CASE made.err = "ok"
  <2>1. /\ made = [err |-> "ok", fs |-> made.fs]
        /\ made.fs = [tree |-> U, nextIno |-> made.fs.nextIno]
        /\ \A s \in PrefixesOf(p) \cap DOMAIN D : IsDir(D, s)
        /\ Filled(D, mode, PrefixesOf(p), U)
    BY <1>1, <1>4, <1>7 DEF MadeInMemory
  <2>2. p \notin DOMAIN D /\ CanMake(D, p, TRUE)
    BY <1>5, <2>1 DEF CanMake
  <2>3. PICK k : U[p] = Dir(k, mode)
    BY <1>5, <2>1, <2>2 DEF Filled
  <2> HIDE DEF U
  <2>4. [made EXCEPT !.fs.tree[p].mode = mode] = made
    <3> DEFINE n == [U[p] EXCEPT !.mode = mode]
               V == [U EXCEPT ![p] = n]
               g == [made.fs EXCEPT !.tree = V]
    <3>1. n = U[p]
      BY <2>3 DEF Dir
    <3>2. V = U
      <4>1. U = [s \in DOMAIN U |-> U[s]]
        BY <2>1 DEF Filled
      <4> HIDE DEF n
      <4> QED BY <3>1, <4>1
    <3>3. [made EXCEPT !.fs.tree[p].mode = mode] = [made EXCEPT !.fs = g]
      BY DEF U
    <3> HIDE DEF V
    <3>4. g = made.fs
      BY <2>1, <3>2
    <3> HIDE DEF g
    <3> QED BY <2>1, <3>3, <3>4
  <2>5. r = made
    BY <1>2, <2>4
  <2>6. Filled(D, mode, NewOn(D, p), U)
    <3>1. DOMAIN D \union NewOn(D, p) = DOMAIN D \union PrefixesOf(p)
          /\ NewOn(D, p) \subseteq PrefixesOf(p)
      BY DEF NewOn
    <3> QED BY <2>1, <3>1 DEF Filled
  <2> QED BY <1>7, <2>2, <2>5, <2>6 DEF MadeDirs, r, U
<1> QED
  BY <1>6, <1>7

LEMMA MemoryOfMkdir ==
  ASSUME NEW D, Grounded(D), NEW p \in Seq(STRING), NEW mode, ~IsDir(D, p)
  PROVE  MadeDirs(D, p, mode, FALSE, Mkdir(InMemory(D), p, mode))
<1> DEFINE f == InMemory(D)
           T == f.tree
           k == f.nextIno
           a == p \in DOMAIN T
           d == << <<a, "EEXIST">> >>
           w == ParentDir(T, p)
           c == w \o d
           V == With(T, p, Dir(k, mode))
           r == Mkdir(f, p, mode)
<1>1. p # <<>> /\ GoodDisk(D)
  BY DEF Grounded
<1>2. r = Result(FirstError(c), f, V, k + 1)
  BY <1>1 DEF Mkdir
<1>3. DOMAIN T = DOMAIN D /\ T = [s \in DOMAIN D |-> Remembered(D[s])]
  BY MemoryFacts
<1>4. Passes(w) <=> IsDir(D, Front(p))
  BY <1>1, MemoryParent
<1>5. w \in Checks
  BY ParentChecks
<1>6. (a <=> p \in DOMAIN D) /\ a \in BOOLEAN
  BY <1>3
<1> HIDE DEF a, f, T, k, V, r, w
<1>7. d \in Checks /\ (Passes(d) <=> ~a)
  BY <1>6, NoCheck DEF Errno
<1> HIDE DEF d
<1>8. c \in Checks /\ (Passes(c) <=> Passes(w) /\ Passes(d))
  BY <1>5, <1>7, MoreChecks
<1> HIDE DEF c
<1>9. FirstError(c) = "ok" <=> CanMake(D, p, FALSE)
  BY <1>4, <1>6, <1>7, <1>8, FirstErrorFacts DEF CanMake
<1>10. r.err = FirstError(c) /\ (FirstError(c) = "ok" => r.fs.tree = V)
       /\ (FirstError(c) # "ok" => r.fs = f)
  BY <1>2, ResultIs
<1>11. ASSUME CanMake(D, p, FALSE) PROVE Filled(D, mode, NewOn(D, p), V)
  <2>1. NewOn(D, p) = {p}
    BY <1>1, <1>11, OneNew
  <2>2. p \notin DOMAIN T
    BY <1>3, <1>11 DEF CanMake
  <2>3. Filled(D, mode, {}, T)
    <3>1. T = [s \in DOMAIN D \union {} |-> T[s]]
      BY <1>3
    <3>2. \A s \in DOMAIN D : T[s] = Remembered(D[s])
      BY <1>3
    <3> QED BY <3>1, <3>2 DEF Filled
  <2>4. Filled(D, mode, {} \union {p}, V)
    BY <2>2, <2>3, FilledMore DEF V
  <2>5. {} \union {p} = NewOn(D, p)
    BY <2>1
  <2> QED BY <2>4, <2>5
<1> QED
  BY <1>9, <1>10, <1>11 DEF MadeDirs, r, f

LEMMA MkdirAgrees ==
  ASSUME NEW args, NEW D, Grounded(D), NEW p \in Seq(STRING), p = Follow(D, args.path),
         args.op = "mkdir", NEW r, NEW recursive,
         Changes(args, D, r), MadeDirs(D, p, args.mode, recursive, r), r.err = "ok",
         NEW E, DOMAIN E = DOMAIN D \union NewOn(D, p), \A s \in DOMAIN D : E[s] = D[s],
         \A s \in NewOn(D, p) : /\ E[s].kind = "dir" /\ E[s].data = <<>>
                                /\ s = p => E[s].mode = args.mode
  PROVE  Agree(args, D, "ok", "none", E)
<1> DEFINE T == InMemory(E).tree
           U == r.fs.tree
<1>1. DOMAIN T = DOMAIN E /\ \A s \in DOMAIN E : T[s] = Remembered(E[s])
  BY MemoryFacts
<1>2. Filled(D, args.mode, NewOn(D, p), U)
  BY DEF MadeDirs
<1> HIDE DEF T, U
<1>3. DOMAIN U = DOMAIN T
  BY <1>1, <1>2 DEF Filled
<1>4. ASSUME NEW s \in DOMAIN T PROVE AlikeAt(args, D, s, T[s], U[s])
  <2>1. CASE s \in DOMAIN D
    <3>1. T[s] = U[s]
      BY <1>1, <1>2, <2>1 DEF Filled
    <3> QED BY <3>1, SameIsAlike
  <2>2. CASE s \notin DOMAIN D
    <3> DEFINE x == Remembered(E[s])
    <3>1. s \in NewOn(D, p) /\ s \in DOMAIN E /\ T[s] = x
      BY <1>1, <2>2
    <3>2. x.kind = "dir" /\ x.data = <<>> /\ (s = p => x.mode = args.mode)
      BY <3>1, RememberedFacts
    <3>3. PICK k : U[s] = Dir(k, args.mode)
      BY <1>2, <2>2, <3>1 DEF Filled
    <3>4. U[s].kind = "dir" /\ U[s].data = <<>> /\ U[s].mode = args.mode
      BY <3>3 DEF Dir
    <3> HIDE DEF x
    <3> QED BY <3>1, <3>2, <3>4 DEF AlikeAt
  <2> QED BY <2>1, <2>2
<1>5. Looks(args, D, T) = Looks(args, D, U)
  BY <1>3, <1>4, LooksAlike
<1> QED
  BY <1>5, AgreeChanging DEF T, U

(* What memory does with the mkdir that is called.                          *)
LEMMA MkdirInMemory ==
  ASSUME NEW args \in CallArgs, args.op = "mkdir", NEW D, Makeable(args, D)
  PROVE  LET p == Follow(D, args.path)
         IN  /\ p \in Seq(STRING)
             /\ \E r : /\ Changes(args, D, r)
                       /\ MadeDirs(D, p, args.mode, args.recursive, r)
<1> DEFINE p == Follow(D, args.path)
           b == args.recursive
           m == IF b THEN MkdirAll(InMemory(D), p, args.mode) ELSE Mkdir(InMemory(D), p, args.mode)
<1>1. Grounded(D) /\ ~IsDir(D, p) /\ GoodDisk(D)
  BY DEF Makeable, Grounded
<1>2. args.path \in Seq(STRING) /\ b \in BOOLEAN
  BY DEF CallArgs
<1>3. p \in Seq(STRING)
  BY <1>1, <1>2, FollowType
<1>4. Changes(args, D, m)
  BY DoesMkdir
<1> HIDE DEF p, b
<1>5. MadeDirs(D, p, args.mode, b, m)
  <2>1. CASE b = TRUE
    BY <1>1, <1>3, <2>1, MemoryOfMkdirAll
  <2>2. CASE b = FALSE
    BY <1>1, <1>3, <2>2, MemoryOfMkdir
  <2> QED BY <1>2, <2>1, <2>2
<1> QED
  BY <1>3, <1>4, <1>5 DEF p, b

LEMMA DiffersMkdir ==
  ASSUME NEW args, NEW D, NEW err, GoodDisk(D), args.op = "mkdir", ~Differs(args, D, err)
  PROVE  Makeable(args, D)
<1>1. Grounded(D)
  BY DiffersNot
<1>2. ~IsDir(D, Follow(D, args.path)) /\ Creating(D, args.path).path = Follow(D, args.path)
  BY DEF Differs
<1> QED
  BY <1>1, <1>2 DEF Makeable

(* What mkdir answers when all is made.                                     *)
LEMMA AllMadeAnswers ==
  ASSUME GoodCall(call), AllMade, call' = Idle
  PROVE  last'.err = "ok" /\ last'.out = "none" /\ call.args.mode = RWX
<1>1. call.args.mode = RWX
  <2> SUFFICES ASSUME Goto("made") PROVE FALSE
    BY DEF AllMade
  <2> DEFINE x == [call EXCEPT !.pc = "made"]
  <2>1. call' = x
    BY DEF Goto
  <2>2. x.pc = "made"
    BY DEF GoodCall, CallOf
  <2> HIDE DEF x
  <2> QED BY <2>1, <2>2, IdleIs
<1> QED
  BY <1>1 DEF AllMade, Answer, Answered

LEMMA FindMissingAlike ==
  ASSUME RealInv, AloneInv, CalmInv, Undisturbed, FindMissing
  PROVE  AnswersAlike
<1> SUFFICES ASSUME ~Differs(call.args, call.start, last'.err)
             PROVE  Agree(call.args, call.start, last'.err, last'.out, disk')
  BY DEF AnswersAlike
<1> DEFINE D == call.start
           args == call.args
           q == call.q
           k == Longest(disk, q)
<1>1. /\ call.pc = "resolved" /\ args.op = "mkdir" /\ call.alone /\ GoodCall(call)
      /\ call' = Idle /\ args.recursive /\ disk' = disk
      /\ \/ last'.err # "ok" /\ ~IsDir(disk, Follow(disk, SubSeq(q, 1, k)))
         \/ IsDir(disk, Follow(disk, q))
  <2>1. call'.pc # "making"
    BY IdleIs DEF Undisturbed, Answers
  <2> QED BY <2>1, FindMissingFacts DEF Undisturbed, Answers
<1>2. disk = D /\ GoodDisk(D) /\ args \in CallArgs /\ args.recursive = TRUE
  BY <1>1, ResolvedAlone DEF GoodCall, CallOf, CallArgs
<1>3. Makeable(args, D)
  BY <1>1, <1>2, DiffersMkdir
<1>4. /\ q = Follow(D, args.path) /\ q \in Seq(STRING) /\ Grounded(D)
      /\ LinksOn(D, q) = {} /\ ~IsDir(D, q)
  BY <1>1, <1>3, MkdirFound
<1>5. PICK r : Changes(args, D, r) /\ MadeDirs(D, q, args.mode, TRUE, r)
  BY <1>1, <1>2, <1>3, <1>4, MkdirInMemory
<1>6. Follow(disk, q) = q
  BY <1>2, <1>4, FollowStays
<1>7. last'.err # "ok" /\ ~IsDir(disk, Follow(disk, SubSeq(q, 1, k)))
  BY <1>1, <1>2, <1>4, <1>6
<1>8. ~CanMake(D, q, TRUE)
  BY <1>2, <1>4, <1>7, WayFound
<1>9. r.err # "ok" /\ r.fs = InMemory(D)
  BY <1>5, <1>8 DEF MadeDirs
<1> QED
  BY <1>1, <1>2, <1>5, <1>7, <1>9, AgreeFailing

LEMMA MakeDirAlike ==
  ASSUME RealInv, AloneInv, CalmInv, Undisturbed, MakeDir
  PROVE  AnswersAlike
<1> SUFFICES ASSUME ~last'.full, ~Differs(call.args, call.start, last'.err)
             PROVE  Agree(call.args, call.start, last'.err, last'.out, disk')
  BY DEF AnswersAlike
<1> DEFINE D == call.start
           args == call.args
           q == call.q
           b == args.recursive
           n == NextLength(call)
           m == CreateDirectory(SubSeq(q, 1, n))
<1>1. /\ call.pc = "making" \/ (call.pc = "resolved" /\ ~b)
      /\ args.op = "mkdir" /\ call.alone /\ GoodCall(call) /\ call # Idle
      /\ \/ m.err # "ok" /\ last'.err = m.err /\ disk' = disk
         \/ m.err = "ok" /\ n = Len(q) /\ AllMade /\ disk' = m.disk
  <2>1. call'.pc # "making" /\ call'.pc # "resolved"
    BY IdleIs DEF Undisturbed, Answers
  <2> QED BY <2>1, MakeDirFacts DEF Undisturbed, Answers
<1>2. GoodDisk(D) /\ args \in CallArgs
  BY <1>1 DEF AloneInv, GoodCall, CallOf
<1>3. Makeable(args, D)
  BY <1>1, <1>2, DiffersMkdir
<1>4. q = Follow(D, args.path) /\ q \in Seq(STRING) /\ Grounded(D)
  BY <1>1, <1>3, MkdirFound
<1>5. PICK r : Changes(args, D, r) /\ MadeDirs(D, q, args.mode, b, r)
  BY <1>1, <1>2, <1>3, <1>4, MkdirInMemory
<1>6. /\ m.err = "ok" => \/ /\ n = Len(q) /\ CanMake(D, q, b)
                            /\ m.disk = AddDirs(D, NewOn(D, q))
                         \/ n # Len(q)
      /\ m.err # "ok" => \/ ~CanMake(D, q, b)
                         \/ m.err = "EACCES" /\ \E x \in DOMAIN D : ReadOnly(D, x)
  <2> HIDE DEF n
  <2> QED BY <1>1, <1>3, MakeDirDoes DEF n
<1> HIDE DEF m, n
<1>7. CASE m.err # "ok"
  <2>1. last'.err = m.err /\ disk' = disk
    BY <1>1, <1>7
  <2>2. ~CanMake(D, q, b)
    <3> SUFFICES ASSUME CanMake(D, q, b) PROVE FALSE
      OBVIOUS
    <3>1. m.err = "EACCES" /\ \E x \in DOMAIN D : ReadOnly(D, x)
      BY <1>6, <1>7
    <3> HIDE DEF D
    <3> QED BY <1>2, <2>1, <3>1, DiffersNot DEF D
  <2>3. call.pc = "resolved"
    <3> SUFFICES ASSUME call.pc = "making" PROVE FALSE
      BY <1>1
    <3>1. DirsOnTheWay
      BY <1>1 DEF CalmInv
    <3>2. b /\ CanMake(D, q, TRUE)
      BY <1>3, <1>4, <3>1 DEF DirsOnTheWay, HalfWay
    <3>3. b = TRUE
      BY <1>2, <3>2 DEF CallArgs
    <3> QED BY <2>2, <3>2, <3>3
  <2>4. disk = D
    BY <1>1, <2>3, ResolvedAlone
  <2>5. r.err # "ok" /\ r.fs = InMemory(D)
    BY <1>5, <2>2 DEF MadeDirs
  <2> QED BY <1>5, <1>7, <2>1, <2>4, <2>5, AgreeFailing
<1>8. CASE m.err = "ok"
  <2> DEFINE E == AddDirs(D, NewOn(D, q))
  <2>1. CanMake(D, q, b) /\ disk' = E /\ AllMade
    BY <1>1, <1>6, <1>8
  <2>2. r.err = "ok"
    BY <1>5, <2>1 DEF MadeDirs
  <2>3. last'.err = "ok" /\ last'.out = "none" /\ args.mode = RWX
    BY <1>1, <2>1, AllMadeAnswers DEF Undisturbed, Answers
  <2>4. DOMAIN E = DOMAIN D \union NewOn(D, q)
        /\ (\A s \in DOMAIN D : E[s] = D[s]) /\ \A s \in NewOn(D, q) : E[s] = NewDir
    BY DEF AddDirs, NewOn
  <2>5. NewDir.kind = "dir" /\ NewDir.data = <<>> /\ NewDir.mode = RWX
    BY DEF NewDir, DiskNode
  <2> HIDE DEF E
  <2>6. Agree(args, D, "ok", "none", E)
    <3> HIDE DEF D, q, b
    <3> QED BY <1>1, <1>4, <1>5, <2>2, <2>3, <2>4, <2>5, MkdirAgrees
  <2> QED BY <2>1, <2>3, <2>6
<1> QED
  BY <1>7, <1>8

LEMMA ChmodAlike ==
  ASSUME RealInv, AloneInv, CalmInv, Undisturbed, Chmod
  PROVE  AnswersAlike
<1> SUFFICES ASSUME ~Differs(call.args, call.start, last'.err)
             PROVE  Agree(call.args, call.start, last'.err, last'.out, disk')
  BY DEF AnswersAlike
<1> DEFINE D == call.start
           args == call.args
           q == call.q
           b == args.recursive
           P == NewOn(D, q)
           F == AddDirs(D, P)
           t == Follow(disk, q)
           w == Lookup(disk, t)
           E == [disk EXCEPT ![t].mode = args.mode]
           n == [disk[t] EXCEPT !.mode = args.mode]
<1>1. /\ call.pc = "made" /\ args.op = "mkdir" /\ call.alone /\ GoodCall(call) /\ call # Idle
      /\ call' = Idle
  BY ChmodFacts DEF Undisturbed, Answers
<1>2. GoodDisk(D) /\ GoodDisk(disk) /\ args \in CallArgs
  BY <1>1 DEF AloneInv, RealInv, GoodCall, CallOf
<1>3. Makeable(args, D)
  BY <1>1, <1>2, DiffersMkdir
<1>4. q = Follow(D, args.path)
  <2>1. q = Creating(D, args.path).path
    BY <1>1 DEF CalmInv, Found, Resolve
  <2> QED BY <1>3, <2>1 DEF Makeable
<1>5. PICK r : q \in Seq(STRING) /\ Changes(args, D, r) /\ MadeDirs(D, q, args.mode, b, r)
  BY <1>1, <1>2, <1>3, <1>4, MkdirInMemory
<1>6. CanMake(D, q, b) /\ disk = F
  BY <1>1, <1>3, <1>4 DEF CalmInv, DirsMade
<1>7. r.err = "ok"
  BY <1>5, <1>6 DEF MadeDirs
<1>8. Act(w, IF t \in DOMAIN disk THEN E ELSE disk)
  BY DEF Chmod
<1> HIDE DEF w, E
<1>9. q \in P
  <2>1. SubSeq(q, 1, Len(q)) = q /\ Len(q) \in 0..Len(q)
    BY <1>5, WholeSubSeq
  <2>2. q \in PrefixesOf(q)
    BY <2>1 DEF PrefixesOf
  <2> QED BY <1>6, <2>2 DEF NewOn, CanMake
<1>10. DOMAIN F = DOMAIN D \union P
       /\ (\A s \in DOMAIN D : F[s] = D[s]) /\ \A s \in P : F[s] = NewDir
  BY DEF AddDirs, NewOn
<1>11. NewDir.kind = "dir" /\ NewDir.data = <<>>
  BY DEF NewDir, DiskNode
<1> HIDE DEF F
<1>12. q \in DOMAIN disk /\ ~IsLink(disk, q) /\ disk[q] = NewDir
  BY <1>6, <1>9, <1>10, <1>11 DEF IsLink
<1>13. t = q
  BY <1>2, <1>12, NotLinkStays
<1> HIDE DEF t
<1>14. FirstError(w) = "ok"
  <2>1. w \in DiskChecks /\ Passes(w)
    BY <1>2, <1>5, <1>12, <1>13, LookupChecks, LookupFinds DEF w
  <2> QED BY <2>1, DiskError
<1>15. last'.err = "ok" /\ last'.out = "none" /\ disk' = E
  BY <1>8, <1>12, <1>13, <1>14 DEF Act, Answer, Answered
<1>16. n.kind = "dir" /\ n.data = <<>> /\ n.mode = args.mode
  BY <1>12, <1>13 DEF NewDir, DiskNode
<1>17. E = [disk EXCEPT ![q] = n]
  BY <1>13 DEF E
<1> HIDE DEF n
<1>18. DOMAIN E = DOMAIN disk /\ E[q] = n /\ \A s \in DOMAIN disk : s # q => E[s] = disk[s]
  BY <1>12, <1>17
<1>19. DOMAIN E = DOMAIN D \union P
  BY <1>6, <1>10, <1>18
<1>20. \A s \in DOMAIN D : E[s] = D[s]
  BY <1>6, <1>9, <1>10, <1>18 DEF NewOn
<1>21. \A s \in P : E[s].kind = "dir" /\ E[s].data = <<>> /\ (s = q => E[s].mode = args.mode)
  BY <1>6, <1>10, <1>11, <1>16, <1>18
<1>22. Agree(args, D, "ok", "none", E)
  <2>1. Grounded(D)
    BY <1>3 DEF Makeable
  <2> HIDE DEF D, q, b
  <2> QED BY <1>1, <1>4, <1>5, <1>7, <1>19, <1>20, <1>21, <2>1, MkdirAgrees DEF P
<1> QED
  BY <1>15, <1>22

------------------------------------------------------------------------------
(* A call that is refused where its path is resolved.  What leads to a link *)
(* that is not followed leads nowhere.                                      *)
LEMMA LinksBefore ==
  ASSUME NEW D, NEW u \in Seq(STRING), NEW v \in Seq(STRING), LinksOn(D, u) # {}
  PROVE  LinksOn(D, u \o v) # {}
<1> DEFINE w == u \o v
<1>1. PICK i \in 1..Len(u) : IsLink(D, SubSeq(u, 1, i))
  BY DEF LinksOn
<1>2. i \in 0..Len(u) /\ Len(w) = Len(u) + Len(v) /\ Len(u) \in Nat /\ Len(v) \in Nat
  OBVIOUS
<1>3. SubSeq(w, 1, i) = SubSeq(u, 1, i)
  BY <1>2, PrefixOfConcat
<1>4. i \in 1..Len(w)
  BY <1>2
<1> HIDE DEF w
<1>5. i \in LinksOn(D, w)
  BY <1>1, <1>3, <1>4 DEF LinksOn
<1> QED
  BY <1>5 DEF w

LEMMA LoopBeyond ==
  ASSUME NEW D, GoodDisk(D), NEW x \in Seq(STRING), NEW y \in Seq(STRING),
         LinksOn(D, Follow(D, x)) # {}
  PROVE  LinksOn(D, Follow(D, x \o y)) # {}
<1> DEFINE a == FollowOne(D, x)
           b == FollowOne(D, a)
           F == FollowOne(D, b)
<1>1. Follow(D, x) = F
  BY FollowSteps
<1>2. a \in Seq(STRING) /\ b \in Seq(STRING) /\ F \in Seq(STRING)
  BY FollowOneType
<1>3. \A p : LinksOn(D, p) = {} => FollowOne(D, p) = p
  BY DEF FollowOne
<1>4. Follow(D, x \o y) = FollowOne(D, FollowOne(D, FollowOne(D, x \o y)))
  BY FollowSteps
<1>5. LinksOn(D, b) # {}
  <2> HIDE DEF b
  <2> QED BY <1>1, <1>3
<1>6. LinksOn(D, a) # {}
  <2> HIDE DEF a
  <2> QED BY <1>3, <1>5
<1>7. LinksOn(D, x) # {}
  <2>1. LinksOn(D, x) = {} => a = x
    BY <1>3
  <2> HIDE DEF a
  <2> QED BY <1>6, <2>1
<1>8. FollowOne(D, x \o y) = a \o y
  BY <1>7, FollowOneBeyond
<1> HIDE DEF a
<1>9. FollowOne(D, a \o y) = b \o y
  BY <1>2, <1>6, FollowOneBeyond
<1> HIDE DEF b
<1>10. FollowOne(D, b \o y) = F \o y
  BY <1>2, <1>5, FollowOneBeyond
<1> HIDE DEF F
<1>11. Follow(D, x \o y) = F \o y
  BY <1>4, <1>8, <1>9, <1>10
<1> QED
  BY <1>1, <1>2, <1>11, LinksBefore

LEMMA CreatingRefused ==
  ASSUME NEW D, Grounded(D), NEW p \in Seq(STRING), Creating(D, p).err # "ok"
  PROVE  LinksOn(D, Follow(D, p)) # {}
<1>1. GoodDisk(D)
  BY DEF Grounded
<1>2. PICK x, z, v : Missing(D, p, x, z, v)
  BY CreatingCases
<1> DEFINE a == x \o z
<1>3. /\ a \in Seq(STRING) /\ v \in Seq(STRING) /\ Existing(D, a).err = "ELOOP"
      /\ p = a \o v
  BY <1>2 DEF Missing
<1> HIDE DEF a
<1>4. LinksOn(D, Follow(D, a)) # {}
  BY <1>3, NoLinkNoLoop
<1> QED
  BY <1>1, <1>3, <1>4, LoopBeyond

(* What memory refuses, too.                                                *)
Fails(f, r) == r.err # "ok" /\ r.fs = f

Refuses(args, D) ==
  MemoryDoes(args, D).err # "ok" /\ MemoryDoes(args, D).fs = InMemory(D)

LEMMA AgreeRefused ==
  ASSUME NEW args, NEW D, Refuses(args, D), NEW err, err # "ok", NEW out
  PROVE  Agree(args, D, err, out, D)
BY DEF Agree, Refuses

LEMMA FailsIs ==
  ASSUME NEW c \in Checks, ~Passes(c), NEW f, NEW T, NEW k
  PROVE  FirstError(c) # "ok" /\ Fails(f, Result(FirstError(c), f, T, k))
<1>1. FirstError(c) # "ok"
  BY FirstErrorFacts
<1> QED
  BY <1>1, ResultIs DEF Fails

LEMMA ChangesRefuses ==
  ASSUME NEW args, NEW D, NEW r, Changes(args, D, r), Fails(InMemory(D), r)
  PROVE  Refuses(args, D)
BY DEF Changes, Fails, Refuses, Does

LEMMA ReadsRefuses ==
  ASSUME NEW args, NEW D, NEW err, NEW out, Reads(args, D, err, out), err # "ok"
  PROVE  Refuses(args, D)
BY DEF Reads, Refuses, Does

(* What fails where there is no node of the path p.                         *)
LEMMA AbsentRead ==
  ASSUME NEW args, NEW D, NEW p, p = Follow(D, args.path), p \notin DOMAIN D,
         args.op \in {"readFile", "readdir", "stat", "lstat", "access"}
  PROVE  Refuses(args, D)
<1> DEFINE f == InMemory(D)
<1>1. p \notin DOMAIN f.tree
  BY MemoryFacts
<1>2. CASE args.op = "readFile"
  <2>1. Reads(args, D, ReadFile(f, p).err, ReadFile(f, p).data)
    BY <1>2, DoesReadFile
  <2>2. ReadFile(f, p).err # "ok"
    BY MemoryOfFile
  <2> QED BY <2>1, <2>2, ReadsRefuses
<1>3. CASE args.op = "readdir"
  <2>1. Reads(args, D, Readdir(f, p).err, Readdir(f, p).names)
    BY <1>3, DoesReaddir
  <2>2. Readdir(f, p).err # "ok"
    BY MemoryOfDir DEF IsDir
  <2> QED BY <2>1, <2>2, ReadsRefuses
<1>4. CASE args.op \in {"stat", "lstat"}
  <2>1. Reads(args, D, Stat(f, p).err, "none")
    BY <1>4 DEF Reads, MemoryDoes, Does
  <2>2. Stat(f, p).err = FirstError(WalkTo(f.tree, p))
    BY DEF Stat
  <2>3. WalkTo(f.tree, p) \in Checks /\ ~Passes(WalkTo(f.tree, p))
    BY <1>1, WalkChecks
  <2>4. Stat(f, p).err # "ok"
    BY <2>2, <2>3, FirstErrorFacts
  <2> QED BY <2>1, <2>4, ReadsRefuses
<1>5. CASE args.op = "access"
  <2>1. Reads(args, D, Access(f, p, args.mode), "none")
    BY <1>5, DoesAccess
  <2>2. Access(f, p, args.mode) # "ok"
    BY <1>1, AccessFacts
  <2> QED BY <2>1, <2>2, ReadsRefuses
<1> QED
  BY <1>2, <1>3, <1>4, <1>5

LEMMA AbsentRemoved ==
  ASSUME NEW D, NEW p, p \notin DOMAIN D, NEW f, f = InMemory(D)
  PROVE  Fails(f, Unlink(f, p)) /\ Fails(f, Rmdir(f, p))
<1> DEFINE T == f.tree
           c == UnlinkingChecks(T, p)
           w == WalkTo(T, p)
           a == IsFile(T, p)
           b == HasChildren(T, p)
           d == << <<a, "ENOTDIR">>, <<b, "ENOTEMPTY">> >>
           e == w \o d
           u == Unlink(f, p)
<1>1. p \notin DOMAIN T
  BY MemoryFacts
<1>2. Fails(f, u)
  <2>1. u = Result(FirstError(c), f, Without(T, {p}), f.nextIno)
    BY DEF Unlink, UnlinkingChecks
  <2>2. c \in Checks /\ ~Passes(c)
    BY <1>1, UnlinkChecks
  <2> HIDE DEF c, u, T
  <2> QED BY <2>1, <2>2, FailsIs
<1>3. Rmdir(f, p) = IF FirstError(e) = "ok" THEN u ELSE [err |-> FirstError(e), fs |-> f]
  BY DEF Rmdir
<1>4. a \in BOOLEAN /\ b \in BOOLEAN
  BY DEF IsFile, HasChildren
<1> HIDE DEF a, b, u
<1>5. d \in Checks
  <2>1. "ENOTDIR" \in Errno /\ "ENOTEMPTY" \in Errno
    BY DEF Errno
  <2> QED BY <1>4, <2>1, TwoChecks
<1>6. w \in Checks /\ ~Passes(w)
  BY <1>1, WalkChecks
<1> HIDE DEF d, w, T
<1>7. e \in Checks /\ ~Passes(e)
  BY <1>5, <1>6, MoreChecks
<1> HIDE DEF e
<1>8. FirstError(e) # "ok"
  BY <1>7, FirstErrorFacts
<1>9. Fails(f, Rmdir(f, p))
  BY <1>3, <1>8 DEF Fails
<1> QED
  BY <1>2, <1>9 DEF u

LEMMA AbsentRenamed ==
  ASSUME NEW D, NEW o, o \notin DOMAIN D, NEW n, o # n, NEW f, f = InMemory(D)
  PROVE  Fails(f, Rename(f, Text(o), Text(n)))
<1> DEFINE T == f.tree
           a == Text(o)
           b == Text(n)
           c == RenamingChecks(T, a, b)
           M == Moved(T, a.names, b.names)
<1>1. a.names = o /\ b.names = n /\ a # b
  BY DEF Text
<1>2. o \notin DOMAIN T
  BY MemoryFacts
<1>3. Rename(f, a, b) = IF a = b THEN [err |-> "ok", fs |-> f]
                        ELSE Result(FirstError(c), f, M, f.nextIno)
  BY DEF Rename, RenamingChecks
<1> HIDE DEF a, b, M
<1>4. c \in Checks /\ ~Passes(c)
  BY <1>1, <1>2, RenameChecks
<1> HIDE DEF c
<1>5. Fails(f, Rename(f, a, b))
  BY <1>1, <1>3, <1>4, FailsIs
<1> QED
  BY <1>5 DEF a, b

LEMMA AbsentCopied ==
  ASSUME NEW D, NEW p, p \notin DOMAIN D, NEW t, NEW f, f = InMemory(D)
  PROVE  Fails(f, CopyFile(f, p, t))
<1> DEFINE T == f.tree
           a == << <<IsDir(T, p), "EISDIR">>, <<t = <<>>, "EISDIR">> >>
           b == << <<IsDir(T, t), "EISDIR">> >>
           w == WalkTo(T, p)
           u == ParentDir(T, t)
           c == ((w \o a) \o u) \o b
           N == With(T, t, [T[p] EXCEPT !.ino = f.nextIno])
<1>1. p \notin DOMAIN T
  BY MemoryFacts
<1>2. CopyFile(f, p, t) = Result(FirstError(c), f, N, f.nextIno + 1)
  BY DEF CopyFile
<1>3. a \in Checks /\ b \in Checks
  <2>1. IsDir(T, p) \in BOOLEAN /\ IsDir(T, t) \in BOOLEAN /\ (t = <<>>) \in BOOLEAN
        /\ "EISDIR" \in Errno
    BY DEF IsDir, Errno
  <2> QED BY <2>1, NoCheck, TwoChecks
<1>4. u \in Checks /\ w \in Checks /\ ~Passes(w)
  BY <1>1, ParentChecks, WalkChecks
<1> HIDE DEF a, b, u, w, N, T
<1>5. w \o a \in Checks /\ ~Passes(w \o a)
  BY <1>3, <1>4, MoreChecks
<1>6. (w \o a) \o u \in Checks /\ ~Passes((w \o a) \o u)
  BY <1>4, <1>5, MoreChecks
<1>7. c \in Checks /\ ~Passes(c)
  BY <1>3, <1>6, MoreChecks
<1> HIDE DEF c
<1> QED
  BY <1>2, <1>7, FailsIs

LEMMA TruncateFails ==
  ASSUME NEW D, NEW p, NEW n \in Int, p \notin DOMAIN D \/ n < 0, NEW f, f = InMemory(D)
  PROVE  Fails(f, Truncate(f, p, n))
<1> DEFINE T == f.tree
           a == n < 0
           b == IsDir(T, p)
           s == << <<a, "EINVAL">> >>
           w == WalkTo(T, p)
           e == << <<b, "EISDIR">> >>
           c == (s \o w) \o e
           old == T[p].data
           d == [i \in 1..n |-> IF i <= Len(old) THEN old[i] ELSE 0]
           N == With(T, p, Rewritten(T[p], d))
<1>1. p \in DOMAIN T <=> p \in DOMAIN D
  BY MemoryFacts
<1>2. Truncate(f, p, n) = Result(FirstError(c), f, N, f.nextIno)
  BY DEF Truncate
<1>3. a \in BOOLEAN /\ b \in BOOLEAN /\ "EINVAL" \in Errno /\ "EISDIR" \in Errno
  BY DEF IsDir, Errno
<1> HIDE DEF a, b, N, T
<1>4. s \in Checks /\ (Passes(s) <=> ~a) /\ e \in Checks
  BY <1>3, NoCheck
<1>5. w \in Checks /\ (Passes(w) <=> p \in DOMAIN T)
  BY WalkChecks
<1> HIDE DEF s, w, e
<1>6. s \o w \in Checks /\ ~Passes(s \o w)
  <2>1. s \o w \in Checks /\ (Passes(s \o w) <=> Passes(s) /\ Passes(w))
    BY <1>4, <1>5, MoreChecks
  <2> QED BY <1>1, <1>4, <1>5, <2>1 DEF a
<1>7. c \in Checks /\ ~Passes(c)
  BY <1>4, <1>6, MoreChecks
<1> HIDE DEF c
<1> QED
  BY <1>2, <1>7, FailsIs

LEMMA AbsentTime ==
  ASSUME NEW D, NEW p, p \notin DOMAIN D, NEW t, NEW f, f = InMemory(D)
  PROVE  Fails(f, Utimes(f, p, t))
<1> DEFINE w == WalkTo(f.tree, p)
           N == With(f.tree, p, [f.tree[p] EXCEPT !.mtime = t])
<1>1. Utimes(f, p, t) = Result(FirstError(w), f, N, f.nextIno)
  BY DEF Utimes
<1>2. w \in Checks /\ ~Passes(w)
  BY MemoryFacts, WalkChecks
<1> HIDE DEF w, N
<1> QED
  BY <1>1, <1>2, FailsIs

(* Every call but exists that names no node, and makes none, fails in       *)
(* memory; a rename to the same name succeeds.                              *)
LEMMA AbsentRefused ==
  ASSUME NEW args \in CallArgs, NEW D, NEW p, p = Follow(D, args.path), p \notin DOMAIN D,
         args.op \notin {"exists", "writeFile", "appendFile", "mkdir"},
         args.op = "rename" => p # Follow(D, args.to)
  PROVE  Refuses(args, D)
<1> DEFINE f == InMemory(D)
           t == Follow(D, args.to)
<1>1. CASE args.op \in {"readFile", "readdir", "stat", "lstat", "access"}
  BY <1>1, AbsentRead
<1>2. CASE args.op = "unlink"
  BY <1>2, DoesUnlink, AbsentRemoved, ChangesRefuses
<1>3. CASE args.op = "rmdir"
  BY <1>3, DoesRmdir, AbsentRemoved, ChangesRefuses
<1>4. CASE args.op = "rename"
  <2>1. Changes(args, D, Rename(f, Text(p), Text(t)))
    BY <1>4, DoesRename
  <2>2. Fails(f, Rename(f, Text(p), Text(t)))
    BY <1>4, AbsentRenamed
  <2> QED BY <2>1, <2>2, ChangesRefuses
<1>5. CASE args.op = "copyFile"
  <2>1. Changes(args, D, CopyFile(f, p, t))
    BY <1>5, DoesCopyFile
  <2>2. Fails(f, CopyFile(f, p, t))
    BY AbsentCopied
  <2> QED BY <2>1, <2>2, ChangesRefuses
<1>6. CASE args.op = "truncate"
  <2>1. Changes(args, D, Truncate(f, p, args.n))
    BY <1>6, DoesTruncate
  <2>2. Fails(f, Truncate(f, p, args.n))
    BY TruncateFails DEF CallArgs
  <2> QED BY <2>1, <2>2, ChangesRefuses
<1>7. CASE args.op = "utimes"
  BY <1>7, DoesUtimes, AbsentTime, ChangesRefuses
<1>8. args.op \in Ops
  BY DEF CallArgs
<1> QED
  BY <1>1, <1>2, <1>3, <1>4, <1>5, <1>6, <1>7, <1>8 DEF Ops

(* What is to be made behind a link that is not followed.                   *)
LEMMA BehindRefused ==
  ASSUME NEW args \in CallArgs, args.op \in {"writeFile", "appendFile", "mkdir"},
         NEW D, Grounded(D), Creating(D, args.path).err # "ok",
         ~IsLink(D, Follow(D, args.path)), args.op = "mkdir" => Makeable(args, D)
  PROVE  Refuses(args, D)
<1> DEFINE p == Follow(D, args.path)
           f == InMemory(D)
<1>1. GoodDisk(D) /\ args.path \in Seq(STRING)
  BY DEF Grounded, CallArgs
<1>2. p \in Seq(STRING) /\ LinksOn(D, p) # {}
  BY <1>1, CreatingRefused, FollowType
<1> HIDE DEF p
<1>3. p # <<>> /\ ~IsDir(D, Front(p))
  BY <1>1, <1>2, BehindLink DEF p
<1>4. CASE args.op = "mkdir"
  <2>1. PICK r : Changes(args, D, r) /\ MadeDirs(D, p, args.mode, args.recursive, r)
    BY <1>4, MkdirInMemory DEF p
  <2>2. \E s \in PrefixesOf(p) \cap DOMAIN D : ~IsDir(D, s)
    <3>1. PICK i \in 1..Len(p) : IsLink(D, SubSeq(p, 1, i))
      BY <1>2 DEF LinksOn
    <3> DEFINE s == SubSeq(p, 1, i)
    <3>2. i \in 0..Len(p)
      BY <1>2
    <3>3. s \in PrefixesOf(p)
      BY <3>2 DEF PrefixesOf
    <3>4. s \in DOMAIN D /\ ~IsDir(D, s)
      BY <3>1 DEF IsLink, IsDir
    <3> HIDE DEF s
    <3> QED BY <3>3, <3>4
  <2>3. ~CanMake(D, p, args.recursive)
    BY <1>3, <2>2 DEF CanMake
  <2>4. Fails(f, r)
    BY <2>1, <2>3 DEF MadeDirs, Fails
  <2> QED BY <2>1, <2>4, ChangesRefuses
<1>5. CASE args.op \in {"writeFile", "appendFile"}
  <2> DEFINE d == IF args.op = "appendFile" THEN f.tree[p].data \o args.data ELSE args.data
             n == IF p \in DOMAIN D THEN Rewritten(f.tree[p], d) ELSE File(0, args.data)
  <2>1. \E r : Changes(args, D, r) /\ PutsIn(f, p, n, CanWrite(D, p), r)
    BY <1>2, <1>5, WritesAre DEF p
  <2> HIDE DEF n
  <2>2. PICK r : Changes(args, D, r) /\ PutsIn(f, p, n, CanWrite(D, p), r)
    BY <2>1
  <2>3. ~CanWrite(D, p)
    BY <1>3 DEF CanWrite
  <2>4. Fails(f, r)
    BY <2>2, <2>3 DEF PutsIn, Fails
  <2> QED BY <2>2, <2>4, ChangesRefuses
<1> QED
  BY <1>4, <1>5

(* exists answers, if it is no link that is there, whether there is a node. *)
LEMMA ExistsAgrees ==
  ASSUME NEW args \in CallArgs, args.op = "exists", NEW D, GoodDisk(D),
         ~IsLink(D, Follow(D, args.path)), NEW out,
         out = (Existing(D, args.path).err = "ok")
  PROVE  Agree(args, D, "ok", out, D)
<1> DEFINE p == Follow(D, args.path)
           f == InMemory(D)
           w == WalkTo(f.tree, p)
           mout == (Stat(f, p).err = "ok")
<1>1. args.path \in Seq(STRING)
  BY DEF CallArgs
<1>2. Existing(D, args.path).err = "ok" <=> p \in DOMAIN D
  <2>1. Existing(D, args.path).err = FirstError(Lookup(D, p))
    BY DEF Existing
  <2>2. p \in Seq(STRING)
    BY <1>1, FollowType
  <2>3. ~IsLink(D, p)
    OBVIOUS
  <2> HIDE DEF p
  <2>4. FirstError(Lookup(D, p)) = "ok" <=> Passes(Lookup(D, p))
    BY LookupChecks, DiskError
  <2>5. Passes(Lookup(D, p)) <=> p \in DOMAIN D
    BY <2>2, <2>3, LookupFinds
  <2> QED BY <2>1, <2>4, <2>5
<1>3. mout <=> p \in DOMAIN D
  <2>1. Stat(f, p).err = FirstError(w)
    BY DEF Stat
  <2>2. w \in Checks /\ (Passes(w) <=> p \in DOMAIN D)
    BY MemoryFacts, WalkChecks
  <2> HIDE DEF w, p, f
  <2>3. FirstError(w) = "ok" <=> p \in DOMAIN D
    BY <2>2, FirstErrorFacts
  <2> QED BY <2>1, <2>3
<1>4. Reads(args, D, "ok", mout)
  BY DEF Reads, MemoryDoes, Does
<1> HIDE DEF p, f
<1>5. out = mout
  BY <1>2, <1>3
<1> HIDE DEF mout
<1> QED
  BY <1>4, <1>5, AgreeReading

(* What the step answers.                                                   *)
LEMMA ResolveFirstAnswers ==
  ASSUME GoodCall(call), ResolveFirst, call' = Idle,
         NEW r, r = Resolve(disk, call.args.op, call.args.path)
  PROVE  \/ /\ call.args.op = "truncate" /\ call.args.n < 0
            /\ last'.err = "EINVAL" /\ last'.out = "none"
         \/ /\ call.args.op = "exists"
            /\ last'.err = "ok" /\ last'.out = (r.err = "ok")
         \/ /\ call.args.op # "exists" /\ ~(call.args.op = "truncate" /\ call.args.n < 0)
            /\ r.err # "ok" /\ last'.err = r.err /\ last'.out = "none"
<1> DEFINE args == call.args
           pc == IF args.op \in {"rename", "copyFile"} THEN "second" ELSE "resolved"
           next == [call EXCEPT !.pc = pc, !.q = r.path]
           a == args.op = "truncate" /\ args.n < 0
<1>1. CASE a
  BY <1>1 DEF ResolveFirst, Answer, Answered
<1>2. CASE ~a /\ args.op = "exists"
  BY <1>2 DEF ResolveFirst, Return, Answered
<1>3. CASE ~a /\ args.op # "exists"
  <2>1. next.pc # "idle"
    <3>1. DOMAIN call = {"pc", "args", "q", "q2", "size", "lost", "got", "alone", "start"}
      BY DEF GoodCall, CallOf
    <3> QED BY <3>1
  <2>2. IF r.err # "ok" THEN Answer(r.err) ELSE call' = next /\ UNCHANGED last
    BY <1>3, Zenon DEF ResolveFirst
  <2> HIDE DEF next
  <2>3. r.err # "ok" /\ Answer(r.err)
    BY <2>1, <2>2, IdleIs
  <2> QED BY <1>3, <2>3 DEF Answer, Answered
<1> QED
  BY <1>1, <1>2, <1>3

LEMMA ResolveFirstAlike ==
  ASSUME RealInv, AloneInv, CalmInv, Undisturbed, ResolveFirst
  PROVE  AnswersAlike
<1> SUFFICES ASSUME ~Differs(call.args, call.start, last'.err)
             PROVE  Agree(call.args, call.start, last'.err, last'.out, disk')
  BY DEF AnswersAlike
<1> DEFINE D == call.start
           args == call.args
           p == Follow(D, args.path)
           r == Resolve(disk, args.op, args.path)
<1>1. call.pc = "called" /\ call.alone /\ call' = Idle /\ GoodCall(call) /\ disk' = disk
  BY ResolveFirstFacts DEF Undisturbed, Answers
<1>2. disk = D /\ GoodDisk(D) /\ args \in CallArgs /\ args.path \in Seq(STRING)
  BY <1>1, ResolvedAlone DEF GoodCall, CallOf, CallArgs
<1>3. Grounded(D) /\ ~IsLink(D, p)
  BY <1>2, DiffersNot DEF Differs
<1>4. CASE args.op = "truncate" /\ args.n < 0
  <2>1. last'.err = "EINVAL"
    BY <1>1, <1>4, ResolveFirstAnswers
  <2>2. Changes(args, D, Truncate(InMemory(D), p, args.n))
    BY <1>4, DoesTruncate
  <2>3. Fails(InMemory(D), Truncate(InMemory(D), p, args.n))
    BY <1>2, <1>4, TruncateFails DEF CallArgs
  <2>4. Refuses(args, D)
    BY <2>2, <2>3, ChangesRefuses
  <2> QED BY <1>1, <1>2, <2>1, <2>4, AgreeRefused
<1>5. CASE args.op = "exists"
  <2>1. r = Existing(D, args.path)
    BY <1>2, <1>5 DEF Resolve
  <2> HIDE DEF r
  <2>2. last'.err = "ok" /\ last'.out = (r.err = "ok")
    BY <1>1, <1>5, ResolveFirstAnswers DEF r
  <2>3. Agree(args, D, "ok", last'.out, D)
    BY <1>2, <1>3, <1>5, <2>1, <2>2, ExistsAgrees
  <2> QED BY <1>1, <1>2, <2>2, <2>3
<1>6. CASE args.op # "exists" /\ ~(args.op = "truncate" /\ args.n < 0)
  <2>1. r.err # "ok" /\ last'.err = r.err
    BY <1>1, <1>6, ResolveFirstAnswers
  <2>2. CASE args.op \in {"writeFile", "appendFile", "mkdir"}
    <3>1. Creating(D, args.path).err # "ok"
      BY <1>2, <2>1, <2>2 DEF Resolve
    <3>2. args.op = "mkdir" => Makeable(args, D)
      BY <1>2, DiffersMkdir
    <3>3. Refuses(args, D)
      BY <1>2, <1>3, <2>2, <3>1, <3>2, BehindRefused
    <3> QED BY <1>1, <1>2, <2>1, <3>3, AgreeRefused
  <2>3. CASE args.op \notin {"writeFile", "appendFile", "mkdir"}
    <3>1. r = Existing(D, args.path)
      BY <1>2, <2>3 DEF Resolve
    <3> HIDE DEF r
    <3>2. r.err = FirstError(Lookup(D, p)) /\ p \in Seq(STRING)
      BY <1>2, <3>1, FollowType DEF Existing
    <3>3. args.op = "rename" => p # Follow(D, args.to) \/ p \in DOMAIN D
      BY DEF Differs
    <3> HIDE DEF p
    <3>4. p \notin DOMAIN D
      BY <1>2, <1>3, <2>1, <3>2, LookupChecks, LookupFinds, DiskError
    <3>5. Refuses(args, D)
      BY <1>2, <1>6, <2>3, <3>3, <3>4, AbsentRefused DEF p
    <3> QED BY <1>1, <1>2, <2>1, <3>5, AgreeRefused
  <2> QED BY <2>2, <2>3
<1> QED
  BY <1>4, <1>5, <1>6

------------------------------------------------------------------------------
LEMMA EveryAnswerAlike ==
  ASSUME RealInv, AloneInv, CalmInv, [Next]_vars, Undisturbed
  PROVE  AnswersAlike
<1>1. CallStep
  BY AnswersOf DEF Undisturbed
<1>2. CASE ResolveFirst \/ ResolveSecond
  BY <1>2, ResolveFirstAlike, ResolveSecondAlike
<1>3. CASE OpenRead \/ Read
  BY <1>3, OpenReadAlike, ReadAlike
<1>4. CASE OpenWrite \/ Flush
  BY <1>4, OpenWriteAlike, FlushAlike
<1>5. CASE FlushFails
  BY <1>5 DEF FlushFails, Answered, AnswersAlike
<1>6. CASE ListDir \/ Status \/ FileSize \/ AccessBits
  BY <1>6, ListDirAlike, StatusAlike, FileSizeAlike, AccessBitsAlike
<1>7. CASE RemoveNode \/ FindMissing \/ MakeDir \/ Chmod
  BY <1>7, RemoveNodeAlike, FindMissingAlike, MakeDirAlike, ChmodAlike
<1>8. CASE RenameNode \/ CopyNode \/ Resize \/ SetTime
  BY <1>8, RenameNodeAlike, CopyNodeAlike, ResizeAlike, SetTimeAlike
<1> QED
  BY <1>1, <1>2, <1>3, <1>4, <1>5, <1>6, <1>7, <1>8 DEF CallStep

(* Scripts see no difference between the backends: a call that no one       *)
(* interferes with (all of vfs_real.cpp, from resolve() to its answer)      *)
(* succeeds if and only if the same call of vfs_mem.cpp does on what was on *)
(* the disk when it began, answers the same, and leaves the same nodes and  *)
(* contents; calls refused at the resolution and exists are compared, too.  *)
(* It says nothing of a full disk, of where Differs and Looks say so, and   *)
(* of paths that go through more than three links.                          *)
THEOREM SameAsInMemory == Spec => SameAsMemFS
<1>1. Init => RealInv /\ AloneInv /\ CalmInv
  BY RealInvInit DEF Init, AloneInv, CalmInv
<1>2. RealInv /\ AloneInv /\ CalmInv /\ [Next]_vars => RealInv' /\ AloneInv' /\ CalmInv'
  BY RealInvNext, AloneInvNext, CalmInvNext
<1>3. RealInv /\ AloneInv /\ CalmInv /\ [Next]_vars =>
        [Undisturbed /\ ~last'.full /\ ~Differs(call.args, call.start, last'.err) =>
           LET memory == MemoryDoes(call.args, call.start)
           IN  /\ last'.err = "ok" <=> memory.err = "ok"
               /\ last'.err = "ok" => last'.out = memory.out
               /\ Looks(call.args, call.start, InMemory(disk').tree)
                    = Looks(call.args, call.start, memory.fs.tree)]_vars
  BY EveryAnswerAlike DEF AnswersAlike, Agree
<1> QED
  BY <1>1, <1>2, <1>3, PTL DEF Spec, SameAsMemFS
==============================================================================
