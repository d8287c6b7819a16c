----------------------------- MODULE RealFS_proofs -----------------------------
(***************************************************************************)
(* Proofs about RealFSBackend, for any disk, links, paths and contents,    *)
(* and for whatever the host does between the steps of a call.             *)
(***************************************************************************)
EXTENDS RealFS, MemFS_proofs

------------------------------------------------------------------------------
(* The early returns.                                                      *)

Code == Errno \union {"ELOOP", "ENOTSUP"}

DiskChecks == ChecksOf(Code)

LEMMA DiskError ==
  ASSUME NEW c \in DiskChecks
  PROVE  FirstError(c) = "ok" <=> Passes(c)
<1>1. "ok" \notin Code
  BY DEF Code, Errno
<1> QED
  BY <1>1, FirstErrorOf DEF DiskChecks

LEMMA OneDiskCheck ==
  ASSUME NEW a \in BOOLEAN, NEW e \in Code
  PROVE  << <<a, e>> >> \in DiskChecks /\ (Passes(<< <<a, e>> >>) <=> ~a)
BY NoCheckOf DEF DiskChecks

LEMMA MoreDiskChecks ==
  ASSUME NEW c \in DiskChecks, NEW d \in DiskChecks
  PROVE  c \o d \in DiskChecks /\ (Passes(c \o d) <=> Passes(c) /\ Passes(d))
BY MoreChecksOf DEF DiskChecks

LEMMA TwoDiskChecks ==
  ASSUME NEW a \in BOOLEAN, NEW e \in Code, NEW b \in BOOLEAN, NEW h \in Code
  PROVE  /\ << <<a, e>>, <<b, h>> >> \in DiskChecks
         /\ Passes(<< <<a, e>>, <<b, h>> >>) <=> ~a /\ ~b
<1> DEFINE x == << <<a, e>> >>
           y == << <<b, h>> >>
<1>1. << <<a, e>>, <<b, h>> >> = x \o y
  OBVIOUS
<1>2. x \in DiskChecks /\ (Passes(x) <=> ~a) /\ y \in DiskChecks /\ (Passes(y) <=> ~b)
  BY OneDiskCheck
<1> HIDE DEF x, y
<1>3. x \o y \in DiskChecks /\ (Passes(x \o y) <=> Passes(x) /\ Passes(y))
  BY <1>2, MoreDiskChecks
<1> QED
  BY <1>1, <1>2, <1>3

LEMMA ThreeDiskChecks ==
  ASSUME NEW a \in BOOLEAN, NEW e \in Code, NEW b \in BOOLEAN, NEW h \in Code,
         NEW c \in BOOLEAN, NEW k \in Code
  PROVE  /\ << <<a, e>>, <<b, h>>, <<c, k>> >> \in DiskChecks
         /\ Passes(<< <<a, e>>, <<b, h>>, <<c, k>> >>) <=> ~a /\ ~b /\ ~c
<1> DEFINE x == << <<a, e>>, <<b, h>> >>
           y == << <<c, k>> >>
<1>1. << <<a, e>>, <<b, h>>, <<c, k>> >> = x \o y
  OBVIOUS
<1>2. x \in DiskChecks /\ (Passes(x) <=> ~a /\ ~b)
  BY TwoDiskChecks
<1>3. y \in DiskChecks /\ (Passes(y) <=> ~c)
  BY OneDiskCheck
<1> HIDE DEF x, y
<1>4. x \o y \in DiskChecks /\ (Passes(x \o y) <=> Passes(x) /\ Passes(y))
  BY <1>2, <1>3, MoreDiskChecks
<1> QED
  BY <1>1, <1>2, <1>3, <1>4

LEMMA CodesAre ==
  {"EACCES", "EINVAL", "EISDIR", "ENOTDIR", "ENOENT", "EEXIST", "ENOTEMPTY", "ELOOP",
   "ENOTSUP"} \subseteq Code
BY DEF Code, Errno

LEMMA LookupChecks ==
  ASSUME NEW D, NEW q
  PROVE  /\ Lookup(D, q) \in DiskChecks
         /\ Passes(Lookup(D, q)) <=>
              /\ LinksOn(D, q) = {} /\ q \in DOMAIN D
              /\ \A i \in 0..(Len(q) - 1) : ~IsFile(D, SubSeq(q, 1, i))
<1> DEFINE a == LinksOn(D, q) # {}
           b == \E i \in 0..(Len(q) - 1) : IsFile(D, SubSeq(q, 1, i))
           c == q \notin DOMAIN D
<1>1. a \in BOOLEAN /\ b \in BOOLEAN /\ c \in BOOLEAN
  OBVIOUS
<1>2. Lookup(D, q) = << <<a, "ELOOP">>, <<b, "ENOTDIR">>, <<c, "ENOENT">> >>
  BY DEF Lookup
<1> HIDE DEF a, b, c
<1>3. Lookup(D, q) \in DiskChecks /\ (Passes(Lookup(D, q)) <=> ~a /\ ~b /\ ~c)
  BY <1>1, <1>2, CodesAre, ThreeDiskChecks
<1> QED
  BY <1>3 DEF a, b, c

LEMMA InDirChecks ==
  ASSUME NEW D, NEW q
  PROVE  /\ InDir(D, q) \in DiskChecks
         /\ Passes(InDir(D, q)) <=>
              (q # <<>> => Passes(Lookup(D, Front(q))) /\ ~IsFile(D, Front(q)))
<1>1. CASE q = <<>>
  <2>1. InDir(D, q) = <<>>
    BY <1>1 DEF InDir
  <2>2. <<>> \in Seq(BOOLEAN \X Code) /\ DOMAIN <<>> = {}
    BY EmptySeq
  <2> QED BY <1>1, <2>1, <2>2 DEF DiskChecks, ChecksOf, Passes
<1>2. CASE q # <<>>
  <2>1. IsFile(D, Front(q)) \in BOOLEAN
    BY DEF IsFile
  <2> DEFINE b == << <<IsFile(D, Front(q)), "ENOTDIR">> >>
  <2>2. b \in DiskChecks /\ (Passes(b) <=> ~IsFile(D, Front(q)))
    BY <2>1, CodesAre, OneDiskCheck
  <2>3. InDir(D, q) = Lookup(D, Front(q)) \o b
    BY <1>2 DEF InDir
  <2> HIDE DEF b
  <2> QED BY <1>2, <2>2, <2>3, LookupChecks, MoreDiskChecks
<1> QED
  BY <1>1, <1>2

------------------------------------------------------------------------------
(* Disks.                                                                  *)

LEMMA GoodDiskFacts ==
  ASSUME NEW D, GoodDisk(D)
  PROVE  /\ Branching(D) /\ DOMAIN D \subseteq Seq(STRING) /\ D = [p \in DOMAIN D |-> D[p]]
         /\ \A p \in DOMAIN D : /\ D[p] \in DiskNodes
                                /\ D[p].kind \in {"file", "dir", "link"}
                                /\ D[p].data \in Seq(0..255)
                                /\ D[p].to \in Seq(STRING)
         /\ <<>> \in DOMAIN D => D[<<>>].kind # "link"
<1>1. DOMAIN D \subseteq Seq(STRING) /\ D \in [DOMAIN D -> DiskNodes]
      /\ (<<>> \in DOMAIN D => D[<<>>].kind # "link")
  BY DEF GoodDisk
<1>2. Branching(D)
  BY <1>1, AboveIsBranching DEF GoodDisk
<1>3. \A p \in DOMAIN D : D[p] \in DiskNodes
  BY <1>1
<1>4. \A n \in DiskNodes : /\ n.kind \in {"file", "dir", "link"}
                           /\ n.data \in Seq(0..255) /\ n.to \in Seq(STRING)
  BY DEF DiskNodes
<1>5. D = [p \in DOMAIN D |-> D[p]]
  BY <1>1
<1> QED
  BY <1>1, <1>2, <1>3, <1>4, <1>5

LEMMA BranchingIsGoodDisk ==
  ASSUME NEW D, Branching(D), D = [p \in DOMAIN D |-> D[p]],
         \A p \in DOMAIN D : D[p] \in DiskNodes,
         <<>> \in DOMAIN D => D[<<>>].kind # "link"
  PROVE  GoodDisk(D)
<1>1. DOMAIN D \subseteq Seq(STRING)
  BY DEF Branching
<1>2. D \in [DOMAIN D -> DiskNodes]
  OBVIOUS
<1> QED
  BY <1>1, <1>2, AboveIsBranching DEF GoodDisk

(* All that leads to p is there.                                            *)
LeadTo(D, p) == \A s \in Seq(STRING) : IsPrefix(s, p) /\ s # p => IsDir(D, s)

LEMMA PutDisk ==
  ASSUME NEW D, GoodDisk(D), NEW p \in Seq(STRING), NEW n \in DiskNodes, LeadTo(D, p),
         IsDir(D, p) => n.kind = "dir", p = <<>> => n.kind # "link"
  PROVE  GoodDisk(With(D, p, n))
<1> DEFINE U == With(D, p, n)
<1>1. DOMAIN U = DOMAIN D \union {p} /\ (\A q \in DOMAIN U : U[q] = IF q = p THEN n ELSE D[q])
      /\ U = [q \in DOMAIN U |-> U[q]]
  BY DEF With
<1>2. Branching(U)
  BY GoodDiskFacts, PutBranching DEF LeadTo
<1> HIDE DEF U
<1>3. \A q \in DOMAIN U : U[q] \in DiskNodes
  BY <1>1, GoodDiskFacts
<1>4. <<>> \in DOMAIN U => U[<<>>].kind # "link"
  BY <1>1, GoodDiskFacts
<1>5. GoodDisk(U)
  BY <1>1, <1>2, <1>3, <1>4, BranchingIsGoodDisk
<1> QED
  BY <1>5 DEF U

(* A node changes, but not its kind.                                        *)
LEMMA ChangeDisk ==
  ASSUME NEW D, GoodDisk(D), NEW p \in DOMAIN D, NEW n \in DiskNodes, n.kind = D[p].kind
  PROVE  /\ GoodDisk([D EXCEPT ![p] = n])
         /\ \A q \in DOMAIN D : [D EXCEPT ![p] = n][q].kind = D[q].kind
         /\ DOMAIN [D EXCEPT ![p] = n] = DOMAIN D
         /\ [D EXCEPT ![p] = n][p] = n
         /\ \A q \in DOMAIN D : q # p => [D EXCEPT ![p] = n][q] = D[q]
<1>1. Branching(D) /\ p \in Seq(STRING) /\ D = [q \in DOMAIN D |-> D[q]]
  BY GoodDiskFacts
<1>2. [D EXCEPT ![p] = n] = With(D, p, n)
  <2>1. DOMAIN D \union {p} = DOMAIN D
    OBVIOUS
  <2> QED BY <1>1, <2>1 DEF With
<1>3. LeadTo(D, p)
  BY <1>1 DEF LeadTo, Branching
<1>4. (IsDir(D, p) => n.kind = "dir") /\ (p = <<>> => n.kind # "link")
  BY GoodDiskFacts DEF IsDir
<1>5. GoodDisk(With(D, p, n))
  BY <1>1, <1>3, <1>4, PutDisk
<1> QED
  BY <1>1, <1>2, <1>5

LEMMA RemoveDisk ==
  ASSUME NEW D, GoodDisk(D), NEW p \in DOMAIN D, ~(IsDir(D, p) /\ HasChildren(D, p))
  PROVE  GoodDisk(Without(D, {p}))
<1> DEFINE U == Without(D, {p})
<1>1. DOMAIN U = DOMAIN D \ {p} /\ (\A q \in DOMAIN U : U[q] = D[q])
      /\ U = [q \in DOMAIN U |-> U[q]]
  BY DEF Without
<1>2. \A q \in DOMAIN D, s \in {p} : IsPrefix(s, q) => q \in {p}
  BY GoodDiskFacts, NothingBelow
<1>3. Branching(U)
  BY <1>2, GoodDiskFacts, RemoveBranching
<1> HIDE DEF U
<1>4. \A q \in DOMAIN U : U[q] \in DiskNodes
  BY <1>1, GoodDiskFacts
<1>5. <<>> \in DOMAIN U => U[<<>>].kind # "link"
  BY <1>1, GoodDiskFacts
<1>6. GoodDisk(U)
  BY <1>1, <1>3, <1>4, <1>5, BranchingIsGoodDisk
<1> QED
  BY <1>6 DEF U

LEMMA NewNodes ==
  /\ NewDir \in DiskNodes /\ NewDir.kind = "dir"
  /\ NewFile \in DiskNodes /\ NewFile.kind = "file" /\ NewFile.data = <<>>
BY DEF NewDir, NewFile, DiskNode, DiskNodes, RWX, Mode, Now

(* Directories are made where directories lead, old ones or new ones.       *)
LEMMA AddDirsDisk ==
  ASSUME NEW D, GoodDisk(D), NEW P \in SUBSET Seq(STRING),
         \A p \in P, s \in Seq(STRING) : IsPrefix(s, p) /\ s # p => s \in P \/ IsDir(D, s)
  PROVE  GoodDisk(AddDirs(D, P))
<1> DEFINE U == AddDirs(D, P)
<1>1. /\ DOMAIN U = DOMAIN D \union P
      /\ (\A q \in DOMAIN U : U[q] = IF q \in P THEN NewDir ELSE D[q])
      /\ U = [q \in DOMAIN U |-> U[q]]
  BY DEF AddDirs
<1> HIDE DEF U
<1>2. ASSUME NEW s \in Seq(STRING), s \in P \/ IsDir(D, s) PROVE IsDir(U, s)
  BY <1>1, <1>2, NewNodes DEF IsDir
<1>3. ASSUME NEW q \in DOMAIN U, NEW s \in Seq(STRING), IsPrefix(s, q), s # q
      PROVE  IsDir(U, s)
  <2>1. CASE q \in P
    BY <1>2, <1>3, <2>1
  <2>2. CASE q \notin P
    <3>1. IsDir(D, s)
      BY <1>1, <1>3, <2>2, GoodDiskFacts DEF Branching
    <3> QED BY <1>2, <3>1
  <2> QED BY <2>1, <2>2
<1>4. DOMAIN U \subseteq Seq(STRING)
  BY <1>1, GoodDiskFacts
<1>5. Branching(U)
  BY <1>3, <1>4 DEF Branching
<1>6. \A q \in DOMAIN U : U[q] \in DiskNodes
  BY <1>1, GoodDiskFacts, NewNodes
<1>7. <<>> \in DOMAIN U => U[<<>>].kind # "link"
  BY <1>1, GoodDiskFacts, NewNodes
<1>8. GoodDisk(U)
  BY <1>1, <1>5, <1>6, <1>7, BranchingIsGoodDisk
<1> QED
  BY <1>8 DEF U

LEMMA RebasedSelf ==
  ASSUME NEW a \in Seq(STRING), NEW p \in Seq(STRING), IsPrefix(a, p)
  PROVE  Rebased(p, a, a) = p
<1> DEFINE r == Rebased(p, a, a)
<1>1. /\ r \in Seq(STRING) /\ Len(r) = Len(p)
      /\ \A i \in 1..Len(a) : r[i] = a[i]
      /\ \A i \in 1..(Len(p) - Len(a)) : r[Len(a) + i] = p[Len(a) + i]
  <2>1. /\ r \in Seq(STRING) /\ Len(r) = Len(a) + (Len(p) - Len(a))
        /\ \A i \in 1..Len(a) : r[i] = a[i]
        /\ \A i \in 1..(Len(p) - Len(a)) : r[Len(a) + i] = p[Len(a) + i]
    <3>1. IsRebased(r, p, a, a)
      BY RebasedFacts
    <3> QED BY <3>1 DEF IsRebased
  <2>2. Len(a) \in Nat /\ Len(p) \in Nat
    OBVIOUS
  <2> HIDE DEF r
  <2> QED BY <2>1, <2>2
<1> HIDE DEF r
<1>2. Len(a) \in Nat /\ Len(p) \in Nat /\ Len(a) <= Len(p) /\ \A i \in 1..Len(a) : a[i] = p[i]
  BY PrefixFacts
<1>3. ASSUME NEW i \in 1..Len(p) PROVE r[i] = p[i]
  <2>1. CASE i <= Len(a)
    BY <1>1, <1>2, <2>1
  <2>2. CASE ~(i <= Len(a))
    <3>1. i - Len(a) \in 1..(Len(p) - Len(a)) /\ Len(a) + (i - Len(a)) = i
      BY <1>2, <2>2
    <3> QED BY <1>1, <3>1
  <2> QED BY <2>1, <2>2
<1>4. r = p
  BY <1>1, <1>2, <1>3, SeqEqual
<1> QED
  BY <1>4 DEF r

LEMMA MovedNowhere ==
  ASSUME NEW D, GoodDisk(D), NEW p \in DOMAIN D
  PROVE  Moved(D, p, p) = D
<1>1. DOMAIN D \subseteq Seq(STRING) /\ p \in Seq(STRING) /\ D = [q \in DOMAIN D |-> D[q]]
  BY GoodDiskFacts
<1>2. \A q \in DOMAIN D : IsPrefix(p, q) => Rebased(q, p, p) = q
  BY <1>1, RebasedSelf
<1>3. ~IsStrictPrefix(p, p)
  BY DEF IsStrictPrefix
<1> DEFINE sub == Below(D, p)
           to == {Rebased(q, p, p) : q \in sub}
<1>4. sub \subseteq DOMAIN D /\ \A q \in sub : Rebased(q, p, p) = q
  BY <1>2 DEF Below
<1>5. to = sub
  BY <1>4
<1>6. (DOMAIN D \ sub) \union to = DOMAIN D
  BY <1>4, <1>5
<1>7. Moved(D, p, p) = [q \in (DOMAIN D \ sub) \union to |->
                          IF IsPrefix(p, q) THEN D[Rebased(q, p, p)] ELSE D[q]]
  BY <1>3 DEF Moved
<1>8. \A q \in DOMAIN D : (IF IsPrefix(p, q) THEN D[Rebased(q, p, p)] ELSE D[q]) = D[q]
  BY <1>2
<1> HIDE DEF sub, to
<1>9. Moved(D, p, p) = [q \in DOMAIN D |->
                          IF IsPrefix(p, q) THEN D[Rebased(q, p, p)] ELSE D[q]]
  BY <1>6, <1>7
<1> QED
  BY <1>1, <1>8, <1>9

LEMMA NoNodeAbove ==
  ASSUME NEW s \in Seq(STRING), NEW t \in Seq(STRING), s # t,
         ~IsStrictPrefix(s, t), ~IsStrictPrefix(t, s)
  PROVE  s # <<>> /\ t # <<>>
<1>1. IsPrefix(<<>>, s) /\ IsPrefix(<<>>, t)
  BY PrefixIsSubSeq
<1> QED
  BY <1>1 DEF IsStrictPrefix

LEMMA MovedDisk ==
  ASSUME NEW D, GoodDisk(D), NEW old \in DOMAIN D, NEW new \in Seq(STRING),
         ~IsStrictPrefix(old, new), ~IsStrictPrefix(new, old), LeadTo(D, new),
         old # new => ~(IsDir(D, new) /\ HasChildren(D, new))
  PROVE  GoodDisk(Moved(D, old, new))
<1>1. CASE old = new
  BY <1>1, MovedNowhere
<1>2. CASE old # new
  <2> DEFINE U == Moved(D, old, new)
  <2>1. old \in Seq(STRING) /\ Branching(D)
    BY GoodDiskFacts
  <2>2. old # <<>> /\ new # <<>>
    BY <1>2, <2>1, NoNodeAbove
  <2>3. Branching(Moved(D, old, new))
    BY <1>2, <2>1, MovedBranching DEF LeadTo
  <2>4. IsMoved(D, old, new, Moved(D, old, new))
    BY <1>2, <2>1, MovedNodes
  <2> HIDE DEF U
  <2>5. /\ U = [p \in DOMAIN U |-> U[p]]
        /\ DOMAIN U = Staying(D, old, new) \union MovedTo(D, old, new)
        /\ \A p \in Staying(D, old, new) : U[p] = D[p]
        /\ \A q \in Below(D, old) : U[Rebased(q, old, new)] = D[q]
    BY <2>4 DEF IsMoved, U
  <2>6. ASSUME NEW q \in Below(D, old)
        PROVE  q \in DOMAIN D /\ Rebased(q, old, new) # <<>>
    <3>1. q \in DOMAIN D /\ IsPrefix(old, q) /\ q \in Seq(STRING)
      BY GoodDiskFacts DEF Below
    <3>2. IsPrefix(new, Rebased(q, old, new))
      BY <2>1, <3>1, RebasedFacts
    <3> QED BY <2>2, <3>1, <3>2, NotBelowRoot
  <2>7. ASSUME NEW p \in DOMAIN U
        PROVE  U[p] \in DiskNodes /\ (p = <<>> => U[p].kind # "link")
    <3>1. CASE p \in Staying(D, old, new)
      BY <2>5, <3>1, GoodDiskFacts DEF Staying
    <3>2. CASE p \in MovedTo(D, old, new)
      <4>1. PICK q \in Below(D, old) : p = Rebased(q, old, new)
        BY <3>2 DEF MovedTo
      <4> QED BY <2>5, <2>6, <4>1, GoodDiskFacts
    <3> QED BY <2>5, <3>1, <3>2
  <2>8. GoodDisk(U)
    BY <2>3, <2>5, <2>7, BranchingIsGoodDisk DEF U
  <2> QED BY <2>8 DEF U
<1> QED
  BY <1>1, <1>2

------------------------------------------------------------------------------
(* Links.                                                                  *)

LEMMA WholeSubSeq ==
  ASSUME NEW p \in Seq(STRING)
  PROVE  SubSeq(p, 1, Len(p)) = p
BY SubSeqFull

LEMMA FollowOneType ==
  ASSUME NEW D, GoodDisk(D), NEW p \in Seq(STRING)
  PROVE  FollowOne(D, p) \in Seq(STRING)
<1>1. CASE LinksOn(D, p) = {}
  BY <1>1 DEF FollowOne
<1>2. CASE LinksOn(D, p) # {}
  <2> DEFINE S == LinksOn(D, p)
             i == CHOOSE i \in S : \A j \in S : i <= j
  <2>1. Len(p) \in Nat /\ S \in SUBSET Nat /\ S \subseteq 1..Len(p)
        /\ \A j \in S : IsLink(D, SubSeq(p, 1, j))
    BY DEF LinksOn
  <2>2. FollowOne(D, p) = D[SubSeq(p, 1, i)].to \o SubSeq(p, i + 1, Len(p))
    BY <1>2 DEF FollowOne
  <2>3. i \in S
    <3> HIDE DEF S
    <3>1. \E j \in S : \A k \in S : j <= k
      BY <1>2, <2>1, LeastNumber DEF S
    <3> QED BY <3>1
  <2> HIDE DEF i, S
  <2>4. i \in 0..Len(p) /\ IsLink(D, SubSeq(p, 1, i))
    BY <2>1, <2>3
  <2>5. D[SubSeq(p, 1, i)].to \in Seq(STRING)
    BY <2>4, GoodDiskFacts DEF IsLink
  <2>6. SubSeq(p, i + 1, Len(p)) \in Seq(STRING)
    BY <2>4, TailFacts
  <2> QED BY <2>2, <2>5, <2>6
<1> QED
  BY <1>1, <1>2

LEMMA FollowSteps ==
  ASSUME NEW D, NEW p
  PROVE  Follow(D, p) = FollowOne(D, FollowOne(D, FollowOne(D, p)))
BY DEF Follow

LEMMA FollowType ==
  ASSUME NEW D, GoodDisk(D), NEW p \in Seq(STRING)
  PROVE  Follow(D, p) \in Seq(STRING)
BY FollowSteps, FollowOneType

LEMMA FollowStays ==
  ASSUME NEW D, NEW p, LinksOn(D, p) = {}
  PROVE  Follow(D, p) = p
<1>1. FollowOne(D, p) = p
  BY DEF FollowOne
<1> QED
  BY <1>1, FollowSteps

(* There are no links on the way to a node, and a link is the last one.     *)
LEMMA LinksUpTo ==
  ASSUME NEW D, GoodDisk(D), NEW p \in Seq(STRING), LeadTo(D, p)
  PROVE  LinksOn(D, p) = {} <=> ~IsLink(D, p)
<1>1. ASSUME NEW i \in 1..Len(p), IsLink(D, SubSeq(p, 1, i)) PROVE IsLink(D, p)
  <2>1. i \in 0..Len(p) /\ Len(p) \in Nat
    OBVIOUS
  <2> DEFINE s == SubSeq(p, 1, i)
  <2>2. s \in Seq(STRING) /\ Len(s) = i /\ IsPrefix(s, p)
    BY <2>1, SubSeqFacts, PrefixIsSubSeq
  <2>3. ~IsDir(D, s)
    BY <1>1 DEF IsLink, IsDir
  <2> HIDE DEF s
  <2>4. s = p
    BY <2>2, <2>3 DEF LeadTo
  <2> QED BY <1>1, <2>4 DEF s
<1>2. ASSUME IsLink(D, p) PROVE LinksOn(D, p) # {}
  <2>1. p # <<>>
    BY <1>2, GoodDiskFacts DEF IsLink
  <2>2. Len(p) \in 1..Len(p)
    BY <2>1, EmptySeq
  <2>3. IsLink(D, SubSeq(p, 1, Len(p)))
    BY <1>2, WholeSubSeq
  <2> QED BY <2>2, <2>3 DEF LinksOn
<1> QED
  BY <1>1, <1>2 DEF LinksOn

LEMMA NodeLeadTo ==
  ASSUME NEW D, GoodDisk(D), NEW p \in DOMAIN D
  PROVE  p \in Seq(STRING) /\ LeadTo(D, p)
BY GoodDiskFacts DEF Branching, LeadTo

LEMMA NotLinkStays ==
  ASSUME NEW D, GoodDisk(D), NEW p \in DOMAIN D, ~IsLink(D, p)
  PROVE  LinksOn(D, p) = {} /\ Follow(D, p) = p
BY NodeLeadTo, LinksUpTo, FollowStays

(* What is looked up is there and is no link.                               *)
LEMMA LookupFinds ==
  ASSUME NEW D, GoodDisk(D), NEW q \in Seq(STRING)
  PROVE  Passes(Lookup(D, q)) <=> q \in DOMAIN D /\ ~IsLink(D, q)
<1>1. ASSUME q \in DOMAIN D, ~IsLink(D, q) PROVE Passes(Lookup(D, q))
  <2>1. LinksOn(D, q) = {} /\ LeadTo(D, q)
    BY <1>1, NodeLeadTo, NotLinkStays
  <2>2. ASSUME NEW i \in 0..(Len(q) - 1) PROVE ~IsFile(D, SubSeq(q, 1, i))
    <3>1. i \in 0..Len(q) /\ i # Len(q)
      OBVIOUS
    <3>2. SubSeq(q, 1, i) \in Seq(STRING) /\ Len(SubSeq(q, 1, i)) = i
      BY <3>1, SubSeqFacts
    <3>3. IsPrefix(SubSeq(q, 1, i), q) /\ SubSeq(q, 1, i) # q
      BY <3>1, <3>2, PrefixIsSubSeq
    <3>4. IsDir(D, SubSeq(q, 1, i))
      BY <2>1, <3>2, <3>3 DEF LeadTo
    <3> QED BY <3>4 DEF IsDir, IsFile
  <2> QED BY <1>1, <2>1, <2>2, LookupChecks
<1>2. ASSUME Passes(Lookup(D, q)) PROVE q \in DOMAIN D /\ ~IsLink(D, q)
  <2>1. q \in DOMAIN D /\ LinksOn(D, q) = {}
    BY <1>2, LookupChecks
  <2> QED BY <2>1, NodeLeadTo, LinksUpTo
<1> QED
  BY <1>1, <1>2

LEMMA DirLeadTo ==
  ASSUME NEW D, GoodDisk(D), NEW q \in Seq(STRING), q # <<>> => IsDir(D, Front(q))
  PROVE  LeadTo(D, q)
<1> SUFFICES ASSUME NEW s \in Seq(STRING), IsPrefix(s, q), s # q
             PROVE  IsDir(D, s)
  BY DEF LeadTo
<1>1. Len(s) < Len(q) /\ Len(s) \in Nat /\ Len(q) \in Nat
  BY PrefixIsSubSeq
<1>2. q # <<>>
  BY <1>1
<1> DEFINE u == Front(q)
<1>3. u \in Seq(STRING) /\ u = SubSeq(q, 1, Len(q) - 1) /\ Len(u) = Len(q) - 1 /\ Len(q) >= 1
  BY <1>2, FrontFacts
<1>4. IsDir(D, u)
  BY <1>2
<1> HIDE DEF u
<1>5. IsPrefix(u, q)
  <2>1. Len(q) - 1 \in 0..Len(q)
    BY <1>1, <1>3
  <2> QED BY <1>3, <2>1, PrefixIsSubSeq
<1>6. IsPrefix(s, u)
  <2>1. Len(s) <= Len(u)
    BY <1>1, <1>3
  <2> QED BY <1>3, <1>5, <2>1, PrefixesNest
<1>7. CASE s = u
  BY <1>4, <1>7
<1>8. CASE s # u
  <2>1. u \in DOMAIN D
    BY <1>4 DEF IsDir
  <2> QED BY <1>6, <1>8, <2>1, NodeLeadTo DEF LeadTo
<1> QED
  BY <1>7, <1>8

LEMMA InDirFinds ==
  ASSUME NEW D, GoodDisk(D), NEW q \in Seq(STRING)
  PROVE  /\ Passes(InDir(D, q)) <=> (q # <<>> => IsDir(D, Front(q)))
         /\ Passes(InDir(D, q)) => LeadTo(D, q)
<1>1. CASE q = <<>>
  BY <1>1, InDirChecks, DirLeadTo
<1>2. CASE q # <<>>
  <2>1. Front(q) \in Seq(STRING)
    BY <1>2, FrontFacts
  <2>2. Passes(Lookup(D, Front(q))) <=> Front(q) \in DOMAIN D /\ ~IsLink(D, Front(q))
    BY <2>1, LookupFinds
  <2>3. Front(q) \in DOMAIN D => D[Front(q)].kind \in {"file", "dir", "link"}
    BY GoodDiskFacts
  <2>4. Passes(InDir(D, q)) <=> IsDir(D, Front(q))
    BY <1>2, <2>2, <2>3, InDirChecks DEF IsDir, IsFile, IsLink
  <2> QED BY <1>2, <2>4, DirLeadTo
<1> QED
  BY <1>1, <1>2

(* Names.                                                                   *)
LEMMA NamedType ==
  ASSUME NEW D, GoodDisk(D), NEW p \in Seq(STRING)
  PROVE  Named(D, p) \in Seq(STRING)
<1>1. CASE p = <<>>
  BY <1>1 DEF Named
<1>2. CASE p # <<>>
  <2>1. Front(p) \in Seq(STRING) /\ Len(p) >= 1
    BY <1>2, FrontFacts
  <2>2. Follow(D, Front(p)) \in Seq(STRING)
    BY <2>1, FollowType
  <2>3. Last(p) \in STRING
    BY <2>1 DEF Last
  <2>4. Named(D, p) = Append(Follow(D, Front(p)), Last(p))
    BY <1>2 DEF Named
  <2> QED BY <2>2, <2>3, <2>4
<1> QED
  BY <1>1, <1>2

(* Of the prefixes that exist, the longest is one of them.                  *)
LEMMA LongestThere ==
  ASSUME NEW n \in Nat, NEW S \in SUBSET (0..n), S # {}
  PROVE  \E k \in S : \A j \in S : j <= k
<1> DEFINE T == {n - j : j \in S}
<1>1. T \in SUBSET Nat /\ T # {}
  <2>1. ASSUME NEW j \in S PROVE n - j \in Nat
    <3>1. j \in 0..n
      OBVIOUS
    <3> QED BY <3>1
  <2> QED BY <2>1
<1>2. PICK x \in T : \A y \in T : x <= y
  BY <1>1, LeastNumber
<1>3. PICK k \in S : x = n - k
  BY <1>2
<1>4. ASSUME NEW j \in S PROVE j <= k
  <2>1. n - j \in T
    OBVIOUS
  <2>2. n - k <= n - j
    BY <1>2, <1>3, <2>1
  <2>3. j \in Int /\ k \in Int
    OBVIOUS
  <2> HIDE DEF T
  <2> QED BY <2>2, <2>3
<1> QED
  BY <1>4

LEMMA ExistingFacts ==
  ASSUME NEW D, GoodDisk(D), NEW p \in Seq(STRING)
  PROVE  /\ Existing(D, p).path = Follow(D, p) /\ Follow(D, p) \in Seq(STRING)
         /\ Existing(D, p).err = "ok" <=> Follow(D, p) \in DOMAIN D /\ ~IsLink(D, Follow(D, p))
<1>1. Follow(D, p) \in Seq(STRING)
  BY FollowType
<1>2. FirstError(Lookup(D, Follow(D, p))) = "ok" <=>
        Follow(D, p) \in DOMAIN D /\ ~IsLink(D, Follow(D, p))
  BY <1>1, LookupFinds, LookupChecks, DiskError
<1> QED
  BY <1>1, <1>2 DEF Existing

Exist(D, p) == {i \in 0..Len(p) : Existing(D, SubSeq(p, 1, i)).err = "ok"}

LEMMA CreatingFacts ==
  ASSUME NEW D, GoodDisk(D), NEW p \in Seq(STRING)
  PROVE  /\ Creating(D, p).path \in Seq(STRING)
         /\ \/ Exist(D, p) = {} /\ Creating(D, p) = [err |-> "ok", path |-> p]
            \/ \E k \in Exist(D, p) :
                 /\ \A j \in Exist(D, p) : j <= k
                 /\ Creating(D, p).path = Follow(D, SubSeq(p, 1, k)) \o SubSeq(p, k + 1, Len(p))
                 /\ Creating(D, p).err # "ok" <=>
                      k < Len(p) /\ Existing(D, SubSeq(p, 1, k + 1)).err = "ELOOP"
<1> DEFINE there == {i \in 0..Len(p) : Existing(D, SubSeq(p, 1, i)).err = "ok"}
           k == CHOOSE i \in there : \A j \in there : j <= i
<1>1. there = Exist(D, p)
  BY DEF Exist
<1>2. CASE there = {}
  <2>1. Creating(D, p) = [err |-> "ok", path |-> p]
    BY <1>2 DEF Creating
  <2> QED BY <1>1, <1>2, <2>1
<1>3. CASE there # {}
  <2> DEFINE loops == k < Len(p) /\ Existing(D, SubSeq(p, 1, k + 1)).err = "ELOOP"
             to == Follow(D, SubSeq(p, 1, k)) \o SubSeq(p, k + 1, Len(p))
  <2>1. Creating(D, p) = [err |-> IF loops THEN "ELOOP" ELSE "ok", path |-> to]
    BY <1>3 DEF Creating
  <2>2. k \in there /\ \A j \in there : j <= k
    <3>1. there \in SUBSET (0..Len(p)) /\ Len(p) \in Nat
      OBVIOUS
    <3> HIDE DEF there
    <3>2. \E i \in there : \A j \in there : j <= i
      BY <1>3, <3>1, LongestThere
    <3> QED BY <3>2
  <2>3. k \in 0..Len(p)
    BY <2>2
  <2> HIDE DEF k
  <2>4. Follow(D, SubSeq(p, 1, k)) \in Seq(STRING)
    BY <2>3, SubSeqFacts, FollowType
  <2>5. SubSeq(p, k + 1, Len(p)) \in Seq(STRING)
    BY <2>3, TailFacts
  <2> HIDE DEF to, loops
  <2>6. Creating(D, p).path = to /\ (Creating(D, p).err # "ok" <=> loops)
    BY <2>1
  <2>7. /\ Creating(D, p).path \in Seq(STRING)
        /\ Creating(D, p).path = Follow(D, SubSeq(p, 1, k)) \o SubSeq(p, k + 1, Len(p))
        /\ Creating(D, p).err # "ok" <=>
             k < Len(p) /\ Existing(D, SubSeq(p, 1, k + 1)).err = "ELOOP"
    BY <2>4, <2>5, <2>6 DEF to, loops
  <2>8. k \in Exist(D, p) /\ \A j \in Exist(D, p) : j <= k
    BY <1>1, <2>2
  <2> HIDE DEF there
  <2> QED BY <2>7, <2>8
<1> QED
  BY <1>2, <1>3

LEMMA ResolveType ==
  ASSUME NEW D, GoodDisk(D), NEW op, NEW p \in Seq(STRING)
  PROVE  Resolve(D, op, p).path \in Seq(STRING)
BY CreatingFacts, ExistingFacts DEF Resolve

------------------------------------------------------------------------------
(* The invariant: what a call in progress has in hand.  A removed file that *)
(* is still open is the only one in `lost`.                                 *)

Ops ==
  {"readFile", "unlink", "rmdir", "readdir", "stat", "lstat", "exists", "writeFile",
   "appendFile", "mkdir", "rename", "copyFile", "truncate", "utimes", "access"}

CallArgs ==
  [op : Ops, path : Seq(STRING), to : Seq(STRING), data : Seq(0..255), n : Int, mode : Mode,
   recursive : BOOLEAN]

Pcs == {"called", "second", "resolved", "open", "making", "made", "status"}

(* `got` and `start` can be anything.                                        *)
CallOf(got, start) ==
  [pc : Pcs, args : CallArgs,
   q : Seq(STRING), q2 : Seq(STRING), size : Nat, lost : SUBSET Seq(0..255),
   got : {got}, alone : BOOLEAN, start : {start}]

GoodCall(c) == c \in CallOf(c.got, c.start) /\ \A d, e \in c.lost : d = e

RealInv ==
  /\ GoodDisk(disk)
  /\ call = Idle \/ GoodCall(call)
  /\ call.pc = "open" /\ call.lost = {} => IsFile(disk, call.q)
  /\ call.pc = "making" => call.size <= Len(call.q)

LEMMA IdleIs == Idle.pc = "idle"
BY DEF Idle

LEMMA RealInvTypes ==
  ASSUME RealInv
  PROVE  TypeOK
<1>1. \A p \in DOMAIN disk \ {<<>>} : IsDir(disk, Front(p))
  <2> SUFFICES ASSUME NEW p \in DOMAIN disk, p # <<>> PROVE IsDir(disk, Front(p))
    OBVIOUS
  <2>1. GoodDisk(disk)
    BY DEF RealInv
  <2>2. p \in Seq(STRING) /\ LeadTo(disk, p)
    BY <2>1, NodeLeadTo
  <2> DEFINE q == Front(p)
  <2>3. q \in Seq(STRING) /\ q = SubSeq(p, 1, Len(p) - 1) /\ Len(q) = Len(p) - 1 /\ Len(p) >= 1
    BY <2>2, FrontFacts
  <2> HIDE DEF q
  <2>4. Len(p) - 1 \in 0..Len(p) /\ Len(p) \in Nat
    BY <2>2, <2>3
  <2>5. IsPrefix(SubSeq(p, 1, Len(p) - 1), p)
    BY <2>2, <2>4, PrefixIsSubSeq
  <2>6. IsPrefix(q, p) /\ q # p
    BY <2>3, <2>4, <2>5
  <2> QED BY <2>2, <2>3, <2>6 DEF LeadTo, q
<1>2. \A p \in DOMAIN disk : disk[p].kind \in {"file", "dir", "link"}
  BY GoodDiskFacts DEF RealInv
<1> QED
  BY <1>1, <1>2 DEF RealInv, GoodCall, CallOf, Pcs, TypeOK

(* The steps that answer, and those that go on.                             *)
LEMMA AnsweredInv ==
  ASSUME GoodDisk(disk'), call' = Idle
  PROVE  RealInv'
BY IdleIs DEF RealInv

LEMMA GoesOnInv ==
  ASSUME GoodDisk(disk'), GoodCall(call'), call'.pc = "open" => IsFile(disk', call'.q),
         call'.pc = "making" => call'.size <= Len(call'.q)
  PROVE  RealInv'
BY DEF RealInv

LEMMA InCall ==
  ASSUME RealInv, call.pc # "idle"
  PROVE  GoodCall(call) /\ call # Idle /\ GoodDisk(disk)
BY IdleIs DEF RealInv

(* A call with one of its fields set.                                       *)
GoesTo(c, x) == [c EXCEPT !.pc = x]
OnPath(c, x) == [c EXCEPT !.q = x]
OnSecondPath(c, x) == [c EXCEPT !.q2 = x]
OfSize(c, x) == [c EXCEPT !.size = x]
OfStatus(c, x) == [c EXCEPT !.got = x]
Forgetting(c, x) == [c EXCEPT !.start = x]
Losing(c, x) == [c EXCEPT !.lost = x]
Shared(c) == [c EXCEPT !.alone = FALSE]

CallRecord(S, A, Q, N, L, G, B, T) ==
  [pc : S, args : A, q : Q, q2 : Q, size : N, lost : L, got : G, alone : B, start : T]

LEMMA CallFields ==
  ASSUME NEW S, NEW A, NEW Q, NEW N, NEW L, NEW G, NEW B, NEW T,
         NEW c \in CallRecord(S, A, Q, N, L, G, B, T)
  PROVE  /\ \A x \in S : GoesTo(c, x) \in CallRecord(S, A, Q, N, L, G, B, T)
         /\ \A x \in Q : /\ OnPath(c, x) \in CallRecord(S, A, Q, N, L, G, B, T)
                         /\ OnSecondPath(c, x) \in CallRecord(S, A, Q, N, L, G, B, T)
         /\ \A x \in N : OfSize(c, x) \in CallRecord(S, A, Q, N, L, G, B, T)
         /\ \A x \in L : Losing(c, x) \in CallRecord(S, A, Q, N, L, G, B, T)
         /\ FALSE \in B => Shared(c) \in CallRecord(S, A, Q, N, L, G, B, T)
         /\ \A x : /\ OfStatus(c, x) \in CallRecord(S, A, Q, N, L, {x}, B, T)
                   /\ Forgetting(c, x) \in CallRecord(S, A, Q, N, L, G, B, {x})
<1>1. \A x \in S : GoesTo(c, x) \in CallRecord(S, A, Q, N, L, G, B, T)
  BY DEF GoesTo, CallRecord
<1>2. \A x \in Q : OnPath(c, x) \in CallRecord(S, A, Q, N, L, G, B, T)
  BY DEF OnPath, CallRecord
<1>3. \A x \in Q : OnSecondPath(c, x) \in CallRecord(S, A, Q, N, L, G, B, T)
  BY DEF OnSecondPath, CallRecord
<1>4. \A x \in N : OfSize(c, x) \in CallRecord(S, A, Q, N, L, G, B, T)
  BY DEF OfSize, CallRecord
<1>5. \A x \in L : Losing(c, x) \in CallRecord(S, A, Q, N, L, G, B, T)
  BY DEF Losing, CallRecord
<1>7. FALSE \in B => Shared(c) \in CallRecord(S, A, Q, N, L, G, B, T)
  BY DEF Shared, CallRecord
<1>8. \A x : OfStatus(c, x) \in CallRecord(S, A, Q, N, L, {x}, B, T)
  BY DEF OfStatus, CallRecord
<1>9. \A x : Forgetting(c, x) \in CallRecord(S, A, Q, N, L, G, B, {x})
  BY DEF Forgetting, CallRecord
<1> QED
  BY <1>1, <1>2, <1>3, <1>4, <1>5, <1>7, <1>8, <1>9

LEMMA CallOfFields ==
  ASSUME NEW got, NEW start, NEW c \in CallOf(got, start)
  PROVE  /\ \A x \in Pcs :
              GoesTo(c, x) \in CallOf(got, start)
         /\ \A x \in Seq(STRING) : /\ OnPath(c, x) \in CallOf(got, start)
                                   /\ OnSecondPath(c, x) \in CallOf(got, start)
         /\ \A x \in Nat : OfSize(c, x) \in CallOf(got, start)
         /\ \A x \in SUBSET Seq(0..255) : Losing(c, x) \in CallOf(got, start)
         /\ Shared(c) \in CallOf(got, start)
         /\ \A x : OfStatus(c, x) \in CallOf(x, start) /\ Forgetting(c, x) \in CallOf(got, x)
<1> DEFINE S == Pcs
           Q == Seq(STRING)
           L == SUBSET Seq(0..255)
           B == BOOLEAN
           Of(g, t) == CallRecord(S, CallArgs, Q, Nat, L, {g}, B, {t})
<1>1. \A g, t : CallOf(g, t) = Of(g, t)
  BY DEF CallOf, CallRecord
<1>2. FALSE \in B
  OBVIOUS
<1> HIDE DEF S, Q, L, B
<1>3. c \in Of(got, start)
  BY <1>1
<1>4. /\ \A x \in S : GoesTo(c, x) \in Of(got, start)
      /\ \A x \in Q : OnPath(c, x) \in Of(got, start) /\ OnSecondPath(c, x) \in Of(got, start)
      /\ \A x \in Nat : OfSize(c, x) \in Of(got, start)
      /\ \A x \in L : Losing(c, x) \in Of(got, start)
      /\ Shared(c) \in Of(got, start)
      /\ \A x : OfStatus(c, x) \in Of(x, start) /\ Forgetting(c, x) \in Of(got, x)
  BY <1>2, <1>3, CallFields
<1> HIDE DEF Of
<1> QED
  BY <1>1, <1>4 DEF S, Q, L, B

LEMMA Goes ==
  ASSUME NEW c, GoodCall(c), NEW x \in Pcs
  PROVE  /\ GoodCall(GoesTo(c, x)) /\ GoesTo(c, x).pc = x
         /\ GoesTo(c, x).args = c.args /\ GoesTo(c, x).q = c.q
         /\ GoesTo(c, x).q2 = c.q2 /\ GoesTo(c, x).size = c.size
         /\ GoesTo(c, x).lost = c.lost /\ GoesTo(c, x).alone = c.alone
         /\ GoesTo(c, x).start = c.start
<1> DEFINE e == GoesTo(c, x)
<1>1. e \in CallOf(c.got, c.start)
  BY CallOfFields DEF GoodCall
<1>2. /\ e.pc = x /\ e.args = c.args /\ e.q = c.q /\ e.q2 = c.q2 /\ e.size = c.size
      /\ e.lost = c.lost /\ e.got = c.got /\ e.alone = c.alone /\ e.start = c.start
  BY DEF GoesTo, GoodCall, CallOf
<1> HIDE DEF e
<1>3. GoodCall(e)
  BY <1>1, <1>2 DEF GoodCall
<1> QED
  BY <1>2, <1>3 DEF e

LEMMA TakesPath ==
  ASSUME NEW c, GoodCall(c), NEW x \in Seq(STRING)
  PROVE  /\ GoodCall(OnPath(c, x)) /\ OnPath(c, x).q = x
         /\ OnPath(c, x).pc = c.pc /\ OnPath(c, x).args = c.args
         /\ OnPath(c, x).q2 = c.q2 /\ OnPath(c, x).size = c.size
         /\ OnPath(c, x).lost = c.lost /\ OnPath(c, x).alone = c.alone
         /\ OnPath(c, x).start = c.start
<1> DEFINE e == OnPath(c, x)
<1>1. e \in CallOf(c.got, c.start)
  BY CallOfFields DEF GoodCall
<1>2. /\ e.pc = c.pc /\ e.args = c.args /\ e.q = x /\ e.q2 = c.q2 /\ e.size = c.size
      /\ e.lost = c.lost /\ e.got = c.got /\ e.alone = c.alone /\ e.start = c.start
  BY DEF OnPath, GoodCall, CallOf
<1> HIDE DEF e
<1>3. GoodCall(e)
  BY <1>1, <1>2 DEF GoodCall
<1> QED
  BY <1>2, <1>3 DEF e

LEMMA TakesSecondPath ==
  ASSUME NEW c, GoodCall(c), NEW x \in Seq(STRING)
  PROVE  /\ GoodCall(OnSecondPath(c, x)) /\ OnSecondPath(c, x).q2 = x
         /\ OnSecondPath(c, x).pc = c.pc /\ OnSecondPath(c, x).args = c.args
         /\ OnSecondPath(c, x).q = c.q /\ OnSecondPath(c, x).size = c.size
         /\ OnSecondPath(c, x).lost = c.lost /\ OnSecondPath(c, x).alone = c.alone
         /\ OnSecondPath(c, x).start = c.start
<1> DEFINE e == OnSecondPath(c, x)
<1>1. e \in CallOf(c.got, c.start)
  BY CallOfFields DEF GoodCall
<1>2. /\ e.pc = c.pc /\ e.args = c.args /\ e.q = c.q /\ e.q2 = x /\ e.size = c.size
      /\ e.lost = c.lost /\ e.got = c.got /\ e.alone = c.alone /\ e.start = c.start
  BY DEF OnSecondPath, GoodCall, CallOf
<1> HIDE DEF e
<1>3. GoodCall(e)
  BY <1>1, <1>2 DEF GoodCall
<1> QED
  BY <1>2, <1>3 DEF e

LEMMA TakesSize ==
  ASSUME NEW c, GoodCall(c), NEW x \in Nat
  PROVE  /\ GoodCall(OfSize(c, x)) /\ OfSize(c, x).size = x
         /\ OfSize(c, x).pc = c.pc /\ OfSize(c, x).args = c.args
         /\ OfSize(c, x).q = c.q /\ OfSize(c, x).q2 = c.q2
         /\ OfSize(c, x).lost = c.lost /\ OfSize(c, x).alone = c.alone
         /\ OfSize(c, x).start = c.start
<1> DEFINE e == OfSize(c, x)
<1>1. e \in CallOf(c.got, c.start)
  BY CallOfFields DEF GoodCall
<1>2. /\ e.pc = c.pc /\ e.args = c.args /\ e.q = c.q /\ e.q2 = c.q2 /\ e.size = x
      /\ e.lost = c.lost /\ e.got = c.got /\ e.alone = c.alone /\ e.start = c.start
  BY DEF OfSize, GoodCall, CallOf
<1> HIDE DEF e
<1>3. GoodCall(e)
  BY <1>1, <1>2 DEF GoodCall
<1> QED
  BY <1>2, <1>3 DEF e

(* BeginCall: what callers pass.                                            *)
LEMMA ArgsAre ==
  ASSUME NEW op \in Ops, NEW p \in Seq(STRING)
  PROVE  /\ Args(op, p) \in CallArgs
         /\ \A d \in Seq(0..255) : [Args(op, p) EXCEPT !.data = d] \in CallArgs
         /\ \A m \in Mode, r \in BOOLEAN :
              [Args(op, p) EXCEPT !.mode = m, !.recursive = r] \in CallArgs
         /\ \A t \in Seq(STRING) : [Args(op, p) EXCEPT !.to = t] \in CallArgs
         /\ \A n \in Int : [Args(op, p) EXCEPT !.n = n] \in CallArgs
         /\ \A m \in Mode : [Args(op, p) EXCEPT !.mode = m] \in CallArgs
<1>1. <<>> \in Seq(STRING) /\ <<>> \in Seq(0..255) /\ RWX \in Mode
  BY EmptySeq DEF RWX, Mode
<1> DEFINE a == Args(op, p)
<1>2. a \in CallArgs
  BY <1>1 DEF Args, CallArgs
<1> HIDE DEF a
<1>3. \A d \in Seq(0..255) : [a EXCEPT !.data = d] \in CallArgs
  BY <1>2 DEF CallArgs
<1>4. \A m \in Mode, r \in BOOLEAN : [a EXCEPT !.mode = m, !.recursive = r] \in CallArgs
  BY <1>2 DEF CallArgs
<1>5. \A t \in Seq(STRING) : [a EXCEPT !.to = t] \in CallArgs
  BY <1>2 DEF CallArgs
<1>6. \A n \in Int : [a EXCEPT !.n = n] \in CallArgs
  BY <1>2 DEF CallArgs
<1>7. \A m \in Mode : [a EXCEPT !.mode = m] \in CallArgs
  BY <1>2 DEF CallArgs
<1> QED
  BY <1>2, <1>3, <1>4, <1>5, <1>6, <1>7, Zenon DEF a

LEMMA BeginsWith ==
  ASSUME BeginCall
  PROVE  \E args \in CallArgs : Begin(args)
<1>1. /\ Paths \subseteq Seq(STRING) /\ Contents \subseteq Seq(0..255) /\ Sizes \subseteq Int
      /\ Modes \subseteq Mode /\ Times \subseteq Int /\ SUBSET RWX = Mode
  BY RealAssumption DEF RWX, Mode
<1>2. CASE \E op \in {"readFile", "unlink", "rmdir", "readdir", "stat", "lstat",
                      "exists"}, p \in Paths : Begin(Args(op, p))
  <2>1. PICK op \in {"readFile", "unlink", "rmdir", "readdir", "stat", "lstat", "exists"} :
          \E p \in Paths : Begin(Args(op, p))
    BY <1>2
  <2>2. PICK p \in Paths : Begin(Args(op, p))
    BY <2>1
  <2>3. op \in Ops /\ p \in Seq(STRING)
    BY <1>1 DEF Ops
  <2>4. Args(op, p) \in CallArgs
    BY <2>3, ArgsAre, Zenon
  <2> QED BY <2>2, <2>4
<1>3. CASE \E op \in {"writeFile", "appendFile"}, p \in Paths, d \in Contents :
             Begin([Args(op, p) EXCEPT !.data = d])
  <2>1. PICK op \in {"writeFile", "appendFile"}, p \in Paths, d \in Contents :
              Begin([Args(op, p) EXCEPT !.data = d])
    BY <1>3
  <2>2. op \in Ops /\ p \in Seq(STRING) /\ d \in Seq(0..255)
    BY <1>1 DEF Ops
  <2>3. [Args(op, p) EXCEPT !.data = d] \in CallArgs
    BY <2>2, ArgsAre, Zenon
  <2> QED BY <2>1, <2>3
<1>4. CASE \E p \in Paths, mode \in Modes, recursive \in BOOLEAN :
             Begin([Args("mkdir", p) EXCEPT !.mode = mode, !.recursive = recursive])
  <2>1. PICK p \in Paths, m \in Modes, b \in BOOLEAN :
              Begin([Args("mkdir", p) EXCEPT !.mode = m, !.recursive = b])
    BY <1>4, Zenon
  <2>2. "mkdir" \in Ops /\ p \in Seq(STRING) /\ m \in Mode
    BY <1>1 DEF Ops
  <2>3. [Args("mkdir", p) EXCEPT !.mode = m, !.recursive = b] \in CallArgs
    BY <2>2, ArgsAre, Zenon
  <2> QED BY <2>1, <2>3
<1>5. CASE \E op \in {"rename", "copyFile"}, p, q \in Paths :
             Begin([Args(op, p) EXCEPT !.to = q])
  <2>1. PICK op \in {"rename", "copyFile"}, p \in Paths, q \in Paths :
              Begin([Args(op, p) EXCEPT !.to = q])
    BY <1>5
  <2>2. op \in Ops /\ p \in Seq(STRING) /\ q \in Seq(STRING)
    BY <1>1 DEF Ops
  <2>3. [Args(op, p) EXCEPT !.to = q] \in CallArgs
    BY <2>2, ArgsAre, Zenon
  <2> QED BY <2>1, <2>3
<1>6. CASE \E p \in Paths, n \in Sizes : Begin([Args("truncate", p) EXCEPT !.n = n])
  <2>1. PICK p \in Paths, n \in Sizes : Begin([Args("truncate", p) EXCEPT !.n = n])
    BY <1>6
  <2>2. "truncate" \in Ops /\ p \in Seq(STRING) /\ n \in Int
    BY <1>1 DEF Ops
  <2>3. [Args("truncate", p) EXCEPT !.n = n] \in CallArgs
    BY <2>2, ArgsAre, Zenon
  <2> QED BY <2>1, <2>3
<1>7. CASE \E p \in Paths, t \in Times : Begin([Args("utimes", p) EXCEPT !.n = t])
  <2>1. PICK p \in Paths, t \in Times : Begin([Args("utimes", p) EXCEPT !.n = t])
    BY <1>7
  <2>2. "utimes" \in Ops /\ p \in Seq(STRING) /\ t \in Int
    BY <1>1 DEF Ops
  <2>3. [Args("utimes", p) EXCEPT !.n = t] \in CallArgs
    BY <2>2, ArgsAre, Zenon
  <2> QED BY <2>1, <2>3
<1>8. CASE \E p \in Paths, mode \in Modes :
             Begin([Args("access", p) EXCEPT !.mode = mode])
  <2>1. PICK p \in Paths, m \in Modes : Begin([Args("access", p) EXCEPT !.mode = m])
    BY <1>8
  <2>2. "access" \in Ops /\ p \in Seq(STRING) /\ m \in Mode
    BY <1>1 DEF Ops
  <2>3. [Args("access", p) EXCEPT !.mode = m] \in CallArgs
    BY <2>2, ArgsAre, Zenon
  <2> QED BY <2>1, <2>3
<1> QED
  BY <1>2, <1>3, <1>4, <1>5, <1>6, <1>7, <1>8, Zenon DEF BeginCall

(* Each action: what it does to the call, and that the invariant stays.     *)
LEMMA BeginFacts ==
  ASSUME NEW args \in CallArgs, Begin(args)
  PROVE  /\ call = Idle /\ disk' = disk
         /\ GoodCall(call') /\ call'.args = args /\ call'.pc = "called"
         /\ call'.q = <<>> /\ call'.lost = {} /\ call'.start = disk /\ call'.alone
<1> DEFINE c == [pc |-> "called", args |-> args, q |-> <<>>, q2 |-> <<>>, size |-> 0,
                 lost |-> {}, got |-> {}, alone |-> TRUE, start |-> disk]
<1>1. call = Idle /\ disk' = disk /\ call' = c
  BY DEF Begin
<1>2. <<>> \in Seq(STRING) /\ "called" \in Pcs
  BY EmptySeq DEF Pcs
<1>3. GoodCall(c)
  BY <1>2 DEF GoodCall, CallOf
<1>4. c.pc = "called" /\ c.args = args /\ c.q = <<>> /\ c.lost = {} /\ c.start = disk /\ c.alone
  OBVIOUS
<1> HIDE DEF c
<1> QED
  BY <1>1, <1>3, <1>4

LEMMA BeginInv ==
  ASSUME RealInv, BeginCall
  PROVE  RealInv'
<1>1. PICK args \in CallArgs : Begin(args)
  BY BeginsWith
<1>2. GoodDisk(disk)
  BY DEF RealInv
<1>3. disk' = disk /\ GoodCall(call') /\ call'.pc = "called"
  BY <1>1, BeginFacts
<1> QED
  BY <1>2, <1>3, GoesOnInv

LEMMA BeginFromIdle ==
  ASSUME BeginCall
  PROVE  call = Idle
<1>1. PICK args \in CallArgs : Begin(args)
  BY BeginsWith
<1> QED
  BY <1>1 DEF Begin

LEMMA ResolveFirstFacts ==
  ASSUME RealInv, ResolveFirst
  PROVE  /\ GoodCall(call) /\ call.pc = "called" /\ disk' = disk
         /\ \/ call' = Idle
            \/ /\ GoodCall(call') /\ call'.args = call.args
               /\ call'.pc \in {"second", "resolved"}
               /\ call'.pc = "second" <=> call.args.op \in {"rename", "copyFile"}
               /\ call'.q = Resolve(disk, call.args.op, call.args.path).path
               /\ Resolve(disk, call.args.op, call.args.path).err = "ok"
               /\ ~(call.args.op = "truncate" /\ call.args.n < 0) /\ call.args.op # "exists"
               /\ call'.lost = call.lost /\ call'.alone = call.alone
               /\ call'.start = call.start
<1> DEFINE args == call.args
           r == Resolve(disk, args.op, args.path)
           pc == IF args.op \in {"rename", "copyFile"} THEN "second" ELSE "resolved"
           c == [call EXCEPT !.pc = pc, !.q = r.path]
           refused == args.op = "truncate" /\ args.n < 0
<1>1. GoodCall(call) /\ call.pc = "called" /\ disk' = disk /\ GoodDisk(disk)
  BY InCall DEF ResolveFirst
<1>2. r.path \in Seq(STRING)
  <2>1. args.path \in Seq(STRING)
    BY <1>1 DEF GoodCall, CallOf, CallArgs
  <2> QED BY <1>1, <2>1, ResolveType
<1>3. call' = Idle \/ (r.err = "ok" /\ ~refused /\ args.op # "exists" /\ call' = c)
  <2>1. CASE refused
    BY <2>1 DEF ResolveFirst, Answer, Answered
  <2>2. CASE ~refused /\ args.op = "exists"
    BY <2>2 DEF ResolveFirst, Return, Answered
  <2>3. CASE ~refused /\ args.op # "exists"
    <3>1. CASE r.err # "ok"
      BY <2>3, <3>1 DEF ResolveFirst, Answer, Answered
    <3>2. CASE r.err = "ok"
      BY <2>3, <3>2 DEF ResolveFirst
    <3> QED BY <3>1, <3>2
  <2> QED BY <2>1, <2>2, <2>3
<1>4. /\ pc \in {"second", "resolved"} /\ pc \in Pcs
      /\ pc = "second" <=> args.op \in {"rename", "copyFile"}
  BY DEF Pcs
<1> HIDE DEF r, pc
<1> DEFINE d == GoesTo(call, pc)
<1>5. /\ GoodCall(d) /\ d.pc = pc /\ d.args = call.args
      /\ d.lost = call.lost /\ d.alone = call.alone /\ d.start = call.start
  BY <1>1, <1>4, Goes
<1>6. c = OnPath(d, r.path)
  BY DEF GoesTo, OnPath
<1> HIDE DEF c, d
<1>7. /\ GoodCall(c) /\ c.pc = d.pc /\ c.args = d.args /\ c.q = r.path
      /\ c.lost = d.lost /\ c.alone = d.alone /\ c.start = d.start
  BY <1>2, <1>5, <1>6, TakesPath
<1> QED
  BY <1>1, <1>3, <1>4, <1>5, <1>7 DEF r

LEMMA ResolveFirstInv ==
  ASSUME RealInv, ResolveFirst
  PROVE  RealInv'
<1>1. GoodDisk(disk)
  BY DEF RealInv
<1>2. /\ disk' = disk
      /\ call' = Idle \/ (GoodCall(call') /\ call'.pc \in {"second", "resolved"})
  BY ResolveFirstFacts
<1> QED
  BY <1>1, <1>2, AnsweredInv, GoesOnInv

LEMMA ResolveSecondFacts ==
  ASSUME RealInv, ResolveSecond
  PROVE  /\ GoodCall(call) /\ call.pc = "second" /\ disk' = disk
         /\ \/ call' = Idle
            \/ /\ GoodCall(call') /\ call'.pc = "resolved" /\ call'.args = call.args
               /\ call'.q = call.q /\ call'.q2 = Creating(disk, call.args.to).path
               /\ Creating(disk, call.args.to).err = "ok"
               /\ call'.lost = call.lost /\ call'.alone = call.alone
               /\ call'.start = call.start
<1> DEFINE r == Creating(disk, call.args.to)
           c == [call EXCEPT !.pc = "resolved", !.q2 = r.path]
<1>1. GoodCall(call) /\ call.pc = "second" /\ disk' = disk /\ GoodDisk(disk)
  BY InCall DEF ResolveSecond
<1>2. r.path \in Seq(STRING)
  <2>1. call.args.to \in Seq(STRING)
    BY <1>1 DEF GoodCall, CallOf, CallArgs
  <2> QED BY <1>1, <2>1, CreatingFacts
<1>3. call' = Idle \/ (r.err = "ok" /\ call' = c)
  BY DEF ResolveSecond, Answer, Answered
<1> HIDE DEF r
<1> DEFINE d == GoesTo(call, "resolved")
<1>4. /\ GoodCall(d) /\ d.pc = "resolved" /\ d.q = call.q /\ d.args = call.args
      /\ d.lost = call.lost /\ d.alone = call.alone /\ d.start = call.start
  BY <1>1, Goes DEF Pcs
<1>5. c = OnSecondPath(d, r.path)
  BY DEF GoesTo, OnSecondPath
<1> HIDE DEF c, d
<1>6. /\ GoodCall(c) /\ c.pc = d.pc /\ c.q = d.q /\ c.args = d.args /\ c.q2 = r.path
      /\ c.lost = d.lost /\ c.alone = d.alone /\ c.start = d.start
  BY <1>2, <1>4, <1>5, TakesSecondPath
<1> QED
  BY <1>1, <1>3, <1>4, <1>6 DEF r

LEMMA ResolveSecondInv ==
  ASSUME RealInv, ResolveSecond
  PROVE  RealInv'
<1>1. GoodDisk(disk)
  BY DEF RealInv
<1>2. disk' = disk /\ (call' = Idle \/ (GoodCall(call') /\ call'.pc = "resolved"))
  BY ResolveSecondFacts
<1> QED
  BY <1>1, <1>2, AnsweredInv, GoesOnInv

LEMMA OpenReadFacts ==
  ASSUME RealInv, OpenRead
  PROVE  /\ GoodCall(call) /\ call.pc = "resolved" /\ call.args.op = "readFile" /\ disk' = disk
         /\ \/ call' = Idle
            \/ /\ GoodCall(call') /\ call'.pc = "open" /\ call'.args = call.args
               /\ call'.q = Follow(disk, call.q) /\ IsFile(disk, call'.q)
               /\ call'.size = Len(disk[call'.q].data)
               /\ call'.lost = call.lost /\ call'.alone = call.alone
               /\ call'.start = call.start
<1> DEFINE t == Follow(disk, call.q)
           n == Len(disk[t].data)
           c == [call EXCEPT !.pc = "open", !.q = t, !.size = n]
<1>1. /\ GoodCall(call) /\ call.pc = "resolved" /\ call.args.op = "readFile" /\ disk' = disk
      /\ GoodDisk(disk)
  BY InCall DEF OpenRead, At
<1>2. t \in Seq(STRING)
  BY <1>1, FollowType DEF GoodCall, CallOf
<1>3. call' = Idle \/ (IsFile(disk, t) /\ call' = c)
  BY DEF OpenRead, Answer, Answered
<1>4. IsFile(disk, t) => n \in Nat
  <2> HIDE DEF t
  <2>1. IsFile(disk, t) => disk[t].data \in Seq(0..255)
    BY <1>1, GoodDiskFacts DEF IsFile
  <2> QED BY <2>1
<1> HIDE DEF t, n
<1> DEFINE d == GoesTo(call, "open")
           e == OnPath(d, t)
<1>5. /\ GoodCall(d) /\ d.pc = "open" /\ d.args = call.args
      /\ d.lost = call.lost /\ d.alone = call.alone /\ d.start = call.start
  BY <1>1, Goes DEF Pcs
<1>6. c = OfSize(e, n)
  BY DEF GoesTo, OnPath, OfSize
<1> HIDE DEF c, d
<1>7. /\ GoodCall(e) /\ e.pc = d.pc /\ e.args = d.args /\ e.q = t
      /\ e.lost = d.lost /\ e.alone = d.alone /\ e.start = d.start
  BY <1>2, <1>5, TakesPath
<1> HIDE DEF e
<1>8. IsFile(disk, t) =>
        /\ GoodCall(c) /\ c.pc = e.pc /\ c.args = e.args /\ c.q = e.q /\ c.size = n
        /\ c.lost = e.lost /\ c.alone = e.alone /\ c.start = e.start
  BY <1>4, <1>6, <1>7, TakesSize
<1> QED
  BY <1>1, <1>3, <1>5, <1>7, <1>8 DEF t, n

LEMMA OpenReadInv ==
  ASSUME RealInv, OpenRead
  PROVE  RealInv'
<1>1. GoodDisk(disk)
  BY DEF RealInv
<1>2. /\ disk' = disk
      /\ call' = Idle \/ (GoodCall(call') /\ call'.pc = "open" /\ IsFile(disk, call'.q))
  BY OpenReadFacts
<1> QED
  BY <1>1, <1>2, AnsweredInv, GoesOnInv

(* The steps that answer and leave the disk alone.                          *)
LEMMA LookingInv ==
  ASSUME RealInv, Read \/ ListDir \/ FileSize \/ AccessBits
  PROVE  /\ RealInv' /\ call' = Idle /\ disk' = disk
<1>1. disk' = disk /\ call' = Idle
  BY DEF Read, ListDir, FileSize, AccessBits, Return, Answer, Answered
<1>2. GoodDisk(disk')
  BY <1>1 DEF RealInv
<1> QED
  BY <1>1, <1>2, AnsweredInv

(* What is the same on two disks: all but some nodes; the links.            *)
SameBut(D, E, P) ==
  /\ DOMAIN E \ P = DOMAIN D \ P
  /\ \A p \in DOMAIN D \ P : E[p] = D[p]

KeepsLinks(D, E) == \A p \in DOMAIN D : IsLink(D, p) => p \in DOMAIN E /\ E[p] = D[p]

LEMMA SameKeepsLinks ==
  ASSUME NEW D, NEW E, NEW P, SameBut(D, E, P), \A p \in P : ~IsLink(D, p)
  PROVE  KeepsLinks(D, E)
BY DEF SameBut, KeepsLinks

LEMMA WithFacts ==
  ASSUME NEW D, NEW p, NEW n
  PROVE  /\ SameBut(D, With(D, p, n), {p}) /\ With(D, p, n)[p] = n
         /\ DOMAIN With(D, p, n) = DOMAIN D \union {p}
BY DEF With, SameBut

LEMMA NodeMode ==
  ASSUME NEW n \in DiskNodes, NEW m \in Mode
  PROVE  [n EXCEPT !.mode = m] \in DiskNodes /\ [n EXCEPT !.mode = m].kind = n.kind
BY DEF DiskNodes

LEMMA NodeTime ==
  ASSUME NEW n \in DiskNodes, NEW t \in Int
  PROVE  /\ [n EXCEPT !.mtime = t] \in DiskNodes /\ [n EXCEPT !.mtime = t].kind = n.kind
         /\ [n EXCEPT !.mtime = t].data = n.data
BY DEF DiskNodes

LEMMA NodeData ==
  ASSUME NEW n \in DiskNodes, NEW d \in Seq(0..255)
  PROVE  /\ [n EXCEPT !.data = d] \in DiskNodes /\ [n EXCEPT !.data = d].kind = n.kind
         /\ [n EXCEPT !.data = d].data = d
BY DEF DiskNodes

LEMMA NodeWritten ==
  ASSUME NEW n \in DiskNodes, NEW d \in Seq(0..255)
  PROVE  /\ [n EXCEPT !.data = d, !.mtime = Now] \in DiskNodes
         /\ [n EXCEPT !.data = d, !.mtime = Now].kind = n.kind
         /\ [n EXCEPT !.data = d, !.mtime = Now].data = d
<1>1. Now \in Int
  BY DEF Now
<1> DEFINE e == [n EXCEPT !.data = d]
<1>2. e \in DiskNodes /\ e.kind = n.kind /\ e.data = d
  BY NodeData
<1> HIDE DEF e
<1>3. /\ [e EXCEPT !.mtime = Now] \in DiskNodes /\ [e EXCEPT !.mtime = Now].kind = e.kind
      /\ [e EXCEPT !.mtime = Now].data = e.data
  BY <1>1, <1>2, NodeTime
<1> QED
  BY <1>2, <1>3 DEF e

(* What a stream finds that is opened for writing.                          *)
Opened(D, op, q) == IF op = "appendFile" /\ q \in DOMAIN D THEN D[q].data ELSE <<>>

LEMMA OpenWriteFacts ==
  ASSUME RealInv, OpenWrite
  PROVE  /\ GoodCall(call) /\ call.pc = "resolved" /\ call.args.op \in {"writeFile", "appendFile"}
         /\ \/ call' = Idle /\ disk' = disk
            \/ /\ GoodCall(call') /\ call'.pc = "open" /\ call'.args = call.args
               /\ call'.lost = call.lost /\ call'.alone = call.alone
               /\ call'.start = call.start
               /\ GoodDisk(disk') /\ IsFile(disk', call'.q)
               /\ call'.q \in DOMAIN disk => IsFile(disk, call'.q)
               /\ SameBut(disk, disk', {call'.q})
               /\ disk'[call'.q].data = Opened(disk, call.args.op, call'.q)
<1> DEFINE t == Follow(disk, call.q)
           old == IF t \in DOMAIN disk THEN disk[t] ELSE NewFile
           node == IF call.args.op = "appendFile" THEN old
                   ELSE [old EXCEPT !.data = <<>>, !.mtime = Now]
           d == GoesTo(call, "open")
           c == [call EXCEPT !.pc = "open", !.q = t]
<1>1. /\ GoodCall(call) /\ call.pc = "resolved"
      /\ call.args.op \in {"writeFile", "appendFile"} /\ GoodDisk(disk)
  BY InCall DEF OpenWrite
<1>2. t \in Seq(STRING)
  BY <1>1, FollowType DEF GoodCall, CallOf
<1>3. \/ call' = Idle /\ disk' = disk
      \/ CanOpen(disk, t) /\ disk' = With(disk, t, node) /\ call' = c
  BY DEF OpenWrite, Answer, Answered
<1>4. /\ GoodCall(d) /\ d.pc = "open" /\ d.args = call.args
      /\ d.lost = call.lost /\ d.alone = call.alone /\ d.start = call.start
  BY <1>1, Goes DEF Pcs
<1>5. c = OnPath(d, t)
  BY DEF GoesTo, OnPath
<1> HIDE DEF c, d, t
<1>6. /\ GoodCall(c) /\ c.pc = d.pc /\ c.args = d.args /\ c.q = t
      /\ c.lost = d.lost /\ c.alone = d.alone /\ c.start = d.start
  BY <1>2, <1>4, <1>5, TakesPath
<1>7. CASE call' = Idle /\ disk' = disk
  BY <1>1, <1>7
<1>8. CASE CanOpen(disk, t) /\ disk' = With(disk, t, node) /\ call' = c
  <2>1. t \in DOMAIN disk => IsFile(disk, t)
    BY <1>8 DEF CanOpen
  <2>2. old \in DiskNodes /\ old.kind = "file" /\ (t \notin DOMAIN disk => old.data = <<>>)
    BY <1>1, <2>1, GoodDiskFacts, NewNodes DEF IsFile
  <2>3. <<>> \in Seq(0..255)
    BY EmptySeq
  <2> HIDE DEF old
  <2>4. /\ [old EXCEPT !.data = <<>>, !.mtime = Now] \in DiskNodes
        /\ [old EXCEPT !.data = <<>>, !.mtime = Now].kind = "file"
        /\ [old EXCEPT !.data = <<>>, !.mtime = Now].data = <<>>
    BY <2>2, <2>3, NodeWritten, Zenon
  <2>5. /\ node \in DiskNodes /\ node.kind = "file"
        /\ node.data = Opened(disk, call.args.op, t)
    <3>1. CASE call.args.op = "appendFile"
      <4>1. t \in DOMAIN disk => old = disk[t]
        BY DEF old
      <4> QED BY <2>2, <3>1, <4>1 DEF Opened
    <3>2. CASE call.args.op # "appendFile"
      BY <2>4, <3>2 DEF Opened
    <3> QED BY <3>1, <3>2
  <2> HIDE DEF node
  <2>6. LeadTo(disk, t)
    <3>1. CASE t \in DOMAIN disk
      BY <1>1, <3>1, NodeLeadTo
    <3>2. CASE t \notin DOMAIN disk
      <4>1. FirstError(InDir(disk, t)) = "ok"
        BY <1>8, <3>2 DEF CanOpen
      <4> QED BY <1>1, <1>2, <4>1, InDirChecks, InDirFinds, DiskError
    <3> QED BY <3>1, <3>2
  <2>7. ~IsDir(disk, t)
    BY <2>1 DEF IsDir, IsFile
  <2>8. GoodDisk(With(disk, t, node))
    BY <1>1, <1>2, <2>5, <2>6, <2>7, PutDisk
  <2>9. /\ SameBut(disk, With(disk, t, node), {t}) /\ With(disk, t, node)[t] = node
        /\ DOMAIN With(disk, t, node) = DOMAIN disk \union {t}
    BY WithFacts
  <2>11. IsFile(disk', t)
    BY <1>8, <2>5, <2>9 DEF IsFile
  <2>12. /\ GoodDisk(disk') /\ SameBut(disk, disk', {t})
         /\ disk'[t].data = Opened(disk, call.args.op, t)
    BY <1>8, <2>5, <2>8, <2>9
  <2> QED BY <1>1, <1>4, <1>6, <1>8, <2>1, <2>11, <2>12
<1> QED
  BY <1>3, <1>7, <1>8

LEMMA OpenWriteInv ==
  ASSUME RealInv, OpenWrite
  PROVE  RealInv'
<1>1. GoodDisk(disk)
  BY DEF RealInv
<1>2. \/ call' = Idle /\ disk' = disk
      \/ /\ GoodCall(call') /\ call'.pc = "open"
         /\ GoodDisk(disk') /\ IsFile(disk', call'.q)
  BY OpenWriteFacts
<1> QED
  BY <1>1, <1>2, AnsweredInv, GoesOnInv

LEMMA WrittenType ==
  ASSUME NEW S, NEW op, NEW old \in Seq(S), NEW new \in Seq(S)
  PROVE  Written(op, old, new) \in Seq(S)
<1>1. Len(new) + 1 \in Int /\ Len(old) \in Int /\ Len(new) \in Nat
  OBVIOUS
<1>2. \A i \in (Len(new) + 1)..Len(old) : old[i] \in S
  BY <1>1
<1> DEFINE rest == SubSeq(old, Len(new) + 1, Len(old))
<1>3. rest \in Seq(S)
  BY <1>1, <1>2, SubSeqProperties
<1>4. Written(op, old, new) = IF op = "appendFile" THEN old \o new ELSE new \o rest
  BY DEF Written
<1> HIDE DEF rest
<1>5. old \o new \in Seq(S) /\ new \o rest \in Seq(S)
  BY <1>3
<1> QED
  BY <1>4, <1>5

LEMMA PartsAre ==
  ASSUME NEW S, NEW d \in Seq(S), NEW e \in PartsOf(d)
  PROVE  e \in Seq(S)
<1>1. PICK k \in 0..(Len(d) - 1) : e = SubSeq(d, 1, k)
  BY DEF PartsOf
<1>2. 1 \in Int /\ k \in Int /\ \A i \in 1..k : d[i] \in S
  BY <1>1
<1> QED
  BY <1>1, <1>2, SubSeqProperties

LEMMA PutFacts ==
  ASSUME RealInv, GoodCall(call), call.pc = "open", NEW d \in Seq(0..255)
  PROVE  /\ GoodDisk(Put(d)) /\ SameBut(disk, Put(d), {call.q})
         /\ call.lost = {} =>
              /\ IsFile(Put(d), call.q)
              /\ Put(d)[call.q].data = IF d = <<>> THEN disk[call.q].data
                                       ELSE Written(call.args.op, disk[call.q].data, d)
<1>1. GoodDisk(disk) /\ (call.lost = {} => IsFile(disk, call.q))
  BY DEF RealInv
<1>2. CASE call.lost # {} \/ d = <<>>
  <2>1. Put(d) = disk
    BY <1>2 DEF Put
  <2> QED BY <1>1, <1>2, <2>1 DEF SameBut
<1>3. CASE call.lost = {} /\ d # <<>>
  <2> DEFINE q == call.q
             w == Written(call.args.op, disk[q].data, d)
             n == [disk[q] EXCEPT !.data = w, !.mtime = Now]
  <2>1. Put(d) = [disk EXCEPT ![q].data = w, ![q].mtime = Now]
    BY <1>3 DEF Put
  <2>2. q \in DOMAIN disk /\ disk[q].kind = "file"
    BY <1>1, <1>3 DEF IsFile
  <2>3. disk[q] \in DiskNodes /\ disk[q].data \in Seq(0..255)
    BY <1>1, <2>2, GoodDiskFacts
  <2>4. w \in Seq(0..255)
    BY <2>3, WrittenType
  <2> HIDE DEF w
  <2>5. n \in DiskNodes /\ n.kind = disk[q].kind /\ n.data = w
    BY <2>3, <2>4, NodeWritten, Zenon
  <2>6. Put(d) = [disk EXCEPT ![q] = n]
    BY <2>1, <2>2
  <2> HIDE DEF n, q
  <2>7. /\ GoodDisk([disk EXCEPT ![q] = n]) /\ DOMAIN [disk EXCEPT ![q] = n] = DOMAIN disk
        /\ \A p \in DOMAIN disk : p # q => [disk EXCEPT ![q] = n][p] = disk[p]
    BY <1>1, <2>2, <2>5, ChangeDisk
  <2>8. q \in DOMAIN Put(d) /\ Put(d)[q] = n
    BY <2>2, <2>6
  <2>9. IsFile(Put(d), q) /\ Put(d)[q].data = w
    BY <2>2, <2>5, <2>8 DEF IsFile
  <2> QED BY <1>3, <2>6, <2>7, <2>9 DEF SameBut, q, w
<1> QED
  BY <1>2, <1>3

LEMMA FlushFacts ==
  ASSUME RealInv, Flush
  PROVE  /\ GoodCall(call) /\ call.pc = "open" /\ call.args.op \in {"writeFile", "appendFile"}
         /\ call' = Idle /\ last'.err = "ok" /\ GoodDisk(disk')
         /\ SameBut(disk, disk', {call.q})
<1>1. /\ GoodCall(call) /\ call.pc = "open" /\ call.args.op \in {"writeFile", "appendFile"}
  BY InCall DEF Flush
<1>2. call' = Idle /\ last'.err = "ok" /\ disk' = Put(call.args.data)
  BY DEF Flush, Answer, Answered
<1>3. call.args.data \in Seq(0..255)
  BY <1>1 DEF GoodCall, CallOf, CallArgs
<1> QED
  BY <1>1, <1>2, <1>3, PutFacts

LEMMA FlushFailsFacts ==
  ASSUME RealInv, FlushFails
  PROVE  /\ GoodCall(call) /\ call.pc = "open" /\ call.args.op \in {"writeFile", "appendFile"}
         /\ call' = Idle /\ last'.full /\ GoodDisk(disk')
         /\ SameBut(disk, disk', {call.q})
         /\ \E d \in PartsOf(call.args.data) : d \in Seq(0..255) /\ disk' = Put(d)
<1>1. /\ GoodCall(call) /\ call.pc = "open" /\ call.args.op \in {"writeFile", "appendFile"}
  BY InCall DEF FlushFails
<1>2. call' = Idle /\ last'.full /\ \E d \in PartsOf(call.args.data) : disk' = Put(d)
  BY DEF FlushFails, Answered
<1>3. PICK d \in PartsOf(call.args.data) : disk' = Put(d)
  BY <1>2
<1>4. call.args.data \in Seq(0..255)
  BY <1>1 DEF GoodCall, CallOf, CallArgs
<1>5. d \in Seq(0..255)
  BY <1>4, PartsAre
<1> QED
  BY <1>1, <1>2, <1>3, <1>5, PutFacts

LEMMA FlushFailsInv ==
  ASSUME RealInv, FlushFails
  PROVE  RealInv'
BY FlushFailsFacts, AnsweredInv

LEMMA FlushInv ==
  ASSUME RealInv, Flush
  PROVE  RealInv'
BY FlushFacts, AnsweredInv

LEMMA RemoveNodeFacts ==
  ASSUME RealInv, RemoveNode
  PROVE  /\ GoodCall(call) /\ call.pc = "resolved" /\ call.args.op \in {"unlink", "rmdir"}
         /\ call' = Idle /\ GoodDisk(disk')
         /\ SameBut(disk, disk', {Named(disk, call.q)})
         /\ last'.err # "ok" => disk' = disk
<1> DEFINE t == Named(disk, call.q)
           a == Closed(disk, t)
           b == IsDir(disk, t) /\ HasChildren(disk, t)
           c == << <<a, "EACCES">>, <<b, "ENOTEMPTY">> >>
<1>1. /\ GoodCall(call) /\ call.pc = "resolved" /\ call.args.op \in {"unlink", "rmdir"}
      /\ GoodDisk(disk)
  BY InCall DEF RemoveNode
<1>2. call' = Idle
  BY DEF RemoveNode, Act, Answer, Answered
<1>3. CASE t \notin DOMAIN disk
  <2>1. disk' = disk
    BY <1>3 DEF RemoveNode
  <2> QED BY <1>1, <1>2, <2>1 DEF SameBut
<1>4. CASE t \in DOMAIN disk
  <2>1. Act(c, Without(disk, {t}))
    BY <1>4 DEF RemoveNode
  <2>2. a \in BOOLEAN /\ b \in BOOLEAN
    BY DEF Closed, ReadOnly, IsDir, HasChildren
  <2> HIDE DEF a, b
  <2>3. FirstError(c) = "ok" <=> ~a /\ ~b
    BY <2>2, CodesAre, TwoDiskChecks, DiskError
  <2> HIDE DEF c, t
  <2>4. /\ last'.err = FirstError(c)
        /\ disk' = IF FirstError(c) = "ok" THEN Without(disk, {t}) ELSE disk
    BY <2>1 DEF Act, Answer, Answered
  <2>5. CASE FirstError(c) # "ok"
    <3>1. disk' = disk
      BY <2>4, <2>5
    <3> QED BY <1>1, <1>2, <3>1 DEF SameBut
  <2>6. CASE FirstError(c) = "ok"
    <3>1. GoodDisk(Without(disk, {t}))
      BY <1>1, <1>4, <2>3, <2>6, RemoveDisk DEF b
    <3>2. SameBut(disk, Without(disk, {t}), {t})
      BY DEF SameBut, Without
    <3> QED BY <1>1, <1>2, <2>4, <2>6, <3>1, <3>2 DEF t
  <2> QED BY <2>5, <2>6
<1> QED
  BY <1>3, <1>4

LEMMA RemoveNodeInv ==
  ASSUME RealInv, RemoveNode
  PROVE  RealInv'
BY RemoveNodeFacts, AnsweredInv

------------------------------------------------------------------------------
(* Links are followed from the first on.                                   *)

LEMMA PrefixOfConcat ==
  ASSUME NEW x \in Seq(STRING), NEW y \in Seq(STRING), NEW i \in 0..Len(x)
  PROVE  /\ SubSeq(x \o y, 1, i) = SubSeq(x, 1, i)
         /\ SubSeq(x \o y, i + 1, Len(x \o y)) = SubSeq(x, i + 1, Len(x)) \o y
<1> DEFINE z == x \o y
<1>1. /\ z \in Seq(STRING) /\ Len(z) = Len(x) + Len(y) /\ Len(x) \in Nat /\ Len(y) \in Nat
      /\ \A j \in 1..Len(x) : z[j] = x[j]
      /\ \A j \in 1..Len(y) : z[Len(x) + j] = y[j]
  OBVIOUS
<1> HIDE DEF z
<1>2. i \in 0..Len(z) /\ i \in 0..Len(x)
  BY <1>1
<1>3. SubSeq(z, 1, i) = SubSeq(x, 1, i)
  <2>1. /\ SubSeq(z, 1, i) \in Seq(STRING) /\ Len(SubSeq(z, 1, i)) = i
        /\ \A j \in 1..i : SubSeq(z, 1, i)[j] = z[j]
    BY <1>1, <1>2, SubSeqFacts
  <2>2. /\ SubSeq(x, 1, i) \in Seq(STRING) /\ Len(SubSeq(x, 1, i)) = i
        /\ \A j \in 1..i : SubSeq(x, 1, i)[j] = x[j]
    BY <1>2, SubSeqFacts
  <2>3. \A j \in 1..i : SubSeq(z, 1, i)[j] = SubSeq(x, 1, i)[j]
    BY <1>1, <1>2, <2>1, <2>2
  <2> QED BY <2>1, <2>2, <2>3, SeqEqual
<1>4. SubSeq(z, i + 1, Len(z)) = SubSeq(x, i + 1, Len(x)) \o y
  <2> DEFINE r == SubSeq(x, i + 1, Len(x))
             s == SubSeq(z, i + 1, Len(z))
  <2>1. /\ s \in Seq(STRING) /\ Len(s) = Len(z) - i
        /\ \A j \in 1..(Len(z) - i) : s[j] = z[i + j]
    BY <1>1, <1>2, TailFacts
  <2>2. /\ r \in Seq(STRING) /\ Len(r) = Len(x) - i
        /\ \A j \in 1..(Len(x) - i) : r[j] = x[i + j]
    BY <1>2, TailFacts
  <2> HIDE DEF r, s
  <2> DEFINE u == r \o y
  <2>3. /\ u \in Seq(STRING) /\ Len(u) = Len(r) + Len(y)
        /\ \A j \in 1..(Len(r) + Len(y)) : u[j] = IF j <= Len(r) THEN r[j] ELSE y[j - Len(r)]
    BY <2>2, ConcatProperties
  <2> HIDE DEF u
  <2>4. Len(u) = Len(s)
    BY <1>1, <1>2, <2>1, <2>2, <2>3
  <2>5. ASSUME NEW j \in 1..Len(s) PROVE s[j] = u[j]
    <3>1. s[j] = z[i + j] /\ i \in Nat /\ j \in Nat
      BY <1>1, <1>2, <2>1
    <3>2. CASE j <= Len(x) - i
      <4>1. i + j \in 1..Len(x) /\ j \in 1..(Len(x) - i) /\ j <= Len(r)
        BY <1>1, <1>2, <2>2, <3>2
      <4>2. z[i + j] = x[i + j]
        BY <1>1, <4>1
      <4>3. u[j] = r[j] /\ r[j] = x[i + j]
        BY <2>2, <2>3, <2>4, <4>1
      <4> QED BY <3>1, <4>2, <4>3
    <3>3. CASE ~(j <= Len(x) - i)
      <4>1. i + j - Len(x) \in 1..Len(y) /\ Len(x) + (i + j - Len(x)) = i + j
            /\ ~(j <= Len(r)) /\ j - Len(r) = i + j - Len(x)
        BY <1>1, <1>2, <2>1, <2>2, <3>1, <3>3
      <4>2. z[i + j] = y[i + j - Len(x)]
        BY <1>1, <4>1
      <4>3. u[j] = y[j - Len(r)]
        BY <2>3, <2>4, <4>1
      <4> QED BY <3>1, <4>1, <4>2, <4>3
    <3> QED BY <3>2, <3>3
  <2>6. s = u
    BY <2>1, <2>3, <2>4, <2>5, SeqEqual
  <2> QED BY <2>6 DEF s, u, r
<1> QED
  BY <1>3, <1>4 DEF z

IsJoin(u, x, y) == u = x \o y

(* u is x and y, w is y and z, and s is x, y and z.                         *)
LEMMA JoinedPaths ==
  ASSUME NEW x \in Seq(STRING), NEW y \in Seq(STRING), NEW z \in Seq(STRING),
         NEW u, NEW w, NEW s, IsJoin(u, x, y), IsJoin(w, y, z), IsJoin(s, x, w)
  PROVE  IsJoin(s, u, z)
<1>1. (x \o y) \o z = x \o (y \o z)
  BY ConcatAssociative
<1>2. u = x \o y /\ w = y \o z /\ s = x \o w
  BY DEF IsJoin
<1>3. s = u \o z
  BY <1>1, <1>2, Zenon
<1> QED
  BY <1>3 DEF IsJoin

LEMMA FollowOneBeyond ==
  ASSUME NEW D, GoodDisk(D), NEW x \in Seq(STRING), NEW y \in Seq(STRING),
         LinksOn(D, x) # {}
  PROVE  FollowOne(D, x \o y) = FollowOne(D, x) \o y
<1> DEFINE S == LinksOn(D, x)
           T == LinksOn(D, x \o y)
           i == CHOOSE i \in S : \A j \in S : i <= j
           k == CHOOSE k \in T : \A j \in T : k <= j
           z == x \o y
<1>1. Len(x) \in Nat /\ Len(y) \in Nat /\ Len(x \o y) = Len(x) + Len(y)
  OBVIOUS
<1>2. \A j \in 1..Len(x) : j \in S <=> j \in T
  <2> SUFFICES ASSUME NEW j \in 1..Len(x) PROVE j \in S <=> j \in T
    OBVIOUS
  <2>1. j \in 0..Len(x) /\ j \in 1..Len(x \o y)
    BY <1>1
  <2>2. SubSeq(x \o y, 1, j) = SubSeq(x, 1, j)
    BY <2>1, PrefixOfConcat
  <2> QED BY <2>1, <2>2 DEF LinksOn
<1>3. S \in SUBSET Nat /\ S \subseteq 1..Len(x) /\ T \in SUBSET Nat
      /\ \A j \in S : IsLink(D, SubSeq(x, 1, j))
  BY DEF LinksOn
<1>4. FollowOne(D, x) = D[SubSeq(x, 1, i)].to \o SubSeq(x, i + 1, Len(x))
  BY DEF FollowOne
<1>5. T # {} => FollowOne(D, z) = D[SubSeq(z, 1, k)].to \o SubSeq(z, k + 1, Len(z))
  BY DEF FollowOne
<1> HIDE DEF S, T
<1>6. i \in S /\ \A j \in S : i <= j
  <2>1. \E j \in S : \A l \in S : j <= l
    BY <1>3, LeastNumber DEF S
  <2> QED BY <2>1
<1>7. T # {}
  BY <1>2, <1>3, <1>6
<1>8. k \in T /\ \A j \in T : k <= j
  <2>1. \E j \in T : \A l \in T : j <= l
    BY <1>3, <1>7, LeastNumber
  <2> QED BY <2>1
<1> HIDE DEF i, k
<1>9. i = k
  <2>1. i \in 1..Len(x) /\ k \in Nat /\ i \in T /\ k <= i
    BY <1>2, <1>3, <1>6, <1>8
  <2>2. k \in 1..Len(x)
    <3>1. k # 0
      BY <1>8 DEF T, LinksOn
    <3> QED BY <1>1, <2>1, <3>1
  <2>3. i <= k
    BY <1>2, <1>6, <1>8, <2>2
  <2> QED BY <2>1, <2>3
<1>10. i \in 0..Len(x) /\ IsLink(D, SubSeq(x, 1, i))
  BY <1>3, <1>6
<1>11. SubSeq(z, 1, i) = SubSeq(x, 1, i)
       /\ SubSeq(z, i + 1, Len(z)) = SubSeq(x, i + 1, Len(x)) \o y
  BY <1>10, PrefixOfConcat
<1> HIDE DEF z
<1> DEFINE to == D[SubSeq(x, 1, i)].to
           r == SubSeq(x, i + 1, Len(x))
<1>12. to \in Seq(STRING) /\ r \in Seq(STRING)
  <2>1. to \in Seq(STRING)
    BY <1>10, GoodDiskFacts DEF IsLink
  <2> QED BY <1>10, <2>1, TailFacts
<1>13. FollowOne(D, x) = to \o r /\ FollowOne(D, z) = to \o (r \o y)
  BY <1>4, <1>5, <1>7, <1>9, <1>11
<1> HIDE DEF to, r
<1>14. to \o (r \o y) = (to \o r) \o y
  <2> DEFINE u == to \o r
             w == r \o y
             s == to \o w
  <2>1. IsJoin(u, to, r) /\ IsJoin(w, r, y) /\ IsJoin(s, to, w)
    BY DEF IsJoin
  <2> HIDE DEF u, w, s
  <2>2. IsJoin(s, u, y)
    BY <1>12, <2>1, JoinedPaths
  <2> QED BY <2>2 DEF IsJoin, s, w, u
<1> QED
  BY <1>13, <1>14 DEF z

(* Where the links of x lead, and no further links.                         *)
LEMMA FollowBeyond ==
  ASSUME NEW D, GoodDisk(D), NEW x \in Seq(STRING), NEW y \in Seq(STRING),
         LinksOn(D, Follow(D, x) \o y) = {}
  PROVE  Follow(D, x \o y) = Follow(D, x) \o y
<1> DEFINE a == FollowOne(D, x)
           b == FollowOne(D, a)
           F == FollowOne(D, b)
<1>1. Follow(D, x) = F
  BY FollowSteps
<1>2. a \in Seq(STRING) /\ b \in Seq(STRING) /\ F \in Seq(STRING)
  BY FollowOneType
<1>3. \A p : LinksOn(D, p) = {} => FollowOne(D, p) = p
  BY DEF FollowOne
<1>4. FollowOne(D, x \o y) = a \o y
  <2>1. CASE LinksOn(D, x) # {}
    BY <2>1, FollowOneBeyond
  <2>2. CASE LinksOn(D, x) = {}
    <3>1. a = x /\ b = x /\ F = x
      BY <1>3, <2>2
    <3> QED BY <1>1, <1>3, <3>1
  <2> QED BY <2>1, <2>2
<1>5. FollowOne(D, a \o y) = b \o y
  <2> HIDE DEF a
  <2>1. CASE LinksOn(D, a) # {}
    BY <1>2, <2>1, FollowOneBeyond
  <2>2. CASE LinksOn(D, a) = {}
    <3>1. b = a /\ F = a
      BY <1>3, <2>2
    <3> QED BY <1>1, <1>3, <3>1
  <2> QED BY <2>1, <2>2
<1>6. FollowOne(D, b \o y) = F \o y
  <2> HIDE DEF b
  <2>1. CASE LinksOn(D, b) # {}
    BY <1>2, <2>1, FollowOneBeyond
  <2>2. CASE LinksOn(D, b) = {}
    <3>1. F = b
      BY <1>3, <2>2
    <3> QED BY <1>1, <1>3, <3>1
  <2> QED BY <2>1, <2>2
<1>7. Follow(D, x \o y) = FollowOne(D, FollowOne(D, FollowOne(D, x \o y)))
  BY FollowSteps
<1> HIDE DEF a, b, F
<1> QED
  BY <1>1, <1>4, <1>5, <1>6, <1>7

(* Where the links are the same, they lead to the same.                     *)
LEMMA SameLinksFollow ==
  ASSUME NEW D, NEW E, GoodDisk(D),
         \A p : IsLink(D, p) <=> IsLink(E, p),
         \A p : IsLink(D, p) => E[p] = D[p],
         NEW p \in Seq(STRING)
  PROVE  Follow(E, p) = Follow(D, p)
<1>1. ASSUME NEW r \in Seq(STRING) PROVE FollowOne(E, r) = FollowOne(D, r)
  <2> DEFINE S == LinksOn(D, r)
             i == CHOOSE i \in S : \A j \in S : i <= j
  <2>1. LinksOn(E, r) = S
    BY DEF LinksOn
  <2>2. CASE S = {}
    BY <2>1, <2>2 DEF FollowOne
  <2>3. CASE S # {}
    <3>1. S \in SUBSET Nat /\ \A j \in S : IsLink(D, SubSeq(r, 1, j))
      BY DEF LinksOn
    <3>2. /\ FollowOne(D, r) = D[SubSeq(r, 1, i)].to \o SubSeq(r, i + 1, Len(r))
          /\ FollowOne(E, r) = E[SubSeq(r, 1, i)].to \o SubSeq(r, i + 1, Len(r))
      BY <2>1, <2>3 DEF FollowOne
    <3>3. i \in S
      <4> HIDE DEF S
      <4>1. \E j \in S : \A l \in S : j <= l
        BY <2>3, <3>1, LeastNumber
      <4> QED BY <4>1
    <3> HIDE DEF S, i
    <3>4. E[SubSeq(r, 1, i)] = D[SubSeq(r, 1, i)]
      BY <3>1, <3>3
    <3> QED BY <3>2, <3>4
  <2> QED BY <2>2, <2>3
<1>2. FollowOne(D, p) \in Seq(STRING) /\ FollowOne(D, FollowOne(D, p)) \in Seq(STRING)
  BY FollowOneType
<1>3. FollowOne(E, p) = FollowOne(D, p)
  BY <1>1
<1>4. FollowOne(E, FollowOne(D, p)) = FollowOne(D, FollowOne(D, p))
  BY <1>1, <1>2
<1>5. FollowOne(E, FollowOne(D, FollowOne(D, p))) = FollowOne(D, FollowOne(D, FollowOne(D, p)))
  BY <1>1, <1>2
<1> QED
  BY <1>3, <1>4, <1>5, FollowSteps

(* New directories where nothing was: no link changes.                      *)
LEMMA AddDirsFacts ==
  ASSUME NEW D, GoodDisk(D), NEW P \in SUBSET Seq(STRING), \A p \in P : p \notin DOMAIN D,
         \A p \in P, s \in Seq(STRING) : IsPrefix(s, p) /\ s # p => s \in P \/ IsDir(D, s)
  PROVE  /\ GoodDisk(AddDirs(D, P)) /\ KeepsLinks(D, AddDirs(D, P))
         /\ \A p \in Seq(STRING) : Follow(AddDirs(D, P), p) = Follow(D, p)
         /\ \A p \in P : IsDir(AddDirs(D, P), p)
         /\ P = {} => AddDirs(D, P) = D
<1> DEFINE E == AddDirs(D, P)
<1>1. GoodDisk(E)
  BY AddDirsDisk
<1>2. /\ DOMAIN E = DOMAIN D \union P
      /\ \A p \in P : E[p] = NewDir
      /\ \A p \in DOMAIN D : E[p] = D[p]
  BY DEF AddDirs
<1>3. P = {} => E = D
  <2> SUFFICES ASSUME P = {} PROVE E = D
    OBVIOUS
  <2>1. D = [p \in DOMAIN D |-> D[p]]
    BY GoodDiskFacts
  <2>2. E = [p \in DOMAIN D |-> D[p]]
    BY DEF AddDirs
  <2> QED BY <2>1, <2>2
<1> HIDE DEF E
<1>4. \A p : IsLink(D, p) <=> IsLink(E, p)
  BY <1>2, NewNodes DEF IsLink
<1>5. \A p : IsLink(D, p) => E[p] = D[p]
  BY <1>2 DEF IsLink
<1>6. \A p \in Seq(STRING) : Follow(E, p) = Follow(D, p)
  BY <1>4, <1>5, SameLinksFollow
<1>7. KeepsLinks(D, E)
  BY <1>2 DEF KeepsLinks
<1>8. \A p \in P : IsDir(E, p)
  BY <1>2, NewNodes DEF IsDir
<1> QED
  BY <1>1, <1>3, <1>6, <1>7, <1>8 DEF E

(* A path whose links lead to a directory and on into it.                   *)
LEMMA FollowInto ==
  ASSUME NEW D, GoodDisk(D), NEW x \in Seq(STRING), NEW y \in Seq(STRING),
         IsDir(D, Follow(D, x) \o y)
  PROVE  Follow(D, x \o y) = Follow(D, x) \o y
<1> DEFINE t == Follow(D, x) \o y
<1>1. t \in DOMAIN D /\ ~IsLink(D, t)
  BY DEF IsDir, IsLink
<1>2. LinksOn(D, t) = {}
  <2> HIDE DEF t
  <2> QED BY <1>1, NotLinkStays, Zenon
<1> QED
  BY <1>2, FollowBeyond

LEMMA FrontAndLast ==
  ASSUME NEW p \in Seq(STRING), p # <<>>
  PROVE  /\ Front(p) \in Seq(STRING) /\ <<Last(p)>> \in Seq(STRING)
         /\ p = Front(p) \o <<Last(p)>>
<1> DEFINE x == Front(p)
           y == <<Last(p)>>
<1>1. x \in Seq(STRING) /\ x = SubSeq(p, 1, Len(p) - 1) /\ Len(x) = Len(p) - 1 /\ Len(p) >= 1
  BY FrontFacts
<1>2. Last(p) \in STRING /\ Last(p) = p[Len(p)]
  BY <1>1 DEF Last
<1>3. y \in Seq(STRING) /\ Len(y) = 1 /\ y[1] = p[Len(p)]
  BY <1>2
<1> HIDE DEF x, y
<1> DEFINE z == x \o y
<1>0. z \in Seq(STRING) /\ Len(z) = Len(x) + Len(y)
      /\ \A j \in 1..(Len(x) + Len(y)) : z[j] = IF j <= Len(x) THEN x[j] ELSE y[j - Len(x)]
  <2>1. x \in Seq(STRING) /\ y \in Seq(STRING)
    BY <1>1, <1>3
  <2> QED BY <2>1, ConcatProperties
<1> HIDE DEF z
<1>4. Len(z) = Len(p) /\ Len(p) \in Nat
      /\ \A j \in 1..Len(p) : z[j] = IF j <= Len(p) - 1 THEN x[j] ELSE y[j - (Len(p) - 1)]
  BY <1>0, <1>1, <1>3
<1>5. ASSUME NEW i \in 1..Len(p) PROVE p[i] = z[i]
  <2>1. Len(p) - 1 \in 0..Len(p) /\ Len(p) \in Nat
    BY <1>1
  <2>2. \A j \in 1..(Len(p) - 1) : x[j] = p[j]
    <3>1. \A j \in 1..(Len(p) - 1) : SubSeq(p, 1, Len(p) - 1)[j] = p[j]
      BY <2>1, SubSeqFacts
    <3> QED BY <1>1, <3>1
  <2>3. CASE i = Len(p)
    <3>1. ~(i <= Len(p) - 1) /\ i - (Len(p) - 1) = 1
      BY <2>1, <2>3
    <3> QED BY <1>3, <1>4, <2>3, <3>1
  <2>4. CASE i # Len(p)
    <3>1. i \in 1..(Len(p) - 1) /\ i <= Len(p) - 1
      BY <2>1, <2>4
    <3> QED BY <1>4, <2>2, <3>1
  <2> QED BY <2>3, <2>4
<1>6. p = z
  BY <1>0, <1>4, <1>5, SeqEqual
<1> QED
  BY <1>1, <1>3, <1>6, Zenon DEF x, y, z

(* One directory is new, and leads where there was nothing.                 *)
MakesOne(t, D) ==
  /\ t \in Seq(STRING) /\ t \notin DOMAIN disk /\ D = AddDirs(disk, {t})
  /\ \A p \in Seq(STRING) : Follow(D, p) = Follow(disk, p)

(* What a function that makes directories returns.                          *)
Makes(q, m) ==
  /\ GoodDisk(m.disk) /\ KeepsLinks(disk, m.disk)
  /\ m.err # "ok" => m.disk = disk
  /\ m.err = "ok" =>
       /\ IsDir(m.disk, Follow(m.disk, q))
       /\ m.disk = disk \/ MakesOne(Follow(m.disk, q), m.disk)

LEMMA MadeIs ==
  ASSUME NEW err, NEW P
  PROVE  /\ Made(err, P).err = err
         /\ err = "ok" => Made(err, P).disk = AddDirs(disk, P)
         /\ err # "ok" => Made(err, P).disk = disk
BY DEF Made

LEMMA MakesNothing ==
  ASSUME GoodDisk(disk), NEW q, NEW m, m.disk = disk,
         m.err = "ok" => IsDir(disk, Follow(disk, q))
  PROVE  Makes(q, m)
BY DEF Makes, KeepsLinks

LEMMA CreateDirectoryFacts ==
  ASSUME GoodDisk(disk), NEW q \in Seq(STRING)
  PROVE  Makes(q, CreateDirectory(q))
<1> DEFINE t == Named(disk, q)
           m == CreateDirectory(q)
           a == t \in DOMAIN disk
           b == Closed(disk, t)
           c == InDir(disk, t) \o << <<a, "EEXIST">>, <<b, "EACCES">> >>
           err == FirstError(c)
<1>1. CASE IsDir(disk, Follow(disk, q))
  <2>1. m = Made("ok", {})
    BY <1>1 DEF CreateDirectory
  <2>2. AddDirs(disk, {}) = disk
    BY AddDirsFacts
  <2>3. m.disk = disk
    BY <2>1, <2>2, MadeIs
  <2> QED BY <1>1, <2>3, MakesNothing
<1>2. CASE ~IsDir(disk, Follow(disk, q))
  <2>1. m = Made(err, {t})
    BY <1>2 DEF CreateDirectory
  <2>2. t \in Seq(STRING)
    BY NamedType
  <2>3. a \in BOOLEAN /\ b \in BOOLEAN
    BY DEF Closed, ReadOnly
  <2> HIDE DEF a, b
  <2>4. InDir(disk, t) \in DiskChecks /\ (Passes(InDir(disk, t)) => LeadTo(disk, t))
    <3> HIDE DEF t
    <3> QED BY <2>2, InDirChecks, InDirFinds
  <2>5. err = "ok" => ~a /\ LeadTo(disk, t)
    <3> DEFINE d == << <<a, "EEXIST">>, <<b, "EACCES">> >>
    <3>1. d \in DiskChecks /\ (Passes(d) <=> ~a /\ ~b)
      BY <2>3, CodesAre, TwoDiskChecks
    <3> HIDE DEF d, t
    <3>2. c \in DiskChecks /\ (Passes(c) <=> Passes(InDir(disk, t)) /\ Passes(d))
      BY <2>4, <3>1, MoreDiskChecks DEF d
    <3> HIDE DEF c
    <3> QED BY <2>4, <3>1, <3>2, DiskError
  <2> HIDE DEF err, m
  <2>6. CASE err # "ok"
    BY <2>1, <2>6, MadeIs, MakesNothing DEF m
  <2>7. CASE err = "ok"
    <3> DEFINE E == AddDirs(disk, {t})
    <3>1. t \notin DOMAIN disk /\ LeadTo(disk, t)
      BY <2>5, <2>7 DEF a
    <3>2. /\ GoodDisk(E) /\ KeepsLinks(disk, E) /\ IsDir(E, t)
          /\ \A p \in Seq(STRING) : Follow(E, p) = Follow(disk, p)
      <4> HIDE DEF t
      <4>1. {t} \in SUBSET Seq(STRING) /\ \A p \in {t} : p \notin DOMAIN disk
        BY <2>2, <3>1
      <4>2. \A p \in {t}, s \in Seq(STRING) : IsPrefix(s, p) /\ s # p => s \in {t} \/ IsDir(disk, s)
        BY <3>1 DEF LeadTo
      <4> QED BY <4>1, <4>2, AddDirsFacts
    <3> HIDE DEF E
    <3>3. Follow(E, q) = t
      <4>1. CASE q = <<>>
        <5>1. t = q /\ Len(q) = 0
          BY <4>1 DEF Named
        <5>2. LinksOn(E, q) = {}
          BY <5>1 DEF LinksOn
        <5> QED BY <5>1, <5>2, FollowStays
      <4>2. CASE q # <<>>
        <5> DEFINE x == Front(q)
                   y == <<Last(q)>>
        <5>1. x \in Seq(STRING) /\ y \in Seq(STRING) /\ q = x \o y
          BY <4>2, FrontAndLast
        <5>2. Follow(disk, x) \in Seq(STRING)
          BY <5>1, FollowType
        <5>3. t = Follow(disk, x) \o y
          BY <4>2, <5>2 DEF Named
        <5> HIDE DEF x, y, t
        <5>4. Follow(E, x) = Follow(disk, x)
          BY <3>2, <5>1
        <5>5. IsDir(E, Follow(E, x) \o y)
          BY <3>2, <5>3, <5>4
        <5>6. Follow(E, x \o y) = Follow(E, x) \o y
          BY <3>2, <5>1, <5>5, FollowInto
        <5> QED BY <5>1, <5>3, <5>4, <5>6
      <4> QED BY <4>1, <4>2
    <3>4. m.disk = E /\ m.err = "ok"
      BY <2>1, <2>7, MadeIs DEF E
    <3>6. MakesOne(t, E)
      BY <2>2, <3>1, <3>2 DEF MakesOne, E
    <3> HIDE DEF t
    <3>5. Makes(q, m)
      BY <3>2, <3>3, <3>4, <3>6 DEF Makes
    <3> QED BY <3>5 DEF m
  <2> QED BY <2>6, <2>7
<1> QED
  BY <1>1, <1>2

(* On an empty disk all is made.                                            *)
LEMMA NothingThere ==
  ASSUME NEW D, GoodDisk(D), <<>> \notin DOMAIN D
  PROVE  DOMAIN D = {}
<1> SUFFICES ASSUME NEW p \in DOMAIN D
             PROVE  FALSE
  OBVIOUS
<1>1. p \in Seq(STRING) /\ LeadTo(D, p) /\ <<>> # p
  BY NodeLeadTo
<1>2. IsPrefix(<<>>, p) /\ <<>> \in Seq(STRING)
  BY <1>1, PrefixIsSubSeq, EmptySeq
<1>3. IsDir(D, <<>>)
  BY <1>1, <1>2 DEF LeadTo
<1> QED
  BY <1>3 DEF IsDir

PrefixesOf(q) == {SubSeq(q, 1, j) : j \in 0..Len(q)}

LEMMA SplitAt ==
  ASSUME NEW q \in Seq(STRING), NEW k \in 0..Len(q)
  PROVE  /\ SubSeq(q, 1, k) \in Seq(STRING) /\ SubSeq(q, k + 1, Len(q)) \in Seq(STRING)
         /\ q = SubSeq(q, 1, k) \o SubSeq(q, k + 1, Len(q))
         /\ Len(SubSeq(q, k + 1, Len(q))) = Len(q) - k
         /\ k < Len(q) => SubSeq(q, k + 1, Len(q))[1] = q[k + 1]
         /\ \A j \in (k + 1)..Len(q) :
              SubSeq(q, k + 1, j) = SubSeq(SubSeq(q, k + 1, Len(q)), 1, j - k)
<1> DEFINE x == SubSeq(q, 1, k)
           y == SubSeq(q, k + 1, Len(q))
<1>1. Len(q) \in Nat /\ k \in Nat /\ k <= Len(q)
  OBVIOUS
<1>2. x \in Seq(STRING) /\ Len(x) = k /\ \A i \in 1..k : x[i] = q[i]
  BY SubSeqFacts
<1>3. y \in Seq(STRING) /\ Len(y) = Len(q) - k /\ \A i \in 1..(Len(q) - k) : y[i] = q[k + i]
  BY TailFacts
<1>4. ASSUME NEW j \in (k + 1)..Len(q)
      PROVE  SubSeq(q, k + 1, j) = SubSeq(y, 1, j - k)
  <2> DEFINE r == SubSeq(q, k + 1, j)
             s == SubSeq(y, 1, j - k)
  <2>1. j - k \in 0..Len(y) /\ j \in Nat /\ k + 1 <= j /\ j <= Len(q)
    BY <1>1, <1>3
  <2>2. r \in Seq(STRING) /\ Len(r) = j - k /\ \A i \in 1..(j - k) : r[i] = q[k + i]
    <3>1. \A i \in (k + 1)..j : q[i] \in STRING
      BY <1>1, <2>1
    <3>2. k + 1 \in Int /\ j \in Int /\ j - (k + 1) + 1 = j - k
      BY <1>1, <2>1
    <3>3. /\ r \in Seq(STRING)
          /\ Len(r) = IF k + 1 <= j THEN j - (k + 1) + 1 ELSE 0
          /\ \A i \in 1..(j - (k + 1) + 1) : r[i] = q[k + 1 + i - 1]
      BY <3>1, <3>2, SubSeqProperties
    <3>4. \A i \in 1..(j - k) : k + 1 + i - 1 = k + i
      BY <1>1, <2>1
    <3> HIDE DEF r
    <3> QED BY <2>1, <3>2, <3>3, <3>4
  <2> HIDE DEF y
  <2>3. s \in Seq(STRING) /\ Len(s) = j - k /\ \A i \in 1..(j - k) : s[i] = y[i]
    BY <1>3, <2>1, SubSeqFacts
  <2> HIDE DEF r, s
  <2>4. \A i \in 1..(j - k) : r[i] = s[i]
    <3>1. \A i \in 1..(j - k) : i \in 1..(Len(q) - k)
      BY <1>1, <2>1
    <3> QED BY <1>3, <2>2, <2>3, <3>1
  <2>5. r = s
    BY <2>2, <2>3, <2>4, SeqEqual
  <2> QED BY <2>5 DEF r, s
<1> HIDE DEF x, y
<1> DEFINE z == x \o y
<1>5. /\ z \in Seq(STRING) /\ Len(z) = Len(x) + Len(y)
      /\ \A i \in 1..(Len(x) + Len(y)) : z[i] = IF i <= Len(x) THEN x[i] ELSE y[i - Len(x)]
  <2>1. x \in Seq(STRING) /\ y \in Seq(STRING)
    BY <1>2, <1>3
  <2> QED BY <2>1, ConcatProperties
<1> HIDE DEF z
<1>6. Len(z) = Len(q)
      /\ \A i \in 1..Len(q) : z[i] = IF i <= k THEN x[i] ELSE y[i - k]
  BY <1>1, <1>2, <1>3, <1>5
<1>7. ASSUME NEW i \in 1..Len(q) PROVE q[i] = z[i]
  <2>1. CASE i <= k
    <3>1. i \in 1..k
      BY <1>1, <2>1
    <3> QED BY <1>2, <1>6, <2>1, <3>1
  <2>2. CASE ~(i <= k)
    <3>1. i - k \in 1..(Len(q) - k) /\ k + (i - k) = i
      BY <1>1, <2>2
    <3> QED BY <1>3, <1>6, <2>2, <3>1
  <2> QED BY <2>1, <2>2
<1>8. q = z
  BY <1>5, <1>6, <1>7, SeqEqual
<1>9. k < Len(q) => y[1] = q[k + 1]
  BY <1>1, <1>3
<1> QED
  BY <1>2, <1>3, <1>4, <1>8, <1>9 DEF x, y, z

LEMMA AllMadeFacts ==
  ASSUME GoodCall(call), AllMade
  PROVE  \/ call' = Idle /\ last'.err = "ok"
         \/ /\ GoodCall(call') /\ call'.pc = "made" /\ call'.args = call.args
            /\ call'.q = call.q /\ call'.lost = call.lost /\ call'.alone = call.alone
            /\ call'.start = call.start /\ call'.size = call.size
<1> DEFINE c == GoesTo(call, "made")
<1>1. (call' = Idle /\ last'.err = "ok") \/ call' = c
  BY DEF AllMade, Goto, Answer, Answered, GoesTo
<1>2. /\ GoodCall(c) /\ c.pc = "made" /\ c.q = call.q /\ c.args = call.args
      /\ c.lost = call.lost /\ c.alone = call.alone /\ c.start = call.start
      /\ c.size = call.size
  BY Goes DEF Pcs
<1> HIDE DEF c
<1> QED
  BY <1>1, <1>2

(* The prefixes of q that lead to something, and the longest of them.       *)
Leading(D, q) == {i \in 0..Len(q) : Follow(D, SubSeq(q, 1, i)) \in DOMAIN D}

Longest(D, q) ==
  IF Leading(D, q) = {} THEN -1
  ELSE CHOOSE i \in Leading(D, q) : \A j \in Leading(D, q) : j <= i

LEMMA LongestFacts ==
  ASSUME NEW D, NEW q \in Seq(STRING)
  PROVE  /\ Longest(D, q) \in -1..Len(q)
         /\ \A j \in Leading(D, q) : j <= Longest(D, q)
         /\ Leading(D, q) # {} => Longest(D, q) \in Leading(D, q)
         /\ Leading(D, q) = {} => Longest(D, q) = -1
<1>1. Len(q) \in Nat /\ Leading(D, q) \in SUBSET (0..Len(q))
  BY DEF Leading
<1>2. CASE Leading(D, q) = {}
  BY <1>1, <1>2 DEF Longest
<1>3. CASE Leading(D, q) # {}
  <2>1. \E i \in Leading(D, q) : \A j \in Leading(D, q) : j <= i
    BY <1>1, <1>3, LongestThere
  <2>2. Longest(D, q) = CHOOSE i \in Leading(D, q) : \A j \in Leading(D, q) : j <= i
    BY <1>3 DEF Longest
  <2> QED BY <1>1, <1>3, <2>1, <2>2
<1> QED
  BY <1>2, <1>3

(* FindMissing: a file on the way, all is there, or a directory is missing. *)
LEMMA FindMissingFacts ==
  ASSUME RealInv, FindMissing
  PROVE  /\ GoodCall(call) /\ call.pc = "resolved" /\ call.args.op = "mkdir"
         /\ call.args.recursive /\ disk' = disk
         /\ \/ /\ call' = Idle /\ last'.err # "ok" /\ Leading(disk, call.q) # {}
               /\ last'.err \in {"ELOOP", "ENOTDIR"}
               /\ ~IsDir(disk, Follow(disk, SubSeq(call.q, 1, Longest(disk, call.q))))
            \/ AllMade /\ IsDir(disk, Follow(disk, call.q))
            \/ /\ Longest(disk, call.q) < Len(call.q)
               /\ GoodCall(call') /\ call'.pc = "making" /\ call'.args = call.args
               /\ call'.size = Longest(disk, call.q) + 1
               /\ call'.q = call.q /\ call'.lost = call.lost /\ call'.alone = call.alone
               /\ call'.start = call.start
               /\ \/ Leading(disk, call.q) = {}
                  \/ IsDir(disk, Follow(disk, SubSeq(call.q, 1, Longest(disk, call.q))))
<1> DEFINE there == {i \in 0..Len(call.q) : Follow(disk, SubSeq(call.q, 1, i)) \in DOMAIN disk}
           k == IF there = {} THEN -1 ELSE CHOOSE i \in there : \A j \in there : j <= i
           base == Follow(disk, SubSeq(call.q, 1, k))
           c == [call EXCEPT !.pc = "making", !.size = k + 1]
<1>1. /\ GoodCall(call) /\ call.pc = "resolved" /\ call.args.op = "mkdir" /\ GoodDisk(disk)
      /\ call.args.recursive /\ disk' = disk
  BY InCall DEF FindMissing, At
<1>2. call.q \in Seq(STRING)
  BY <1>1 DEF GoodCall, CallOf
<1>3. \/ /\ there # {} /\ ~IsDir(disk, base) /\ call' = Idle
         /\ last'.err \in {"ELOOP", "ENOTDIR"}
      \/ (there = {} \/ IsDir(disk, base)) /\ k = Len(call.q) /\ AllMade
      \/ (there = {} \/ IsDir(disk, base)) /\ k # Len(call.q) /\ call' = c
  <2> HIDE DEF there, k, base, c
  <2>1. IF there # {} /\ ~IsDir(disk, base)
        THEN Answer(IF IsLink(disk, base) THEN "ELOOP" ELSE "ENOTDIR")
        ELSE IF k = Len(call.q) THEN AllMade ELSE call' = c /\ UNCHANGED last
    BY DEF FindMissing, there, k, base, c
  <2>2. CASE there # {} /\ ~IsDir(disk, base)
    <3>1. Answer(IF IsLink(disk, base) THEN "ELOOP" ELSE "ENOTDIR")
      BY <2>1, <2>2
    <3> QED BY <2>2, <3>1 DEF Answer, Answered
  <2>3. CASE ~(there # {} /\ ~IsDir(disk, base))
    BY <2>1, <2>3
  <2> QED BY <2>2, <2>3
<1>4. there = Leading(disk, call.q) /\ k = Longest(disk, call.q)
  BY DEF Leading, Longest
<1> HIDE DEF there, k
<1>5. /\ k \in -1..Len(call.q) /\ (there # {} => k \in there)
      /\ there = {} => k = -1
  BY <1>2, <1>4, LongestFacts
<1>6. CASE there # {} /\ ~IsDir(disk, base) /\ call' = Idle
           /\ last'.err \in {"ELOOP", "ENOTDIR"}
  BY <1>1, <1>4, <1>6
<1>7. CASE (there = {} \/ IsDir(disk, base)) /\ k = Len(call.q) /\ AllMade
  <2>1. there # {} /\ SubSeq(call.q, 1, k) = call.q
    BY <1>2, <1>5, <1>7, WholeSubSeq
  <2> QED BY <1>1, <1>7, <2>1
<1>8. CASE (there = {} \/ IsDir(disk, base)) /\ k # Len(call.q) /\ call' = c
  <2>1. k + 1 \in Nat /\ k < Len(call.q)
    BY <1>2, <1>5, <1>8
  <2> DEFINE d == GoesTo(call, "making")
  <2>2. /\ GoodCall(d) /\ d.pc = "making" /\ d.q = call.q /\ d.args = call.args
        /\ d.lost = call.lost /\ d.alone = call.alone /\ d.start = call.start
    BY <1>1, Goes DEF Pcs
  <2>3. c = OfSize(d, k + 1)
    BY DEF GoesTo, OfSize
  <2> HIDE DEF c, d
  <2>4. /\ GoodCall(c) /\ c.pc = d.pc /\ c.args = d.args /\ c.q = d.q /\ c.size = k + 1
        /\ c.lost = d.lost /\ c.alone = d.alone /\ c.start = d.start
    BY <2>1, <2>2, <2>3, TakesSize
  <2> HIDE DEF base
  <2>5. /\ GoodCall(call') /\ call'.pc = "making" /\ call'.args = call.args
        /\ call'.size = Longest(disk, call.q) + 1
        /\ call'.q = call.q /\ call'.lost = call.lost /\ call'.alone = call.alone
        /\ call'.start = call.start
    BY <1>4, <1>8, <2>2, <2>4
  <2> QED BY <1>1, <1>4, <1>8, <2>1, <2>5 DEF base
<1> QED
  BY <1>3, <1>6, <1>7, <1>8

LEMMA FindMissingInv ==
  ASSUME RealInv, FindMissing
  PROVE  RealInv'
<1>1. GoodDisk(disk') /\ GoodCall(call) /\ disk' = disk
  BY FindMissingFacts DEF RealInv
<1>2. CASE AllMade
  <2>1. call' = Idle \/ (GoodCall(call') /\ call'.pc = "made")
    BY <1>1, <1>2, AllMadeFacts
  <2> QED BY <1>1, <2>1, AnsweredInv, GoesOnInv
<1>3. CASE ~AllMade
  <2>1. \/ call' = Idle
        \/ /\ GoodCall(call') /\ call'.pc = "making" /\ call'.q = call.q
           /\ Longest(disk, call.q) < Len(call.q)
           /\ call'.size = Longest(disk, call.q) + 1
    BY <1>3, FindMissingFacts
  <2>2. call.q \in Seq(STRING)
    BY <1>1 DEF GoodCall, CallOf
  <2>3. Longest(disk, call.q) \in Int
    BY <2>2, LongestFacts
  <2>4. Longest(disk, call.q) < Len(call.q) => Longest(disk, call.q) + 1 <= Len(call.q)
    BY <2>2, <2>3
  <2> QED BY <1>1, <2>1, <2>4, AnsweredInv, GoesOnInv
<1> QED
  BY <1>2, <1>3

(* MakeDir: the directory that is made next, and what is made of it.        *)
NextLength(c) == IF c.pc = "making" THEN c.size ELSE Len(c.q)

LEMMA MakeDirFacts ==
  ASSUME RealInv, MakeDir
  PROVE  /\ GoodCall(call) /\ call.args.op = "mkdir" /\ GoodDisk(disk)
         /\ call.pc = "making" \/ (call.pc = "resolved" /\ ~call.args.recursive)
         /\ NextLength(call) \in 0..Len(call.q) /\ SubSeq(call.q, 1, NextLength(call)) \in Seq(STRING)
         /\ GoodDisk(disk') /\ KeepsLinks(disk, disk')
         /\ LET x    == SubSeq(call.q, 1, NextLength(call))
                made == CreateDirectory(x)
            IN  /\ Makes(x, made)
                /\ \/ /\ made.err # "ok" /\ call' = Idle /\ last'.err = made.err /\ ~last'.full
                      /\ disk' = disk
                   \/ /\ made.err = "ok" /\ disk' = made.disk
                      /\ NextLength(call) = Len(call.q) /\ AllMade
                   \/ /\ made.err = "ok" /\ disk' = made.disk
                      /\ NextLength(call) < Len(call.q)
                      /\ GoodCall(call') /\ call'.pc = call.pc /\ call'.args = call.args
                      /\ call'.size = NextLength(call) + 1
                      /\ call'.q = call.q /\ call'.lost = call.lost
                      /\ call'.alone = call.alone /\ call'.start = call.start
                   \/ /\ made.err = "ok" /\ made.disk # disk
                      /\ call' = Idle /\ last'.err # "ok" /\ last'.full /\ disk' = disk
<1> DEFINE n == IF call.pc = "making" THEN call.size ELSE Len(call.q)
           x == SubSeq(call.q, 1, n)
           made == CreateDirectory(x)
           c == OfSize(call, n + 1)
<1>1. /\ GoodCall(call) /\ call.args.op = "mkdir" /\ GoodDisk(disk)
      /\ call.pc = "making" \/ (call.pc = "resolved" /\ ~call.args.recursive)
  BY InCall DEF MakeDir, At
<1>2. call.q \in Seq(STRING) /\ call.size \in Nat
  BY <1>1 DEF GoodCall, CallOf
<1>3. n \in 0..Len(call.q) /\ n = NextLength(call)
  BY <1>2 DEF RealInv, NextLength
<1>4. \/ made.err # "ok" /\ call' = Idle /\ last'.err = made.err /\ ~last'.full /\ disk' = disk
      \/ made.err = "ok" /\ disk' = made.disk /\ n = Len(call.q) /\ AllMade
      \/ made.err = "ok" /\ disk' = made.disk /\ n # Len(call.q) /\ call' = c
      \/ /\ made.err = "ok" /\ made.disk # disk
         /\ call' = Idle /\ last'.err # "ok" /\ last'.full /\ disk' = disk
  BY DEF MakeDir, Answer, Answered, OfSize
<1> HIDE DEF n
<1>5. x \in Seq(STRING)
  BY <1>2, <1>3, SubSeqFacts
<1> HIDE DEF x
<1>6. Makes(x, made)
  BY <1>1, <1>5, CreateDirectoryFacts
<1> HIDE DEF made
<1>7. GoodDisk(disk') /\ KeepsLinks(disk, disk')
  <2>1. KeepsLinks(disk, disk)
    BY DEF KeepsLinks
  <2> QED BY <1>1, <1>4, <1>6, <2>1 DEF Makes
<1>8. n + 1 \in Nat /\ (n # Len(call.q) => n < Len(call.q))
  BY <1>2, <1>3
<1>9. /\ GoodCall(c) /\ c.pc = call.pc /\ c.args = call.args /\ c.q = call.q /\ c.size = n + 1
      /\ c.lost = call.lost /\ c.alone = call.alone /\ c.start = call.start
  BY <1>1, <1>8, TakesSize
<1> HIDE DEF c
<1>10. x = SubSeq(call.q, 1, NextLength(call)) /\ made = CreateDirectory(x)
  BY <1>3 DEF x, made
<1>11. \/ made.err # "ok" /\ call' = Idle /\ last'.err = made.err /\ ~last'.full /\ disk' = disk
       \/ made.err = "ok" /\ disk' = made.disk /\ NextLength(call) = Len(call.q) /\ AllMade
       \/ /\ made.err = "ok" /\ disk' = made.disk /\ NextLength(call) < Len(call.q)
          /\ GoodCall(call') /\ call'.pc = call.pc /\ call'.args = call.args
          /\ call'.size = NextLength(call) + 1
          /\ call'.q = call.q /\ call'.lost = call.lost
          /\ call'.alone = call.alone /\ call'.start = call.start
       \/ /\ made.err = "ok" /\ made.disk # disk
          /\ call' = Idle /\ last'.err # "ok" /\ last'.full /\ disk' = disk
  BY <1>3, <1>4, <1>8, <1>9
<1> QED
  BY <1>1, <1>3, <1>5, <1>6, <1>7, <1>10, <1>11

LEMMA MakeDirInv ==
  ASSUME RealInv, MakeDir
  PROVE  RealInv'
<1>1. GoodDisk(disk') /\ GoodCall(call)
  BY MakeDirFacts
<1>2. CASE AllMade
  <2>1. call' = Idle \/ (GoodCall(call') /\ call'.pc = "made")
    BY <1>1, <1>2, AllMadeFacts
  <2> QED BY <1>1, <2>1, AnsweredInv, GoesOnInv
<1>3. CASE ~AllMade
  <2>1. \/ call' = Idle
        \/ /\ GoodCall(call') /\ call'.pc = call.pc /\ call'.q = call.q
           /\ NextLength(call) < Len(call.q) /\ call'.size = NextLength(call) + 1
    BY <1>3, MakeDirFacts
  <2>2. NextLength(call) \in 0..Len(call.q) /\ call.q \in Seq(STRING)
        /\ call.pc \in {"making", "resolved"}
    BY <1>1, MakeDirFacts DEF GoodCall, CallOf
  <2>3. NextLength(call) < Len(call.q) => NextLength(call) + 1 <= Len(call.q)
    BY <2>2
  <2> QED BY <1>1, <2>1, <2>2, <2>3, AnsweredInv, GoesOnInv
<1> QED
  BY <1>2, <1>3

(* The steps that answer and change a node, without making it another kind. *)
LEMMA ChangesNode ==
  ASSUME GoodDisk(disk), NEW t \in DOMAIN disk, NEW n \in DiskNodes, n.kind = disk[t].kind,
         disk' = [disk EXCEPT ![t] = n]
  PROVE  GoodDisk(disk') /\ SameBut(disk, disk', {t})
<1>1. /\ GoodDisk([disk EXCEPT ![t] = n]) /\ DOMAIN [disk EXCEPT ![t] = n] = DOMAIN disk
      /\ \A p \in DOMAIN disk : p # t => [disk EXCEPT ![t] = n][p] = disk[p]
  BY ChangeDisk
<1> QED
  BY <1>1 DEF SameBut

LEMMA ActFacts ==
  ASSUME NEW c \in DiskChecks, NEW D, Act(c, D)
  PROVE  /\ call' = Idle
         /\ \/ Passes(c) /\ last'.err = "ok" /\ disk' = D
            \/ ~Passes(c) /\ last'.err # "ok" /\ disk' = disk
<1>1. call' = Idle /\ last'.err = FirstError(c) /\ disk' = IF FirstError(c) = "ok" THEN D ELSE disk
  BY DEF Act, Answer, Answered
<1>2. FirstError(c) = "ok" <=> Passes(c)
  BY DiskError
<1> QED
  BY <1>1, <1>2

LEMMA ChmodFacts ==
  ASSUME RealInv, Chmod
  PROVE  /\ GoodCall(call) /\ call.pc = "made" /\ call.args.op = "mkdir"
         /\ call' = Idle /\ GoodDisk(disk')
         /\ KeepsLinks(disk, disk')
         /\ last'.err # "ok" => /\ disk' = disk
                                /\ ~(Follow(disk, call.q) \in DOMAIN disk
                                     /\ ~IsLink(disk, Follow(disk, call.q)))
<1> DEFINE t == Follow(disk, call.q)
           D == IF t \in DOMAIN disk THEN [disk EXCEPT ![t].mode = call.args.mode] ELSE disk
<1>1. GoodCall(call) /\ call.pc = "made" /\ call.args.op = "mkdir" /\ GoodDisk(disk)
  BY InCall DEF Chmod, At
<1>2. t \in Seq(STRING) /\ call.args.mode \in Mode
  BY <1>1, FollowType DEF GoodCall, CallOf, CallArgs
<1>3. Lookup(disk, t) \in DiskChecks
      /\ (Passes(Lookup(disk, t)) <=> t \in DOMAIN disk /\ ~IsLink(disk, t))
  BY <1>1, <1>2, LookupChecks, LookupFinds
<1>4. Act(Lookup(disk, t), D)
  BY DEF Chmod
<1> HIDE DEF D
<1>5. /\ call' = Idle
      /\ \/ Passes(Lookup(disk, t)) /\ last'.err = "ok" /\ disk' = D
         \/ ~Passes(Lookup(disk, t)) /\ last'.err # "ok" /\ disk' = disk
  BY <1>3, <1>4, ActFacts
<1>6. CASE ~Passes(Lookup(disk, t)) /\ last'.err # "ok" /\ disk' = disk
  BY <1>1, <1>3, <1>5, <1>6 DEF KeepsLinks
<1>7. CASE Passes(Lookup(disk, t)) /\ last'.err = "ok" /\ disk' = D
  <2> DEFINE n == [disk[t] EXCEPT !.mode = call.args.mode]
  <2>1. t \in DOMAIN disk /\ ~IsLink(disk, t)
    BY <1>3, <1>7
  <2>2. disk' = [disk EXCEPT ![t] = n]
    BY <1>7, <2>1 DEF D
  <2> HIDE DEF t
  <2>3. n \in DiskNodes /\ n.kind = disk[t].kind
    BY <1>1, <1>2, <2>1, GoodDiskFacts, NodeMode
  <2> HIDE DEF n
  <2>4. GoodDisk(disk') /\ SameBut(disk, disk', {t})
    BY <1>1, <2>1, <2>2, <2>3, ChangesNode
  <2>5. KeepsLinks(disk, disk')
    BY <2>1, <2>4, SameKeepsLinks
  <2> QED BY <1>1, <1>5, <1>7, <2>4, <2>5
<1> QED
  BY <1>5, <1>6, <1>7

LEMMA ChmodInv ==
  ASSUME RealInv, Chmod
  PROVE  RealInv'
BY ChmodFacts, AnsweredInv

LEMMA TakesStatus ==
  ASSUME NEW c, GoodCall(c), NEW x
  PROVE  /\ GoodCall(OfStatus(c, x))
         /\ OfStatus(c, x).pc = c.pc /\ OfStatus(c, x).args = c.args
         /\ OfStatus(c, x).q = c.q /\ OfStatus(c, x).q2 = c.q2
         /\ OfStatus(c, x).lost = c.lost /\ OfStatus(c, x).alone = c.alone
         /\ OfStatus(c, x).start = c.start
<1> DEFINE e == OfStatus(c, x)
<1>1. e \in CallOf(x, c.start)
  BY CallOfFields DEF GoodCall
<1>2. /\ e.pc = c.pc /\ e.args = c.args /\ e.q = c.q /\ e.q2 = c.q2 /\ e.size = c.size
      /\ e.lost = c.lost /\ e.got = x /\ e.alone = c.alone /\ e.start = c.start
  BY DEF OfStatus, GoodCall, CallOf
<1> HIDE DEF e
<1>3. GoodCall(e)
  BY <1>1, <1>2 DEF GoodCall
<1> QED
  BY <1>2, <1>3 DEF e

LEMMA StatusFacts ==
  ASSUME RealInv, Status
  PROVE  /\ GoodCall(call) /\ call.pc = "resolved" /\ call.args.op \in {"stat", "lstat"}
         /\ disk' = disk
         /\ \/ call' = Idle
            \/ /\ GoodCall(call') /\ call'.pc = "status" /\ call'.args = call.args
               /\ call'.q = call.q /\ call'.lost = call.lost /\ call'.alone = call.alone
               /\ call'.start = call.start
<1> DEFINE t == IF call.args.op = "stat" THEN Follow(disk, call.q) ELSE Named(disk, call.q)
           got == [kind |-> disk[t].kind, mode |-> disk[t].mode]
           d == GoesTo(call, "status")
           c == [call EXCEPT !.pc = "status", !.got = got]
<1>1. /\ GoodCall(call) /\ call.pc = "resolved" /\ call.args.op \in {"stat", "lstat"}
      /\ disk' = disk
  BY InCall DEF Status
<1>2. call' = Idle \/ call' = c
  BY DEF Status, Answer, Answered
<1> HIDE DEF got
<1>3. /\ GoodCall(d) /\ d.pc = "status" /\ d.args = call.args /\ d.q = call.q
      /\ d.lost = call.lost /\ d.alone = call.alone /\ d.start = call.start
  BY <1>1, Goes DEF Pcs
<1>4. c = OfStatus(d, got)
  BY DEF GoesTo, OfStatus
<1> HIDE DEF c, d
<1>5. /\ GoodCall(c) /\ c.pc = d.pc /\ c.args = d.args /\ c.q = d.q /\ c.lost = d.lost
      /\ c.alone = d.alone /\ c.start = d.start
  BY <1>3, <1>4, TakesStatus
<1> QED
  BY <1>1, <1>2, <1>3, <1>5

LEMMA StatusInv ==
  ASSUME RealInv, Status
  PROVE  RealInv'
<1>1. GoodDisk(disk)
  BY DEF RealInv
<1>2. disk' = disk /\ (call' = Idle \/ (GoodCall(call') /\ call'.pc = "status"))
  BY StatusFacts
<1> QED
  BY <1>1, <1>2, AnsweredInv, GoesOnInv

(* rename: what it moves, and where to.                                     *)
LEMMA RenameNodeFacts ==
  ASSUME RealInv, RenameNode
  PROVE  /\ GoodCall(call) /\ call.pc = "resolved" /\ call.args.op = "rename"
         /\ call' = Idle /\ GoodDisk(disk')
         /\ \/ last'.err # "ok" /\ disk' = disk
            \/ LET o == Named(disk, call.q)
                   n == Named(disk, call.q2)
               IN  /\ last'.err = "ok" /\ disk' = Moved(disk, o, n)
                   /\ o \in DOMAIN disk /\ ~IsStrictPrefix(o, n) /\ ~IsStrictPrefix(n, o)
                   /\ Passes(InDir(disk, n))
                   /\ o # n => ~(IsDir(disk, n) /\ HasChildren(disk, n))
<1> DEFINE o == Named(disk, call.q)
           n == Named(disk, call.q2)
           z == o \notin DOMAIN disk
           a == IsStrictPrefix(o, n)
           b == IsStrictPrefix(n, o)
           c == o # n /\ (Closed(disk, o) \/ Closed(disk, n))
           d == IsDir(disk, o) /\ n \in DOMAIN disk /\ ~IsDir(disk, n)
           e == ~IsDir(disk, o) /\ IsDir(disk, n)
           f == o # n /\ IsDir(disk, n) /\ HasChildren(disk, n)
           g == IsDir(disk, o) /\ ReadOnly(disk, o) /\ Front(o) # Front(n)
           io == InDir(disk, o)
           zz == << <<z, "ENOENT">> >>
           in == InDir(disk, n)
           s == << <<a, "EINVAL">>, <<b, "ENOTEMPTY">>, <<c, "EACCES">>, <<d, "ENOTDIR">>,
                   <<e, "EISDIR">>, <<f, "ENOTEMPTY">>, <<g, "EACCES">> >>
           ch == io \o zz \o in \o s
<1>1. /\ GoodCall(call) /\ call.pc = "resolved" /\ call.args.op = "rename" /\ GoodDisk(disk)
  BY InCall DEF RenameNode, At
<1>2. o \in Seq(STRING) /\ n \in Seq(STRING)
  BY <1>1, NamedType DEF GoodCall, CallOf
<1>3. Act(ch, Moved(disk, o, n))
  BY DEF RenameNode
<1>4. /\ z \in BOOLEAN /\ a \in BOOLEAN /\ b \in BOOLEAN /\ c \in BOOLEAN /\ d \in BOOLEAN
      /\ e \in BOOLEAN /\ f \in BOOLEAN /\ g \in BOOLEAN
  BY DEF IsStrictPrefix, Closed, ReadOnly, IsDir, HasChildren
<1> HIDE DEF z, a, b, c, d, e, f, g
<1>5. s \in DiskChecks /\ (Passes(s) <=> ~a /\ ~b /\ ~c /\ ~d /\ ~e /\ ~f /\ ~g)
  <2> DEFINE s1 == << <<a, "EINVAL">>, <<b, "ENOTEMPTY">>, <<c, "EACCES">> >>
             s2 == << <<d, "ENOTDIR">>, <<e, "EISDIR">>, <<f, "ENOTEMPTY">> >>
             s3 == << <<g, "EACCES">> >>
  <2>1. s = s1 \o s2 \o s3
    OBVIOUS
  <2>7. {"EINVAL", "ENOTEMPTY", "EACCES", "ENOTDIR", "EISDIR"} \subseteq Code
    BY CodesAre
  <2>2. s1 \in DiskChecks /\ (Passes(s1) <=> ~a /\ ~b /\ ~c)
    <3>1. "EINVAL" \in Code /\ "ENOTEMPTY" \in Code /\ "EACCES" \in Code
      BY <2>7
    <3> QED BY <1>4, <3>1, ThreeDiskChecks
  <2>3. s2 \in DiskChecks /\ (Passes(s2) <=> ~d /\ ~e /\ ~f)
    <3>1. "ENOTDIR" \in Code /\ "EISDIR" \in Code /\ "ENOTEMPTY" \in Code
      BY <2>7
    <3> QED BY <1>4, <3>1, ThreeDiskChecks
  <2>4. s3 \in DiskChecks /\ (Passes(s3) <=> ~g)
    BY <1>4, CodesAre, OneDiskCheck
  <2> HIDE DEF s, s1, s2, s3
  <2>5. s1 \o s2 \in DiskChecks /\ (Passes(s1 \o s2) <=> Passes(s1) /\ Passes(s2))
    BY <2>2, <2>3, MoreDiskChecks
  <2>6. s1 \o s2 \o s3 \in DiskChecks
        /\ (Passes(s1 \o s2 \o s3) <=> Passes(s1 \o s2) /\ Passes(s3))
    BY <2>4, <2>5, MoreDiskChecks
  <2> QED BY <2>1, <2>2, <2>3, <2>4, <2>5, <2>6
<1>6. zz \in DiskChecks /\ (Passes(zz) <=> ~z)
  BY <1>4, CodesAre, OneDiskCheck
<1>7. io \in DiskChecks /\ in \in DiskChecks
  BY InDirChecks
<1> HIDE DEF s, zz, io, in
<1>8. ch \in DiskChecks
      /\ (Passes(ch) <=> Passes(io) /\ Passes(zz) /\ Passes(in) /\ Passes(s))
  <2>1. io \o zz \in DiskChecks /\ (Passes(io \o zz) <=> Passes(io) /\ Passes(zz))
    BY <1>6, <1>7, MoreDiskChecks
  <2>2. io \o zz \o in \in DiskChecks
        /\ (Passes(io \o zz \o in) <=> Passes(io \o zz) /\ Passes(in))
    BY <1>7, <2>1, MoreDiskChecks
  <2>3. io \o zz \o in \o s \in DiskChecks
        /\ (Passes(io \o zz \o in \o s) <=> Passes(io \o zz \o in) /\ Passes(s))
    BY <1>5, <2>2, MoreDiskChecks
  <2> QED BY <2>1, <2>2, <2>3
<1> HIDE DEF ch, o, n
<1>9. /\ call' = Idle
      /\ \/ Passes(ch) /\ last'.err = "ok" /\ disk' = Moved(disk, o, n)
         \/ ~Passes(ch) /\ last'.err # "ok" /\ disk' = disk
  BY <1>3, <1>8, ActFacts
<1>10. CASE ~Passes(ch) /\ last'.err # "ok" /\ disk' = disk
  BY <1>1, <1>9, <1>10
<1>11. CASE Passes(ch) /\ last'.err = "ok" /\ disk' = Moved(disk, o, n)
  <2>1. /\ o \in DOMAIN disk /\ ~IsStrictPrefix(o, n) /\ ~IsStrictPrefix(n, o)
        /\ Passes(InDir(disk, n))
        /\ o # n => ~(IsDir(disk, n) /\ HasChildren(disk, n))
    BY <1>5, <1>6, <1>8, <1>11 DEF z, a, b, f, in
  <2>2. LeadTo(disk, n)
    BY <1>1, <1>2, <2>1, InDirFinds
  <2>3. GoodDisk(disk')
    BY <1>1, <1>2, <1>11, <2>1, <2>2, MovedDisk
  <2> QED BY <1>1, <1>9, <1>11, <2>1, <2>3 DEF o, n
<1> QED
  BY <1>9, <1>10, <1>11

LEMMA RenameNodeInv ==
  ASSUME RealInv, RenameNode
  PROVE  RealInv'
BY RenameNodeFacts, AnsweredInv

(* copyFile: only what was not there is there afterwards.                   *)
LEMMA CopyNodeFacts ==
  ASSUME RealInv, CopyNode
  PROVE  /\ GoodCall(call) /\ call.pc = "resolved" /\ call.args.op = "copyFile"
         /\ call' = Idle /\ GoodDisk(disk')
         /\ \/ disk' = disk
            \/ LET n == Named(disk, call.q2)
               IN  /\ n \notin DOMAIN disk /\ SameBut(disk, disk', {n})
                   /\ last'.err # "ok" =>
                        /\ last'.full /\ IsFile(disk', n)
                        /\ IsFile(disk, Follow(disk, call.q))
                        /\ disk'[n].data \in PartsOf(disk[Follow(disk, call.q)].data)
<1> DEFINE s == Follow(disk, call.q)
           n == Named(disk, call.q2)
           t == Follow(disk, n)
           a == t \in DOMAIN disk
           b == ~IsFile(disk, s)
           c == Unreadable(disk, s)
           d == n \in DOMAIN disk
           e == Closed(disk, n)
           ls == Lookup(disk, s)
           s1 == << <<a, "EEXIST">>, <<b, "ENOTSUP">>, <<c, "EACCES">> >>
           in == InDir(disk, n)
           s2 == << <<d, "EEXIST">>, <<e, "EACCES">> >>
           ch == ls \o s1 \o in \o s2
           err == FirstError(ch)
           copy == [disk[s] EXCEPT !.mtime = Now]
           Part(f) == [copy EXCEPT !.data = f]
<1>1. /\ GoodCall(call) /\ call.pc = "resolved" /\ call.args.op = "copyFile" /\ GoodDisk(disk)
  BY InCall DEF CopyNode, At
<1>2. s \in Seq(STRING) /\ n \in Seq(STRING)
  BY <1>1, NamedType, FollowType DEF GoodCall, CallOf
<1>3. /\ call' = Idle
      /\ \/ disk' = disk
         \/ err = "ok" /\ last'.err = "ok" /\ disk' = With(disk, n, copy)
         \/ /\ err = "ok" /\ last'.full
            /\ \E f \in PartsOf(copy.data) : disk' = With(disk, n, Part(f))
  <2> HIDE DEF s, n, err
  <2>1. \/ err # "ok" /\ Answer(err) /\ UNCHANGED disk
        \/ err = "ok" /\ Answer("ok") /\ disk' = With(disk, n, copy)
        \/ /\ err = "ok" /\ Answered(call.args, "ENOSPC", "none", TRUE)
           /\ \/ UNCHANGED disk
              \/ \E f \in PartsOf(copy.data) : disk' = With(disk, n, Part(f))
    BY DEF CopyNode, s, n, err
  <2> HIDE DEF copy, Part
  <2> QED BY <2>1 DEF Answer, Answered
<1>4. /\ a \in BOOLEAN /\ b \in BOOLEAN /\ c \in BOOLEAN /\ d \in BOOLEAN /\ e \in BOOLEAN
  BY DEF IsFile, Unreadable, Closed, ReadOnly
<1> HIDE DEF a, b, c, d, e
<1>5. s1 \in DiskChecks /\ (Passes(s1) <=> ~a /\ ~b /\ ~c)
  BY <1>4, CodesAre, ThreeDiskChecks
<1>6. s2 \in DiskChecks /\ (Passes(s2) <=> ~d /\ ~e)
  BY <1>4, CodesAre, TwoDiskChecks
<1>7. ls \in DiskChecks /\ in \in DiskChecks
  BY InDirChecks, LookupChecks
<1> HIDE DEF s1, s2, ls, in
<1>8. ch \in DiskChecks
      /\ (Passes(ch) <=> Passes(ls) /\ Passes(s1) /\ Passes(in) /\ Passes(s2))
  <2>1. ls \o s1 \in DiskChecks /\ (Passes(ls \o s1) <=> Passes(ls) /\ Passes(s1))
    BY <1>5, <1>7, MoreDiskChecks
  <2>2. ls \o s1 \o in \in DiskChecks
        /\ (Passes(ls \o s1 \o in) <=> Passes(ls \o s1) /\ Passes(in))
    BY <1>7, <2>1, MoreDiskChecks
  <2>3. ls \o s1 \o in \o s2 \in DiskChecks
        /\ (Passes(ls \o s1 \o in \o s2) <=> Passes(ls \o s1 \o in) /\ Passes(s2))
    BY <1>6, <2>2, MoreDiskChecks
  <2> QED BY <2>1, <2>2, <2>3
<1> HIDE DEF ch
<1>9. err = "ok" => IsFile(disk, s) /\ n \notin DOMAIN disk /\ Passes(InDir(disk, n))
  <2>1. err = "ok" <=> Passes(ch)
    BY <1>8, DiskError
  <2> HIDE DEF err, s, n
  <2> QED BY <1>5, <1>6, <1>8, <2>1 DEF b, d, in
<1> HIDE DEF err
<1>10. CASE disk' = disk
  BY <1>1, <1>3, <1>10
<1>11. CASE disk' # disk
  <2>1. /\ err = "ok"
        /\ \/ last'.err = "ok" /\ disk' = With(disk, n, copy)
           \/ /\ last'.full
              /\ \E f \in PartsOf(copy.data) : disk' = With(disk, n, Part(f))
    BY <1>3, <1>11
  <2> HIDE DEF s, n, t
  <2>2. s \in DOMAIN disk /\ disk[s] \in DiskNodes /\ disk[s].kind = "file"
    BY <1>1, <1>9, <2>1, GoodDiskFacts DEF IsFile
  <2>3. Now \in Int
    BY DEF Now
  <2>4. copy \in DiskNodes /\ copy.kind = "file" /\ copy.data = disk[s].data
    BY <2>2, <2>3, NodeTime
  <2>12. disk[s].data \in Seq(0..255)
    BY <1>1, <2>2, GoodDiskFacts
  <2> HIDE DEF copy
  <2>5. ASSUME NEW f \in PartsOf(copy.data)
        PROVE  Part(f) \in DiskNodes /\ Part(f).kind = "file" /\ Part(f).data = f
    <3>1. f \in Seq(0..255)
      BY <2>4, <2>12, PartsAre
    <3> QED BY <2>4, <3>1, NodeData
  <2> HIDE DEF Part
  <2>6. n \notin DOMAIN disk /\ LeadTo(disk, n) /\ ~IsDir(disk, n)
    BY <1>1, <1>2, <1>9, <2>1, InDirFinds DEF IsDir
  <2>7. PICK x : /\ x \in DiskNodes /\ x.kind = "file" /\ disk' = With(disk, n, x)
                 /\ \/ last'.err = "ok"
                    \/ last'.full /\ x.data \in PartsOf(disk[s].data)
    BY <2>1, <2>4, <2>5
  <2>9. GoodDisk(With(disk, n, x))
    BY <1>1, <1>2, <2>6, <2>7, PutDisk
  <2>10. /\ SameBut(disk, With(disk, n, x), {n}) /\ With(disk, n, x)[n] = x
         /\ DOMAIN With(disk, n, x) = DOMAIN disk \union {n}
    BY WithFacts
  <2>11. IsFile(disk', n) /\ disk'[n] = x
    BY <2>7, <2>10 DEF IsFile
  <2>13. last'.err # "ok" =>
           /\ last'.full /\ IsFile(disk', n) /\ IsFile(disk, s)
           /\ disk'[n].data \in PartsOf(disk[s].data)
    BY <1>9, <2>1, <2>7, <2>11
  <2>14. GoodDisk(disk') /\ SameBut(disk, disk', {n})
    BY <2>7, <2>9, <2>10
  <2> QED BY <1>1, <1>3, <2>6, <2>13, <2>14 DEF n, s
<1> QED
  BY <1>10, <1>11

LEMMA CopyNodeInv ==
  ASSUME RealInv, CopyNode
  PROVE  RealInv'
BY CopyNodeFacts, AnsweredInv

LEMMA ResizedType ==
  ASSUME NEW old \in Seq(0..255), NEW n \in Int
  PROVE  [i \in 1..n |-> IF i <= Len(old) THEN old[i] ELSE 0] \in Seq(0..255)
<1> DEFINE data == [i \in 1..n |-> IF i <= Len(old) THEN old[i] ELSE 0]
<1>1. ASSUME NEW i \in 1..n PROVE (IF i <= Len(old) THEN old[i] ELSE 0) \in 0..255
  <2>1. i <= Len(old) => i \in 1..Len(old)
    OBVIOUS
  <2>2. \A j \in 1..Len(old) : old[j] \in 0..255
    BY ElementOfSeq
  <2> QED BY <2>1, <2>2
<1>2. data \in [1..n -> 0..255]
  BY <1>1
<1>3. \E m \in Nat : 1..n = 1..m
  <2>1. CASE n \in Nat
    BY <2>1
  <2>2. CASE n \notin Nat
    <3>1. 1..n = 1..0
      BY <2>2
    <3> QED BY <3>1
  <2> QED BY <2>1, <2>2
<1> HIDE DEF data
<1>4. data \in Seq(0..255)
  BY <1>2, <1>3, SeqDef
<1> QED
  BY <1>4 DEF data

LEMMA ResizeFacts ==
  ASSUME RealInv, Resize
  PROVE  /\ GoodCall(call) /\ call.pc = "resolved" /\ call.args.op = "truncate"
         /\ call' = Idle /\ GoodDisk(disk') /\ KeepsLinks(disk, disk')
         /\ last'.err # "ok" => disk' = disk
<1> DEFINE t == Follow(disk, call.q)
           a == IsDir(disk, t)
           b == ReadOnly(disk, t)
           w == Lookup(disk, t)
           s == << <<a, "EISDIR">>, <<b, "EACCES">> >>
           n == call.args.n
           old == disk[t].data
           data == [i \in 1..n |-> IF i <= Len(old) THEN old[i] ELSE 0]
           D == IF data = old THEN disk
                ELSE [disk EXCEPT ![t].data = data, ![t].mtime = Now]
<1>1. /\ GoodCall(call) /\ call.pc = "resolved" /\ call.args.op = "truncate" /\ GoodDisk(disk)
  BY InCall DEF Resize, At
<1>2. t \in Seq(STRING) /\ n \in Int
  BY <1>1, FollowType DEF GoodCall, CallOf, CallArgs
<1>3. Act(w \o s, D)
  BY DEF Resize
<1>4. a \in BOOLEAN /\ b \in BOOLEAN
  BY DEF IsDir, ReadOnly
<1> HIDE DEF a, b, D
<1>5. s \in DiskChecks /\ (Passes(s) <=> ~a /\ ~b)
  BY <1>4, CodesAre, TwoDiskChecks
<1>6. w \in DiskChecks /\ (Passes(w) <=> t \in DOMAIN disk /\ ~IsLink(disk, t))
  BY <1>1, <1>2, LookupChecks, LookupFinds
<1> HIDE DEF s, w
<1>7. w \o s \in DiskChecks /\ (Passes(w \o s) <=> Passes(w) /\ Passes(s))
  BY <1>5, <1>6, MoreDiskChecks
<1>8. /\ call' = Idle
      /\ \/ Passes(w \o s) /\ last'.err = "ok" /\ disk' = D
         \/ ~Passes(w \o s) /\ last'.err # "ok" /\ disk' = disk
  BY <1>3, <1>7, ActFacts
<1>9. CASE disk' = disk
  BY <1>1, <1>8, <1>9 DEF KeepsLinks
<1>10. CASE disk' # disk
  <2> DEFINE m == [disk[t] EXCEPT !.data = data, !.mtime = Now]
  <2>1. t \in DOMAIN disk /\ ~IsLink(disk, t) /\ last'.err = "ok"
        /\ disk' = [disk EXCEPT ![t].data = data, ![t].mtime = Now]
    BY <1>6, <1>7, <1>8, <1>10 DEF D
  <2>2. disk[t] \in DiskNodes /\ old \in Seq(0..255)
    BY <1>1, <2>1, GoodDiskFacts
  <2>3. data \in Seq(0..255)
    BY <1>2, <2>2, ResizedType
  <2> HIDE DEF data
  <2>4. m \in DiskNodes /\ m.kind = disk[t].kind
    BY <2>2, <2>3, NodeWritten, Zenon
  <2>5. disk' = [disk EXCEPT ![t] = m]
    BY <2>1
  <2> HIDE DEF m, t
  <2>6. GoodDisk(disk') /\ SameBut(disk, disk', {t})
    BY <1>1, <2>1, <2>4, <2>5, ChangesNode
  <2>7. KeepsLinks(disk, disk')
    BY <2>1, <2>6, SameKeepsLinks
  <2> QED BY <1>1, <1>8, <2>1, <2>6, <2>7
<1> QED
  BY <1>9, <1>10

LEMMA ResizeInv ==
  ASSUME RealInv, Resize
  PROVE  RealInv'
BY ResizeFacts, AnsweredInv

LEMMA SetTimeFacts ==
  ASSUME RealInv, SetTime
  PROVE  /\ GoodCall(call) /\ call.pc = "resolved" /\ call.args.op = "utimes"
         /\ call' = Idle /\ GoodDisk(disk') /\ KeepsLinks(disk, disk')
         /\ last'.err # "ok" => disk' = disk
<1> DEFINE t == Follow(disk, call.q)
           x == call.args.n + EpochOffset
           D == IF IsFile(disk, t) THEN [disk EXCEPT ![t].mtime = x] ELSE disk
<1>1. /\ GoodCall(call) /\ call.pc = "resolved" /\ call.args.op = "utimes" /\ GoodDisk(disk)
  BY InCall DEF SetTime, At
<1>2. t \in Seq(STRING) /\ x \in Int
  <2>1. t \in Seq(STRING) /\ call.args.n \in Int
    BY <1>1, FollowType DEF GoodCall, CallOf, CallArgs
  <2>2. EpochOffset \in Int
    BY RealAssumption
  <2> QED BY <2>1, <2>2
<1>3. Act(Lookup(disk, t), D)
  BY DEF SetTime
<1>4. Lookup(disk, t) \in DiskChecks
  BY LookupChecks
<1> HIDE DEF D
<1>5. /\ call' = Idle
      /\ \/ last'.err = "ok" /\ disk' = D
         \/ last'.err # "ok" /\ disk' = disk
  BY <1>3, <1>4, ActFacts
<1>6. CASE disk' = disk
  BY <1>1, <1>5, <1>6 DEF KeepsLinks
<1>7. CASE disk' # disk
  <2> DEFINE m == [disk[t] EXCEPT !.mtime = x]
  <2> HIDE DEF x
  <2>1. IsFile(disk, t) /\ disk' = [disk EXCEPT ![t].mtime = x] /\ last'.err = "ok"
    BY <1>5, <1>7 DEF D, x
  <2> HIDE DEF t
  <2>2. t \in DOMAIN disk /\ ~IsLink(disk, t) /\ disk[t] \in DiskNodes
    BY <1>1, <2>1, GoodDiskFacts DEF IsFile, IsLink
  <2>3. m \in DiskNodes /\ m.kind = disk[t].kind
    BY <1>2, <2>2, NodeTime
  <2>4. disk' = [disk EXCEPT ![t] = m]
    BY <2>1
  <2> HIDE DEF m
  <2>5. GoodDisk(disk') /\ SameBut(disk, disk', {t})
    BY <1>1, <2>2, <2>3, <2>4, ChangesNode
  <2>6. KeepsLinks(disk, disk')
    BY <2>2, <2>5, SameKeepsLinks
  <2> QED BY <1>1, <1>5, <2>1, <2>5, <2>6
<1> QED
  BY <1>6, <1>7

LEMMA SetTimeInv ==
  ASSUME RealInv, SetTime
  PROVE  RealInv'
BY SetTimeFacts, AnsweredInv

(* What the host does.                                                      *)
LEMMA NotAlone ==
  ASSUME NEW c, GoodCall(c)
  PROVE  /\ GoodCall(Shared(c)) /\ Shared(c).alone = FALSE /\ Shared(c).pc = c.pc
         /\ Shared(c).args = c.args /\ Shared(c).q = c.q /\ Shared(c).q2 = c.q2
         /\ Shared(c).size = c.size /\ Shared(c).lost = c.lost
<1> DEFINE e == Shared(c)
<1>1. e \in CallOf(c.got, c.start)
  BY CallOfFields DEF GoodCall
<1>2. /\ e.pc = c.pc /\ e.args = c.args /\ e.q = c.q /\ e.q2 = c.q2 /\ e.size = c.size
      /\ e.lost = c.lost /\ e.got = c.got /\ e.alone = FALSE /\ e.start = c.start
  BY DEF Shared, GoodCall, CallOf
<1> HIDE DEF e
<1>3. GoodCall(e)
  BY <1>1, <1>2 DEF GoodCall
<1> QED
  BY <1>2, <1>3 DEF e

LEMMA Forgets ==
  ASSUME NEW c, GoodCall(c), NEW x
  PROVE  /\ GoodCall(Forgetting(c, x)) /\ Forgetting(c, x).alone = c.alone
         /\ Forgetting(c, x).pc = c.pc /\ Forgetting(c, x).args = c.args
         /\ Forgetting(c, x).q = c.q /\ Forgetting(c, x).q2 = c.q2
         /\ Forgetting(c, x).size = c.size /\ Forgetting(c, x).lost = c.lost
         /\ Forgetting(c, x).start = x
<1> DEFINE e == Forgetting(c, x)
<1>1. e \in CallOf(c.got, x)
  BY CallOfFields DEF GoodCall
<1>2. /\ e.pc = c.pc /\ e.args = c.args /\ e.q = c.q /\ e.q2 = c.q2 /\ e.size = c.size
      /\ e.lost = c.lost /\ e.got = c.got /\ e.alone = c.alone /\ e.start = x
  BY DEF Forgetting, GoodCall, CallOf
<1> HIDE DEF e
<1>3. GoodCall(e)
  BY <1>1, <1>2 DEF GoodCall
<1> QED
  BY <1>2, <1>3 DEF e

LEMMA Loses ==
  ASSUME NEW c, GoodCall(c), NEW x \in SUBSET Seq(0..255), \A d, e \in x : d = e
  PROVE  /\ GoodCall(Losing(c, x)) /\ Losing(c, x).alone = c.alone /\ Losing(c, x).pc = c.pc
         /\ Losing(c, x).args = c.args /\ Losing(c, x).q = c.q /\ Losing(c, x).q2 = c.q2
         /\ Losing(c, x).size = c.size /\ Losing(c, x).lost = x
<1> DEFINE e == Losing(c, x)
<1>1. e \in CallOf(c.got, c.start)
  BY CallOfFields DEF GoodCall
<1>2. /\ e.pc = c.pc /\ e.args = c.args /\ e.q = c.q /\ e.q2 = c.q2 /\ e.size = c.size
      /\ e.lost = x /\ e.got = c.got /\ e.alone = c.alone /\ e.start = c.start
  BY DEF Losing, GoodCall, CallOf
<1> HIDE DEF e
<1>3. GoodCall(e)
  BY <1>1, <1>2 DEF GoodCall
<1> QED
  BY <1>2, <1>3 DEF e

(* A call that has not looked at the disk yet will see what the host has    *)
(* changed.                                                                 *)
LEMMA NoticedFacts ==
  ASSUME RealInv, NEW p, p \in DOMAIN disk \/ p \in DOMAIN disk', GoodDisk(disk'), Noticed(p)
  PROVE  \/ call = Idle /\ call' = Idle
         \/ /\ call # Idle /\ GoodCall(call) /\ GoodCall(call')
            /\ call'.pc = call.pc /\ call'.args = call.args /\ call'.q = call.q
            /\ call'.q2 = call.q2 /\ call'.size = call.size
            /\ call'.lost = IF call.pc = "open" /\ call.q = p /\ p \notin DOMAIN disk'
                               /\ call.lost = {}
                            THEN {disk[p].data} ELSE call.lost
            /\ \/ ~call'.alone
               \/ call.pc = "called" /\ call'.alone = call.alone /\ call'.start = disk'
<1>1. CASE call = Idle
  <2>1. call.pc # "called"
    BY <1>1, IdleIs
  <2>2. call' = call
    BY <1>1, <2>1, Zenon DEF Noticed
  <2> QED BY <1>1, <2>2
<1>2. CASE call # Idle /\ call.pc = "called"
  <2> DEFINE c == Forgetting(call, disk')
  <2>1. GoodCall(call)
    BY <1>2 DEF RealInv
  <2>2. call' = c
    BY <1>2 DEF Noticed, Forgetting
  <2>3. /\ GoodCall(c) /\ c.alone = call.alone /\ c.pc = call.pc /\ c.args = call.args
        /\ c.q = call.q /\ c.q2 = call.q2 /\ c.size = call.size /\ c.lost = call.lost
        /\ c.start = disk'
    BY <2>1, Forgets
  <2> HIDE DEF c
  <2>4. call.pc # "open"
    BY <1>2
  <2> QED BY <1>2, <2>1, <2>2, <2>3, <2>4
<1>3. CASE call # Idle /\ call.pc # "called"
  <2> DEFINE x == IF call.pc = "open" /\ call.q = p /\ p \notin DOMAIN disk' /\ call.lost = {}
                  THEN {disk[p].data} ELSE call.lost
             c1 == Shared(call)
             c2 == Forgetting(c1, <<>>)
             c3 == Losing(c2, x)
  <2>1. GoodCall(call)
    BY <1>3 DEF RealInv
  <2>2. call' = c3
    BY <1>3 DEF Noticed, Shared, Forgetting, Losing
  <2>3. x \in SUBSET Seq(0..255) /\ \A d, e \in x : d = e
    <3>1. call.lost \subseteq Seq(0..255) /\ \A d, e \in call.lost : d = e
      BY <2>1 DEF GoodCall, CallOf
    <3>2. p \notin DOMAIN disk' => disk[p].data \in Seq(0..255)
      BY GoodDiskFacts DEF RealInv
    <3> QED BY <3>1, <3>2
  <2>5. /\ GoodCall(c1) /\ c1.alone = FALSE /\ c1.pc = call.pc /\ c1.args = call.args
        /\ c1.q = call.q /\ c1.q2 = call.q2 /\ c1.size = call.size
    BY <2>1, NotAlone
  <2> HIDE DEF x, c1
  <2>6. /\ GoodCall(c2) /\ c2.alone = c1.alone /\ c2.pc = c1.pc /\ c2.args = c1.args
        /\ c2.q = c1.q /\ c2.q2 = c1.q2 /\ c2.size = c1.size
    BY <2>5, Forgets
  <2> HIDE DEF c2
  <2>7. /\ GoodCall(c3) /\ c3.alone = c2.alone /\ c3.pc = c2.pc /\ c3.args = c2.args
        /\ c3.q = c2.q /\ c3.q2 = c2.q2 /\ c3.size = c2.size /\ c3.lost = x
    BY <2>3, <2>6, Loses
  <2> HIDE DEF c3
  <2> QED BY <1>3, <2>1, <2>2, <2>5, <2>6, <2>7 DEF x
<1> QED
  BY <1>1, <1>2, <1>3

LEMMA HostPutsFacts ==
  ASSUME RealInv, NEW p \in Paths, NEW node \in HostNodes, HostPuts(p, node)
  PROVE  /\ GoodDisk(disk') /\ Noticed(p) /\ p \in DOMAIN disk' /\ SameBut(disk, disk', {p})
         /\ ~IsDir(disk, p) /\ ~IsLink(disk, p) /\ disk'[p] \in DiskNodes
         /\ IsFile(disk, p) => IsFile(disk', p)
         /\ last' = last
<1>1. p \in Seq(STRING) /\ node \in DiskNodes
  BY RealAssumption
<1>2. /\ p # <<>> /\ IsDir(disk, Front(p)) /\ ~IsDir(disk, p) /\ ~IsLink(disk, p)
      /\ IsFile(disk, p) => node.kind = "file"
      /\ disk' = With(disk, p, node) /\ Noticed(p) /\ last' = last
  BY DEF HostPuts
<1>3. GoodDisk(disk)
  BY DEF RealInv
<1>4. GoodDisk(With(disk, p, node))
  BY <1>1, <1>2, <1>3, DirLeadTo, PutDisk
<1>5. /\ SameBut(disk, With(disk, p, node), {p}) /\ With(disk, p, node)[p] = node
      /\ DOMAIN With(disk, p, node) = DOMAIN disk \union {p}
  BY WithFacts
<1>6. IsFile(disk, p) => IsFile(With(disk, p, node), p)
  BY <1>2, <1>5 DEF IsFile
<1> QED
  BY <1>1, <1>2, <1>4, <1>5, <1>6

LEMMA HostRemovesFacts ==
  ASSUME RealInv, NEW p, HostRemoves(p)
  PROVE  /\ GoodDisk(disk') /\ Noticed(p) /\ p \in DOMAIN disk /\ p \notin DOMAIN disk'
         /\ SameBut(disk, disk', {p}) /\ last' = last
<1>1. /\ p \in DOMAIN disk /\ ~HasChildren(disk, p) /\ disk' = Without(disk, {p})
      /\ Noticed(p) /\ last' = last
  BY DEF HostRemoves
<1>2. GoodDisk(disk)
  BY DEF RealInv
<1>3. GoodDisk(Without(disk, {p}))
  BY <1>1, <1>2, RemoveDisk
<1>4. SameBut(disk, Without(disk, {p}), {p}) /\ p \notin DOMAIN Without(disk, {p})
  BY DEF SameBut, Without
<1> QED
  BY <1>1, <1>3, <1>4

LEMMA HostChanges ==
  ASSUME RealInv, HostPut \/ HostRemove
  PROVE  \E p : /\ GoodDisk(disk') /\ Noticed(p) /\ SameBut(disk, disk', {p})
                /\ p \in DOMAIN disk \/ p \in DOMAIN disk'
                /\ last' = last
<1>1. CASE HostPut
  <2>1. PICK p \in Paths : \E node \in HostNodes : HostPuts(p, node)
    BY <1>1 DEF HostPut
  <2>2. PICK node \in HostNodes : HostPuts(p, node)
    BY <2>1
  <2> QED BY <2>1, <2>2, HostPutsFacts
<1>2. CASE HostRemove
  <2>1. PICK p \in DOMAIN disk : HostRemoves(p)
    BY <1>2 DEF HostRemove
  <2> QED BY <2>1, HostRemovesFacts
<1> QED
  BY <1>1, <1>2

LEMMA HostInv ==
  ASSUME RealInv, HostPut \/ HostRemove
  PROVE  RealInv'
<1>1. PICK p : /\ GoodDisk(disk') /\ Noticed(p) /\ SameBut(disk, disk', {p})
               /\ p \in DOMAIN disk \/ p \in DOMAIN disk'
               /\ p \in DOMAIN disk' => (IsFile(disk, p) => IsFile(disk', p))
  <2>1. CASE HostPut
    <3>1. PICK p \in Paths : \E node \in HostNodes : HostPuts(p, node)
      BY <2>1 DEF HostPut
    <3>2. PICK node \in HostNodes : HostPuts(p, node)
      BY <3>1
    <3> QED BY <3>1, <3>2, HostPutsFacts
  <2>2. CASE HostRemove
    <3>1. PICK p \in DOMAIN disk : HostRemoves(p)
      BY <2>2 DEF HostRemove
    <3> QED BY <3>1, HostRemovesFacts
  <2> QED BY <2>1, <2>2
<1>2. \/ call = Idle /\ call' = Idle
      \/ /\ call # Idle /\ GoodCall(call')
         /\ call'.pc = call.pc /\ call'.q = call.q /\ call'.size = call.size
         /\ call'.lost = IF call.pc = "open" /\ call.q = p /\ p \notin DOMAIN disk'
                            /\ call.lost = {}
                         THEN {disk[p].data} ELSE call.lost
  BY <1>1, NoticedFacts
<1>3. CASE call' = Idle
  BY <1>1, <1>3, AnsweredInv
<1>4. CASE GoodCall(call') /\ call'.pc = call.pc /\ call'.q = call.q
           /\ call'.size = call.size
           /\ call'.lost = IF call.pc = "open" /\ call.q = p /\ p \notin DOMAIN disk'
                              /\ call.lost = {}
                           THEN {disk[p].data} ELSE call.lost
  <2>1. ASSUME call'.pc = "open", call'.lost = {} PROVE IsFile(disk', call'.q)
    <3>1. call.pc = "open" /\ call.lost = {} /\ ~(call.q = p /\ p \notin DOMAIN disk')
      BY <1>4, <2>1
    <3>2. IsFile(disk, call.q)
      BY <3>1 DEF RealInv
    <3>3. CASE call.q = p
      BY <1>1, <1>4, <3>1, <3>2, <3>3
    <3>4. CASE call.q # p
      BY <1>1, <1>4, <3>2, <3>4 DEF SameBut, IsFile
    <3> QED BY <3>3, <3>4
  <2>2. call'.pc = "making" => call'.size <= Len(call'.q)
    BY <1>4 DEF RealInv
  <2> QED BY <1>1, <1>4, <2>1, <2>2 DEF RealInv
<1> QED
  BY <1>2, <1>3, <1>4

LEMMA RealInvInit ==
  ASSUME Init
  PROVE  RealInv
BY RealAssumption, IdleIs DEF Init, RealInv

LEMMA RealInvStutter ==
  ASSUME RealInv, UNCHANGED vars
  PROVE  RealInv'
<1>1. disk' = disk /\ call' = call
  BY DEF vars
<1> QED
  BY <1>1 DEF RealInv

LEMMA RealInvNext ==
  ASSUME RealInv, [Next]_vars
  PROVE  RealInv'
<1>1. CASE BeginCall
  BY <1>1, BeginInv
<1>2. CASE CallStep
  <2>1. CASE ResolveSecond
    BY <2>1, ResolveSecondInv
  <2>2. CASE OpenRead
    BY <2>2, OpenReadInv
  <2>3. CASE OpenWrite
    BY <2>3, OpenWriteInv
  <2>4. CASE Flush
    BY <2>4, FlushInv
  <2>5. CASE RemoveNode
    BY <2>5, RemoveNodeInv
  <2>6. CASE MakeDir
    BY <2>6, MakeDirInv
  <2>7. CASE Chmod
    BY <2>7, ChmodInv
  <2>8. CASE Status
    BY <2>8, StatusInv
  <2>9. CASE RenameNode
    BY <2>9, RenameNodeInv
  <2>10. CASE CopyNode
    BY <2>10, CopyNodeInv
  <2>11. CASE Resize
    BY <2>11, ResizeInv
  <2>12. CASE SetTime
    BY <2>12, SetTimeInv
  <2>13. CASE Read \/ ListDir \/ FileSize \/ AccessBits
    BY <2>13, LookingInv
  <2>14. CASE ResolveFirst
    BY <2>14, ResolveFirstInv
  <2>15. CASE FlushFails
    BY <2>15, FlushFailsInv
  <2>16. CASE FindMissing
    BY <2>16, FindMissingInv
  <2> QED
    BY <1>2, <2>1, <2>2, <2>3, <2>4, <2>5, <2>6, <2>7, <2>8, <2>9, <2>10, <2>11, <2>12, <2>13,
       <2>14, <2>15, <2>16 DEF CallStep
<1>3. CASE HostPut \/ HostRemove
  BY <1>3, HostInv
<1>4. CASE UNCHANGED vars
  BY <1>4, RealInvStutter
<1> QED
  BY <1>1, <1>2, <1>3, <1>4 DEF Next

(* The disk stays a tree whatever links lead where and whatever the host    *)
(* does between the steps of a call, and a stream that is open has its file *)
(* (RealFSBackend, src/sandboxed-fs/src/vfs_real.cpp).                      *)
THEOREM DiskTypeCorrect == Spec => []TypeOK
<1>1. Init => RealInv
  BY RealInvInit
<1>2. RealInv /\ [Next]_vars => RealInv'
  BY RealInvNext
<1>3. RealInv => TypeOK
  BY RealInvTypes
<1> QED
  BY <1>1, <1>2, <1>3, PTL DEF Spec

------------------------------------------------------------------------------
(* Where a rename replaces a link, the link leads nowhere.                  *)

LEMMA FrontOfConcat ==
  ASSUME NEW s \in Seq(STRING), NEW y \in Seq(STRING), Len(y) = 1
  PROVE  s \o y # <<>> /\ Front(s \o y) = s /\ Last(s \o y) = y[1]
<1> DEFINE z == s \o y
<1>1. z \in Seq(STRING) /\ Len(z) = Len(s) + 1 /\ Len(s) \in Nat /\ z[Len(s) + 1] = y[1]
  <2>1. z \in Seq(STRING) /\ Len(z) = Len(s) + Len(y)
        /\ \A i \in 1..(Len(s) + Len(y)) : z[i] = IF i <= Len(s) THEN s[i] ELSE y[i - Len(s)]
    BY ConcatProperties
  <2>2. Len(s) \in Nat
    OBVIOUS
  <2> HIDE DEF z
  <2>3. z[Len(s) + 1] = y[Len(s) + 1 - Len(s)] /\ Len(s) + 1 - Len(s) = 1
    BY <2>1, <2>2
  <2> QED BY <2>1, <2>2, <2>3
<1>2. SubSeq(z, 1, Len(s)) = SubSeq(s, 1, Len(s)) /\ SubSeq(s, 1, Len(s)) = s
  <2>1. Len(s) \in 0..Len(s)
    OBVIOUS
  <2> QED BY <2>1, PrefixOfConcat, WholeSubSeq
<1> HIDE DEF z
<1>3. z # <<>> /\ Len(z) - 1 = Len(s)
  BY <1>1, EmptySeq
<1>4. Front(z) = s /\ Last(z) = y[1]
  BY <1>1, <1>2, <1>3 DEF Front, Last
<1> QED
  BY <1>3, <1>4 DEF z

LEMMA NamedNode ==
  ASSUME NEW D, GoodDisk(D), NEW q \in DOMAIN D
  PROVE  Named(D, q) = q
<1>1. q \in Seq(STRING) /\ LeadTo(D, q)
  BY NodeLeadTo
<1>2. CASE q = <<>>
  BY <1>2 DEF Named
<1>3. CASE q # <<>>
  <2> DEFINE u == Front(q)
  <2>1. u \in Seq(STRING) /\ <<Last(q)>> \in Seq(STRING) /\ q = u \o <<Last(q)>>
    BY <1>1, <1>3, FrontAndLast
  <2>2. u = SubSeq(q, 1, Len(q) - 1) /\ Len(u) = Len(q) - 1 /\ Len(q) >= 1
    BY <1>1, <1>3, FrontFacts
  <2>3. IsPrefix(u, q) /\ u # q
    <3>1. Len(q) - 1 \in 0..Len(q) /\ Len(q) - 1 # Len(q)
      BY <1>1, <2>2
    <3> HIDE DEF u
    <3> QED BY <1>1, <2>2, <3>1, PrefixIsSubSeq
  <2>4. u \in DOMAIN D /\ ~IsLink(D, u)
    <3>1. IsDir(D, u)
      BY <1>1, <2>1, <2>3 DEF LeadTo
    <3> QED BY <3>1 DEF IsDir, IsLink
  <2>5. Named(D, q) = Append(Follow(D, u), Last(q))
    BY <1>3 DEF Named
  <2> HIDE DEF u
  <2>6. Follow(D, u) = u
    BY <2>4, NotLinkStays
  <2>7. Append(u, Last(q)) = u \o <<Last(q)>>
    BY <2>1
  <2> QED BY <2>1, <2>5, <2>6, <2>7
<1> QED
  BY <1>2, <1>3

(* From where the links of x lead, they go on as they would have gone on    *)
(* from x, if they come to an end at all.                                   *)
LEMMA FollowOn ==
  ASSUME NEW D, GoodDisk(D), NEW x \in Seq(STRING), NEW y \in Seq(STRING),
         LinksOn(D, Follow(D, x)) = {}, LinksOn(D, Follow(D, x \o y)) = {}
  PROVE  Follow(D, Follow(D, x) \o y) = Follow(D, x \o y)
<1> DEFINE One(p) == FollowOne(D, p)
           a == One(x)
           b == One(a)
           F == One(b)
           E == Follow(D, x \o y)
<1>1. Follow(D, x) = F /\ a \in Seq(STRING) /\ b \in Seq(STRING) /\ F \in Seq(STRING)
  BY FollowSteps, FollowOneType
<1>2. \A p : LinksOn(D, p) = {} => One(p) = p
  BY DEF FollowOne
<1>3. \A p \in Seq(STRING) : LinksOn(D, p) # {} => One(p \o y) = One(p) \o y
  BY FollowOneBeyond
<1>4. E = One(One(One(x \o y))) /\ One(E) = E
  BY <1>2, FollowSteps
<1>5. Follow(D, F \o y) = One(One(One(F \o y)))
  BY FollowSteps
<1>6. CASE LinksOn(D, x) = {}
  <2>1. F = x
    BY <1>2, <1>6
  <2> QED BY <1>1, <2>1
<1>7. CASE LinksOn(D, x) # {}
  <2>1. One(x \o y) = a \o y
    BY <1>3, <1>7
  <2>2. CASE LinksOn(D, a) = {}
    <3>1. F = a
      BY <1>2, <2>2
    <3>2. E = One(One(F \o y))
      BY <1>4, <2>1, <3>1
    <3> HIDE DEF F, E, One
    <3> QED BY <1>1, <1>4, <1>5, <3>2 DEF E
  <2>3. CASE LinksOn(D, a) # {}
    <3>1. One(a \o y) = b \o y
      BY <1>1, <1>3, <2>3
    <3>2. CASE LinksOn(D, b) = {}
      <4>1. F = b
        BY <1>2, <3>2
      <4>2. E = One(F \o y)
        BY <1>4, <2>1, <3>1, <4>1
      <4> HIDE DEF F, E, One
      <4> QED BY <1>1, <1>4, <1>5, <4>2 DEF E
    <3>3. CASE LinksOn(D, b) # {}
      <4>1. One(b \o y) = F \o y
        BY <1>1, <1>3, <3>3
      <4>2. E = F \o y
        BY <1>4, <2>1, <3>1, <4>1
      <4> HIDE DEF F, E, One
      <4> QED BY <1>1, <1>4, <1>5, <4>2 DEF E
    <3> QED BY <3>2, <3>3
  <2> QED BY <2>2, <2>3
<1> QED
  BY <1>6, <1>7

(* Nothing is below what is not there, no links either.                     *)
LEMMA NothingBeyond ==
  ASSUME NEW D, GoodDisk(D), NEW e \in Seq(STRING), e \notin DOMAIN D, LinksOn(D, e) = {},
         NEW w \in Seq(STRING)
  PROVE  e \o w \notin DOMAIN D /\ LinksOn(D, e \o w) = {}
<1>1. ASSUME NEW p \in Seq(STRING), IsPrefix(e, p) PROVE p \notin DOMAIN D
  <2> SUFFICES ASSUME p \in DOMAIN D PROVE FALSE
    OBVIOUS
  <2>1. LeadTo(D, p)
    BY NodeLeadTo
  <2>2. e = p \/ IsDir(D, e)
    BY <1>1, <2>1 DEF LeadTo
  <2> QED BY <2>2 DEF IsDir
<1> DEFINE z == e \o w
<1>2. z \in Seq(STRING) /\ Len(z) = Len(e) + Len(w) /\ Len(e) \in Nat /\ Len(w) \in Nat
      /\ \A i \in 1..Len(e) : z[i] = e[i]
  OBVIOUS
<1>3. \A i \in 0..Len(e) : SubSeq(z, 1, i) = SubSeq(e, 1, i)
  BY PrefixOfConcat
<1> HIDE DEF z
<1>4. z \notin DOMAIN D
  <2>1. IsPrefix(e, z)
    BY <1>2, PrefixFacts
  <2> QED BY <1>1, <1>2, <2>1
<1>5. ASSUME NEW i \in 1..Len(z), IsLink(D, SubSeq(z, 1, i)) PROVE FALSE
  <2>1. CASE i <= Len(e)
    <3>1. i \in 1..Len(e) /\ i \in 0..Len(e)
      BY <1>2, <2>1
    <3>2. IsLink(D, SubSeq(e, 1, i))
      BY <1>3, <1>5, <3>1
    <3> QED BY <3>1, <3>2 DEF LinksOn
  <2>2. CASE ~(i <= Len(e))
    <3> DEFINE s == SubSeq(z, 1, i)
    <3>1. i \in 0..Len(z) /\ Len(e) <= i
      BY <1>2, <2>2
    <3>2. s \in Seq(STRING) /\ Len(s) = i /\ \A j \in 1..i : s[j] = z[j]
      BY <1>2, <3>1, SubSeqFacts
    <3>3. s \in DOMAIN D
      BY <1>5 DEF IsLink
    <3> HIDE DEF s
    <3>4. \A j \in 1..Len(e) : e[j] = s[j]
      BY <1>2, <3>1, <3>2
    <3>5. IsPrefix(e, s)
      BY <3>1, <3>2, <3>4, PrefixFacts
    <3> QED BY <1>1, <3>2, <3>3, <3>5
  <2> QED BY <2>1, <2>2
<1>6. LinksOn(D, z) = {}
  BY <1>5 DEF LinksOn
<1> QED
  BY <1>4, <1>6 DEF z

LEMMA LoopsAre ==
  ASSUME NEW D, GoodDisk(D), NEW p \in Seq(STRING), Existing(D, p).err # "ok",
         Existing(D, p).err # "ELOOP"
  PROVE  LinksOn(D, Follow(D, p)) = {} /\ Follow(D, p) \notin DOMAIN D
<1> DEFINE q == Follow(D, p)
           a == LinksOn(D, q) # {}
           b == \E i \in 0..(Len(q) - 1) : IsFile(D, SubSeq(q, 1, i))
           c == q \notin DOMAIN D
           s == << <<a, "ELOOP">>, <<b, "ENOTDIR">>, <<c, "ENOENT">> >>
           failing == {i \in DOMAIN s : s[i][1]}
<1>1. Existing(D, p).err = FirstError(Lookup(D, q))
  BY DEF Existing
<1>2. Lookup(D, q) = s
  BY DEF Lookup
<1> HIDE DEF a, b, c, q
<1>3. ASSUME a PROVE FirstError(s) = "ELOOP"
  <2>1. DOMAIN s = {1, 2, 3} /\ s[1] = <<a, "ELOOP">>
    OBVIOUS
  <2>2. 1 \in failing /\ failing \subseteq {1, 2, 3}
    BY <1>3, <2>1
  <2>3. FirstError(s) = s[CHOOSE i \in failing : \A j \in failing : i <= j][2]
    BY <2>2 DEF FirstError
  <2> HIDE DEF failing
  <2> DEFINE first == CHOOSE i \in failing : \A j \in failing : i <= j
  <2>4. first \in failing /\ \A j \in failing : first <= j
    <3>1. \A j \in failing : 1 <= j
      BY <2>2
    <3> QED BY <2>2, <3>1
  <2>5. FirstError(s) = s[first][2]
    BY <2>3
  <2> HIDE DEF first
  <2>6. first = 1
    BY <2>2, <2>4
  <2> QED BY <2>1, <2>5, <2>6
<1>4. ~a
  BY <1>1, <1>2, <1>3
<1>5. LinksOn(D, q) = {}
  BY <1>4 DEF a
<1>6. q \notin DOMAIN D
  <2> SUFFICES ASSUME q \in DOMAIN D PROVE FALSE
    OBVIOUS
  <2>1. IsLink(D, q)
    BY ExistingFacts DEF q
  <2>2. q \in Seq(STRING) /\ LeadTo(D, q)
    BY NodeLeadTo
  <2> QED BY <1>5, <2>1, <2>2, LinksUpTo
<1> QED
  BY <1>5, <1>6 DEF q

LEMMA FirstOfRest ==
  ASSUME NEW p \in Seq(STRING), NEW k \in Nat, k < Len(p)
  PROVE  \E z \in Seq(STRING), v \in Seq(STRING) :
           /\ Len(z) = 1
           /\ SubSeq(p, k + 1, Len(p)) = z \o v
           /\ SubSeq(p, 1, k + 1) = SubSeq(p, 1, k) \o z
<1> DEFINE x == SubSeq(p, 1, k)
           y == SubSeq(p, k + 1, Len(p))
<1>1. k \in 0..Len(p) /\ Len(p) \in Nat /\ Len(p) - k >= 1
  OBVIOUS
<1>2. x \in Seq(STRING) /\ y \in Seq(STRING) /\ p = x \o y /\ Len(y) = Len(p) - k
  BY <1>1, SplitAt
<1>3. Len(x) = k
  BY <1>1, SubSeqFacts
<1> HIDE DEF x, y
<1> DEFINE z == SubSeq(y, 1, 1)
           v == SubSeq(y, 1 + 1, Len(y))
<1>4. 1 \in 0..Len(y)
  BY <1>1, <1>2
<1>5. z \in Seq(STRING) /\ v \in Seq(STRING) /\ y = z \o v
  BY <1>2, <1>4, SplitAt
<1>6. Len(z) = 1
  BY <1>2, <1>4, SubSeqFacts
<1> HIDE DEF z, v
<1> DEFINE u == x \o z
<1>7. u \in Seq(STRING) /\ Len(u) = k + 1
  <2>1. u \in Seq(STRING) /\ Len(u) = Len(x) + Len(z)
    BY <1>2, <1>5, ConcatProperties
  <2> QED BY <1>3, <1>6, <2>1
<1>8. p = u \o v
  <2>1. IsJoin(u, x, z) /\ IsJoin(y, z, v) /\ IsJoin(p, x, y)
    BY <1>2, <1>5 DEF IsJoin
  <2> HIDE DEF u
  <2>2. IsJoin(p, u, v)
    BY <1>2, <1>5, <2>1, JoinedPaths
  <2> QED BY <2>2 DEF IsJoin
<1> HIDE DEF u
<1>9. SubSeq(u \o v, 1, k + 1) = SubSeq(u, 1, k + 1) /\ SubSeq(u, 1, Len(u)) = u
  <2>1. k + 1 \in 0..Len(u)
    BY <1>7
  <2> QED BY <1>5, <1>7, <2>1, PrefixOfConcat, WholeSubSeq
<1>10. SubSeq(p, 1, k + 1) = x \o z
  BY <1>7, <1>8, <1>9 DEF u
<1> QED
  BY <1>5, <1>6, <1>10 DEF x, y

(* The second path of a rename names a link only if it is the link.         *)
LEMMA TargetLink ==
  ASSUME NEW D, GoodDisk(D), NEW to \in Seq(STRING), Creating(D, to).err = "ok",
         NEW q, q = Creating(D, to).path,
         IsLink(D, Named(D, q)), Passes(InDir(D, Named(D, q)))
  PROVE  q = Named(D, q) /\ Follow(D, q) \notin DOMAIN D
<1> DEFINE n == Named(D, q)
<1>1. q \in Seq(STRING)
  BY CreatingFacts
<1>2. n \in Seq(STRING) /\ n \in DOMAIN D /\ n # <<>> /\ q # <<>>
  <2>1. n \in Seq(STRING)
    BY <1>1, NamedType
  <2>2. n \in DOMAIN D /\ n # <<>>
    BY GoodDiskFacts DEF IsLink
  <2>3. q = <<>> => n = <<>>
    BY DEF Named
  <2> QED BY <2>1, <2>2, <2>3
<1>3. IsDir(D, Front(n))
  <2> HIDE DEF n
  <2> QED BY <1>2, InDirFinds DEF n
<1>4. n = Follow(D, Front(q)) \o <<Last(q)>> /\ IsDir(D, Follow(D, Front(q)))
  <2>1. Front(q) \in Seq(STRING) /\ <<Last(q)>> \in Seq(STRING) /\ q = Front(q) \o <<Last(q)>>
    BY <1>1, <1>2, FrontAndLast
  <2> DEFINE g == Follow(D, Front(q))
             l == <<Last(q)>>
  <2>2. g \in Seq(STRING)
    BY <2>1, FollowType
  <2>3. n = Append(g, Last(q)) /\ Append(g, Last(q)) = g \o <<Last(q)>>
    BY <1>2, <2>2 DEF Named
  <2>4. Len(l) = 1
    OBVIOUS
  <2> HIDE DEF g, l, n
  <2>5. Front(g \o l) = g
    BY <2>1, <2>2, <2>4, FrontOfConcat DEF l
  <2> QED BY <1>3, <2>3, <2>5 DEF g, l
<1>5. <<>> \in DOMAIN D
  <2> SUFFICES ASSUME <<>> \notin DOMAIN D PROVE FALSE
    OBVIOUS
  <2> QED BY <1>2, NothingThere
<1>6. Exist(D, to) # {}
  <2>1. 0 \in 0..Len(to) /\ SubSeq(to, 1, 0) = <<>> /\ <<>> \in Seq(STRING)
    BY EmptySeq
  <2>2. ~IsLink(D, <<>>)
    BY GoodDiskFacts DEF IsLink
  <2>3. Follow(D, <<>>) = <<>>
    BY <1>5, <2>2, NotLinkStays
  <2>4. Existing(D, <<>>).err = "ok"
    BY <1>5, <2>1, <2>2, <2>3, ExistingFacts
  <2>5. 0 \in Exist(D, to)
    BY <2>1, <2>4 DEF Exist
  <2> QED BY <2>5
<1>7. PICK k \in Exist(D, to) :
        /\ \A j \in Exist(D, to) : j <= k
        /\ q = Follow(D, SubSeq(to, 1, k)) \o SubSeq(to, k + 1, Len(to))
        /\ k < Len(to) => Existing(D, SubSeq(to, 1, k + 1)).err # "ELOOP"
  BY <1>6, CreatingFacts
<1> DEFINE x == SubSeq(to, 1, k)
           y == SubSeq(to, k + 1, Len(to))
           F == Follow(D, x)
<1>8. k \in 0..Len(to) /\ Len(to) \in Nat /\ Existing(D, x).err = "ok"
  BY <1>7 DEF Exist
<1>9. x \in Seq(STRING) /\ y \in Seq(STRING) /\ Len(y) = Len(to) - k
  BY <1>8, SplitAt
<1>10. F \in Seq(STRING) /\ F \in DOMAIN D /\ ~IsLink(D, F)
  <2> HIDE DEF x
  <2> QED BY <1>8, <1>9, ExistingFacts
<1>11. LinksOn(D, F) = {} /\ Follow(D, F) = F /\ Named(D, F) = F
  <2> HIDE DEF F
  <2> QED BY <1>10, NotLinkStays, NamedNode
<1>12. q = F \o y
  BY <1>7
<1>13. k < Len(to)
  <2> SUFFICES ASSUME k = Len(to) PROVE FALSE
    BY <1>8
  <2>1. Len(y) = 0
    BY <1>8, <1>9
  <2> HIDE DEF F, y, x
  <2>2. y = <<>>
    BY <1>9, <2>1, EmptySeq
  <2>3. q = F
    BY <1>10, <1>12, <2>2, ConcatEmptySeq
  <2> QED BY <1>10, <1>11, <2>3
<1>14. PICK z \in Seq(STRING), v \in Seq(STRING) :
         /\ Len(z) = 1 /\ y = z \o v /\ SubSeq(to, 1, k + 1) = x \o z
  <2>1. k \in Nat
    BY <1>8
  <2> QED BY <1>13, <2>1, FirstOfRest
<1>15. LinksOn(D, Follow(D, x \o z)) = {} /\ Follow(D, x \o z) \notin DOMAIN D
  <2>1. k + 1 \in 0..Len(to) /\ ~(k + 1 <= k)
    BY <1>8, <1>13
  <2>2. k + 1 \notin Exist(D, to)
    BY <1>7, <2>1
  <2>3. Existing(D, x \o z).err # "ok"
    BY <1>14, <2>1, <2>2 DEF Exist
  <2>4. Existing(D, x \o z).err # "ELOOP"
    BY <1>7, <1>13, <1>14
  <2> HIDE DEF x
  <2>5. x \o z \in Seq(STRING)
    BY <1>9
  <2> QED BY <2>3, <2>4, <2>5, LoopsAre
<1> HIDE DEF F, x, y
<1> DEFINE u == F \o z
<1>16. u \in Seq(STRING) /\ Follow(D, u) = Follow(D, x \o z)
  <2>1. u \in Seq(STRING)
    BY <1>10
  <2>2. LinksOn(D, Follow(D, x)) = {}
    BY <1>11 DEF F
  <2>3. Follow(D, Follow(D, x) \o z) = Follow(D, x \o z)
    BY <1>9, <1>15, <2>2, FollowOn
  <2> QED BY <2>1, <2>3 DEF F
<1>17. q = u \o v
  <2>1. IsJoin(u, F, z) /\ IsJoin(y, z, v) /\ IsJoin(q, F, y)
    BY <1>12, <1>14 DEF IsJoin
  <2> HIDE DEF u
  <2>2. IsJoin(q, u, v)
    BY <1>10, <1>14, <2>1, JoinedPaths
  <2> QED BY <2>2 DEF IsJoin
<1>18. v = <<>>
  <2> SUFFICES ASSUME v # <<>> PROVE FALSE
    OBVIOUS
  <2> DEFINE w == Front(v)
             l == <<Last(v)>>
             e == Follow(D, u)
  <2>1. w \in Seq(STRING) /\ l \in Seq(STRING) /\ v = w \o l
    BY FrontAndLast
  <2>2. Len(l) = 1
    OBVIOUS
  <2> HIDE DEF w, l, u
  <2>3. u \o w \in Seq(STRING) /\ q = (u \o w) \o l
    <3>1. u \in Seq(STRING) /\ w \in Seq(STRING) /\ l \in Seq(STRING)
      BY <1>16, <2>1
    <3> DEFINE m == u \o w
    <3>2. m \in Seq(STRING)
      BY <3>1, ConcatProperties
    <3>3. IsJoin(m, u, w) /\ IsJoin(v, w, l) /\ IsJoin(q, u, v)
      BY <1>17, <2>1 DEF IsJoin
    <3> HIDE DEF m
    <3>4. IsJoin(q, m, l)
      BY <3>1, <3>3, JoinedPaths
    <3> QED BY <3>2, <3>4 DEF IsJoin, m
  <2>4. Front(q) = u \o w
    BY <2>1, <2>2, <2>3, FrontOfConcat
  <2>5. e \in Seq(STRING) /\ e \notin DOMAIN D /\ LinksOn(D, e) = {}
    BY <1>15, <1>16, FollowType
  <2>6. e \o w \notin DOMAIN D /\ LinksOn(D, e \o w) = {}
    <3> HIDE DEF e
    <3> QED BY <2>1, <2>5, NothingBeyond
  <2>7. Follow(D, u \o w) = e \o w
    BY <1>16, <2>1, <2>6, FollowBeyond
  <2> QED BY <1>4, <2>4, <2>6, <2>7 DEF IsDir
<1>19. q = u
  <2> HIDE DEF u
  <2> QED BY <1>16, <1>17, <1>18, ConcatEmptySeq
<1>20. q = n
  <2>1. Front(u) = F /\ Last(u) = z[1]
    BY <1>10, <1>14, FrontOfConcat
  <2>2. n = F \o <<Last(q)>>
    BY <1>4, <1>11, <1>19, <2>1
  <2>3. z = <<z[1]>>
    BY <1>14
  <2> QED BY <1>19, <2>1, <2>2, <2>3
<1> QED
  BY <1>15, <1>16, <1>19, <1>20

------------------------------------------------------------------------------
(* The directory that was made last is empty, and whatever is made in it is *)
(* new.                                                                    *)

NewBase(D, b) == b \in DOMAIN D /\ D[b] = NewDir /\ ~HasChildren(D, b)

LEMMA NewIsBase ==
  ASSUME GoodDisk(disk), NEW t, NEW D, MakesOne(t, D)
  PROVE  /\ NewBase(D, t) /\ DOMAIN D = DOMAIN disk \union {t}
         /\ \A p \in DOMAIN disk : p # t /\ D[p] = disk[p]
         /\ \A p \in Seq(STRING) : Follow(D, p) = Follow(disk, p)
<1>1. /\ t \in Seq(STRING) /\ t \notin DOMAIN disk /\ D = AddDirs(disk, {t})
      /\ \A p \in Seq(STRING) : Follow(D, p) = Follow(disk, p)
  BY DEF MakesOne
<1>2. /\ DOMAIN D = DOMAIN disk \union {t} /\ D[t] = NewDir
      /\ \A p \in DOMAIN disk : p # t /\ D[p] = disk[p]
  BY <1>1 DEF AddDirs
<1>3. ASSUME NEW p \in DOMAIN disk, IsPrefix(t, p) PROVE FALSE
  <2>1. LeadTo(disk, p)
    BY NodeLeadTo
  <2>2. t = p \/ IsDir(disk, t)
    BY <1>1, <1>3, <2>1 DEF LeadTo
  <2> QED BY <1>1, <2>2 DEF IsDir
<1>4. IsPrefix(t, t)
  BY <1>1, PrefixIsSubSeq
<1>5. Below(D, t) = {t}
  BY <1>2, <1>3, <1>4 DEF Below
<1> QED
  BY <1>1, <1>2, <1>5 DEF NewBase, HasChildren

LEMMA NothingInNew ==
  ASSUME NEW D, GoodDisk(D), NEW b \in Seq(STRING), NewBase(D, b),
         NEW y \in Seq(STRING), Len(y) = 1
  PROVE  /\ b \o y \in Seq(STRING) /\ b \o y \notin DOMAIN D /\ b \o y # <<>>
         /\ Front(b \o y) = b /\ IsDir(D, b) /\ ~ReadOnly(D, b)
         /\ LinksOn(D, b \o y) = {}
<1>1. b \o y # <<>> /\ Front(b \o y) = b
  BY FrontOfConcat
<1> DEFINE z == b \o y
<1>2. z \in Seq(STRING) /\ Len(z) = Len(b) + 1 /\ Len(b) \in Nat
      /\ \A i \in 1..Len(b) : z[i] = b[i]
  <2>1. /\ z \in Seq(STRING) /\ Len(z) = Len(b) + Len(y)
        /\ \A i \in 1..(Len(b) + Len(y)) : z[i] = IF i <= Len(b) THEN b[i] ELSE y[i - Len(b)]
    BY ConcatProperties
  <2>2. Len(b) \in Nat
    OBVIOUS
  <2> HIDE DEF z
  <2> QED BY <2>1, <2>2
<1>3. b \in DOMAIN D /\ D[b] = NewDir /\ Below(D, b) = {b}
  BY DEF NewBase, HasChildren
<1> HIDE DEF z
<1>4. IsPrefix(b, z) /\ z # b
  BY <1>2, PrefixFacts
<1>5. z \notin DOMAIN D
  BY <1>3, <1>4 DEF Below
<1>6. IsDir(D, b) /\ ~ReadOnly(D, b)
  BY <1>3 DEF IsDir, ReadOnly, NewDir, DiskNode, RWX
<1>7. LeadTo(D, z)
  BY <1>1, <1>2, <1>6, DirLeadTo DEF z
<1>8. LinksOn(D, z) = {}
  BY <1>2, <1>5, <1>7, LinksUpTo DEF IsLink
<1> QED
  BY <1>1, <1>2, <1>5, <1>6, <1>8 DEF z

LEMMA NextIsNew ==
  ASSUME GoodDisk(disk), NEW q \in Seq(STRING), NEW n \in 1..Len(q),
         NewBase(disk, Follow(disk, SubSeq(q, 1, n - 1)))
  PROVE  /\ CreateDirectory(SubSeq(q, 1, n)).err = "ok"
         /\ Follow(disk, SubSeq(q, 1, n)) \notin DOMAIN disk
<1> DEFINE x == SubSeq(q, 1, n)
           u == SubSeq(q, 1, n - 1)
           b == Follow(disk, u)
           y == <<Last(x)>>
           t == b \o y
<1>1. n \in 0..Len(q) /\ n - 1 \in 0..Len(q) /\ Len(q) \in Nat
  OBVIOUS
<1>2. x \in Seq(STRING) /\ Len(x) = n /\ u \in Seq(STRING) /\ x # <<>>
  BY <1>1, SubSeqFacts, EmptySeq
<1>3. Front(x) = u
  <2>1. Front(x) = SubSeq(x, 1, n - 1)
    <3> HIDE DEF x
    <3> QED BY <1>2, FrontFacts
  <2>2. Len(u) = n - 1 /\ \A i \in 1..(n - 1) : u[i] = q[i]
    BY <1>1, SubSeqFacts
  <2>3. \A i \in 1..n : x[i] = q[i]
    BY <1>1, SubSeqFacts
  <2>4. n - 1 \in 0..Len(x)
    BY <1>2
  <2> HIDE DEF x, u
  <2> DEFINE v == SubSeq(x, 1, n - 1)
  <2>5. v \in Seq(STRING) /\ Len(v) = n - 1 /\ \A i \in 1..(n - 1) : v[i] = x[i]
    BY <1>2, <2>4, SubSeqFacts
  <2> HIDE DEF v
  <2>6. v = u
    BY <1>2, <2>2, <2>3, <2>5
  <2> QED BY <2>1, <2>6 DEF v
<1> HIDE DEF x, u
<1>4. u \in Seq(STRING) /\ y \in Seq(STRING) /\ x = u \o y /\ Len(y) = 1
  BY <1>2, <1>3, FrontAndLast
<1>5. b \in Seq(STRING) /\ NewBase(disk, b)
  BY <1>4, FollowType DEF u
<1>6. Named(disk, x) = t
  <2>1. Named(disk, x) = Append(b, Last(x))
    BY <1>2, <1>3 DEF Named
  <2>2. Append(b, Last(x)) = t
    <3> HIDE DEF b
    <3> QED BY <1>5
  <2> QED BY <2>1, <2>2
<1> HIDE DEF y
<1>7. /\ t \in Seq(STRING) /\ t \notin DOMAIN disk /\ t # <<>>
      /\ Front(t) = b /\ IsDir(disk, b) /\ ~ReadOnly(disk, b)
      /\ LinksOn(disk, t) = {}
  <2> HIDE DEF b
  <2> QED BY <1>4, <1>5, NothingInNew
<1>8. Follow(disk, x) = t
  BY <1>4, <1>7, FollowBeyond
<1> HIDE DEF b, t
<1>9. CreateDirectory(x).err = "ok"
  <2> DEFINE a == t \in DOMAIN disk
             h == Closed(disk, t)
             d == << <<a, "EEXIST">>, <<h, "EACCES">> >>
             c == InDir(disk, t) \o d
             err == FirstError(c)
  <2>1. CreateDirectory(x) = Made(err, {t})
    BY <1>6, <1>7, <1>8 DEF CreateDirectory, IsDir
  <2>2. a \in BOOLEAN /\ h \in BOOLEAN /\ ~a /\ ~h
    BY <1>7 DEF Closed, ReadOnly
  <2>3. InDir(disk, t) \in DiskChecks /\ Passes(InDir(disk, t))
    BY <1>7, InDirChecks, InDirFinds
  <2> HIDE DEF a, h
  <2>4. d \in DiskChecks /\ Passes(d)
    BY <2>2, CodesAre, TwoDiskChecks
  <2> HIDE DEF d
  <2>5. c \in DiskChecks /\ Passes(c)
    BY <2>3, <2>4, MoreDiskChecks
  <2> HIDE DEF c
  <2>6. err = "ok"
    BY <2>5, DiskError
  <2> HIDE DEF err
  <2> QED BY <2>1, <2>6, MadeIs
<1> QED
  BY <1>7, <1>8, <1>9 DEF x

------------------------------------------------------------------------------
(* A call that no one has interfered with: it has changed nothing yet but   *)
(* the file it is writing, emptied, or has made directories, each in the    *)
(* one before it; and what it resolved is there and is no link.             *)

Writing ==
  /\ call.pc = "open" /\ call.args.op \in {"writeFile", "appendFile"}
  /\ SameBut(call.start, disk, {call.q}) /\ ~IsLink(call.start, call.q)
  /\ disk[call.q].data = Opened(call.start, call.args.op, call.q)

(* E is D and new directories on the way to q, down to the n-th name of q.  *)
PartWay(D, E, q, n) ==
  /\ \A p \in DOMAIN D : p \in DOMAIN E /\ E[p] = D[p]
  /\ \A p \in DOMAIN E \ DOMAIN D :
       E[p] = NewDir /\ \E i \in 0..n : p = Follow(E, SubSeq(q, 1, i))

DirsUnderway ==
  /\ call.pc = "making" /\ call.args.op = "mkdir" /\ call.args.recursive
  /\ PartWay(call.start, disk, call.q, call.size - 1)
  /\ \/ disk = call.start
     \/ call.size >= 1 /\ NewBase(disk, Follow(disk, SubSeq(call.q, 1, call.size - 1)))

Making ==
  /\ call.pc = "made" /\ call.args.op = "mkdir"
  /\ KeepsLinks(call.start, disk)
  /\ Follow(disk, call.q) \in DOMAIN disk /\ ~IsLink(disk, Follow(disk, call.q))

ResolvedWell ==
  /\ call.args.op \notin {"writeFile", "appendFile", "mkdir"} =>
       call.q \in DOMAIN call.start /\ ~IsLink(call.start, call.q)
  /\ call.pc = "resolved" /\ call.args.op = "rename" =>
       /\ Creating(call.start, call.args.to).err = "ok"
       /\ call.q2 = Creating(call.start, call.args.to).path

AloneInv ==
  call # Idle /\ call.alone =>
    /\ GoodDisk(call.start) /\ call.lost = {}
    /\ \/ call.pc \in {"called", "second", "resolved", "status"} /\ disk = call.start
       \/ call.pc = "open" /\ call.args.op = "readFile" /\ disk = call.start
       \/ Writing
       \/ DirsUnderway
       \/ Making
    /\ call.pc \in {"second", "resolved"} => ResolvedWell

LEMMA AnsweredAlone ==
  ASSUME call' = Idle
  PROVE  AloneInv'
BY DEF AloneInv

LEMMA HostAlone ==
  ASSUME RealInv, AloneInv, HostPut \/ HostRemove
  PROVE  AloneInv'
<1>1. PICK p : /\ GoodDisk(disk') /\ Noticed(p)
               /\ p \in DOMAIN disk \/ p \in DOMAIN disk'
  BY HostChanges
<1>2. \/ call' = Idle \/ ~call'.alone
      \/ /\ call # Idle /\ call.pc = "called" /\ call'.pc = "called"
         /\ call'.alone = call.alone /\ call'.start = disk' /\ call'.lost = call.lost
  BY <1>1, NoticedFacts
<1>3. CASE call' = Idle \/ ~call'.alone
  BY <1>3 DEF AloneInv
<1>4. CASE /\ call # Idle /\ call.pc = "called" /\ call'.pc = "called"
           /\ call'.alone = call.alone /\ call'.start = disk' /\ call'.lost = call.lost
  <2> SUFFICES ASSUME call'.alone PROVE AloneInv'
    BY DEF AloneInv
  <2>1. call.lost = {}
    BY <1>4 DEF AloneInv
  <2>2. GoodDisk(call'.start)
    BY <1>1, <1>4
  <2> QED BY <1>4, <2>1, <2>2 DEF AloneInv
<1> QED
  BY <1>2, <1>3, <1>4

LEMMA BeginAlone ==
  ASSUME RealInv, BeginCall
  PROVE  AloneInv'
<1>1. PICK args \in CallArgs : Begin(args)
  BY BeginsWith
<1>2. disk' = disk /\ call'.pc = "called" /\ call'.lost = {} /\ call'.start = disk
  BY <1>1, BeginFacts
<1>3. GoodDisk(call'.start) /\ disk' = call'.start
  BY <1>2 DEF RealInv
<1> QED
  BY <1>2, <1>3 DEF AloneInv

(* When the path is resolved and nothing else is done, all is as at first.  *)
LEMMA ResolvedAlone ==
  ASSUME RealInv, AloneInv, call.pc \in {"called", "second", "resolved", "status"}, call.alone
  PROVE  /\ call # Idle /\ GoodDisk(call.start) /\ call.lost = {} /\ disk = call.start
         /\ call.pc \in {"second", "resolved"} => ResolvedWell
<1>1. call # Idle
  BY IdleIs
<1> QED
  BY <1>1 DEF AloneInv, Writing, DirsUnderway, Making

LEMMA ResolveFirstAlone ==
  ASSUME RealInv, AloneInv, ResolveFirst
  PROVE  AloneInv'
<1> DEFINE r == Resolve(disk, call.args.op, call.args.path)
<1>1. /\ GoodCall(call) /\ call.pc = "called" /\ disk' = disk
      /\ \/ call' = Idle
         \/ /\ call'.args = call.args /\ call'.pc \in {"second", "resolved"}
            /\ call'.pc = "second" <=> call.args.op \in {"rename", "copyFile"}
            /\ call'.q = r.path /\ r.err = "ok"
            /\ call'.lost = call.lost /\ call'.alone = call.alone
            /\ call'.start = call.start
  BY ResolveFirstFacts
<1>2. GoodDisk(disk) /\ call.args.path \in Seq(STRING)
  BY <1>1 DEF RealInv, GoodCall, CallOf, CallArgs
<1>3. call.args.op \notin {"writeFile", "appendFile", "mkdir"} /\ r.err = "ok" =>
        r.path \in DOMAIN disk /\ ~IsLink(disk, r.path)
  <2> SUFFICES ASSUME call.args.op \notin {"writeFile", "appendFile", "mkdir"}, r.err = "ok"
               PROVE  r.path \in DOMAIN disk /\ ~IsLink(disk, r.path)
    OBVIOUS
  <2>1. r = Existing(disk, call.args.path)
    BY DEF Resolve
  <2> HIDE DEF r
  <2> QED BY <1>2, <2>1, ExistingFacts
<1> HIDE DEF r
<1>4. CASE call' = Idle
  BY <1>4, AnsweredAlone
<1>5. CASE call' # Idle
  <2> SUFFICES ASSUME call'.alone PROVE AloneInv'
    BY DEF AloneInv
  <2>1. /\ call'.args = call.args /\ call'.pc \in {"second", "resolved"}
        /\ call'.pc = "second" <=> call.args.op \in {"rename", "copyFile"}
        /\ call'.q = r.path /\ r.err = "ok"
        /\ call'.lost = call.lost /\ call.alone /\ call'.start = call.start
    BY <1>1, <1>5
  <2>2. GoodDisk(call.start) /\ call.lost = {} /\ disk = call.start
    BY <1>1, <2>1, ResolvedAlone
  <2>3. ResolvedWell'
    BY <1>3, <2>1, <2>2 DEF ResolvedWell
  <2> QED BY <1>1, <2>1, <2>2, <2>3 DEF AloneInv
<1> QED
  BY <1>4, <1>5

LEMMA ResolveSecondAlone ==
  ASSUME RealInv, AloneInv, ResolveSecond
  PROVE  AloneInv'
<1>1. /\ call.pc = "second" /\ disk' = disk
      /\ \/ call' = Idle
         \/ /\ call'.pc = "resolved" /\ call'.args = call.args
            /\ call'.q = call.q /\ call'.q2 = Creating(disk, call.args.to).path
            /\ Creating(disk, call.args.to).err = "ok"
            /\ call'.lost = call.lost /\ call'.alone = call.alone
            /\ call'.start = call.start
  BY ResolveSecondFacts
<1>2. CASE call' = Idle
  BY <1>2, AnsweredAlone
<1>3. CASE call' # Idle
  <2> SUFFICES ASSUME call'.alone PROVE AloneInv'
    BY DEF AloneInv
  <2>1. /\ call'.pc = "resolved" /\ call'.args = call.args
        /\ call'.q = call.q /\ call'.q2 = Creating(disk, call.args.to).path
        /\ Creating(disk, call.args.to).err = "ok"
        /\ call'.lost = call.lost /\ call.alone /\ call'.start = call.start
    BY <1>1, <1>3
  <2>2. call # Idle
    BY <1>1, IdleIs
  <2>3. /\ GoodDisk(call.start) /\ call.lost = {} /\ disk = call.start /\ ResolvedWell
    BY <1>1, <2>1, ResolvedAlone
  <2>4. ResolvedWell'
    BY <2>1, <2>3 DEF ResolvedWell
  <2> QED BY <1>1, <2>1, <2>3, <2>4 DEF AloneInv
<1> QED
  BY <1>2, <1>3

LEMMA OpenReadAlone ==
  ASSUME RealInv, AloneInv, OpenRead
  PROVE  AloneInv'
<1>1. /\ call.pc = "resolved" /\ call.args.op = "readFile" /\ disk' = disk
      /\ \/ call' = Idle
         \/ /\ call'.pc = "open" /\ call'.args = call.args
            /\ call'.lost = call.lost /\ call'.alone = call.alone
            /\ call'.start = call.start
  BY OpenReadFacts
<1>2. CASE call' = Idle
  BY <1>2, AnsweredAlone
<1>3. CASE call' # Idle
  <2> SUFFICES ASSUME call'.alone PROVE AloneInv'
    BY DEF AloneInv
  <2>1. call'.pc = "open" /\ call'.args.op = "readFile"
        /\ call'.lost = call.lost /\ call.alone /\ call'.start = call.start
    BY <1>1, <1>3
  <2>2. GoodDisk(call.start) /\ call.lost = {} /\ disk = call.start
    BY <1>1, <2>1, ResolvedAlone
  <2> QED BY <1>1, <2>1, <2>2 DEF AloneInv
<1> QED
  BY <1>2, <1>3

LEMMA OpenWriteAlone ==
  ASSUME RealInv, AloneInv, OpenWrite
  PROVE  AloneInv'
<1>1. /\ call.pc = "resolved" /\ call.args.op \in {"writeFile", "appendFile"}
      /\ \/ call' = Idle
         \/ /\ call'.pc = "open" /\ call'.args = call.args
            /\ call'.lost = call.lost /\ call'.alone = call.alone
            /\ call'.start = call.start
            /\ call'.q \in DOMAIN disk => IsFile(disk, call'.q)
            /\ SameBut(disk, disk', {call'.q})
            /\ disk'[call'.q].data = Opened(disk, call.args.op, call'.q)
  BY OpenWriteFacts
<1>2. CASE call' = Idle
  BY <1>2, AnsweredAlone
<1>3. CASE call' # Idle
  <2> SUFFICES ASSUME call'.alone PROVE AloneInv'
    BY DEF AloneInv
  <2>1. /\ call'.pc = "open" /\ call'.args = call.args
        /\ call'.lost = call.lost /\ call.alone /\ call'.start = call.start
        /\ call'.q \in DOMAIN disk => IsFile(disk, call'.q)
        /\ SameBut(disk, disk', {call'.q})
        /\ disk'[call'.q].data = Opened(disk, call.args.op, call'.q)
    BY <1>1, <1>3
  <2>2. GoodDisk(call.start) /\ call.lost = {} /\ disk = call.start
    BY <1>1, <2>1, ResolvedAlone
  <2>3. ~IsLink(call'.start, call'.q)
    BY <2>1, <2>2 DEF IsLink, IsFile
  <2>4. Writing'
    BY <1>1, <2>1, <2>2, <2>3 DEF Writing
  <2> QED BY <2>1, <2>2, <2>4 DEF AloneInv
<1> QED
  BY <1>2, <1>3

(* All directories are there, and no link is lost.                          *)
LEMMA MadeAlone ==
  ASSUME RealInv, GoodCall(call), call.args.op = "mkdir", AllMade,
         call.alone => GoodDisk(call.start) /\ call.lost = {} /\ KeepsLinks(call.start, disk'),
         IsDir(disk', Follow(disk', call.q))
  PROVE  AloneInv'
<1>1. CASE call' = Idle
  BY <1>1, AnsweredAlone
<1>2. CASE /\ call'.pc = "made" /\ call'.args = call.args /\ call'.q = call.q
           /\ call'.lost = call.lost /\ call'.alone = call.alone
           /\ call'.start = call.start
  <2> SUFFICES ASSUME call'.alone PROVE AloneInv'
    BY DEF AloneInv
  <2>1. Follow(disk', call'.q) \in DOMAIN disk' /\ ~IsLink(disk', Follow(disk', call'.q))
    BY <1>2 DEF IsDir, IsLink
  <2>2. GoodDisk(call'.start) /\ call'.lost = {} /\ KeepsLinks(call'.start, disk')
    BY <1>2
  <2>3. Making'
    BY <1>2, <2>1, <2>2 DEF Making
  <2> QED BY <1>2, <2>2, <2>3 DEF AloneInv
<1> QED
  BY <1>1, <1>2, AllMadeFacts

LEMMA FindMissingAlone ==
  ASSUME RealInv, AloneInv, FindMissing
  PROVE  AloneInv'
<1>1. /\ GoodCall(call) /\ call.pc = "resolved" /\ call.args.op = "mkdir"
      /\ call.args.recursive /\ disk' = disk
      /\ \/ call' = Idle
         \/ AllMade /\ IsDir(disk, Follow(disk, call.q))
         \/ /\ call'.pc = "making" /\ call'.args = call.args
            /\ call'.q = call.q /\ call'.lost = call.lost /\ call'.alone = call.alone
            /\ call'.start = call.start
  BY FindMissingFacts
<1>2. call.alone => GoodDisk(call.start) /\ call.lost = {} /\ disk = call.start
  BY <1>1, ResolvedAlone
<1>3. CASE call' = Idle
  BY <1>3, AnsweredAlone
<1>4. CASE AllMade /\ IsDir(disk, Follow(disk, call.q))
  <2>1. KeepsLinks(disk, disk)
    BY DEF KeepsLinks
  <2>2. call.alone => KeepsLinks(call.start, disk')
    BY <1>1, <1>2, <2>1
  <2> QED BY <1>1, <1>2, <1>4, <2>2, MadeAlone
<1>5. CASE /\ call'.pc = "making" /\ call'.args = call.args
           /\ call'.q = call.q /\ call'.lost = call.lost /\ call'.alone = call.alone
           /\ call'.start = call.start
  <2> SUFFICES ASSUME call'.alone PROVE AloneInv'
    BY DEF AloneInv
  <2>1. GoodDisk(call'.start) /\ call'.lost = {} /\ disk' = call'.start
    BY <1>1, <1>2, <1>5
  <2>2. PartWay(call'.start, disk', call'.q, call'.size - 1)
    BY <2>1 DEF PartWay
  <2>3. DirsUnderway'
    BY <1>1, <1>5, <2>1, <2>2 DEF DirsUnderway
  <2> QED BY <1>5, <2>1, <2>3 DEF AloneInv
<1> QED
  BY <1>1, <1>3, <1>4, <1>5

(* What MakeDir finds on the disk.                                          *)
LEMMA MakingAlone ==
  ASSUME RealInv, AloneInv, call.pc = "making" \/ call.pc = "resolved", call.alone
  PROVE  /\ GoodDisk(call.start) /\ call.lost = {}
         /\ disk = call.start \/ (call.pc = "making" /\ DirsUnderway)
<1>1. call # Idle
  BY IdleIs
<1>2. CASE call.pc = "making"
  BY <1>1, <1>2 DEF AloneInv, Writing, Making
<1>3. CASE call.pc = "resolved"
  BY <1>3, ResolvedAlone
<1> QED
  BY <1>2, <1>3

(* One more directory on the way to q.                                      *)
LEMMA PartWayOn ==
  ASSUME GoodDisk(disk), NEW D, NEW q \in Seq(STRING), NEW n \in 0..Len(q),
         PartWay(D, disk, q, n - 1), NEW E, MakesOne(Follow(E, SubSeq(q, 1, n)), E)
  PROVE  PartWay(D, E, q, n)
<1> DEFINE t == Follow(E, SubSeq(q, 1, n))
<1>1. /\ NewBase(E, t) /\ DOMAIN E = DOMAIN disk \union {t}
      /\ \A p \in DOMAIN disk : p # t /\ E[p] = disk[p]
      /\ \A p \in Seq(STRING) : Follow(E, p) = Follow(disk, p)
  BY NewIsBase
<1> HIDE DEF t
<1>2. \A p \in DOMAIN D : p \in DOMAIN disk /\ disk[p] = D[p]
  BY DEF PartWay
<1>3. \A p \in DOMAIN D : p \in DOMAIN E /\ E[p] = D[p]
  BY <1>1, <1>2
<1>4. ASSUME NEW p \in DOMAIN E \ DOMAIN D
      PROVE  E[p] = NewDir /\ \E i \in 0..n : p = Follow(E, SubSeq(q, 1, i))
  <2>1. CASE p = t
    BY <1>1, <2>1 DEF NewBase, t
  <2>2. CASE p \in DOMAIN disk
    <3>1. PICK i \in 0..(n - 1) : p = Follow(disk, SubSeq(q, 1, i))
      BY <1>4, <2>2 DEF PartWay
    <3>2. disk[p] = NewDir
      BY <1>4, <2>2 DEF PartWay
    <3>3. i \in 0..n /\ i \in 0..Len(q)
      OBVIOUS
    <3>4. SubSeq(q, 1, i) \in Seq(STRING)
      BY <3>3, SubSeqFacts
    <3>5. p = Follow(E, SubSeq(q, 1, i))
      BY <1>1, <3>1, <3>4
    <3> QED BY <1>1, <2>2, <3>2, <3>3, <3>5
  <2> QED BY <1>1, <1>4, <2>1, <2>2
<1> QED
  BY <1>3, <1>4 DEF PartWay

LEMMA MakeDirAlone ==
  ASSUME RealInv, AloneInv, MakeDir
  PROVE  AloneInv'
<1> DEFINE n == NextLength(call)
           x == SubSeq(call.q, 1, n)
           made == CreateDirectory(x)
<1>1. /\ GoodCall(call) /\ call.args.op = "mkdir" /\ GoodDisk(disk)
      /\ call.pc = "making" \/ (call.pc = "resolved" /\ ~call.args.recursive)
      /\ n \in 0..Len(call.q) /\ x \in Seq(STRING)
      /\ GoodDisk(disk') /\ KeepsLinks(disk, disk') /\ Makes(x, made)
      /\ \/ call' = Idle
         \/ /\ made.err = "ok" /\ disk' = made.disk
            /\ n = Len(call.q) /\ AllMade
         \/ /\ made.err = "ok" /\ disk' = made.disk /\ n < Len(call.q)
            /\ GoodCall(call') /\ call'.pc = call.pc /\ call'.args = call.args
            /\ call'.size = n + 1 /\ call'.q = call.q /\ call'.lost = call.lost
            /\ call'.alone = call.alone /\ call'.start = call.start
  BY MakeDirFacts
<1>2. call.q \in Seq(STRING)
  BY <1>1 DEF GoodCall, CallOf
<1>3. call.alone => /\ GoodDisk(call.start) /\ call.lost = {}
                    /\ disk = call.start \/ (call.pc = "making" /\ DirsUnderway)
  BY <1>1, MakingAlone
<1> HIDE DEF made
<1>4. CASE call' = Idle
  BY <1>4, AnsweredAlone
<1>5. CASE /\ made.err = "ok" /\ disk' = made.disk
           /\ n = Len(call.q) /\ AllMade
  <2>1. x = call.q
    BY <1>2, <1>5, WholeSubSeq
  <2>2. IsDir(disk', Follow(disk', call.q))
    BY <1>1, <1>5, <2>1 DEF Makes
  <2>3. call.alone => KeepsLinks(call.start, disk)
    BY <1>3 DEF KeepsLinks, DirsUnderway, PartWay
  <2>4. call.alone => KeepsLinks(call.start, disk')
    BY <1>1, <2>3 DEF KeepsLinks, IsLink
  <2> QED BY <1>1, <1>3, <1>5, <2>2, <2>4, MadeAlone
<1>6. CASE /\ made.err = "ok" /\ disk' = made.disk /\ n < Len(call.q)
           /\ GoodCall(call') /\ call'.pc = call.pc /\ call'.args = call.args
           /\ call'.size = n + 1 /\ call'.q = call.q /\ call'.lost = call.lost
           /\ call'.alone = call.alone /\ call'.start = call.start
  <2> SUFFICES ASSUME call'.alone PROVE AloneInv'
    BY DEF AloneInv
  <2>1. call.pc = "making" /\ n = call.size
    BY <1>1, <1>6 DEF NextLength
  <2>2. /\ GoodDisk(call.start) /\ call.lost = {} /\ DirsUnderway
    <3>1. call.alone /\ call # Idle
      BY <1>6, <2>1, IdleIs
    <3> QED BY <2>1, <3>1 DEF AloneInv, Writing, Making
  <2>3. call.args.recursive /\ PartWay(call.start, disk, call.q, n - 1)
    BY <2>1, <2>2 DEF DirsUnderway
  <2> HIDE DEF n, x
  <2>4. n \in Nat /\ call'.size - 1 = n /\ call'.size >= 1
    BY <1>1, <1>6
  <2>5. CASE disk' = disk
    <3>1. IsDir(disk, Follow(disk, x))
      BY <1>1, <1>6, <2>5 DEF Makes
    <3>2. disk = call.start
      <4> SUFFICES ASSUME disk # call.start PROVE FALSE
        OBVIOUS
      <4>1. n >= 1 /\ NewBase(disk, Follow(disk, SubSeq(call.q, 1, n - 1)))
        BY <2>1, <2>2 DEF DirsUnderway
      <4>2. n \in 1..Len(call.q)
        BY <1>1, <4>1
      <4>3. Follow(disk, x) \notin DOMAIN disk
        BY <1>1, <1>2, <4>1, <4>2, NextIsNew DEF x
      <4> QED BY <3>1, <4>3 DEF IsDir
    <3>3. disk' = call'.start
      BY <1>6, <2>5, <3>2
    <3>4. PartWay(call'.start, disk', call'.q, call'.size - 1)
      BY <3>3 DEF PartWay
    <3>5. DirsUnderway'
      BY <1>1, <1>6, <2>1, <2>3, <3>3, <3>4 DEF DirsUnderway
    <3> QED BY <1>6, <2>1, <2>2, <3>5 DEF AloneInv
  <2>6. CASE MakesOne(Follow(disk', x), disk')
    <3>1. MakesOne(Follow(disk', SubSeq(call.q, 1, n)), disk')
      BY <2>6 DEF x
    <3>2. PartWay(call.start, disk', call.q, n)
      <4> HIDE DEF MakesOne
      <4> QED BY <1>1, <1>2, <2>3, <3>1, PartWayOn
    <3>3. NewBase(disk', Follow(disk', SubSeq(call.q, 1, n)))
      BY <1>1, <3>1, NewIsBase
    <3>4. PartWay(call'.start, disk', call'.q, call'.size - 1)
      BY <1>6, <2>4, <3>2
    <3>5. NewBase(disk', Follow(disk', SubSeq(call'.q, 1, call'.size - 1)))
      BY <1>6, <2>4, <3>3
    <3>6. DirsUnderway'
      BY <1>1, <1>6, <2>1, <2>3, <2>4, <3>4, <3>5 DEF DirsUnderway
    <3> QED BY <1>6, <2>1, <2>2, <3>6 DEF AloneInv
  <2> QED BY <1>1, <1>6, <2>5, <2>6 DEF Makes
<1> QED
  BY <1>1, <1>4, <1>5, <1>6

LEMMA StatusAlone ==
  ASSUME RealInv, AloneInv, Status
  PROVE  AloneInv'
<1>1. /\ call.pc = "resolved" /\ disk' = disk
      /\ \/ call' = Idle
         \/ /\ call'.pc = "status"
            /\ call'.lost = call.lost /\ call'.alone = call.alone
            /\ call'.start = call.start
  BY StatusFacts
<1>2. CASE call' = Idle
  BY <1>2, AnsweredAlone
<1>3. CASE call' # Idle
  <2> SUFFICES ASSUME call'.alone PROVE AloneInv'
    BY DEF AloneInv
  <2>1. call'.pc = "status"
        /\ call'.lost = call.lost /\ call.alone /\ call'.start = call.start
    BY <1>1, <1>3
  <2>2. GoodDisk(call.start) /\ call.lost = {} /\ disk = call.start
    BY <1>1, <2>1, ResolvedAlone
  <2> QED BY <1>1, <2>1, <2>2 DEF AloneInv
<1> QED
  BY <1>2, <1>3

LEMMA AloneInvNext ==
  ASSUME RealInv, AloneInv, [Next]_vars
  PROVE  AloneInv'
<1>1. CASE BeginCall
  BY <1>1, BeginAlone
<1>2. CASE CallStep
  <2>1. CASE \/ ResolveFirst \/ ResolveSecond \/ OpenRead \/ OpenWrite
             \/ FindMissing \/ MakeDir \/ Status
    BY <2>1, ResolveFirstAlone, ResolveSecondAlone, OpenReadAlone, OpenWriteAlone,
       FindMissingAlone, MakeDirAlone, StatusAlone
  <2>2. CASE Read \/ ListDir \/ FileSize \/ AccessBits
    BY <2>2, LookingInv, AnsweredAlone
  <2>3. CASE \/ FlushFails \/ Flush \/ RemoveNode \/ Chmod \/ RenameNode \/ CopyNode
             \/ Resize \/ SetTime
    <3>1. call' = Idle
      BY <2>3, FlushFailsFacts, FlushFacts, RemoveNodeFacts, ChmodFacts, RenameNodeFacts,
         CopyNodeFacts, ResizeFacts, SetTimeFacts
    <3> QED BY <3>1, AnsweredAlone
  <2> QED BY <1>2, <2>1, <2>2, <2>3 DEF CallStep
<1>3. CASE HostPut \/ HostRemove
  BY <1>3, HostAlone
<1>4. CASE UNCHANGED vars
  BY <1>4 DEF vars, AloneInv, Writing, DirsUnderway, Making, ResolvedWell
<1> QED
  BY <1>1, <1>2, <1>3, <1>4 DEF Next

------------------------------------------------------------------------------
(* Calls that fail, and links.                                             *)

(* Who answers a call that has begun.                                       *)
LEMMA AnswersOf ==
  ASSUME RealInv, [Next]_vars, Answers
  PROVE  CallStep
<1>1. ~BeginCall
  BY BeginFromIdle DEF Answers
<1>2. ~UNCHANGED vars
  BY DEF vars, Answers
<1>3. ~(HostPut \/ HostRemove)
  <2> SUFFICES ASSUME HostPut \/ HostRemove PROVE FALSE
    OBVIOUS
  <2>1. PICK p : /\ GoodDisk(disk') /\ Noticed(p)
                 /\ p \in DOMAIN disk \/ p \in DOMAIN disk'
    BY HostChanges
  <2>2. call # Idle /\ call' = Idle
    BY DEF Answers
  <2>3. GoodCall(call) /\ call'.pc = call.pc
    BY <2>1, <2>2, NoticedFacts
  <2> QED BY <2>2, <2>3, IdleIs DEF GoodCall, CallOf, Pcs
<1> QED
  BY <1>1, <1>2, <1>3 DEF Next

LEMMA SameWithout ==
  ASSUME NEW D, NEW E, NEW p, SameBut(D, E, {p})
  PROVE  Without(E, {p}) = Without(D, {p})
BY DEF SameBut, Without

(* The steps that only look leave the disk as it was at first.              *)
LEMMA LookingAlone ==
  ASSUME RealInv, AloneInv, Undisturbed,
         \/ ResolveFirst \/ ResolveSecond \/ FindMissing \/ OpenRead \/ OpenWrite \/ Status
         \/ Read \/ ListDir \/ FileSize \/ AccessBits
  PROVE  disk' = call.start
<1>1. call # Idle /\ call' = Idle /\ call.alone
  BY DEF Undisturbed, Answers
<1>2. CASE \/ ResolveFirst \/ ResolveSecond \/ FindMissing \/ OpenRead \/ OpenWrite \/ Status
           \/ ListDir \/ FileSize \/ AccessBits
  <2>1. call.pc \in {"called", "second", "resolved", "status"}
    BY <1>2 DEF ResolveFirst, ResolveSecond, FindMissing, OpenRead, OpenWrite, Status, ListDir,
       FileSize, AccessBits, At
  <2>2. disk = call.start
    BY <1>1, <2>1, ResolvedAlone
  <2>3. disk' = disk
    <3>1. CASE OpenWrite
      <4>1. call'.pc # "open"
        BY <1>1, IdleIs
      <4> QED BY <3>1, <4>1, OpenWriteFacts
    <3>2. CASE ~OpenWrite
      BY <1>2, <3>2 DEF ResolveFirst, ResolveSecond, FindMissing, OpenRead, Status, ListDir,
         FileSize, AccessBits
    <3> QED BY <3>1, <3>2
  <2> QED BY <2>2, <2>3
<1>3. CASE Read
  <2>1. call.pc = "open" /\ call.args.op = "readFile" /\ disk' = disk
    BY <1>3 DEF Read, At
  <2>2. disk = call.start
    BY <1>1, <2>1 DEF AloneInv, Writing, DirsUnderway, Making
  <2> QED BY <2>1, <2>2
<1> QED
  BY <1>2, <1>3

(* What a stream has done to the disk before it is flushed.                 *)
LEMMA WritingAlone ==
  ASSUME RealInv, AloneInv, Undisturbed, call.pc = "open",
         call.args.op \in {"writeFile", "appendFile"}
  PROVE  Writing /\ call.lost = {} /\ IsFile(disk, call.q)
<1>1. Writing /\ call.lost = {}
  BY DEF AloneInv, Undisturbed, Answers, DirsUnderway, Making
<1> QED
  BY <1>1 DEF RealInv

(* A stream that could not write all of it has written a part.              *)
LEMMA HalfOfStream ==
  ASSUME RealInv, AloneInv, Undisturbed, FlushFails
  PROVE  HalfWritten(call.args, call.start, disk', call.q)
<1>1. /\ GoodCall(call) /\ call.pc = "open" /\ call.args.op \in {"writeFile", "appendFile"}
      /\ SameBut(disk, disk', {call.q})
  BY FlushFailsFacts
<1>2. PICK d \in PartsOf(call.args.data) : d \in Seq(0..255) /\ disk' = Put(d)
  BY FlushFailsFacts
<1>3. Writing /\ call.lost = {} /\ IsFile(disk, call.q)
  BY <1>1, WritingAlone
<1> DEFINE q   == call.q
           old == Opened(call.start, call.args.op, q)
<1>4. IsFile(disk', q) /\ disk'[q].data = IF d = <<>> THEN old ELSE Written(call.args.op, old, d)
  <2>1. disk[q].data = old
    BY <1>3 DEF Writing
  <2> HIDE DEF old
  <2> QED BY <1>1, <1>2, <1>3, <2>1, PutFacts
<1>5. Without(disk', {q}) = Without(call.start, {q})
  <2>1. Without(disk, {q}) = Without(call.start, {q})
    <3>1. SameBut(call.start, disk, {q})
      BY <1>3 DEF Writing
    <3> QED BY <3>1, SameWithout
  <2>2. Without(disk', {q}) = Without(disk, {q})
    BY <1>1, SameWithout
  <2> QED BY <2>1, <2>2
<1>6. CASE call.args.op = "writeFile"
  <2>1. old = <<>>
    BY <1>6 DEF Opened
  <2>2. Written("writeFile", <<>>, d) = d
    <3>1. SubSeq(<<>>, Len(d) + 1, Len(<<>>)) = <<>>
      BY <1>2
    <3>2. d \o <<>> = d
      BY <1>2
    <3> QED BY <3>1, <3>2 DEF Written
  <2>3. disk'[q].data = d
    BY <1>4, <1>6, <2>1, <2>2
  <2> QED BY <1>2, <1>4, <1>5, <1>6, <2>3 DEF HalfWritten, IsFile
<1>7. CASE call.args.op = "appendFile"
  <2>1. old = IF q \in DOMAIN call.start THEN call.start[q].data ELSE <<>>
    BY <1>7 DEF Opened
  <2>2. Written("appendFile", old, d) = old \o d
    BY DEF Written
  <2>3. d = <<>> => old \o d = old
    <3>1. old \in Seq(0..255)
      <4>1. disk[q].data = old
        BY <1>3 DEF Writing
      <4>2. disk[q].data \in Seq(0..255)
        BY <1>3, GoodDiskFacts DEF RealInv, IsFile
      <4> QED BY <4>1, <4>2
    <3> HIDE DEF old
    <3> QED BY <3>1
  <2> HIDE DEF old
  <2>4. disk'[q].data = old \o d
    BY <1>4, <1>7, <2>2, <2>3
  <2> QED BY <1>2, <1>4, <1>5, <1>7, <2>1, <2>4 DEF HalfWritten, IsFile
<1> QED
  BY <1>1, <1>6, <1>7

(* So has a copy.                                                           *)
LEMMA HalfOfCopy ==
  ASSUME RealInv, AloneInv, Undisturbed, CopyNode, last'.err # "ok", disk' # call.start
  PROVE  last'.full /\ HalfWritten(call.args, call.start, disk', call.q)
<1> DEFINE n == Named(disk, call.q2)
           s == Follow(disk, call.q)
<1>1. call.pc = "resolved" /\ call.args.op = "copyFile"
      /\ \/ disk' = disk
         \/ /\ n \notin DOMAIN disk /\ SameBut(disk, disk', {n})
            /\ last'.full /\ IsFile(disk', n) /\ disk'[n].data \in PartsOf(disk[s].data)
  BY CopyNodeFacts
<1>2. GoodDisk(call.start) /\ disk = call.start /\ ResolvedWell
  BY <1>1, ResolvedAlone DEF Undisturbed
<1>3. s = call.q
  BY <1>1, <1>2, NotLinkStays DEF ResolvedWell
<1> HIDE DEF n, s
<1>4. /\ n \notin DOMAIN call.start /\ SameBut(call.start, disk', {n})
      /\ last'.full /\ IsFile(disk', n) /\ disk'[n].data \in PartsOf(call.start[call.q].data)
  BY <1>1, <1>2, <1>3
<1>5. Without(disk', {n}) = Without(call.start, {n})
  BY <1>4, SameWithout
<1> QED
  BY <1>1, <1>4, <1>5 DEF HalfWritten, IsFile

(* A directory that cannot be made is the first one, or the disk is full:   *)
(* in the one that was just made there is nothing in the way.               *)
LEMMA HalfOfDirs ==
  ASSUME RealInv, AloneInv, Undisturbed, MakeDir, last'.err # "ok", disk' # call.start
  PROVE  last'.full /\ HalfMade(call.args, call.start, disk', call.q)
<1> DEFINE n == NextLength(call)
           x == SubSeq(call.q, 1, n)
           made == CreateDirectory(x)
<1>1. /\ GoodCall(call) /\ GoodDisk(disk)
      /\ call.pc = "making" \/ call.pc = "resolved"
      /\ n \in 0..Len(call.q)
      /\ \/ made.err # "ok" /\ disk' = disk
         \/ AllMade
         \/ GoodCall(call')
         \/ last'.full /\ disk' = disk
  BY MakeDirFacts
<1>2. call # Idle /\ call' = Idle /\ call.alone
  BY DEF Undisturbed, Answers
<1>3. ~GoodCall(call')
  BY <1>2, IdleIs DEF GoodCall, CallOf, Pcs
<1>4. ~AllMade
  BY <1>1, <1>3, AllMadeFacts
<1>5. disk' = disk
  BY <1>1, <1>3, <1>4
<1>6. call.pc = "making" /\ DirsUnderway
  BY <1>1, <1>2, <1>5, MakingAlone
<1>7. n = call.size /\ call.q \in Seq(STRING)
  BY <1>1, <1>6 DEF NextLength, GoodCall, CallOf
<1>8. n \in 1..Len(call.q) /\ NewBase(disk, Follow(disk, SubSeq(call.q, 1, n - 1)))
  BY <1>1, <1>5, <1>6, <1>7 DEF DirsUnderway
<1>9. made.err = "ok"
  <2> HIDE DEF n
  <2> QED BY <1>1, <1>7, <1>8, NextIsNew
<1> HIDE DEF n, made
<1>10. last'.full
  BY <1>1, <1>3, <1>4, <1>9
<1>11. PartWay(call.start, disk, call.q, n - 1) /\ call.args.op = "mkdir" /\ call.args.recursive
  BY <1>6, <1>7 DEF DirsUnderway
<1>12. \A i \in 0..(n - 1) : i \in 0..(Len(call.q) - 1)
  BY <1>7, <1>8
<1>13. HalfMade(call.args, call.start, disk, call.q)
  BY <1>11, <1>12 DEF HalfMade, PartWay
<1> QED
  BY <1>5, <1>10, <1>13

LEMMA FailureSafe ==
  ASSUME RealInv, AloneInv, [Next]_vars, Undisturbed, last'.err # "ok"
  PROVE  \/ disk' = call.start
         \/ /\ last'.full
            /\ \/ HalfWritten(call.args, call.start, disk', call.q)
               \/ HalfMade(call.args, call.start, disk', call.q)
<1>1. call # Idle /\ call' = Idle /\ call.alone /\ CallStep
  BY AnswersOf DEF Undisturbed, Answers
<1>2. CASE \/ ResolveFirst \/ ResolveSecond \/ FindMissing \/ OpenRead \/ OpenWrite \/ Status
           \/ Read \/ ListDir \/ FileSize \/ AccessBits
  BY <1>2, LookingAlone
<1>3. CASE FlushFails
  BY <1>3, HalfOfStream, FlushFailsFacts
<1>4. CASE Flush
  BY <1>4, FlushFacts
<1>5. CASE RemoveNode \/ RenameNode \/ Resize \/ SetTime
  <2>1. call.pc = "resolved"
    BY <1>5 DEF RemoveNode, RenameNode, Resize, SetTime, At
  <2>2. disk = call.start
    BY <1>1, <2>1, ResolvedAlone
  <2>3. disk' = disk
    BY <1>5, RemoveNodeFacts, RenameNodeFacts, ResizeFacts, SetTimeFacts
  <2> QED BY <2>2, <2>3
<1>6. CASE MakeDir
  BY <1>6, HalfOfDirs
<1>7. CASE Chmod
  <2>1. call.pc = "made" /\ ~(Follow(disk, call.q) \in DOMAIN disk
                              /\ ~IsLink(disk, Follow(disk, call.q)))
    BY <1>7, ChmodFacts
  <2>2. Making
    BY <1>1, <2>1 DEF AloneInv, Writing, DirsUnderway
  <2> QED BY <2>1, <2>2 DEF Making
<1>8. CASE CopyNode
  BY <1>8, HalfOfCopy
<1> QED
  BY <1>1, <1>2, <1>3, <1>4, <1>5, <1>6, <1>7, <1>8 DEF CallStep

(* A call that fails, and that no one interferes with, has changed nothing: *)
(* each operation (vfs_real.cpp) checks before its first change, the chmod  *)
(* after mkdir finds what was just made, and nothing is in the way in a     *)
(* directory that fs::create_directories has just made.  Only if the disk   *)
(* is full may it have written a part of its content to one file, or made   *)
(* some of the directories on the way.                                      *)
THEOREM FailuresAreClean == Spec => FailureLeavesDisk
<1>1. Init => RealInv /\ AloneInv
  BY RealInvInit DEF Init, AloneInv
<1>2. RealInv /\ AloneInv /\ [Next]_vars => RealInv' /\ AloneInv'
  BY RealInvNext, AloneInvNext
<1>3. RealInv /\ AloneInv /\ [Next]_vars =>
        [Undisturbed /\ last'.err # "ok" =>
           \/ disk' = call.start
           \/ /\ last'.full
              /\ \/ HalfWritten(call.args, call.start, disk', call.q)
                 \/ HalfMade(call.args, call.start, disk', call.q)]_vars
  BY FailureSafe
<1> QED
  BY <1>1, <1>2, <1>3, PTL DEF Spec, FailureLeavesDisk

LEMMA KeepsLinksTwice ==
  ASSUME NEW D, NEW E, NEW F, KeepsLinks(D, E), KeepsLinks(E, F)
  PROVE  KeepsLinks(D, F)
BY DEF KeepsLinks, IsLink

(* A rename moves what is below the old name, and replaces no link but one  *)
(* that leads nowhere.                                                      *)
LEMMA RenameLinks ==
  ASSUME RealInv, AloneInv, Undisturbed, RenameNode,
         NEW p \in DOMAIN call.start, IsLink(call.start, p)
  PROVE  \/ p \in DOMAIN disk' /\ disk'[p] = call.start[p]
         \/ /\ call.args.op = "rename"
            /\ \/ IsPrefix(call.q, p)
               \/ call.q2 = p /\ Follow(call.start, p) \notin DOMAIN call.start
<1> DEFINE o == Named(disk, call.q)
           n == Named(disk, call.q2)
<1>1. /\ GoodCall(call) /\ call.pc = "resolved" /\ call.args.op = "rename"
      /\ \/ disk' = disk
         \/ /\ disk' = Moved(disk, o, n)
            /\ o \in DOMAIN disk /\ ~IsStrictPrefix(o, n)
            /\ Passes(InDir(disk, n))
            /\ o # n => ~(IsDir(disk, n) /\ HasChildren(disk, n))
  BY RenameNodeFacts
<1>2. /\ GoodDisk(disk) /\ disk = call.start /\ ResolvedWell
  BY <1>1, ResolvedAlone DEF RealInv, Undisturbed, Answers
<1>3. call.q \in DOMAIN disk /\ Creating(disk, call.args.to).err = "ok"
      /\ call.q2 = Creating(disk, call.args.to).path
  BY <1>1, <1>2 DEF ResolvedWell
<1>4. o = call.q
  BY <1>2, <1>3, NamedNode
<1>5. call.args.to \in Seq(STRING) /\ call.q2 \in Seq(STRING) /\ call.q \in Seq(STRING)
  BY <1>1 DEF GoodCall, CallOf, CallArgs
<1>6. n \in Seq(STRING)
  BY <1>2, <1>5, NamedType
<1>7. IsLink(disk, n) /\ Passes(InDir(disk, n)) =>
        call.q2 = n /\ Follow(disk, call.q2) \notin DOMAIN disk
  <2> SUFFICES ASSUME IsLink(disk, Named(disk, call.q2)),
                      Passes(InDir(disk, Named(disk, call.q2)))
               PROVE  /\ call.q2 = Named(disk, call.q2)
                      /\ Follow(disk, call.q2) \notin DOMAIN disk
    OBVIOUS
  <2> QED BY <1>2, <1>3, <1>5, TargetLink
<1>8. p \in DOMAIN disk /\ IsLink(disk, p)
  BY <1>2
<1> HIDE DEF n
<1>9. CASE disk' = disk
  BY <1>2, <1>9
<1>10. CASE disk' = Moved(disk, o, n) /\ o = n /\ o \in DOMAIN disk
  <2>1. disk' = disk
    BY <1>2, <1>3, <1>4, <1>10, MovedNowhere
  <2> QED BY <1>2, <2>1
<1>11. CASE /\ disk' = Moved(disk, o, n) /\ o # n /\ o \in DOMAIN disk
            /\ ~IsStrictPrefix(o, n) /\ Passes(InDir(disk, n))
            /\ ~(IsDir(disk, n) /\ HasChildren(disk, n))
  <2>1. Branching(disk)
    BY <1>2, GoodDiskFacts
  <2>2. call.q \in DOMAIN disk /\ ~IsStrictPrefix(call.q, n)
    BY <1>4, <1>11
  <2>3. IsMoved(disk, call.q, n, Moved(disk, call.q, n))
    BY <1>5, <1>6, <1>11, <2>1, <2>2, MovedNodes
  <2>4. disk' = Moved(disk, call.q, n)
    BY <1>4, <1>11
  <2>5. /\ p \in Staying(disk, call.q, n) => p \in DOMAIN disk' /\ disk'[p] = disk[p]
        /\ IsPrefix(n, p) => p = n
    BY <1>8, <2>3, <2>4 DEF IsMoved
  <2>6. IsPrefix(call.q, p) \/ IsPrefix(n, p) \/ p \in Staying(disk, call.q, n)
    BY <1>8 DEF Staying
  <2>7. p = n => call.q2 = p /\ Follow(disk, p) \notin DOMAIN disk
    BY <1>7, <1>8, <1>11
  <2> QED BY <1>1, <1>2, <2>5, <2>6, <2>7
<1> QED
  BY <1>1, <1>9, <1>10, <1>11

LEMMA LinksSafe ==
  ASSUME RealInv, AloneInv, [Next]_vars, Undisturbed
  PROVE  \A p \in {q \in DOMAIN call.start : IsLink(call.start, q)} :
           \/ p \in DOMAIN disk' /\ disk'[p] = call.start[p]
           \/ /\ call.args.op = "rename"
              /\ \/ IsPrefix(call.q, p)
                 \/ call.q2 = p /\ Follow(call.start, p) \notin DOMAIN call.start
<1>1. call # Idle /\ call' = Idle /\ call.alone /\ CallStep
  BY AnswersOf DEF Undisturbed, Answers
<1>2. CASE KeepsLinks(call.start, disk')
  BY <1>2 DEF KeepsLinks
<1>3. CASE \/ ResolveFirst \/ ResolveSecond \/ FindMissing \/ OpenRead \/ OpenWrite \/ Status
           \/ Read \/ ListDir \/ FileSize \/ AccessBits
  BY <1>3, LookingAlone
<1>4. CASE FlushFails \/ Flush
  <2>1. /\ call.pc = "open" /\ call.args.op \in {"writeFile", "appendFile"}
        /\ SameBut(disk, disk', {call.q})
    BY <1>4, FlushFacts, FlushFailsFacts
  <2>2. SameBut(call.start, disk, {call.q}) /\ ~IsLink(call.start, call.q)
    BY <2>1, WritingAlone DEF Writing
  <2>3. SameBut(call.start, disk', {call.q})
    BY <2>1, <2>2 DEF SameBut
  <2>4. KeepsLinks(call.start, disk')
    BY <2>2, <2>3, SameKeepsLinks
  <2> QED BY <1>2, <2>4
<1>5. CASE RemoveNode
  <2>1. /\ call.pc = "resolved" /\ call.args.op \in {"unlink", "rmdir"}
        /\ SameBut(disk, disk', {Named(disk, call.q)})
    BY <1>5, RemoveNodeFacts
  <2>2. GoodDisk(disk) /\ disk = call.start /\ ResolvedWell
    BY <1>1, <2>1, ResolvedAlone DEF RealInv
  <2>3. call.q \in DOMAIN disk /\ ~IsLink(disk, call.q)
    BY <2>1, <2>2 DEF ResolvedWell
  <2>4. Named(disk, call.q) = call.q
    BY <2>2, <2>3, NamedNode
  <2>5. KeepsLinks(disk, disk')
    BY <2>1, <2>3, <2>4, SameKeepsLinks
  <2> QED BY <1>2, <2>2, <2>5
<1>6. CASE Resize \/ SetTime
  <2>1. call.pc = "resolved" /\ KeepsLinks(disk, disk')
    BY <1>6, ResizeFacts, SetTimeFacts
  <2>2. disk = call.start
    BY <1>1, <2>1, ResolvedAlone
  <2> QED BY <1>2, <2>1, <2>2
<1>10. CASE MakeDir
  <2>1. call.pc \in {"making", "resolved"} /\ KeepsLinks(disk, disk')
    BY <1>10, MakeDirFacts
  <2>2. disk = call.start \/ DirsUnderway
    BY <1>1, <2>1, MakingAlone
  <2>3. KeepsLinks(call.start, disk)
    BY <2>2 DEF KeepsLinks, DirsUnderway, PartWay
  <2>4. KeepsLinks(call.start, disk')
    BY <2>1, <2>3, KeepsLinksTwice
  <2> QED BY <1>2, <2>4
<1>7. CASE Chmod
  <2>1. call.pc = "made" /\ KeepsLinks(disk, disk')
    BY <1>7, ChmodFacts
  <2>2. Making
    BY <1>1, <2>1 DEF AloneInv, Writing, DirsUnderway
  <2>3. KeepsLinks(call.start, disk')
    BY <2>1, <2>2, KeepsLinksTwice DEF Making
  <2> QED BY <1>2, <2>3
<1>8. CASE CopyNode
  <2>1. call.pc = "resolved"
    BY <1>8, CopyNodeFacts
  <2>2. disk = call.start
    BY <1>1, <2>1, ResolvedAlone
  <2> DEFINE n == Named(disk, call.q2)
  <2>3. disk' = disk \/ (n \notin DOMAIN disk /\ SameBut(disk, disk', {n}))
    BY <1>8, CopyNodeFacts
  <2> HIDE DEF n
  <2>4. n \notin DOMAIN disk /\ SameBut(disk, disk', {n}) => KeepsLinks(disk, disk')
    BY SameKeepsLinks DEF IsLink
  <2> QED BY <1>2, <2>2, <2>3, <2>4
<1>9. CASE RenameNode
  BY <1>9, RenameLinks
<1> QED
  BY <1>1, <1>3, <1>4, <1>5, <1>6, <1>7, <1>8, <1>9, <1>10 DEF CallStep

(* A call that no one interferes with leaves every link as it is: the path  *)
(* it acts on is resolved first (resolve in vfs_real.cpp), so it is not a   *)
(* link.  But rename(2) replaces the link at the end of a new path that     *)
(* fs::weakly_canonical leaves as it is, as it leads nowhere.  Of links to  *)
(* links three are followed; where more are, the path counts as a loop.     *)
THEOREM LinksAreKept == Spec => LinksStay
<1>1. Init => RealInv /\ AloneInv
  BY RealInvInit DEF Init, AloneInv
<1>2. RealInv /\ AloneInv /\ [Next]_vars => RealInv' /\ AloneInv'
  BY RealInvNext, AloneInvNext
<1>3. RealInv /\ AloneInv /\ [Next]_vars =>
        [Undisturbed =>
           \A p \in {q \in DOMAIN call.start : IsLink(call.start, q)} :
             \/ p \in DOMAIN disk' /\ disk'[p] = call.start[p]
             \/ /\ call.args.op = "rename"
                /\ \/ IsPrefix(call.q, p)
                   \/ call.q2 = p /\ Follow(call.start, p) \notin DOMAIN call.start]_vars
  BY LinksSafe
<1> QED
  BY <1>1, <1>2, <1>3, PTL DEF Spec, LinksStay
==============================================================================
