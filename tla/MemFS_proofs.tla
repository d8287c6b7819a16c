----------------------------- MODULE MemFS_proofs -----------------------------
(***************************************************************************)
(* Proofs about the operations of MemFS: whatever filesystem they are      *)
(* called on, they leave one that is well-formed (GoodFS), and change      *)
(* nothing where they fail.                                                *)
(***************************************************************************)
EXTENDS MemFS, FiniteSetTheorems, SequenceTheorems, WellFoundedInduction, TLAPS

------------------------------------------------------------------------------
(* Numbers.                                                                *)

LEMMA LeastNumber ==
  ASSUME NEW T \in SUBSET Nat, T # {}
  PROVE  \E x \in T : \A y \in T : x <= y
<1> DEFINE order == OpToRel(<, Nat)
<1>1. IsWellFoundedOn(order, Nat)
  BY NatLessThanWellFounded, Zenon
<1>2. \A x, y \in Nat : x < y => <<x, y>> \in order
  BY DEF OpToRel
<1> HIDE DEF order
<1>3. PICK x \in T : \A y \in T : ~(<<y, x>> \in order)
  BY <1>1, WFMin
<1>4. ASSUME NEW y \in T PROVE x <= y
  <2>1. ~(y < x)
    BY <1>2, <1>3
  <2>2. x \in Nat /\ y \in Nat
    OBVIOUS
  <2> QED
    BY <2>1, <2>2
<1> QED
  BY <1>4

(* Induction, for a set in place of a predicate.                            *)
LEMMA Induction ==
  ASSUME NEW S \in SUBSET Nat, 0 \in S, \A n \in S : n + 1 \in S
  PROVE  S = Nat
<1> SUFFICES ASSUME Nat \ S # {} PROVE FALSE
  OBVIOUS
<1>1. PICK x \in Nat \ S : \A y \in Nat \ S : x <= y
  BY LeastNumber
<1>2. x - 1 \in Nat /\ ~(x <= x - 1)
  OBVIOUS
<1>3. x - 1 \in S
  BY <1>1, <1>2
<1>4. (x - 1) + 1 = x
  OBVIOUS
<1> QED
  BY <1>3, <1>4

------------------------------------------------------------------------------
(* Paths.                                                                  *)

LEMMA PrefixFacts ==
  ASSUME NEW s \in Seq(STRING), NEW t \in Seq(STRING)
  PROVE  IsPrefix(s, t) <=> Len(s) <= Len(t) /\ \A i \in 1..Len(s) : s[i] = t[i]
<1>1. CASE Len(s) <= Len(t)
  <2> DEFINE u == SubSeq(t, 1, Len(s))
  <2>1. SubSeq(s, 1, Len(s)) = s
    OBVIOUS
  <2>2. u \in Seq(STRING) /\ Len(u) = Len(s) /\ \A i \in 1..Len(s) : u[i] = t[i]
    BY <1>1
  <2>3. s = u <=> \A i \in 1..Len(s) : s[i] = t[i]
    <3> HIDE DEF u
    <3>1. (\A i \in 1..Len(s) : s[i] = u[i]) => s = u
      BY <2>2, SeqEqual
    <3> QED BY <2>2, <3>1
  <2> QED BY <1>1, <2>1, <2>3 DEF IsPrefix
<1> QED
  BY <1>1 DEF IsPrefix

LEMMA SubSeqFacts ==
  ASSUME NEW p \in Seq(STRING), NEW k \in 0..Len(p)
  PROVE  /\ SubSeq(p, 1, k) \in Seq(STRING) /\ Len(SubSeq(p, 1, k)) = k
         /\ \A i \in 1..k : SubSeq(p, 1, k)[i] = p[i]
OBVIOUS

LEMMA TailFacts ==
  ASSUME NEW p \in Seq(STRING), NEW k \in 0..Len(p)
  PROVE  /\ SubSeq(p, k + 1, Len(p)) \in Seq(STRING)
         /\ Len(SubSeq(p, k + 1, Len(p))) = Len(p) - k
         /\ \A i \in 1..(Len(p) - k) : SubSeq(p, k + 1, Len(p))[i] = p[k + i]
<1> DEFINE t == SubSeq(p, k + 1, Len(p))
<1>1. t \in Seq(STRING) /\ Len(t) = Len(p) - k
  OBVIOUS
<1>2. ASSUME NEW i \in 1..(Len(p) - k) PROVE t[i] = p[k + i]
  <2>1. t[i] = p[(k + 1) + i - 1]
    OBVIOUS
  <2>2. (k + 1) + i - 1 = k + i
    OBVIOUS
  <2> QED BY <2>1, <2>2
<1> QED
  BY <1>1, <1>2

LEMMA FrontFacts ==
  ASSUME NEW p \in Seq(STRING), p # <<>>
  PROVE  /\ Front(p) \in Seq(STRING) /\ Front(p) = SubSeq(p, 1, Len(p) - 1)
         /\ Len(Front(p)) = Len(p) - 1 /\ Len(p) >= 1
<1>1. Len(p) \in Nat /\ Len(p) # 0
  BY EmptySeq
<1>2. Len(p) - 1 \in 0..Len(p) /\ Len(p) >= 1
  BY <1>1
<1>3. Front(p) = SubSeq(p, 1, Len(p) - 1)
  BY DEF Front
<1> QED
  BY <1>2, <1>3, SubSeqFacts

(* The prefixes of a path are the path and what it leads through.           *)
LEMMA PrefixIsSubSeq ==
  ASSUME NEW s \in Seq(STRING), NEW t \in Seq(STRING)
  PROVE  /\ IsPrefix(s, t) => Len(s) <= Len(t) /\ s = SubSeq(t, 1, Len(s))
         /\ \A i \in 0..Len(t) : IsPrefix(SubSeq(t, 1, i), t)
         /\ IsPrefix(s, t) /\ s # t => Len(s) < Len(t)
         /\ IsPrefix(s, s) /\ IsPrefix(<<>>, s)
<1>1. IsPrefix(s, t) => Len(s) <= Len(t) /\ s = SubSeq(t, 1, Len(s))
  BY DEF IsPrefix
<1>2. \A i \in 0..Len(t) : IsPrefix(SubSeq(t, 1, i), t)
  <2> TAKE i \in 0..Len(t)
  <2>1. SubSeq(t, 1, i) \in Seq(STRING) /\ Len(SubSeq(t, 1, i)) = i
        /\ \A j \in 1..i : SubSeq(t, 1, i)[j] = t[j]
    BY SubSeqFacts
  <2> DEFINE u == SubSeq(t, 1, i)
  <2> HIDE DEF u
  <2>2. u \in Seq(STRING) /\ Len(u) <= Len(t) /\ \A j \in 1..Len(u) : u[j] = t[j]
    BY <2>1 DEF u
  <2>3. IsPrefix(u, t)
    BY <2>2, PrefixFacts
  <2> QED BY <2>3 DEF u
<1>3. IsPrefix(s, t) /\ s # t => Len(s) < Len(t)
  <2> SUFFICES ASSUME IsPrefix(s, t), ~(Len(s) < Len(t)) PROVE s = t
    OBVIOUS
  <2>1. Len(s) = Len(t)
    BY <1>1
  <2>2. \A i \in 1..Len(s) : s[i] = t[i]
    BY PrefixFacts
  <2> QED BY <2>1, <2>2, SeqEqual
<1>4. IsPrefix(s, s)
  BY DEF IsPrefix
<1>5. IsPrefix(<<>>, s)
  <2>1. SubSeq(s, 1, 0) = <<>> /\ 0 \in 0..Len(s)
    BY SubSeqEmpty
  <2>2. IsPrefix(SubSeq(s, 1, 0), s)
    <3>1. <<>> \in Seq(STRING) /\ Len(<<>>) = 0
      OBVIOUS
    <3>2. Len(<<>>) <= Len(s) /\ \A j \in 1..Len(<<>>) : <<>>[j] = s[j]
      BY <3>1
    <3> QED BY <2>1, <3>1, <3>2, PrefixFacts
  <2> QED BY <2>1, <2>2
<1> QED
  BY <1>1, <1>2, <1>3, <1>4, <1>5

LEMMA NotBelowRoot ==
  ASSUME NEW p \in Seq(STRING), p # <<>>
  PROVE  ~IsPrefix(p, <<>>)
<1> SUFFICES ASSUME IsPrefix(p, <<>>) PROVE FALSE
  OBVIOUS
<1>1. <<>> \in Seq(STRING) /\ Len(<<>>) = 0
  BY EmptySeq
<1>2. Len(p) <= Len(<<>>)
  BY <1>1, PrefixIsSubSeq
<1>3. Len(p) \in Nat \ {0}
  BY EmptySeq
<1> QED
  BY <1>1, <1>2, <1>3

LEMMA PrefixTransitive ==
  ASSUME NEW s \in Seq(STRING), NEW t \in Seq(STRING), NEW u \in Seq(STRING),
         IsPrefix(s, t), IsPrefix(t, u)
  PROVE  IsPrefix(s, u)
<1>1. Len(s) <= Len(t) /\ \A i \in 1..Len(s) : s[i] = t[i]
  BY PrefixFacts
<1>2. Len(t) <= Len(u) /\ \A i \in 1..Len(t) : t[i] = u[i]
  BY PrefixFacts
<1>3. Len(s) <= Len(u) /\ \A i \in 1..Len(s) : s[i] = u[i]
  BY <1>1, <1>2
<1> QED
  BY <1>3, PrefixFacts

(* Two prefixes of one path, the shorter first.                             *)
LEMMA PrefixesNest ==
  ASSUME NEW s \in Seq(STRING), NEW t \in Seq(STRING), NEW u \in Seq(STRING),
         IsPrefix(s, u), IsPrefix(t, u), Len(s) <= Len(t)
  PROVE  IsPrefix(s, t)
<1>1. \A i \in 1..Len(s) : s[i] = u[i]
  BY PrefixFacts
<1>2. Len(t) <= Len(u) /\ \A i \in 1..Len(t) : t[i] = u[i]
  BY PrefixFacts
<1>3. \A i \in 1..Len(s) : s[i] = t[i]
  BY <1>1, <1>2
<1> QED
  BY <1>3, PrefixFacts

------------------------------------------------------------------------------
(* The early returns.                                                      *)

ChecksOf(E) == Seq(BOOLEAN \X E)

Checks == ChecksOf(Errno)

Passes(checks) == \A i \in DOMAIN checks : ~checks[i][1]

LEMMA FirstErrorOf ==
  ASSUME NEW E, "ok" \notin E, NEW c \in ChecksOf(E)
  PROVE  /\ FirstError(c) \in E \union {"ok"}
         /\ FirstError(c) = "ok" <=> Passes(c)
<1> DEFINE failing == {i \in DOMAIN c : c[i][1]}
           first == CHOOSE i \in failing : \A j \in failing : i <= j
<1>1. DOMAIN c \subseteq Nat /\ \A i \in DOMAIN c : c[i] \in BOOLEAN \X E
  BY DEF ChecksOf
<1>2. CASE failing = {}
  BY <1>2 DEF FirstError, Passes
<1>3. CASE failing # {}
  <2>1. first \in failing
    <3>1. failing \in SUBSET Nat
      BY <1>1
    <3> HIDE DEF failing
    <3>2. \E i \in failing : \A j \in failing : i <= j
      BY <1>3, <3>1, LeastNumber
    <3> QED BY <3>2
  <2>2. FirstError(c) = c[first][2]
    BY <1>3 DEF FirstError
  <2> HIDE DEF first
  <2>3. c[first][2] \in E
    BY <1>1, <2>1
  <2>4. ~Passes(c)
    BY <2>1 DEF Passes
  <2> QED BY <2>2, <2>3, <2>4
<1> QED
  BY <1>2, <1>3

LEMMA FirstErrorFacts ==
  ASSUME NEW c \in Checks
  PROVE  /\ FirstError(c) \in Errno \union {"ok"}
         /\ FirstError(c) = "ok" <=> Passes(c)
<1>1. "ok" \notin Errno
  BY DEF Errno
<1> QED
  BY <1>1, FirstErrorOf DEF Checks

LEMMA NoCheckOf ==
  ASSUME NEW E, NEW a \in BOOLEAN, NEW e \in E
  PROVE  << <<a, e>> >> \in ChecksOf(E) /\ (Passes(<< <<a, e>> >>) <=> ~a)
<1>1. <<a, e>> \in BOOLEAN \X E
  OBVIOUS
<1>2. << <<a, e>> >> \in ChecksOf(E)
  BY <1>1 DEF ChecksOf
<1>3. Passes(<< <<a, e>> >>) <=> ~a
  BY DEF Passes
<1> QED
  BY <1>2, <1>3

LEMMA NoCheck ==
  ASSUME NEW a \in BOOLEAN, NEW e \in Errno
  PROVE  << <<a, e>> >> \in Checks /\ (Passes(<< <<a, e>> >>) <=> ~a)
BY NoCheckOf DEF Checks

LEMMA MoreChecksOf ==
  ASSUME NEW E, NEW c \in ChecksOf(E), NEW d \in ChecksOf(E)
  PROVE  c \o d \in ChecksOf(E) /\ (Passes(c \o d) <=> Passes(c) /\ Passes(d))
<1>1. /\ c \o d \in ChecksOf(E) /\ Len(c \o d) = Len(c) + Len(d)
      /\ Len(c) \in Nat /\ Len(d) \in Nat
      /\ DOMAIN c = 1..Len(c) /\ DOMAIN d = 1..Len(d) /\ DOMAIN (c \o d) = 1..(Len(c) + Len(d))
      /\ \A i \in 1..(Len(c) + Len(d)) :
           (c \o d)[i] = IF i <= Len(c) THEN c[i] ELSE d[i - Len(c)]
  BY ConcatProperties DEF ChecksOf
<1>2. ASSUME Passes(c \o d) PROVE Passes(c) /\ Passes(d)
  <2>1. ASSUME NEW i \in 1..Len(c) PROVE ~c[i][1]
    <3>1. i \in 1..(Len(c) + Len(d)) /\ i <= Len(c)
      BY <1>1
    <3> QED BY <1>1, <1>2, <3>1 DEF Passes
  <2>2. ASSUME NEW i \in 1..Len(d) PROVE ~d[i][1]
    <3>1. i + Len(c) \in 1..(Len(c) + Len(d)) /\ ~(i + Len(c) <= Len(c))
          /\ i + Len(c) - Len(c) = i
      BY <1>1
    <3>2. (c \o d)[i + Len(c)] = d[i]
      BY <1>1, <3>1
    <3> QED BY <1>1, <1>2, <3>1, <3>2 DEF Passes
  <2> QED BY <1>1, <2>1, <2>2 DEF Passes
<1>3. ASSUME Passes(c), Passes(d) PROVE Passes(c \o d)
  <2> SUFFICES ASSUME NEW i \in 1..(Len(c) + Len(d)) PROVE ~(c \o d)[i][1]
    BY <1>1 DEF Passes
  <2>1. CASE i <= Len(c)
    BY <1>1, <1>3, <2>1 DEF Passes
  <2>2. CASE ~(i <= Len(c))
    <3>1. i - Len(c) \in 1..Len(d)
      BY <1>1, <2>2
    <3> QED BY <1>1, <1>3, <2>2, <3>1 DEF Passes
  <2> QED BY <2>1, <2>2
<1> QED
  BY <1>1, <1>2, <1>3

LEMMA MoreChecks ==
  ASSUME NEW c \in Checks, NEW d \in Checks
  PROVE  c \o d \in Checks /\ (Passes(c \o d) <=> Passes(c) /\ Passes(d))
BY MoreChecksOf DEF Checks

LEMMA TwoChecks ==
  ASSUME NEW a \in BOOLEAN, NEW e \in Errno, NEW b \in BOOLEAN, NEW h \in Errno
  PROVE  << <<a, e>>, <<b, h>> >> \in Checks /\ (Passes(<< <<a, e>>, <<b, h>> >>) <=> ~a /\ ~b)
<1> DEFINE x == << <<a, e>> >>
           y == << <<b, h>> >>
<1>1. << <<a, e>>, <<b, h>> >> = x \o y
  OBVIOUS
<1>2. x \in Checks /\ (Passes(x) <=> ~a) /\ y \in Checks /\ (Passes(y) <=> ~b)
  BY NoCheck
<1> HIDE DEF x, y
<1>3. x \o y \in Checks /\ (Passes(x \o y) <=> Passes(x) /\ Passes(y))
  BY <1>2, MoreChecks
<1> QED
  BY <1>1, <1>2, <1>3

LEMMA ParentChecks ==
  ASSUME NEW T, NEW p
  PROVE  /\ ParentDir(T, p) \in Checks
         /\ Passes(ParentDir(T, p)) <=>
              (Len(p) > 1 => Front(p) \in DOMAIN T /\ ~IsFile(T, Front(p)))
<1> DEFINE a == Len(p) > 1 /\ Front(p) \notin DOMAIN T
           b == Len(p) > 1 /\ IsFile(T, Front(p))
<1>1. a \in BOOLEAN /\ b \in BOOLEAN /\ {"ENOENT", "ENOTDIR"} \subseteq Errno
  BY DEF Errno
<1>2. ParentDir(T, p) = << <<a, "ENOENT">>, <<b, "ENOTDIR">> >>
  BY DEF ParentDir
<1> HIDE DEF a, b
<1>4. ParentDir(T, p) \in Checks /\ (Passes(ParentDir(T, p)) <=> ~a /\ ~b)
  BY <1>1, <1>2, TwoChecks
<1> QED
  BY <1>4 DEF a, b

LEMMA WalkChecks ==
  ASSUME NEW T, NEW p
  PROVE  /\ WalkTo(T, p) \in Checks
         /\ Passes(WalkTo(T, p)) <=> p \in DOMAIN T
<1>1. (p \notin DOMAIN T) \in BOOLEAN /\ "ENOENT" \in Errno
  BY DEF Errno
<1> QED
  BY <1>1, NoCheck DEF WalkTo

------------------------------------------------------------------------------
(* Trees.  A path is below another if it has it as a prefix; DirsAbove says *)
(* the same of the prefixes by their lengths.                               *)

Proper(T) ==
  /\ IsDir(T, <<>>)
  /\ \A q \in DOMAIN T, s \in Seq(STRING) : IsPrefix(s, q) /\ s # q => IsDir(T, s)

(* A tree whose root may be missing or be a file.                           *)
Branching(T) ==
  /\ DOMAIN T \subseteq Seq(STRING)
  /\ \A q \in DOMAIN T, s \in Seq(STRING) : IsPrefix(s, q) /\ s # q => IsDir(T, s)

LEMMA AboveIsBranching ==
  ASSUME NEW T, DOMAIN T \subseteq Seq(STRING)
  PROVE  (\A q \in DOMAIN T : DirsAbove(T, q)) <=> Branching(T)
<1>1. ASSUME \A q \in DOMAIN T : DirsAbove(T, q) PROVE Branching(T)
  <2> SUFFICES ASSUME NEW q \in DOMAIN T, NEW s \in Seq(STRING), IsPrefix(s, q), s # q
               PROVE  IsDir(T, s)
    BY DEF Branching
  <2>1. q \in Seq(STRING)
    OBVIOUS
  <2>2. s = SubSeq(q, 1, Len(s)) /\ Len(s) < Len(q)
    BY <2>1, PrefixIsSubSeq
  <2>3. Len(s) \in 0..(Len(q) - 1)
    BY <2>1, <2>2
  <2> QED BY <1>1, <2>2, <2>3 DEF DirsAbove
<1>2. ASSUME Branching(T), NEW q \in DOMAIN T PROVE DirsAbove(T, q)
  <2> SUFFICES ASSUME NEW i \in 0..(Len(q) - 1)
               PROVE  IsDir(T, SubSeq(q, 1, i))
    BY DEF DirsAbove
  <2>1. q \in Seq(STRING)
    OBVIOUS
  <2>2. i \in 0..Len(q) /\ i # Len(q)
    BY <2>1
  <2>3. SubSeq(q, 1, i) \in Seq(STRING) /\ Len(SubSeq(q, 1, i)) = i
    BY <2>1, <2>2, SubSeqFacts
  <2>4. IsPrefix(SubSeq(q, 1, i), q) /\ SubSeq(q, 1, i) # q
    BY <2>1, <2>2, <2>3, PrefixIsSubSeq
  <2> QED BY <1>2, <2>3, <2>4 DEF Branching
<1> QED
  BY <1>1, <1>2

LEMMA RootedIsProper ==
  ASSUME NEW f, Typed(f)
  PROVE  Rooted(f) <=> Proper(f.tree)
<1>1. DOMAIN f.tree \subseteq Seq(STRING)
  BY DEF Typed
<1>2. (\A q \in DOMAIN f.tree : DirsAbove(f.tree, q)) <=> Branching(f.tree)
  BY <1>1, AboveIsBranching
<1> QED
  BY <1>1, <1>2 DEF Rooted, Proper, Branching

LEMMA GoodIsProper ==
  ASSUME NEW f, GoodFS(f)
  PROVE  Proper(f.tree)
BY RootedIsProper DEF GoodFS

LEMMA GoodIsBranching ==
  ASSUME NEW f, GoodFS(f)
  PROVE  Branching(f.tree)
BY GoodIsProper DEF GoodFS, Typed, Proper, Branching

(* A node without children has nothing below it: a file never has.          *)
LEMMA NothingBelow ==
  ASSUME NEW T, Branching(T), NEW p \in DOMAIN T, ~(IsDir(T, p) /\ HasChildren(T, p))
  PROVE  \A q \in DOMAIN T : IsPrefix(p, q) => q = p
<1> SUFFICES ASSUME NEW q \in DOMAIN T, IsPrefix(p, q), q # p PROVE FALSE
  OBVIOUS
<1>1. IsDir(T, p)
  BY DEF Branching
<1>2. HasChildren(T, p)
  BY DEF HasChildren, Below
<1> QED
  BY <1>1, <1>2

(* A node is put where directories lead, or it replaces one.                *)
LEMMA PutBranching ==
  ASSUME NEW T, Branching(T), NEW p \in Seq(STRING), NEW n,
         \A s \in Seq(STRING) : IsPrefix(s, p) /\ s # p => IsDir(T, s),
         IsDir(T, p) => n.kind = "dir"
  PROVE  Branching(With(T, p, n))
<1> DEFINE U == With(T, p, n)
<1>1. DOMAIN U = DOMAIN T \union {p} /\ \A q \in DOMAIN U : U[q] = IF q = p THEN n ELSE T[q]
  BY DEF With
<1> HIDE DEF U
<1>2. ASSUME NEW s \in Seq(STRING), IsDir(T, s) PROVE IsDir(U, s)
  BY <1>1, <1>2 DEF IsDir
<1>3. ASSUME NEW q \in DOMAIN U, NEW s \in Seq(STRING), IsPrefix(s, q), s # q
      PROVE  IsDir(U, s)
  <2>1. CASE q = p
    BY <1>2, <1>3, <2>1
  <2>2. CASE q # p
    BY <1>1, <1>2, <1>3, <2>2 DEF Branching
  <2> QED BY <2>1, <2>2
<1> QED
  BY <1>1, <1>3 DEF Branching, U

(* Nodes are removed together with all that is below them.                  *)
LEMMA RemoveBranching ==
  ASSUME NEW T, Branching(T), NEW P,
         \A q \in DOMAIN T, s \in P : IsPrefix(s, q) => q \in P
  PROVE  Branching(Without(T, P))
<1> DEFINE U == Without(T, P)
<1>1. DOMAIN U = DOMAIN T \ P /\ \A q \in DOMAIN U : U[q] = T[q]
  BY DEF Without
<1> HIDE DEF U
<1>2. ASSUME NEW q \in DOMAIN U, NEW s \in Seq(STRING), IsPrefix(s, q), s # q
      PROVE  IsDir(U, s)
  <2>1. IsDir(T, s) /\ s \notin P
    BY <1>1, <1>2 DEF Branching
  <2> QED BY <1>1, <2>1 DEF IsDir
<1> QED
  BY <1>1, <1>2 DEF Branching, U

LEMMA GoodTypes ==
  ASSUME NEW f, GoodFS(f)
  PROVE  /\ f.nextIno \in Nat
         /\ \A p \in DOMAIN f.tree :
              /\ p \in Seq(STRING)
              /\ f.tree[p] \in Node
              /\ f.tree[p].kind \in {"file", "dir"} /\ f.tree[p].ino \in Nat
              /\ f.tree[p].data \in Seq(0..255) /\ f.tree[p].mode \in Mode
              /\ f.tree[p].mtime \in Int
BY DEF GoodFS, Typed, Node

(* What parentDir has found is enough: all names on the way are directories. *)
LEMMA ParentAbove ==
  ASSUME NEW f, GoodFS(f), NEW p \in Seq(STRING), Passes(ParentDir(f.tree, p))
  PROVE  \A s \in Seq(STRING) : IsPrefix(s, p) /\ s # p => IsDir(f.tree, s)
<1> DEFINE T == f.tree
<1> SUFFICES ASSUME NEW s \in Seq(STRING), IsPrefix(s, p), s # p
             PROVE  IsDir(T, s)
  OBVIOUS
<1>1. Proper(T)
  BY GoodIsProper
<1>2. s = SubSeq(p, 1, Len(s)) /\ Len(s) < Len(p)
  BY PrefixIsSubSeq
<1>3. Len(s) \in Nat /\ Len(p) \in Nat
  OBVIOUS
<1>4. p # <<>>
  BY <1>2, <1>3
<1> DEFINE q == Front(p)
<1>5. q \in Seq(STRING) /\ Len(q) = Len(p) - 1 /\ IsPrefix(q, p)
  <2>1. q \in Seq(STRING) /\ q = SubSeq(p, 1, Len(p) - 1) /\ Len(q) = Len(p) - 1 /\ Len(p) >= 1
    BY <1>4, FrontFacts
  <2> HIDE DEF q
  <2>2. Len(p) - 1 \in 0..Len(p)
    BY <1>3, <2>1
  <2>3. IsPrefix(SubSeq(p, 1, Len(p) - 1), p)
    BY <2>2, PrefixIsSubSeq
  <2> QED BY <2>1, <2>3
<1>6. CASE Len(p) > 1
  <2>1. q \in DOMAIN T /\ ~IsFile(T, q)
    BY <1>6, ParentChecks
  <2>2. IsDir(T, q)
    BY <2>1, GoodTypes DEF IsFile, IsDir
  <2>3. CASE s = q
    BY <2>2, <2>3
  <2>4. CASE s # q
    <3>1. Len(s) <= Len(q)
      BY <1>2, <1>3, <1>5
    <3>2. IsPrefix(s, q)
      BY <1>5, <3>1, PrefixesNest
    <3> QED BY <1>1, <2>1, <2>4, <3>2 DEF Proper
  <2> QED BY <2>3, <2>4
<1>7. CASE ~(Len(p) > 1)
  <2>1. Len(s) = 0
    BY <1>2, <1>3, <1>7
  <2>2. s = <<>>
    BY <2>1, EmptySeq
  <2> QED BY <1>1, <2>2 DEF Proper
<1> QED
  BY <1>6, <1>7

(* A node is put where directories lead: made, or replaced by one of its    *)
(* own number or a fresh one.                                               *)
LEMMA PutGood ==
  ASSUME NEW f, GoodFS(f), NEW p \in Seq(STRING), NEW n \in Node, NEW k \in Nat,
         k >= f.nextIno, n.ino < k, n.size = Len(n.data),
         \A s \in Seq(STRING) : IsPrefix(s, p) /\ s # p => IsDir(f.tree, s),
         IsDir(f.tree, p) => n.kind = "dir",
         p = <<>> => n.kind = "dir",
         n.ino >= f.nextIno \/ (p \in DOMAIN f.tree /\ n.ino = f.tree[p].ino)
  PROVE  GoodFS([tree |-> With(f.tree, p, n), nextIno |-> k])
<1> DEFINE T == f.tree
           U == With(T, p, n)
           g == [tree |-> U, nextIno |-> k]
<1>1. DOMAIN U = DOMAIN T \union {p} /\ \A q \in DOMAIN U : U[q] = IF q = p THEN n ELSE T[q]
  BY DEF With
<1>2. Typed(f) /\ Proper(T)
  BY GoodIsProper DEF GoodFS
<1>3. n.ino \in Nat /\ n.kind \in {"dir", "file"}
  BY DEF Node
<1>4. Typed(g)
  <2>1. IsFiniteSet(DOMAIN U)
    BY <1>1, <1>2, FS_AddElement DEF Typed
  <2>2. DOMAIN U \subseteq Seq(STRING)
    BY <1>1, <1>2 DEF Typed
  <2>3. U \in [DOMAIN U -> Node]
    <3>1. \A q \in DOMAIN U : U[q] \in Node
      BY <1>1, <1>2 DEF Typed
    <3>2. U = [q \in DOMAIN U |-> U[q]]
      BY DEF With
    <3> HIDE DEF U
    <3> QED BY <3>1, <3>2
  <2> HIDE DEF U
  <2> QED BY <2>1, <2>2, <2>3 DEF Typed
<1>5. Proper(U)
  <2>1. IsDir(U, <<>>)
    BY <1>1, <1>2 DEF IsDir, Proper
  <2>2. Branching(T)
    BY GoodIsBranching
  <2>3. Branching(U)
    BY <2>2, PutBranching
  <2> HIDE DEF U
  <2> QED BY <2>1, <2>3 DEF Proper, Branching
<1>6. Rooted(g)
  <2> HIDE DEF U
  <2> QED BY <1>4, <1>5, RootedIsProper
<1>7. \A q \in DOMAIN T : T[q].ino \in Nat /\ T[q].ino < f.nextIno /\ f.nextIno \in Nat
  BY GoodTypes DEF GoodFS, Numbered
<1>8. Numbered(g)
  <2>1. \A q \in DOMAIN U : U[q].ino < k
    BY <1>1, <1>3, <1>7
  <2>2. ASSUME NEW q \in DOMAIN U, NEW r \in DOMAIN U, U[q].ino = U[r].ino PROVE q = r
    <3>1. \A a \in DOMAIN T : T[a].ino = n.ino => a = p
      <4> SUFFICES ASSUME NEW a \in DOMAIN T, T[a].ino = n.ino PROVE a = p
        OBVIOUS
      <4>1. ~(n.ino >= f.nextIno)
        BY <1>7
      <4> QED BY <4>1 DEF GoodFS, Numbered
    <3>2. \A a, b \in DOMAIN T : T[a].ino = T[b].ino => a = b
      BY DEF GoodFS, Numbered
    <3> HIDE DEF U
    <3> QED BY <1>1, <2>2, <3>1, <3>2
  <2> HIDE DEF U
  <2> QED BY <2>1, <2>2 DEF Numbered
<1>9. Measured(g)
  <2>1. \A q \in DOMAIN U : U[q].size = Len(U[q].data)
    BY <1>1 DEF GoodFS, Measured
  <2> HIDE DEF U
  <2> QED BY <2>1 DEF Measured
<1> QED
  BY <1>4, <1>6, <1>8, <1>9 DEF GoodFS

(* Nodes are removed together with all that is below them.                  *)
LEMMA RemoveGood ==
  ASSUME NEW f, GoodFS(f), NEW P, <<>> \notin P,
         \A q \in DOMAIN f.tree, s \in P : IsPrefix(s, q) => q \in P
  PROVE  GoodFS([tree |-> Without(f.tree, P), nextIno |-> f.nextIno])
<1> DEFINE T == f.tree
           U == Without(T, P)
           g == [tree |-> U, nextIno |-> f.nextIno]
<1>1. DOMAIN U = DOMAIN T \ P /\ \A q \in DOMAIN U : U[q] = T[q]
  BY DEF Without
<1>2. Typed(f) /\ Proper(T)
  BY GoodIsProper DEF GoodFS
<1>3. U = [q \in DOMAIN U |-> U[q]]
  BY DEF Without
<1> HIDE DEF U
<1>4. Typed(g)
  <2>1. IsFiniteSet(DOMAIN U)
    BY <1>1, <1>2, FS_Subset DEF Typed
  <2>2. DOMAIN U \subseteq Seq(STRING) /\ f.nextIno \in Nat
    BY <1>1, <1>2 DEF Typed
  <2>3. U \in [DOMAIN U -> Node]
    <3>1. \A q \in DOMAIN U : U[q] \in Node
      BY <1>1, <1>2 DEF Typed
    <3> QED BY <1>3, <3>1
  <2> QED BY <2>1, <2>2, <2>3 DEF Typed
<1>5. Proper(U)
  <2>1. IsDir(U, <<>>)
    BY <1>1, <1>2 DEF IsDir, Proper
  <2>2. Branching(T)
    BY GoodIsBranching
  <2>3. Branching(Without(T, P))
    BY <2>2, RemoveBranching
  <2> QED BY <2>1, <2>3 DEF Proper, Branching, U
<1>6. Rooted(g)
  BY <1>4, <1>5, RootedIsProper
<1>7. Numbered(g) /\ Measured(g)
  BY <1>1 DEF GoodFS, Numbered, Measured
<1> QED
  BY <1>4, <1>6, <1>7 DEF GoodFS, U

------------------------------------------------------------------------------
(* Moving.                                                                 *)

(* r is the path p with b in the place of a, name by name.                  *)
IsRebased(r, p, a, b) ==
  /\ r \in Seq(STRING) /\ Len(r) = Len(b) + (Len(p) - Len(a))
  /\ \A i \in 1..Len(b) : r[i] = b[i]
  /\ \A i \in 1..(Len(p) - Len(a)) : r[Len(b) + i] = p[Len(a) + i]

LEMMA RebasedFacts ==
  ASSUME NEW a \in Seq(STRING), NEW b \in Seq(STRING), NEW p \in Seq(STRING), IsPrefix(a, p)
  PROVE  /\ Rebased(p, a, b) \in Seq(STRING)
         /\ Len(Rebased(p, a, b)) = Len(b) + (Len(p) - Len(a))
         /\ IsRebased(Rebased(p, a, b), p, a, b)
         /\ IsPrefix(b, Rebased(p, a, b))
<1> DEFINE t == SubSeq(p, Len(a) + 1, Len(p))
           r == Rebased(p, a, b)
<1>1. Len(a) <= Len(p) /\ \A i \in 1..Len(a) : a[i] = p[i]
  BY PrefixFacts
<1>2. Len(a) \in 0..Len(p) /\ Len(a) \in Nat /\ Len(b) \in Nat /\ Len(p) \in Nat
  BY <1>1
<1>3. /\ t \in Seq(STRING) /\ Len(t) = Len(p) - Len(a)
      /\ \A i \in 1..(Len(p) - Len(a)) : t[i] = p[Len(a) + i]
  BY <1>2, TailFacts
<1>4. r = b \o t
  BY DEF Rebased
<1> HIDE DEF t, r
<1>5. /\ r \in Seq(STRING) /\ Len(r) = Len(b) + Len(t)
      /\ \A i \in 1..(Len(b) + Len(t)) : r[i] = IF i <= Len(b) THEN b[i] ELSE t[i - Len(b)]
  BY <1>3, <1>4, ConcatProperties
<1>6. ASSUME NEW i \in 1..Len(b) PROVE r[i] = b[i]
  <2>1. i \in 1..(Len(b) + Len(t)) /\ i <= Len(b)
    BY <1>2, <1>3
  <2> QED BY <1>5, <2>1
<1>7. ASSUME NEW i \in 1..(Len(p) - Len(a)) PROVE r[Len(b) + i] = p[Len(a) + i]
  <2>1. Len(b) + i \in 1..(Len(b) + Len(t)) /\ ~(Len(b) + i <= Len(b))
        /\ Len(b) + i - Len(b) = i
    BY <1>2, <1>3
  <2>2. r[Len(b) + i] = t[i]
    BY <1>5, <2>1
  <2> QED BY <1>3, <2>2
<1>8. IsPrefix(b, r)
  BY <1>2, <1>3, <1>5, <1>6, PrefixFacts
<1>9. Len(r) = Len(b) + (Len(p) - Len(a))
  BY <1>3, <1>5
<1> QED
  BY <1>5, <1>6, <1>7, <1>8, <1>9 DEF r, IsRebased

(* Moving there and back.                                                  *)
LEMMA RebasedBack ==
  ASSUME NEW a \in Seq(STRING), NEW b \in Seq(STRING), NEW p \in Seq(STRING), IsPrefix(a, p)
  PROVE  Rebased(Rebased(p, a, b), b, a) = p
<1> DEFINE r == Rebased(p, a, b)
<1>1. Len(a) <= Len(p) /\ \A i \in 1..Len(a) : a[i] = p[i]
  BY PrefixFacts
<1>2. Len(a) \in Nat /\ Len(b) \in Nat /\ Len(p) \in Nat
  OBVIOUS
<1>3. /\ r \in Seq(STRING) /\ Len(r) = Len(b) + (Len(p) - Len(a))
       /\ \A i \in 1..(Len(p) - Len(a)) : r[Len(b) + i] = p[Len(a) + i]
  BY RebasedFacts DEF IsRebased
<1> HIDE DEF r
<1> DEFINE u == SubSeq(r, Len(b) + 1, Len(r))
           q == Rebased(r, b, a)
<1>4. Len(b) \in 0..Len(r)
  BY <1>1, <1>2, <1>3
<1>5. /\ u \in Seq(STRING) /\ Len(u) = Len(r) - Len(b)
      /\ \A i \in 1..(Len(r) - Len(b)) : u[i] = r[Len(b) + i]
  BY <1>3, <1>4, TailFacts
<1>6. Len(u) = Len(p) - Len(a)
  BY <1>1, <1>2, <1>3, <1>5
<1>7. q = a \o u
  BY DEF Rebased
<1> HIDE DEF u, q
<1>8. /\ q \in Seq(STRING) /\ Len(q) = Len(a) + Len(u)
      /\ \A i \in 1..(Len(a) + Len(u)) : q[i] = IF i <= Len(a) THEN a[i] ELSE u[i - Len(a)]
  BY <1>5, <1>7, ConcatProperties
<1>9. Len(q) = Len(p)
  BY <1>2, <1>6, <1>8
<1>10. ASSUME NEW i \in 1..Len(q) PROVE q[i] = p[i]
  <2>1. CASE i <= Len(a)
    BY <1>1, <1>2, <1>8, <2>1
  <2>2. CASE ~(i <= Len(a))
    <3>1. i - Len(a) \in 1..(Len(p) - Len(a)) /\ Len(a) + (i - Len(a)) = i
      BY <1>2, <1>9, <2>2
    <3>2. q[i] = u[i - Len(a)]
      BY <1>8, <2>2
    <3>3. u[i - Len(a)] = r[Len(b) + (i - Len(a))]
      BY <1>5, <1>6, <3>1
    <3>4. r[Len(b) + (i - Len(a))] = p[Len(a) + (i - Len(a))]
      BY <1>3, <3>1
    <3> QED BY <3>1, <3>2, <3>3, <3>4
  <2> QED BY <2>1, <2>2
<1>11. q = p
  BY <1>8, <1>9, <1>10, SeqEqual
<1> QED
  BY <1>11 DEF q, r

(* What lies between moves with what lies below.                            *)
LEMMA RebasedKeepsOrder ==
  ASSUME NEW a \in Seq(STRING), NEW b \in Seq(STRING),
         NEW s \in Seq(STRING), NEW p \in Seq(STRING), IsPrefix(a, s), IsPrefix(s, p)
  PROVE  IsPrefix(Rebased(s, a, b), Rebased(p, a, b))
<1>1. IsPrefix(a, p)
  BY PrefixTransitive
<1> DEFINE r == Rebased(s, a, b)
           t == Rebased(p, a, b)
<1>2. /\ r \in Seq(STRING) /\ Len(r) = Len(b) + (Len(s) - Len(a))
      /\ \A i \in 1..Len(b) : r[i] = b[i]
      /\ \A i \in 1..(Len(s) - Len(a)) : r[Len(b) + i] = s[Len(a) + i]
  <2>1. IsRebased(Rebased(s, a, b), s, a, b)
    BY RebasedFacts
  <2> QED BY <2>1 DEF IsRebased
<1>3. /\ t \in Seq(STRING) /\ Len(t) = Len(b) + (Len(p) - Len(a))
      /\ \A i \in 1..Len(b) : t[i] = b[i]
      /\ \A i \in 1..(Len(p) - Len(a)) : t[Len(b) + i] = p[Len(a) + i]
  <2>1. IsRebased(Rebased(p, a, b), p, a, b)
    BY <1>1, RebasedFacts
  <2> QED BY <2>1 DEF IsRebased
<1> HIDE DEF r, t
<1>4. /\ Len(a) <= Len(s) /\ Len(s) <= Len(p) /\ \A i \in 1..Len(s) : s[i] = p[i]
      /\ Len(a) \in Nat /\ Len(b) \in Nat /\ Len(s) \in Nat /\ Len(p) \in Nat
  <2>1. Len(a) <= Len(s)
    BY PrefixFacts
  <2>2. Len(s) <= Len(p) /\ \A i \in 1..Len(s) : s[i] = p[i]
    BY PrefixFacts
  <2>3. Len(a) \in Nat /\ Len(b) \in Nat /\ Len(s) \in Nat /\ Len(p) \in Nat
    OBVIOUS
  <2> QED BY <2>1, <2>2, <2>3
<1>5. Len(r) <= Len(t)
  BY <1>2, <1>3, <1>4
<1>6. ASSUME NEW i \in 1..Len(r) PROVE r[i] = t[i]
  <2>1. CASE i <= Len(b)
    BY <1>2, <1>3, <1>4, <2>1
  <2>2. CASE ~(i <= Len(b))
    <3> DEFINE j == i - Len(b)
    <3>1. j \in 1..(Len(s) - Len(a)) /\ j \in 1..(Len(p) - Len(a)) /\ Len(b) + j = i
          /\ Len(a) + j \in 1..Len(s)
      BY <1>2, <1>4, <2>2
    <3> HIDE DEF j
    <3>2. r[Len(b) + j] = s[Len(a) + j] /\ t[Len(b) + j] = p[Len(a) + j]
      BY <1>2, <1>3, <3>1
    <3>3. s[Len(a) + j] = p[Len(a) + j]
      BY <1>4, <3>1
    <3> QED BY <3>1, <3>2, <3>3
  <2> QED BY <2>1, <2>2
<1>7. IsPrefix(r, t)
  BY <1>2, <1>3, <1>5, <1>6, PrefixFacts
<1> QED
  BY <1>7 DEF r, t

(* Where a node is moved to a place below which nothing is, the tree is the *)
(* old one with what was below `old` below `new`.                           *)
Staying(T, old, new) == {p \in DOMAIN T : ~IsPrefix(old, p) /\ ~IsPrefix(new, p)}

MovedTo(T, old, new) == {Rebased(q, old, new) : q \in Below(T, old)}

IsMoved(T, old, new, U) ==
  /\ U = [p \in DOMAIN U |-> U[p]]
  /\ DOMAIN U = Staying(T, old, new) \union MovedTo(T, old, new)
  /\ \A p \in Staying(T, old, new) : U[p] = T[p]
  /\ \A q \in Below(T, old) : U[Rebased(q, old, new)] = T[q]
  /\ \A p \in DOMAIN T : IsPrefix(new, p) => p = new

LEMMA MovedNodes ==
  ASSUME NEW T, Branching(T), NEW old \in Seq(STRING), NEW new \in Seq(STRING),
         old \in DOMAIN T, ~IsStrictPrefix(old, new),
         ~(IsDir(T, new) /\ HasChildren(T, new))
  PROVE  IsMoved(T, old, new, Moved(T, old, new))
<1> DEFINE stay == {p \in DOMAIN T : ~IsPrefix(old, p) /\ ~IsPrefix(new, p)}
           sub == Below(T, old)
           moved == {Rebased(q, old, new) : q \in sub}
           rest == DOMAIN T \ sub
           U == Moved(T, old, new)
<1>1. U = [p \in rest \union moved |-> IF IsPrefix(new, p) THEN T[Rebased(p, new, old)] ELSE T[p]]
  BY DEF Moved
<1>1a. U = [p \in DOMAIN U |-> U[p]]
  BY <1>1
<1> HIDE DEF U
<1>2. DOMAIN T \subseteq Seq(STRING)
  BY DEF Branching
<1>3. sub \subseteq DOMAIN T /\ \A q \in DOMAIN T : q \in sub <=> IsPrefix(old, q)
  BY DEF Below
<1>4. ASSUME NEW p \in DOMAIN T, IsPrefix(new, p), p # new PROVE FALSE
  <2>1. IsDir(T, new)
    BY <1>4 DEF Branching
  <2>2. HasChildren(T, new)
    BY <1>4 DEF HasChildren, Below
  <2> QED BY <2>1, <2>2
<1>5. ASSUME NEW q \in sub
      PROVE  /\ Rebased(q, old, new) \in Seq(STRING) /\ IsPrefix(new, Rebased(q, old, new))
             /\ Rebased(Rebased(q, old, new), new, old) = q
  <2>1. q \in Seq(STRING) /\ IsPrefix(old, q)
    BY <1>2, <1>3
  <2> QED BY <2>1, RebasedFacts, RebasedBack
<1>6. ASSUME new \in rest PROVE new \in moved
  <2>1. IsPrefix(old, old)
    BY PrefixIsSubSeq
  <2>2. Rebased(old, old, new) = new
    <3>1. SubSeq(old, Len(old) + 1, Len(old)) = <<>>
      <4>1. Len(old) + 1 \in Int /\ Len(old) \in Int /\ Len(old) < Len(old) + 1
        OBVIOUS
      <4> QED BY <4>1, SubSeqEmpty
    <3> QED BY <3>1, ConcatEmptySeq DEF Rebased
  <2> QED BY <1>3, <2>1, <2>2
<1>7. DOMAIN U = stay \union moved
  <2>1. DOMAIN U = rest \union moved
    BY <1>1
  <2>2. stay \subseteq rest
    BY <1>3
  <2>3. ASSUME NEW p \in rest, p \notin stay PROVE p \in moved
    <3>1. p \in DOMAIN T /\ IsPrefix(new, p)
      BY <1>3, <2>3
    <3> QED BY <1>4, <1>6, <2>3, <3>1
  <2> QED BY <2>1, <2>2, <2>3
<1>8. ASSUME NEW p \in stay PROVE U[p] = T[p]
  <2>1. p \in rest
    BY <1>3
  <2> QED BY <1>1, <2>1
<1>9. ASSUME NEW q \in sub PROVE U[Rebased(q, old, new)] = T[q]
  <2>1. Rebased(q, old, new) \in moved
    OBVIOUS
  <2> QED BY <1>1, <1>5, <2>1
<1> QED
  BY <1>1a, <1>4, <1>7, <1>8, <1>9 DEF Staying, MovedTo, IsMoved, U

LEMMA MovedBranching ==
  ASSUME NEW T, Branching(T), NEW old \in Seq(STRING), NEW new \in Seq(STRING),
         old \in DOMAIN T, ~IsStrictPrefix(old, new),
         \A s \in Seq(STRING) : IsPrefix(s, new) /\ s # new => IsDir(T, s),
         ~(IsDir(T, new) /\ HasChildren(T, new))
  PROVE  Branching(Moved(T, old, new))
<1> DEFINE U == Moved(T, old, new)
           sub == Below(T, old)
           To(q) == Rebased(q, old, new)
           moved == MovedTo(T, old, new)
           stay == Staying(T, old, new)
<1>1. /\ DOMAIN U = stay \union moved
      /\ \A p \in stay : U[p] = T[p]
      /\ \A q \in sub : U[To(q)] = T[q]
  <2>1. IsMoved(T, old, new, Moved(T, old, new))
    BY MovedNodes
  <2> HIDE DEF U
  <2>2. IsMoved(T, old, new, U)
    BY <2>1 DEF U
  <2> QED BY <2>2 DEF IsMoved
<1>2. /\ moved = {To(q) : q \in sub}
      /\ stay = {p \in DOMAIN T : ~IsPrefix(old, p) /\ ~IsPrefix(new, p)}
  BY DEF MovedTo, Staying
<1> HIDE DEF moved, stay, U
<1>3. /\ sub \subseteq DOMAIN T /\ DOMAIN T \subseteq Seq(STRING)
      /\ \A q \in DOMAIN T : q \in sub <=> IsPrefix(old, q)
  BY DEF Below, Branching
<1>4. ASSUME NEW q \in sub
      PROVE  To(q) \in Seq(STRING) /\ IsPrefix(new, To(q)) /\ Rebased(To(q), new, old) = q
  <2>1. q \in Seq(STRING) /\ IsPrefix(old, q)
    BY <1>3
  <2> QED BY <2>1, RebasedFacts, RebasedBack
<1> HIDE DEF sub
<1>7. ASSUME NEW s \in Seq(STRING), IsDir(T, s), ~IsPrefix(old, s), ~IsPrefix(new, s)
      PROVE  IsDir(U, s)
  <2>1. s \in stay
    BY <1>2, <1>7 DEF IsDir
  <2> QED BY <1>1, <1>7, <2>1 DEF IsDir
<1>8. ASSUME NEW p \in stay, NEW s \in Seq(STRING), IsPrefix(s, p), s # p
      PROVE  IsDir(U, s)
  <2>1. IsDir(T, s) /\ p \in Seq(STRING)
    BY <1>2, <1>8 DEF Branching
  <2>2. ~IsPrefix(old, s) /\ ~IsPrefix(new, s)
    BY <1>2, <1>8, <2>1, PrefixTransitive
  <2> QED BY <1>7, <2>1, <2>2
<1>9. ASSUME NEW q \in sub, NEW s \in Seq(STRING), IsPrefix(s, To(q)), s # To(q)
      PROVE  IsDir(U, s)
  <2>1. /\ Len(s) \in Nat /\ Len(new) \in Nat
        /\ To(q) \in Seq(STRING) /\ IsPrefix(new, To(q)) /\ Rebased(To(q), new, old) = q
        /\ q \in Seq(STRING)
    BY <1>3, <1>4
  <2>2. CASE Len(s) < Len(new)
    <3>1. IsPrefix(s, new)
      BY <1>9, <2>1, <2>2, PrefixesNest
    <3>2. s # new /\ ~IsPrefix(new, s)
      BY <2>1, <2>2, PrefixFacts
    <3>3. IsDir(T, s)
      BY <3>1, <3>2
    <3>4. ~IsPrefix(old, s)
      <4> SUFFICES ASSUME IsPrefix(old, s) PROVE FALSE
        OBVIOUS
      <4>1. IsPrefix(old, new)
        BY <3>1, PrefixTransitive
      <4>2. old # new
        BY <3>2
      <4> QED BY <4>1, <4>2 DEF IsStrictPrefix
    <3> QED BY <1>7, <3>2, <3>3, <3>4
  <2>3. CASE ~(Len(s) < Len(new))
    <3>1. IsPrefix(new, s)
      <4>1. Len(new) <= Len(s)
        BY <2>1, <2>3
      <4> QED BY <1>9, <2>1, <4>1, PrefixesNest
    <3> DEFINE r == Rebased(s, new, old)
    <3>2. /\ r \in Seq(STRING) /\ IsPrefix(old, r) /\ Rebased(r, old, new) = s
      BY <3>1, RebasedFacts, RebasedBack
    <3>3. IsPrefix(r, q)
      BY <1>9, <2>1, <3>1, RebasedKeepsOrder
    <3>4. r # q
      BY <1>9, <3>2
    <3> HIDE DEF r
    <3>5. IsDir(T, r)
      BY <1>3, <3>2, <3>3, <3>4 DEF Branching
    <3>6. r \in sub
      BY <1>3, <3>2, <3>5 DEF IsDir
    <3>7. s \in DOMAIN U /\ U[s] = T[r]
      BY <1>1, <1>2, <3>2, <3>6
    <3> QED BY <3>5, <3>7 DEF IsDir
  <2> QED BY <2>2, <2>3
<1>10. DOMAIN U \subseteq Seq(STRING)
  BY <1>1, <1>2, <1>3, <1>4
<1>11. Branching(U)
  BY <1>1, <1>2, <1>8, <1>9, <1>10 DEF Branching
<1> QED
  BY <1>11 DEF U

LEMMA MovedGood ==
  ASSUME NEW f, GoodFS(f), NEW old \in Seq(STRING), NEW new \in Seq(STRING),
         old \in DOMAIN f.tree, old # <<>>, new # <<>>,
         \A s \in Seq(STRING) : IsPrefix(s, new) /\ s # new => IsDir(f.tree, s),
         ~(IsDir(f.tree, new) /\ HasChildren(f.tree, new))
  PROVE  GoodFS([tree |-> Moved(f.tree, old, new), nextIno |-> f.nextIno])
<1> DEFINE T == f.tree
           U == Moved(T, old, new)
           sub == Below(T, old)
           To(q) == Rebased(q, old, new)
           moved == MovedTo(T, old, new)
           stay == Staying(T, old, new)
           g == [tree |-> U, nextIno |-> f.nextIno]
<1>1. CASE IsStrictPrefix(old, new)
  <2>1. U = Without(T, sub)
    BY <1>1 DEF Moved
  <2>2. <<>> \notin sub
    <3>1. ~IsPrefix(old, <<>>)
      BY NotBelowRoot
    <3> QED BY <3>1 DEF Below
  <2>3. ASSUME NEW q \in DOMAIN T, NEW s \in sub, IsPrefix(s, q) PROVE q \in sub
    <3>1. s \in Seq(STRING) /\ q \in Seq(STRING) /\ IsPrefix(old, s)
      BY GoodTypes DEF Below
    <3>2. IsPrefix(old, q)
      BY <2>3, <3>1, PrefixTransitive
    <3> QED BY <3>2 DEF Below
  <2> HIDE DEF sub
  <2> QED BY <2>1, <2>2, <2>3, RemoveGood
<1>2. CASE ~IsStrictPrefix(old, new)
  <2>1. /\ U = [p \in DOMAIN U |-> U[p]]
        /\ DOMAIN U = stay \union moved
        /\ \A p \in stay : U[p] = T[p]
        /\ \A q \in sub : U[To(q)] = T[q]
    <3>1. IsMoved(f.tree, old, new, Moved(f.tree, old, new))
      BY <1>2, GoodIsBranching, MovedNodes
    <3> HIDE DEF U
    <3>2. IsMoved(T, old, new, U)
      BY <3>1 DEF U
    <3> QED BY <3>2 DEF IsMoved
  <2>1a. /\ moved = {To(q) : q \in sub}
         /\ stay = {p \in DOMAIN T : ~IsPrefix(old, p) /\ ~IsPrefix(new, p)}
    BY DEF MovedTo, Staying
  <2> HIDE DEF moved, stay
  <2>2. Typed(f) /\ Proper(T) /\ DOMAIN T \subseteq Seq(STRING)
    BY GoodIsProper, GoodTypes DEF GoodFS
  <2>3. sub \subseteq DOMAIN T /\ \A q \in DOMAIN T : q \in sub <=> IsPrefix(old, q)
    BY DEF Below
  <2>4. ASSUME NEW q \in sub
        PROVE  To(q) \in Seq(STRING) /\ IsPrefix(new, To(q)) /\ Rebased(To(q), new, old) = q
               /\ Len(To(q)) = Len(new) + (Len(q) - Len(old))
    <3>1. q \in Seq(STRING) /\ IsPrefix(old, q)
      BY <2>2, <2>3
    <3> QED BY <3>1, RebasedFacts, RebasedBack
  <2> HIDE DEF U
  <2>5. \A p \in DOMAIN U : \E q \in DOMAIN T : U[p] = T[q]
    BY <2>1, <2>1a, <2>3
  <2>6. Typed(g)
    <3>1. IsFiniteSet(stay)
      BY <2>1a, <2>2, FS_Subset DEF Typed
    <3>2. IsFiniteSet(moved)
      <4>1. IsFiniteSet(sub)
        BY <2>2, <2>3, FS_Subset DEF Typed
      <4>2. [q \in sub |-> To(q)] \in Surjection(sub, moved)
        BY <2>1a DEF Surjection
      <4> HIDE DEF sub, To
      <4> QED BY <4>1, <4>2, FS_Surjection
    <3>3. IsFiniteSet(DOMAIN U)
      <4>1. IsFiniteSet(stay \union moved)
        BY <3>1, <3>2, FS_Union
      <4> QED BY <2>1, <4>1
    <3>4. DOMAIN U \subseteq Seq(STRING)
      BY <2>1, <2>1a, <2>2, <2>4
    <3>5. U \in [DOMAIN U -> Node]
      <4>1. \A p \in DOMAIN U : U[p] \in Node
        BY <2>2, <2>5 DEF Typed
      <4> QED BY <2>1, <4>1
    <3> QED BY <2>2, <3>3, <3>4, <3>5 DEF Typed
  <2>7. Proper(U)
    <3>1. ~IsPrefix(old, <<>>) /\ ~IsPrefix(new, <<>>)
      BY NotBelowRoot
    <3>2. <<>> \in stay
      BY <2>1a, <2>2, <3>1 DEF Proper, IsDir
    <3>3. IsDir(U, <<>>)
      BY <2>1, <2>2, <3>2 DEF Proper, IsDir
    <3>4. Branching(T)
      BY GoodIsBranching
    <3>5. Branching(Moved(T, old, new))
      BY <1>2, <3>4, MovedBranching
    <3> QED BY <3>3, <3>5 DEF Proper, Branching, U
  <2>8. Rooted(g)
    BY <2>6, <2>7, RootedIsProper
  <2>9. Numbered(g)
    <3>1. \A p \in DOMAIN T : T[p].ino < f.nextIno
      BY DEF GoodFS, Numbered
    <3>2. \A p, q \in DOMAIN T : T[p].ino = T[q].ino => p = q
      BY DEF GoodFS, Numbered
    <3>3. \A p \in DOMAIN U : U[p].ino < f.nextIno
      BY <2>5, <3>1
    <3>4. ASSUME NEW p \in DOMAIN U, NEW q \in DOMAIN U, U[p].ino = U[q].ino PROVE p = q
      <4> DEFINE From(x) == IF x \in stay THEN x ELSE Rebased(x, new, old)
      <4>1. ASSUME NEW x \in DOMAIN U
            PROVE  /\ From(x) \in DOMAIN T /\ U[x] = T[From(x)]
                   /\ x \notin stay => From(x) \in sub /\ x = To(From(x))
        <5>1. CASE x \in stay
          BY <2>1, <2>1a, <5>1
        <5>2. CASE x \notin stay
          <6>1. PICK y \in sub : x = To(y)
            BY <2>1, <2>1a, <5>2
          <6>2. Rebased(x, new, old) = y
            BY <2>4, <6>1
          <6> QED BY <2>1, <2>3, <5>2, <6>1, <6>2
        <5> QED BY <5>1, <5>2
      <4>2. From(p) = From(q)
        <5> HIDE DEF From
        <5> QED BY <3>2, <3>4, <4>1
      <4>3. CASE p \in stay /\ q \in stay
        BY <4>2, <4>3
      <4>4. CASE p \notin stay /\ q \notin stay
        BY <4>1, <4>2, <4>4
      <4>5. CASE p \in stay /\ q \notin stay
        BY <2>1a, <2>3, <4>1, <4>2, <4>5
      <4>6. CASE p \notin stay /\ q \in stay
        BY <2>1a, <2>3, <4>1, <4>2, <4>6
      <4> QED BY <4>3, <4>4, <4>5, <4>6
    <3> QED BY <3>3, <3>4 DEF Numbered
  <2>10. Measured(g)
    BY <2>5 DEF GoodFS, Measured
  <2> QED BY <2>6, <2>8, <2>9, <2>10 DEF GoodFS, U
<1> QED
  BY <1>1, <1>2

------------------------------------------------------------------------------
(* The operations.  Every one of them answers "ok" or an errno, leaves a    *)
(* well-formed filesystem, and nothing is changed where it fails.           *)

Outcome(f, r) ==
  /\ r.err \in Errno \union {"ok"}
  /\ GoodFS(r.fs)
  /\ r.err # "ok" => r.fs = f

(* What is called on p leaves the other nodes as they are, and makes none   *)
(* but on the way to p (Touches) or at p (AddsAt).                          *)
Touches(f, g, p) ==
  /\ \A q \in DOMAIN f.tree : q # p => q \in DOMAIN g.tree /\ g.tree[q] = f.tree[q]
  /\ \A q \in DOMAIN g.tree \ DOMAIN f.tree : IsPrefix(q, p) /\ g.tree[q].ino >= f.nextIno

AddsAt(f, g, p) == DOMAIN g.tree \subseteq DOMAIN f.tree \union {p}

Same(f, g, p) == p \in DOMAIN f.tree /\ p \in DOMAIN g.tree /\ f.tree[p].ino = g.tree[p].ino

KeepsMode(f, g, p) == Same(f, g, p) => f.tree[p].mode = g.tree[p].mode
KeepsTime(f, g, p) == Same(f, g, p) => f.tree[p].mtime = g.tree[p].mtime

FSOf(T, k) == [tree |-> T, nextIno |-> k]

LEMMA ResultFacts ==
  ASSUME NEW f, GoodFS(f), NEW c \in Checks, NEW T, NEW k, Passes(c) => GoodFS(FSOf(T, k))
  PROVE  /\ Outcome(f, Result(FirstError(c), f, T, k))
         /\ Result(FirstError(c), f, T, k).err = "ok" <=> Passes(c)
         /\ Passes(c) => Result(FirstError(c), f, T, k).fs = FSOf(T, k)
         /\ ~Passes(c) => Result(FirstError(c), f, T, k).fs = f
<1> DEFINE err == FirstError(c)
           r == Result(err, f, T, k)
<1>1. err \in Errno \union {"ok"} /\ (err = "ok" <=> Passes(c))
  BY FirstErrorFacts
<1> HIDE DEF err
<1>2. r.err = err /\ r.fs = IF err = "ok" THEN FSOf(T, k) ELSE f
  BY DEF Result, FSOf
<1> HIDE DEF r
<1>3. /\ Outcome(f, r) /\ (r.err = "ok" <=> Passes(c))
      /\ Passes(c) => r.fs = FSOf(T, k)
      /\ ~Passes(c) => r.fs = f
  BY <1>1, <1>2 DEF Outcome
<1> QED
  BY <1>3 DEF r, err

LEMMA NothingTouched ==
  ASSUME NEW f, NEW p
  PROVE  Touches(f, f, p) /\ AddsAt(f, f, p) /\ KeepsMode(f, f, p) /\ KeepsTime(f, f, p)
BY DEF Touches, AddsAt, KeepsMode, KeepsTime

PutIn(f, p, n, k) == FSOf(With(f.tree, p, n), k)

TakenOut(f, p) == FSOf(Without(f.tree, {p}), f.nextIno)

LEMMA PutTouches ==
  ASSUME NEW f, NEW p \in Seq(STRING), NEW n, NEW k,
         p \notin DOMAIN f.tree => n.ino >= f.nextIno
  PROVE  /\ Touches(f, PutIn(f, p, n, k), p) /\ AddsAt(f, PutIn(f, p, n, k), p)
         /\ PutIn(f, p, n, k).tree[p] = n /\ p \in DOMAIN PutIn(f, p, n, k).tree
<1> DEFINE g == PutIn(f, p, n, k)
<1>1. DOMAIN g.tree = DOMAIN f.tree \union {p}
      /\ \A q \in DOMAIN g.tree : g.tree[q] = IF q = p THEN n ELSE f.tree[q]
  BY DEF With, PutIn, FSOf
<1>2. IsPrefix(p, p)
  BY PrefixIsSubSeq
<1> HIDE DEF g
<1>3. Touches(f, g, p) /\ AddsAt(f, g, p) /\ g.tree[p] = n /\ p \in DOMAIN g.tree
  BY <1>1, <1>2 DEF Touches, AddsAt
<1> QED
  BY <1>3 DEF g

LEMMA RemoveTouches ==
  ASSUME NEW f, NEW p
  PROVE  /\ Touches(f, TakenOut(f, p), p) /\ AddsAt(f, TakenOut(f, p), p)
         /\ KeepsMode(f, TakenOut(f, p), p) /\ KeepsTime(f, TakenOut(f, p), p)
<1> DEFINE g == TakenOut(f, p)
<1>1. DOMAIN g.tree = DOMAIN f.tree \ {p}
      /\ \A q \in DOMAIN g.tree : g.tree[q] = f.tree[q]
  BY DEF Without, TakenOut, FSOf
<1> HIDE DEF g
<1>2. Touches(f, g, p) /\ AddsAt(f, g, p) /\ KeepsMode(f, g, p) /\ KeepsTime(f, g, p)
  BY <1>1 DEF Touches, AddsAt, KeepsMode, KeepsTime, Same
<1> QED
  BY <1>2 DEF g

(* A node with one of its fields set.                                       *)
WithData(n, x) == [n EXCEPT !.data = x]

LEMMA SetData ==
  ASSUME NEW n \in Node, NEW x \in Seq(0..255)
  PROVE  /\ WithData(n, x) \in Node /\ WithData(n, x).data = x
         /\ WithData(n, x).kind = n.kind /\ WithData(n, x).ino = n.ino
         /\ WithData(n, x).size = n.size /\ WithData(n, x).mode = n.mode
         /\ WithData(n, x).mtime = n.mtime
BY DEF Node, WithData

WithSize(n, x) == [n EXCEPT !.size = x]

LEMMA SetSize ==
  ASSUME NEW n \in Node, NEW x \in Nat
  PROVE  /\ WithSize(n, x) \in Node /\ WithSize(n, x).size = x
         /\ WithSize(n, x).kind = n.kind /\ WithSize(n, x).ino = n.ino
         /\ WithSize(n, x).data = n.data /\ WithSize(n, x).mode = n.mode
         /\ WithSize(n, x).mtime = n.mtime
BY DEF Node, WithSize

WithMtime(n, x) == [n EXCEPT !.mtime = x]

LEMMA SetMtime ==
  ASSUME NEW n \in Node, NEW x \in Int
  PROVE  /\ WithMtime(n, x) \in Node /\ WithMtime(n, x).mtime = x
         /\ WithMtime(n, x).kind = n.kind /\ WithMtime(n, x).ino = n.ino
         /\ WithMtime(n, x).data = n.data /\ WithMtime(n, x).size = n.size
         /\ WithMtime(n, x).mode = n.mode
BY DEF Node, WithMtime

WithIno(n, x) == [n EXCEPT !.ino = x]

LEMMA SetIno ==
  ASSUME NEW n \in Node, NEW x \in Nat
  PROVE  /\ WithIno(n, x) \in Node /\ WithIno(n, x).ino = x
         /\ WithIno(n, x).kind = n.kind /\ WithIno(n, x).data = n.data
         /\ WithIno(n, x).size = n.size /\ WithIno(n, x).mode = n.mode
         /\ WithIno(n, x).mtime = n.mtime
BY DEF Node, WithIno

WithMode(n, x) == [n EXCEPT !.mode = x]

LEMMA SetMode ==
  ASSUME NEW n \in Node, NEW x \in Mode
  PROVE  /\ WithMode(n, x) \in Node /\ WithMode(n, x).mode = x
         /\ WithMode(n, x).kind = n.kind /\ WithMode(n, x).ino = n.ino
         /\ WithMode(n, x).data = n.data /\ WithMode(n, x).size = n.size
         /\ WithMode(n, x).mtime = n.mtime
BY DEF Node, WithMode

LEMMA RewrittenFacts ==
  ASSUME NEW n \in Node, NEW d \in Seq(0..255)
  PROVE  /\ Rewritten(n, d) \in Node /\ Rewritten(n, d).ino = n.ino
         /\ Rewritten(n, d).kind = n.kind /\ Rewritten(n, d).mode = n.mode
         /\ Rewritten(n, d).data = d /\ Rewritten(n, d).size = Len(d)
<1> DEFINE a == WithData(n, d)
           b == WithSize(a, Len(d))
           m == WithMtime(b, Now)
<1>1. a \in Node /\ a.data = d /\ a.ino = n.ino /\ a.kind = n.kind /\ a.mode = n.mode
  BY SetData
<1> HIDE DEF a
<1>2. /\ b \in Node /\ b.data = a.data /\ b.ino = a.ino /\ b.kind = a.kind /\ b.mode = a.mode
      /\ b.size = Len(d)
  <2>1. Len(d) \in Nat
    OBVIOUS
  <2> QED BY <1>1, <2>1, SetSize
<1> HIDE DEF b
<1>3. /\ m \in Node /\ m.data = b.data /\ m.ino = b.ino /\ m.kind = b.kind /\ m.mode = b.mode
      /\ m.size = b.size
  <2>1. Now \in Int
    BY DEF Now
  <2> QED BY <1>2, <2>1, SetMtime
<1>4. Rewritten(n, d) = m
  BY DEF Rewritten, WithData, WithSize, WithMtime, a, b
<1> HIDE DEF m
<1> QED
  BY <1>1, <1>2, <1>3, <1>4

LEMMA FileFacts ==
  ASSUME NEW i \in Nat, NEW d \in Seq(0..255)
  PROVE  /\ File(i, d) \in Node /\ File(i, d).ino = i /\ File(i, d).kind = "file"
         /\ File(i, d).data = d /\ File(i, d).size = Len(d)
BY DEF Node, File, Now, Mode

LEMMA DirFacts ==
  ASSUME NEW i \in Nat, NEW mode \in Mode
  PROVE  /\ Dir(i, mode) \in Node /\ Dir(i, mode).ino = i /\ Dir(i, mode).kind = "dir"
         /\ Dir(i, mode).data = <<>> /\ Dir(i, mode).size = Len(Dir(i, mode).data)
<1>1. <<>> \in Seq(0..255) /\ Len(<<>>) = 0
  OBVIOUS
<1> QED
  BY <1>1 DEF Node, Dir, Now

(* The checks of writeFile and appendFile.                                  *)
WritingChecks(T, p) ==
  << <<p = <<>>, "EISDIR">> >> \o ParentDir(T, p) \o << <<IsDir(T, p), "EISDIR">> >>

LEMMA WriteChecks ==
  ASSUME NEW T, NEW p
  PROVE  /\ WritingChecks(T, p) \in Checks
         /\ Passes(WritingChecks(T, p)) <=>
              p # <<>> /\ Passes(ParentDir(T, p)) /\ ~IsDir(T, p)
<1> DEFINE a == << <<p = <<>>, "EISDIR">> >>
           b == << <<IsDir(T, p), "EISDIR">> >>
<1>1. a \in Checks /\ (Passes(a) <=> p # <<>>) /\ b \in Checks /\ (Passes(b) <=> ~IsDir(T, p))
  <2>1. (p = <<>>) \in BOOLEAN /\ IsDir(T, p) \in BOOLEAN /\ "EISDIR" \in Errno
    BY DEF IsDir, Errno
  <2> QED BY <2>1, NoCheck
<1>2. ParentDir(T, p) \in Checks
  BY ParentChecks
<1> HIDE DEF a, b
<1>3. a \o ParentDir(T, p) \in Checks
      /\ (Passes(a \o ParentDir(T, p)) <=> Passes(a) /\ Passes(ParentDir(T, p)))
  BY <1>1, <1>2, MoreChecks
<1>4. (a \o ParentDir(T, p)) \o b \in Checks
      /\ (Passes((a \o ParentDir(T, p)) \o b) <=> Passes(a \o ParentDir(T, p)) /\ Passes(b))
  BY <1>1, <1>3, MoreChecks
<1>5. WritingChecks(T, p) = (a \o ParentDir(T, p)) \o b
  BY DEF WritingChecks, a, b
<1> QED
  BY <1>1, <1>3, <1>4, <1>5

LEMMA WriteFileFacts ==
  ASSUME NEW f, GoodFS(f), NEW p \in Seq(STRING), NEW d \in Seq(0..255)
  PROVE  /\ Outcome(f, WriteFile(f, p, d))
         /\ Touches(f, WriteFile(f, p, d).fs, p)
         /\ AddsAt(f, WriteFile(f, p, d).fs, p)
         /\ KeepsMode(f, WriteFile(f, p, d).fs, p)
         /\ WriteFile(f, p, d).err = "ok" <=>
              p # <<>> /\ Passes(ParentDir(f.tree, p)) /\ ~IsDir(f.tree, p)
<1> DEFINE T == f.tree
           old == IsFile(T, p)
           c == WritingChecks(T, p)
           n == IF old THEN Rewritten(T[p], d) ELSE File(f.nextIno, d)
           k == IF old THEN f.nextIno ELSE f.nextIno + 1
           g == PutIn(f, p, n, k)
<1>1. WriteFile(f, p, d) = Result(FirstError(c), f, With(T, p, n), k)
  BY DEF WriteFile, WritingChecks
<1>2. c \in Checks /\ (Passes(c) <=> p # <<>> /\ Passes(ParentDir(T, p)) /\ ~IsDir(T, p))
  BY WriteChecks
<1>3. /\ f.nextIno \in Nat /\ k \in Nat /\ k >= f.nextIno
      /\ p \in DOMAIN T => T[p] \in Node /\ T[p].ino \in Nat /\ T[p].ino < f.nextIno
                           /\ T[p].kind \in {"file", "dir"}
  <2>1. f.nextIno \in Nat
    BY GoodTypes
  <2> QED BY <2>1, GoodTypes DEF GoodFS, Numbered
<1>4. n \in Node /\ n.ino < k /\ n.size = Len(n.data)
      /\ (n.ino >= f.nextIno \/ (p \in DOMAIN T /\ n.ino = T[p].ino))
      /\ (p \notin DOMAIN T => n.ino >= f.nextIno)
      /\ (old => n.mode = T[p].mode) /\ (~old => n.ino = f.nextIno)
  <2>1. CASE old
    <3>1. p \in DOMAIN T
      BY <2>1 DEF IsFile
    <3>2. n = Rewritten(T[p], d) /\ k = f.nextIno
      BY <2>1
    <3> HIDE DEF n, k, old
    <3> QED BY <1>3, <2>1, <3>1, <3>2, RewrittenFacts
  <2>2. CASE ~old
    <3>2. n = File(f.nextIno, d) /\ k = f.nextIno + 1
      BY <2>2
    <3> HIDE DEF n, k, old
    <3> QED BY <1>3, <2>2, <3>2, FileFacts
  <2> QED BY <2>1, <2>2
<1> HIDE DEF n, k
<1>5. Passes(c) => GoodFS(g)
  <2> SUFFICES ASSUME Passes(c) PROVE GoodFS(g)
    OBVIOUS
  <2>1. ~IsDir(T, p) /\ p # <<>> /\ \A s \in Seq(STRING) : IsPrefix(s, p) /\ s # p => IsDir(T, s)
    BY <1>2, ParentAbove
  <2> QED BY <1>3, <1>4, <2>1, PutGood DEF PutIn, FSOf
<1>6. /\ Outcome(f, WriteFile(f, p, d))
      /\ WriteFile(f, p, d).err = "ok" <=> Passes(c)
      /\ Passes(c) => WriteFile(f, p, d).fs = g
      /\ ~Passes(c) => WriteFile(f, p, d).fs = f
  <2> HIDE DEF c
  <2>1. g = FSOf(With(T, p, n), k)
    BY DEF PutIn
  <2> QED BY <1>1, <1>2, <1>5, <2>1, ResultFacts
<1>7. Touches(f, g, p) /\ AddsAt(f, g, p) /\ KeepsMode(f, g, p)
  <2>1. Touches(f, g, p) /\ AddsAt(f, g, p) /\ g.tree[p] = n
    BY <1>4, PutTouches
  <2>2. KeepsMode(f, g, p)
    <3>1. Same(f, g, p) => old
      BY <1>3, <1>4, <2>1 DEF Same
    <3> QED BY <1>4, <2>1, <3>1 DEF KeepsMode
  <2> QED BY <2>1, <2>2
<1> HIDE DEF g
<1> QED
  BY <1>2, <1>6, <1>7, NothingTouched

LEMMA AppendFileFacts ==
  ASSUME NEW f, GoodFS(f), NEW p \in Seq(STRING), NEW d \in Seq(0..255)
  PROVE  /\ Outcome(f, AppendFile(f, p, d))
         /\ Touches(f, AppendFile(f, p, d).fs, p)
         /\ AddsAt(f, AppendFile(f, p, d).fs, p)
         /\ KeepsMode(f, AppendFile(f, p, d).fs, p)
<1> DEFINE T == f.tree
           c == WritingChecks(T, p)
           n == Rewritten(T[p], T[p].data \o d)
           g == PutIn(f, p, n, f.nextIno)
           r == Result(FirstError(c), f, With(T, p, n), f.nextIno)
<1>1. AppendFile(f, p, d) = IF FirstError(c) = "ok" /\ p \notin DOMAIN T THEN WriteFile(f, p, d) ELSE r
  BY DEF AppendFile, WritingChecks
<1>2. c \in Checks /\ (Passes(c) <=> p # <<>> /\ Passes(ParentDir(T, p)) /\ ~IsDir(T, p))
  BY WriteChecks
<1>3. FirstError(c) = "ok" <=> Passes(c)
  <2> HIDE DEF c
  <2> QED BY <1>2, FirstErrorFacts
<1>4. ASSUME p \in DOMAIN T
      PROVE  /\ f.nextIno \in Nat /\ n \in Node /\ n.ino = T[p].ino /\ n.mode = T[p].mode
             /\ n.size = Len(n.data) /\ n.ino < f.nextIno
  <2>1. T[p] \in Node /\ T[p].data \in Seq(0..255) /\ f.nextIno \in Nat /\ T[p].ino < f.nextIno
    BY <1>4, GoodTypes DEF GoodFS, Numbered
  <2> DEFINE both == T[p].data \o d
  <2>2. both \in Seq(0..255)
    BY <2>1
  <2> HIDE DEF both
  <2>3. /\ n \in Node /\ n.ino = T[p].ino /\ n.mode = T[p].mode
        /\ n.data = both /\ n.size = Len(both)
    <3>1. n = Rewritten(T[p], both)
      BY DEF both
    <3> DEFINE old == T[p]
    <3>2. old \in Node
      BY <2>1
    <3> HIDE DEF n, old
    <3>3. /\ Rewritten(old, both) \in Node /\ Rewritten(old, both).ino = old.ino
          /\ Rewritten(old, both).mode = old.mode /\ Rewritten(old, both).data = both
          /\ Rewritten(old, both).size = Len(both)
      BY <2>2, <3>2, RewrittenFacts
    <3> QED BY <3>1, <3>3 DEF old
  <2> HIDE DEF n
  <2> QED BY <2>1, <2>3
<1> HIDE DEF n, c
<1>5. CASE Passes(c) /\ p \notin DOMAIN T
  BY <1>1, <1>3, <1>5, WriteFileFacts
<1>6. CASE Passes(c) /\ p \in DOMAIN T
  <2>1. ~IsDir(T, p) /\ p # <<>> /\ \A s \in Seq(STRING) : IsPrefix(s, p) /\ s # p => IsDir(T, s)
    BY <1>2, <1>6, ParentAbove
  <2>2. GoodFS(g)
    BY <1>4, <1>6, <2>1, PutGood DEF PutIn, FSOf
  <2>3. r.fs = g /\ Outcome(f, r)
    <3>1. g = FSOf(With(T, p, n), f.nextIno)
      BY DEF PutIn
    <3> HIDE DEF g
    <3> QED BY <1>2, <1>6, <2>2, <3>1, ResultFacts
  <2>4. Touches(f, g, p) /\ AddsAt(f, g, p) /\ g.tree[p] = n
    BY <1>6, PutTouches
  <2>5. KeepsMode(f, g, p)
    BY <1>4, <1>6, <2>4 DEF KeepsMode
  <2> HIDE DEF g, r
  <2> QED BY <1>1, <1>6, <2>3, <2>4, <2>5
<1>7. CASE ~Passes(c)
  <2>1. r.fs = f /\ Outcome(f, r)
    BY <1>2, <1>7, ResultFacts
  <2> HIDE DEF r
  <2> QED BY <1>1, <1>3, <1>7, <2>1, NothingTouched
<1> QED
  BY <1>5, <1>6, <1>7

UnlinkingChecks(T, p) ==
  << <<p = <<>>, "EACCES">> >> \o ParentDir(T, p) \o WalkTo(T, p)
    \o << <<IsDir(T, p) /\ HasChildren(T, p), "ENOTEMPTY">> >>

LEMMA UnlinkChecks ==
  ASSUME NEW T, NEW p
  PROVE  /\ UnlinkingChecks(T, p) \in Checks
         /\ Passes(UnlinkingChecks(T, p)) <=>
                          /\ p # <<>> /\ Passes(ParentDir(T, p)) /\ p \in DOMAIN T
                          /\ ~(IsDir(T, p) /\ HasChildren(T, p))
<1> DEFINE a == << <<p = <<>>, "EACCES">> >>
           b == << <<IsDir(T, p) /\ HasChildren(T, p), "ENOTEMPTY">> >>
           u == ParentDir(T, p)
           w == WalkTo(T, p)
<1>1. /\ a \in Checks /\ (Passes(a) <=> p # <<>>)
      /\ b \in Checks /\ (Passes(b) <=> ~(IsDir(T, p) /\ HasChildren(T, p)))
  <2>1. (p = <<>>) \in BOOLEAN /\ (IsDir(T, p) /\ HasChildren(T, p)) \in BOOLEAN
        /\ {"EACCES", "ENOTEMPTY"} \subseteq Errno
    BY DEF IsDir, Errno
  <2> QED BY <2>1, NoCheck
<1>2. u \in Checks /\ w \in Checks /\ (Passes(w) <=> p \in DOMAIN T)
  BY ParentChecks, WalkChecks
<1>5. UnlinkingChecks(T, p) = ((a \o u) \o w) \o b
  BY DEF UnlinkingChecks
<1> HIDE DEF a, b, u, w
<1>3. a \o u \in Checks /\ (Passes(a \o u) <=> Passes(a) /\ Passes(u))
  BY <1>1, <1>2, MoreChecks
<1>4. (a \o u) \o w \in Checks /\ (Passes((a \o u) \o w) <=> Passes(a \o u) /\ Passes(w))
  BY <1>2, <1>3, MoreChecks
<1>6. ((a \o u) \o w) \o b \in Checks
      /\ (Passes(((a \o u) \o w) \o b) <=> Passes((a \o u) \o w) /\ Passes(b))
  BY <1>1, <1>4, MoreChecks
<1> QED
  BY <1>1, <1>2, <1>3, <1>4, <1>5, <1>6 DEF u

LEMMA UnlinkFacts ==
  ASSUME NEW f, GoodFS(f), NEW p \in Seq(STRING)
  PROVE  /\ Outcome(f, Unlink(f, p))
         /\ Touches(f, Unlink(f, p).fs, p)
         /\ AddsAt(f, Unlink(f, p).fs, p)
         /\ KeepsMode(f, Unlink(f, p).fs, p)
         /\ KeepsTime(f, Unlink(f, p).fs, p)
<1> DEFINE T == f.tree
           c == UnlinkingChecks(T, p)
           g == TakenOut(f, p)
<1>1. Unlink(f, p) = Result(FirstError(c), f, Without(T, {p}), f.nextIno)
  BY DEF Unlink, UnlinkingChecks
<1>2. /\ c \in Checks
      /\ Passes(c) <=> /\ p # <<>> /\ Passes(ParentDir(T, p)) /\ p \in DOMAIN T
                       /\ ~(IsDir(T, p) /\ HasChildren(T, p))
  BY UnlinkChecks
<1> HIDE DEF c
<1>3. Passes(c) => GoodFS(g)
  <2> SUFFICES ASSUME Passes(c) PROVE GoodFS(g)
    OBVIOUS
  <2>1. \A q \in DOMAIN T : IsPrefix(p, q) => q = p
    BY <1>2, GoodIsBranching, NothingBelow
  <2>2. <<>> \notin {p} /\ \A q \in DOMAIN T, s \in {p} : IsPrefix(s, q) => q \in {p}
    BY <1>2, <2>1
  <2> QED BY <2>2, RemoveGood DEF TakenOut, FSOf
<1>4. /\ Outcome(f, Unlink(f, p))
      /\ Passes(c) => Unlink(f, p).fs = g
      /\ ~Passes(c) => Unlink(f, p).fs = f
  <2>1. g = FSOf(Without(T, {p}), f.nextIno)
    BY DEF TakenOut
  <2> QED BY <1>1, <1>2, <1>3, <2>1, ResultFacts
<1> QED
  BY <1>4, RemoveTouches, NothingTouched

LEMMA RmdirFacts ==
  ASSUME NEW f, GoodFS(f), NEW p \in Seq(STRING)
  PROVE  /\ Outcome(f, Rmdir(f, p))
         /\ Touches(f, Rmdir(f, p).fs, p)
         /\ AddsAt(f, Rmdir(f, p).fs, p)
         /\ KeepsMode(f, Rmdir(f, p).fs, p)
         /\ KeepsTime(f, Rmdir(f, p).fs, p)
<1> DEFINE T == f.tree
           d == << <<IsFile(T, p), "ENOTDIR">>, <<HasChildren(T, p), "ENOTEMPTY">> >>
           err == FirstError(WalkTo(T, p) \o d)
<1>1. Rmdir(f, p) = IF err = "ok" THEN Unlink(f, p) ELSE [err |-> err, fs |-> f]
  BY DEF Rmdir
<1>2. err \in Errno \union {"ok"}
  <2>1. d \in Checks
    <3>1. IsFile(T, p) \in BOOLEAN /\ HasChildren(T, p) \in BOOLEAN
          /\ {"ENOTDIR", "ENOTEMPTY"} \subseteq Errno
      BY DEF IsFile, HasChildren, Errno
    <3> QED BY <3>1, TwoChecks
  <2> HIDE DEF d
  <2>3. WalkTo(T, p) \o d \in Checks
    BY <2>1, MoreChecks, WalkChecks
  <2> QED BY <2>3, FirstErrorFacts
<1> HIDE DEF err
<1>3. CASE err = "ok"
  BY <1>1, <1>3, UnlinkFacts
<1>4. CASE err # "ok"
  <2>1. Rmdir(f, p).err = err /\ Rmdir(f, p).fs = f
    BY <1>1, <1>4
  <2> QED BY <1>2, <2>1, NothingTouched DEF Outcome
<1> QED
  BY <1>3, <1>4

LEMMA MkdirFacts ==
  ASSUME NEW f, GoodFS(f), NEW p \in Seq(STRING), NEW mode \in Mode
  PROVE  /\ Outcome(f, Mkdir(f, p, mode))
         /\ Touches(f, Mkdir(f, p, mode).fs, p)
         /\ AddsAt(f, Mkdir(f, p, mode).fs, p)
         /\ KeepsTime(f, Mkdir(f, p, mode).fs, p)
<1> DEFINE T == f.tree
           b == << <<p \in DOMAIN T, "EEXIST">> >>
           c == ParentDir(T, p) \o b
           n == Dir(f.nextIno, mode)
           k == f.nextIno + 1
           g == PutIn(f, p, n, k)
           r == Result(FirstError(c), f, With(T, p, n), k)
<1>1. Mkdir(f, p, mode) = IF p = <<>> THEN [err |-> "ok", fs |-> f] ELSE r
  BY DEF Mkdir
<1>2. c \in Checks /\ (Passes(c) <=> Passes(ParentDir(T, p)) /\ p \notin DOMAIN T)
  <2>1. b \in Checks /\ (Passes(b) <=> p \notin DOMAIN T)
    <3>1. (p \in DOMAIN T) \in BOOLEAN /\ "EEXIST" \in Errno
      BY DEF Errno
    <3> QED BY <3>1, NoCheck
  <2> HIDE DEF b
  <2> QED BY <2>1, ParentChecks, MoreChecks
<1>3. f.nextIno \in Nat /\ k \in Nat /\ k >= f.nextIno /\ n \in Node /\ n.ino = f.nextIno
      /\ n.ino < k /\ n.kind = "dir" /\ n.size = Len(n.data)
  <2>1. f.nextIno \in Nat
    BY GoodTypes
  <2> HIDE DEF n
  <2>2. n \in Node /\ n.ino = f.nextIno /\ n.kind = "dir" /\ n.size = Len(n.data)
    BY <2>1, DirFacts DEF n
  <2> QED BY <2>1, <2>2
<1> HIDE DEF n, k, c
<1>4. CASE p = <<>>
  <2>1. Mkdir(f, p, mode).err = "ok" /\ Mkdir(f, p, mode).fs = f
    BY <1>1, <1>4
  <2> QED BY <2>1, NothingTouched DEF Outcome
<1>5. CASE p # <<>> /\ Passes(c)
  <2>1. GoodFS(g)
    <3>1. \A s \in Seq(STRING) : IsPrefix(s, p) /\ s # p => IsDir(T, s)
      BY <1>2, <1>5, ParentAbove
    <3>2. n.ino >= f.nextIno
      BY <1>3
    <3> QED BY <1>3, <3>1, <3>2, PutGood DEF PutIn, FSOf
  <2>2. r.fs = g /\ Outcome(f, r)
    <3>1. g = FSOf(With(T, p, n), k)
      BY DEF PutIn
    <3> QED BY <1>2, <1>5, <2>1, <3>1, ResultFacts
  <2>3. Touches(f, g, p) /\ AddsAt(f, g, p)
    <3>1. n.ino >= f.nextIno
      BY <1>3
    <3> QED BY <3>1, PutTouches
  <2>4. KeepsTime(f, g, p)
    BY <1>2, <1>5 DEF KeepsTime, Same
  <2> HIDE DEF g, r
  <2> QED BY <1>1, <1>5, <2>2, <2>3, <2>4
<1>6. CASE p # <<>> /\ ~Passes(c)
  <2>1. r.fs = f /\ Outcome(f, r)
    BY <1>2, <1>6, ResultFacts
  <2> HIDE DEF r
  <2> QED BY <1>1, <1>6, <2>1, NothingTouched
<1> QED
  BY <1>4, <1>5, <1>6

LEMMA CopyFileFacts ==
  ASSUME NEW f, GoodFS(f), NEW src \in Seq(STRING), NEW dst \in Seq(STRING)
  PROVE  /\ Outcome(f, CopyFile(f, src, dst))
         /\ Touches(f, CopyFile(f, src, dst).fs, dst)
         /\ AddsAt(f, CopyFile(f, src, dst).fs, dst)
         /\ KeepsMode(f, CopyFile(f, src, dst).fs, dst)
<1> DEFINE T == f.tree
           a == << <<IsDir(T, src), "EISDIR">>, <<dst = <<>>, "EISDIR">> >>
           b == << <<IsDir(T, dst), "EISDIR">> >>
           w == WalkTo(T, src)
           u == ParentDir(T, dst)
           c == ((w \o a) \o u) \o b
           n == WithIno(T[src], f.nextIno)
           k == f.nextIno + 1
           g == PutIn(f, dst, n, k)
           r == Result(FirstError(c), f, With(T, dst, n), k)
<1>1. CopyFile(f, src, dst) = r
  BY DEF CopyFile, WithIno
<1>2. c \in Checks /\ (Passes(c) => /\ src \in DOMAIN T /\ ~IsDir(T, src) /\ dst # <<>>
                                    /\ Passes(u) /\ ~IsDir(T, dst))
  <2>1. /\ a \in Checks /\ (Passes(a) <=> ~IsDir(T, src) /\ dst # <<>>)
        /\ b \in Checks /\ (Passes(b) <=> ~IsDir(T, dst))
    <3>1. IsDir(T, src) \in BOOLEAN /\ IsDir(T, dst) \in BOOLEAN /\ (dst = <<>>) \in BOOLEAN
          /\ "EISDIR" \in Errno
      BY DEF IsDir, Errno
    <3> QED BY <3>1, NoCheck, TwoChecks
  <2>2. u \in Checks /\ w \in Checks /\ (Passes(w) <=> src \in DOMAIN T)
    BY ParentChecks, WalkChecks
  <2> HIDE DEF a, b, u, w
  <2>3. w \o a \in Checks /\ (Passes(w \o a) <=> Passes(w) /\ Passes(a))
    BY <2>1, <2>2, MoreChecks
  <2>4. (w \o a) \o u \in Checks /\ (Passes((w \o a) \o u) <=> Passes(w \o a) /\ Passes(u))
    BY <2>2, <2>3, MoreChecks
  <2>5. ((w \o a) \o u) \o b \in Checks
        /\ (Passes(((w \o a) \o u) \o b) <=> Passes((w \o a) \o u) /\ Passes(b))
    BY <2>1, <2>4, MoreChecks
  <2> QED BY <2>1, <2>2, <2>3, <2>4, <2>5
<1>3. f.nextIno \in Nat /\ k \in Nat /\ k >= f.nextIno /\ f.nextIno < k
  BY GoodTypes
<1> HIDE DEF c
<1>4. Passes(c) => /\ n \in Node /\ n.ino = f.nextIno /\ n.ino < k /\ n.ino >= f.nextIno
                   /\ n.size = Len(n.data)
  <2> SUFFICES ASSUME Passes(c)
               PROVE  /\ n \in Node /\ n.ino = f.nextIno /\ n.ino < k /\ n.ino >= f.nextIno
                      /\ n.size = Len(n.data)
    OBVIOUS
  <2>1. T[src] \in Node /\ T[src].size = Len(T[src].data)
    BY <1>2, GoodTypes DEF GoodFS, Measured
  <2>2. n \in Node /\ n.ino = f.nextIno /\ n.size = T[src].size /\ n.data = T[src].data
    BY <1>3, <2>1, SetIno
  <2> HIDE DEF n
  <2> QED BY <1>3, <2>1, <2>2
<1> HIDE DEF n, k
<1>5. Passes(c) => GoodFS(g)
  <2> SUFFICES ASSUME Passes(c) PROVE GoodFS(g)
    OBVIOUS
  <2>1. \A s \in Seq(STRING) : IsPrefix(s, dst) /\ s # dst => IsDir(T, s)
    BY <1>2, ParentAbove
  <2> QED BY <1>2, <1>3, <1>4, <2>1, PutGood DEF PutIn, FSOf
<1>6. /\ Outcome(f, r)
      /\ Passes(c) => r.fs = g
      /\ ~Passes(c) => r.fs = f
  <2>1. g = FSOf(With(T, dst, n), k)
    BY DEF PutIn
  <2> HIDE DEF g
  <2> QED BY <1>2, <1>5, <2>1, ResultFacts
<1>7. Passes(c) => Touches(f, g, dst) /\ AddsAt(f, g, dst) /\ KeepsMode(f, g, dst)
  <2> SUFFICES ASSUME Passes(c) PROVE Touches(f, g, dst) /\ AddsAt(f, g, dst) /\ KeepsMode(f, g, dst)
    OBVIOUS
  <2>1. Touches(f, g, dst) /\ AddsAt(f, g, dst) /\ g.tree[dst] = n
    <3>1. dst \notin DOMAIN f.tree => n.ino >= f.nextIno
      BY <1>4
    <3> QED BY <3>1, PutTouches
  <2>2. ~Same(f, g, dst)
    <3> SUFFICES ASSUME Same(f, g, dst) PROVE FALSE
      OBVIOUS
    <3>1. T[dst].ino = f.nextIno /\ dst \in DOMAIN T
      BY <1>4, <2>1 DEF Same
    <3>2. T[dst].ino < f.nextIno /\ T[dst].ino \in Nat
      BY <3>1, GoodTypes DEF GoodFS, Numbered
    <3> QED BY <1>3, <3>1, <3>2
  <2> QED BY <2>1, <2>2 DEF KeepsMode
<1> HIDE DEF g, r
<1> QED
  BY <1>1, <1>6, <1>7, NothingTouched

LEMMA TruncateFacts ==
  ASSUME NEW f, GoodFS(f), NEW p \in Seq(STRING), NEW n \in Int
  PROVE  /\ Outcome(f, Truncate(f, p, n))
         /\ Touches(f, Truncate(f, p, n).fs, p)
         /\ AddsAt(f, Truncate(f, p, n).fs, p)
         /\ KeepsMode(f, Truncate(f, p, n).fs, p)
<1> DEFINE T == f.tree
           a == << <<n < 0, "EINVAL">> >>
           b == << <<IsDir(T, p), "EISDIR">> >>
           w == WalkTo(T, p)
           c == (a \o w) \o b
           old == T[p].data
           data == [i \in 1..n |-> IF i <= Len(old) THEN old[i] ELSE 0]
           m == Rewritten(T[p], data)
           g == PutIn(f, p, m, f.nextIno)
           r == Result(FirstError(c), f, With(T, p, m), f.nextIno)
<1>1. Truncate(f, p, n) = r
  BY DEF Truncate
<1>2. c \in Checks /\ (Passes(c) => n >= 0 /\ p \in DOMAIN T /\ ~IsDir(T, p))
  <2>1. /\ a \in Checks /\ (Passes(a) <=> ~(n < 0))
        /\ b \in Checks /\ (Passes(b) <=> ~IsDir(T, p))
    <3>1. (n < 0) \in BOOLEAN /\ IsDir(T, p) \in BOOLEAN /\ {"EINVAL", "EISDIR"} \subseteq Errno
      BY DEF IsDir, Errno
    <3> QED BY <3>1, NoCheck
  <2>2. w \in Checks /\ (Passes(w) <=> p \in DOMAIN T)
    BY WalkChecks
  <2> HIDE DEF a, b, w
  <2>3. a \o w \in Checks /\ (Passes(a \o w) <=> Passes(a) /\ Passes(w))
    BY <2>1, <2>2, MoreChecks
  <2>4. (a \o w) \o b \in Checks /\ (Passes((a \o w) \o b) <=> Passes(a \o w) /\ Passes(b))
    BY <2>1, <2>3, MoreChecks
  <2> QED BY <2>1, <2>2, <2>3, <2>4
<1> HIDE DEF c
<1>3. ASSUME Passes(c)
      PROVE  /\ f.nextIno \in Nat /\ m \in Node /\ m.ino = T[p].ino /\ m.mode = T[p].mode
             /\ m.size = Len(m.data) /\ m.ino < f.nextIno
  <2>1. T[p] \in Node /\ old \in Seq(0..255) /\ f.nextIno \in Nat /\ T[p].ino < f.nextIno
    BY <1>2, <1>3, GoodTypes DEF GoodFS, Numbered
  <2>2. data \in Seq(0..255)
    <3>1. n \in Nat
      BY <1>2, <1>3
    <3> HIDE DEF old
    <3>2. ASSUME NEW i \in 1..n PROVE (IF i <= Len(old) THEN old[i] ELSE 0) \in 0..255
      <4>1. i <= Len(old) => i \in 1..Len(old)
        BY <2>1, <3>1
      <4>2. \A j \in 1..Len(old) : old[j] \in 0..255
        BY <2>1, ElementOfSeq
      <4> QED BY <4>1, <4>2
    <3>3. data \in [1..n -> 0..255]
      BY <3>2
    <3> HIDE DEF data
    <3> QED BY <3>1, <3>3
  <2> HIDE DEF data
  <2>3. /\ m \in Node /\ m.ino = T[p].ino /\ m.mode = T[p].mode
        /\ m.data = data /\ m.size = Len(data)
    BY <2>1, <2>2, RewrittenFacts
  <2> HIDE DEF m
  <2> QED BY <2>1, <2>3
<1> HIDE DEF m
<1>4. Passes(c) => GoodFS(g)
  <2> SUFFICES ASSUME Passes(c) PROVE GoodFS(g)
    OBVIOUS
  <2>1. /\ ~IsDir(T, p) /\ p # <<>> /\ f.nextIno >= f.nextIno
        /\ \A s \in Seq(STRING) : IsPrefix(s, p) /\ s # p => IsDir(T, s)
    BY <1>2, <1>3, GoodIsProper DEF Proper
  <2> QED BY <1>2, <1>3, <2>1, PutGood DEF PutIn, FSOf
<1>5. /\ Outcome(f, r)
      /\ Passes(c) => r.fs = g
      /\ ~Passes(c) => r.fs = f
  <2>1. g = FSOf(With(T, p, m), f.nextIno)
    BY DEF PutIn
  <2> HIDE DEF g
  <2> QED BY <1>2, <1>4, <2>1, ResultFacts
<1>6. Passes(c) => Touches(f, g, p) /\ AddsAt(f, g, p) /\ KeepsMode(f, g, p)
  <2> SUFFICES ASSUME Passes(c) PROVE Touches(f, g, p) /\ AddsAt(f, g, p) /\ KeepsMode(f, g, p)
    OBVIOUS
  <2>1. Touches(f, g, p) /\ AddsAt(f, g, p) /\ g.tree[p] = m
    BY <1>2, PutTouches
  <2> QED BY <1>3, <2>1 DEF KeepsMode
<1> HIDE DEF g, r
<1> QED
  BY <1>1, <1>5, <1>6, NothingTouched

LEMMA UtimesFacts ==
  ASSUME NEW f, GoodFS(f), NEW p \in Seq(STRING), NEW t \in Int
  PROVE  /\ Outcome(f, Utimes(f, p, t))
         /\ Touches(f, Utimes(f, p, t).fs, p)
         /\ AddsAt(f, Utimes(f, p, t).fs, p)
         /\ KeepsMode(f, Utimes(f, p, t).fs, p)
<1> DEFINE T == f.tree
           c == WalkTo(T, p)
           m == WithMtime(T[p], t)
           g == PutIn(f, p, m, f.nextIno)
           r == Result(FirstError(c), f, With(T, p, m), f.nextIno)
<1>1. Utimes(f, p, t) = r
  BY DEF Utimes, WithMtime
<1>2. c \in Checks /\ (Passes(c) <=> p \in DOMAIN T)
  BY WalkChecks
<1> HIDE DEF c
<1>3. ASSUME Passes(c)
      PROVE  /\ f.nextIno \in Nat /\ m \in Node /\ m.ino = T[p].ino /\ m.mode = T[p].mode
             /\ m.size = Len(m.data) /\ m.ino < f.nextIno /\ m.kind = T[p].kind
  <2>1. T[p] \in Node /\ T[p].size = Len(T[p].data) /\ f.nextIno \in Nat /\ T[p].ino < f.nextIno
    BY <1>2, <1>3, GoodTypes DEF GoodFS, Numbered, Measured
  <2>2. /\ m \in Node /\ m.ino = T[p].ino /\ m.mode = T[p].mode
        /\ m.data = T[p].data /\ m.size = T[p].size /\ m.kind = T[p].kind
    BY <2>1, SetMtime
  <2> HIDE DEF m
  <2> QED BY <2>1, <2>2
<1> HIDE DEF m
<1>4. Passes(c) => GoodFS(g)
  <2> SUFFICES ASSUME Passes(c) PROVE GoodFS(g)
    OBVIOUS
  <2>1. /\ f.nextIno >= f.nextIno
        /\ \A s \in Seq(STRING) : IsPrefix(s, p) /\ s # p => IsDir(T, s)
    BY <1>2, <1>3, GoodIsProper DEF Proper
  <2>2. (IsDir(T, p) => m.kind = "dir") /\ (p = <<>> => m.kind = "dir")
    BY <1>2, <1>3, GoodIsProper DEF Proper, IsDir
  <2> QED BY <1>2, <1>3, <2>1, <2>2, PutGood DEF PutIn, FSOf
<1>5. /\ Outcome(f, r)
      /\ Passes(c) => r.fs = g
      /\ ~Passes(c) => r.fs = f
  <2>1. g = FSOf(With(T, p, m), f.nextIno)
    BY DEF PutIn
  <2> HIDE DEF g
  <2> QED BY <1>2, <1>4, <2>1, ResultFacts
<1>6. Passes(c) => Touches(f, g, p) /\ AddsAt(f, g, p) /\ KeepsMode(f, g, p)
  <2> SUFFICES ASSUME Passes(c) PROVE Touches(f, g, p) /\ AddsAt(f, g, p) /\ KeepsMode(f, g, p)
    OBVIOUS
  <2>1. Touches(f, g, p) /\ AddsAt(f, g, p) /\ g.tree[p] = m
    BY <1>2, PutTouches
  <2> QED BY <1>3, <2>1 DEF KeepsMode
<1> HIDE DEF g, r
<1> QED
  BY <1>1, <1>5, <1>6, NothingTouched

(* A rename takes nodes from below one path to below the other, as they     *)
(* are, and leaves the others where they are.                               *)
Relocates(f, g, old, new) ==
  /\ \A q \in DOMAIN f.tree :
       IsPrefix(old, q) \/ IsPrefix(new, q) \/ (q \in DOMAIN g.tree /\ g.tree[q] = f.tree[q])
  /\ \A q \in DOMAIN g.tree :
       IsPrefix(old, q) \/ IsPrefix(new, q) \/ (q \in DOMAIN f.tree /\ g.tree[q] = f.tree[q])
  /\ \A q \in DOMAIN g.tree : \E r \in DOMAIN f.tree : g.tree[q] = f.tree[r]

(* No node is lost but one, that has no children.                           *)
Conserves(f, g, lost) ==
  \A q \in DOMAIN f.tree :
    \/ \E r \in DOMAIN g.tree : g.tree[r] = f.tree[q]
    \/ q = lost /\ ~HasChildren(f.tree, q)

LEMMA NothingRelocated ==
  ASSUME NEW f, NEW old, NEW new
  PROVE  Relocates(f, f, old, new) /\ Conserves(f, f, new)
BY DEF Relocates, Conserves

LEMMA MovedRelocates ==
  ASSUME NEW f, GoodFS(f), NEW old \in Seq(STRING), NEW new \in Seq(STRING), NEW k,
         old \in DOMAIN f.tree, ~(IsDir(f.tree, new) /\ HasChildren(f.tree, new))
  PROVE  /\ Relocates(f, FSOf(Moved(f.tree, old, new), k), old, new)
         /\ ~IsStrictPrefix(old, new) => Conserves(f, FSOf(Moved(f.tree, old, new), k), new)
<1> DEFINE T == f.tree
           U == Moved(T, old, new)
           g == FSOf(U, k)
<1>0. g.tree = U
  BY DEF FSOf
<1> HIDE DEF g
<1>1. CASE IsStrictPrefix(old, new)
  <2>1. U = Without(T, Below(T, old))
    BY <1>1 DEF Moved
  <2>2. DOMAIN U = {q \in DOMAIN T : ~IsPrefix(old, q)} /\ \A q \in DOMAIN U : U[q] = T[q]
    BY <2>1 DEF Without, Below
  <2> HIDE DEF U
  <2>3. Relocates(f, g, old, new)
    BY <1>0, <2>2 DEF Relocates
  <2> QED BY <1>1, <2>3 DEF g, U
<1>2. CASE ~IsStrictPrefix(old, new)
  <2>1. IsMoved(f.tree, old, new, Moved(f.tree, old, new))
    BY <1>2, GoodIsBranching, MovedNodes
  <2> HIDE DEF U
  <2>2. IsMoved(T, old, new, U)
    BY <2>1 DEF U
  <2>3. /\ DOMAIN U = Staying(T, old, new) \union MovedTo(T, old, new)
        /\ \A p \in Staying(T, old, new) : U[p] = T[p]
        /\ \A q \in Below(T, old) : U[Rebased(q, old, new)] = T[q]
        /\ \A p \in DOMAIN T : IsPrefix(new, p) => p = new
    BY <2>2 DEF IsMoved
  <2>4. /\ Staying(T, old, new) = {p \in DOMAIN T : ~IsPrefix(old, p) /\ ~IsPrefix(new, p)}
        /\ MovedTo(T, old, new) = {Rebased(q, old, new) : q \in Below(T, old)}
        /\ Below(T, old) = {q \in DOMAIN T : IsPrefix(old, q)}
    BY DEF Staying, MovedTo, Below
  <2>5. \A q \in Below(T, old) : IsPrefix(new, Rebased(q, old, new))
    <3>1. \A q \in Below(T, old) : q \in Seq(STRING) /\ IsPrefix(old, q)
      BY <2>4, GoodTypes
    <3> QED BY <3>1, RebasedFacts, RebasedBack
  <2>6. Relocates(f, g, old, new)
    <3>1. ASSUME NEW q \in DOMAIN U
          PROVE  /\ IsPrefix(old, q) \/ IsPrefix(new, q) \/ (q \in DOMAIN T /\ U[q] = T[q])
                 /\ \E r \in DOMAIN T : U[q] = T[r]
      <4>1. CASE q \in Staying(T, old, new)
        BY <2>3, <2>4, <4>1
      <4>2. CASE q \in MovedTo(T, old, new)
        BY <2>3, <2>4, <2>5, <4>2
      <4> QED BY <2>3, <4>1, <4>2
    <3> QED BY <1>0, <2>3, <2>4, <3>1 DEF Relocates
  <2>7. Conserves(f, g, new)
    <3> SUFFICES ASSUME NEW q \in DOMAIN T
                 PROVE  \/ \E r \in DOMAIN U : U[r] = T[q]
                        \/ q = new /\ ~HasChildren(T, q)
      BY <1>0 DEF Conserves
    <3>1. CASE IsPrefix(old, q)
      <4>1. q \in Below(T, old)
        BY <2>4, <3>1
      <4>2. Rebased(q, old, new) \in DOMAIN U /\ U[Rebased(q, old, new)] = T[q]
        BY <2>3, <2>4, <4>1
      <4> QED BY <4>2
    <3>2. CASE ~IsPrefix(old, q) /\ ~IsPrefix(new, q)
      BY <2>3, <2>4, <3>2
    <3>3. CASE IsPrefix(new, q)
      <4>1. q = new
        BY <2>3, <3>3
      <4>2. Below(T, q) = {q}
        BY <2>3, <3>3, <4>1 DEF Below
      <4> QED BY <4>1, <4>2 DEF HasChildren
    <3> QED BY <3>1, <3>2, <3>3
  <2> QED BY <2>6, <2>7 DEF g, U
<1> QED
  BY <1>1, <1>2

RenamingChecks(T, old, new) ==
  << <<old.names = <<>>, "EACCES">> >>
  \o ParentDir(T, old.names) \o WalkTo(T, old.names)
  \o << <<IsDir(T, old.names) /\ TextBelow(old, new), "EINVAL">>,
        <<new.names = <<>>, "EACCES">> >>
  \o ParentDir(T, new.names)
  \o << <<IsDir(T, new.names) /\ HasChildren(T, new.names), "ENOTEMPTY">> >>

LEMMA RenameChecks ==
  ASSUME NEW T, NEW old, NEW new
  PROVE  /\ RenamingChecks(T, old, new) \in Checks
         /\ Passes(RenamingChecks(T, old, new)) <=>
              /\ old.names # <<>> /\ Passes(ParentDir(T, old.names))
              /\ old.names \in DOMAIN T
              /\ ~(IsDir(T, old.names) /\ TextBelow(old, new))
              /\ new.names # <<>> /\ Passes(ParentDir(T, new.names))
              /\ ~(IsDir(T, new.names) /\ HasChildren(T, new.names))
<1> DEFINE c == RenamingChecks(T, old, new)
           a == << <<old.names = <<>>, "EACCES">> >>
           u == ParentDir(T, old.names)
           w == WalkTo(T, old.names)
           b == << <<IsDir(T, old.names) /\ TextBelow(old, new), "EINVAL">>,
                   <<new.names = <<>>, "EACCES">> >>
           v == ParentDir(T, new.names)
           d == << <<IsDir(T, new.names) /\ HasChildren(T, new.names), "ENOTEMPTY">> >>
<1>1. /\ a \in Checks /\ (Passes(a) <=> old.names # <<>>)
      /\ b \in Checks /\ (Passes(b) <=> ~(IsDir(T, old.names) /\ TextBelow(old, new))
                                        /\ new.names # <<>>)
      /\ d \in Checks /\ (Passes(d) <=> ~(IsDir(T, new.names) /\ HasChildren(T, new.names)))
  <2> DEFINE below == IsDir(T, old.names) /\ TextBelow(old, new)
             root == new.names = <<>>
  <2>1. /\ (old.names = <<>>) \in BOOLEAN /\ root \in BOOLEAN
        /\ below \in BOOLEAN
        /\ (IsDir(T, new.names) /\ HasChildren(T, new.names)) \in BOOLEAN
        /\ "EACCES" \in Errno /\ "EINVAL" \in Errno /\ "ENOTEMPTY" \in Errno
    BY DEF Errno
  <2>2. a \in Checks /\ (Passes(a) <=> old.names # <<>>)
    BY <2>1, NoCheck
  <2>3. b \in Checks /\ (Passes(b) <=> ~below /\ ~root)
    <3>1. b = << <<below, "EINVAL">>, <<root, "EACCES">> >>
      OBVIOUS
    <3> HIDE DEF b, below, root
    <3> QED BY <2>1, <3>1, TwoChecks
  <2>4. d \in Checks /\ (Passes(d) <=> ~(IsDir(T, new.names) /\ HasChildren(T, new.names)))
    BY <2>1, NoCheck
  <2> HIDE DEF a, b, d
  <2> QED BY <2>2, <2>3, <2>4 DEF below, root
<1>2. u \in Checks /\ v \in Checks /\ w \in Checks /\ (Passes(w) <=> old.names \in DOMAIN T)
  BY ParentChecks, WalkChecks
<1>3. c = ((((a \o u) \o w) \o b) \o v) \o d
  BY DEF RenamingChecks
<1> HIDE DEF a, u, w, b, v, d, c
<1>4. a \o u \in Checks /\ (Passes(a \o u) <=> Passes(a) /\ Passes(u))
  BY <1>1, <1>2, MoreChecks
<1>5. (a \o u) \o w \in Checks /\ (Passes((a \o u) \o w) <=> Passes(a \o u) /\ Passes(w))
  BY <1>2, <1>4, MoreChecks
<1>6. ((a \o u) \o w) \o b \in Checks
      /\ (Passes(((a \o u) \o w) \o b) <=> Passes((a \o u) \o w) /\ Passes(b))
  BY <1>1, <1>5, MoreChecks
<1>7. (((a \o u) \o w) \o b) \o v \in Checks
      /\ (Passes((((a \o u) \o w) \o b) \o v) <=> Passes(((a \o u) \o w) \o b) /\ Passes(v))
  BY <1>2, <1>6, MoreChecks
<1>8. ((((a \o u) \o w) \o b) \o v) \o d \in Checks
      /\ (Passes(((((a \o u) \o w) \o b) \o v) \o d)
            <=> Passes((((a \o u) \o w) \o b) \o v) /\ Passes(d))
  BY <1>1, <1>7, MoreChecks
<1> QED
  BY <1>1, <1>2, <1>3, <1>4, <1>5, <1>6, <1>7, <1>8 DEF u, v, c

(* Of strings as normalize() writes them, one begins with the other and a   *)
(* slash exactly if the paths are below each other.                         *)
LEMMA TextsBelow ==
  ASSUME NEW o \in Seq(STRING), NEW n \in Seq(STRING), o # <<>>
  PROVE  TextBelow(Text(o), Text(n)) <=> IsStrictPrefix(o, n)
<1> DEFINE a == Text(o)
           b == Text(n)
           k == Len(o)
<1>1. a.names = o /\ b.names = n /\ k \in Nat /\ Len(n) \in Nat
  BY DEF Text
<1>2. /\ \A i \in 1..(k + 1) : a.slashes[i] = IF i <= k THEN 1 ELSE 0
      /\ \A i \in 1..(Len(n) + 1) : b.slashes[i] = IF i <= Len(n) \/ n = <<>> THEN 1 ELSE 0
  BY DEF Text
<1> HIDE DEF a, b
<1>3. TextBelow(a, b) <=> /\ IsPrefix(o, n)
                          /\ \A i \in 1..k : b.slashes[i] = a.slashes[i]
                          /\ b.slashes[k + 1] > a.slashes[k + 1]
  BY <1>1 DEF TextBelow
<1>4. ASSUME IsStrictPrefix(o, n) PROVE TextBelow(a, b)
  <2>1. IsPrefix(o, n) /\ k + 1 <= Len(n)
    BY <1>4, PrefixIsSubSeq DEF IsStrictPrefix
  <2>2. \A i \in 1..k : a.slashes[i] = 1 /\ b.slashes[i] = 1
    BY <1>1, <1>2, <2>1
  <2>3. a.slashes[k + 1] = 0 /\ b.slashes[k + 1] = 1
    BY <1>1, <1>2, <2>1
  <2> QED BY <1>3, <2>1, <2>2, <2>3
<1>5. ASSUME TextBelow(a, b) PROVE IsStrictPrefix(o, n)
  <2>1. IsPrefix(o, n) /\ b.slashes[k + 1] > a.slashes[k + 1]
    BY <1>3, <1>5
  <2>2. a.slashes[k + 1] = 0
    BY <1>1, <1>2
  <2>3. o # n
    <3> SUFFICES ASSUME o = n PROVE FALSE
      OBVIOUS
    <3>1. b = a
      BY DEF a, b
    <3> QED BY <2>1, <2>2, <3>1
  <2> QED BY <2>1, <2>3 DEF IsStrictPrefix
<1> QED
  BY <1>4, <1>5 DEF a, b

(* The check of the strings finds every move of a directory into itself if  *)
(* both are as normalize() writes them.                                     *)
LEMMA RenameFacts ==
  ASSUME NEW f, GoodFS(f), NEW old, NEW new,
         old.names \in Seq(STRING), new.names \in Seq(STRING)
  PROVE  /\ Outcome(f, Rename(f, old, new))
         /\ Relocates(f, Rename(f, old, new).fs, old.names, new.names)
         /\ (old = Text(old.names) /\ new = Text(new.names)) =>
              Conserves(f, Rename(f, old, new).fs, new.names)
<1> DEFINE T == f.tree
           c == RenamingChecks(T, old, new)
           o == old.names
           n == new.names
           g == FSOf(Moved(T, o, n), f.nextIno)
           r == Result(FirstError(c), f, Moved(T, o, n), f.nextIno)
<1>1. Rename(f, old, new) = IF old = new THEN [err |-> "ok", fs |-> f] ELSE r
  BY DEF Rename, RenamingChecks
<1>2. /\ c \in Checks
      /\ Passes(c) <=> /\ o # <<>> /\ Passes(ParentDir(T, o)) /\ o \in DOMAIN T
                       /\ ~(IsDir(T, o) /\ TextBelow(old, new))
                       /\ n # <<>> /\ Passes(ParentDir(T, n))
                       /\ ~(IsDir(T, n) /\ HasChildren(T, n))
  BY RenameChecks
<1> HIDE DEF c
<1>3. CASE old = new
  <2>1. Rename(f, old, new).err = "ok" /\ Rename(f, old, new).fs = f
    BY <1>1, <1>3
  <2> QED BY <2>1, NothingRelocated DEF Outcome
<1>4. CASE old # new /\ Passes(c)
  <2>1. \A s \in Seq(STRING) : IsPrefix(s, n) /\ s # n => IsDir(T, s)
    BY <1>2, <1>4, ParentAbove
  <2>2. GoodFS([tree |-> Moved(T, o, n), nextIno |-> f.nextIno])
    BY <1>2, <1>4, <2>1, MovedGood
  <2>3. GoodFS(g)
    BY <2>2 DEF FSOf
  <2>4. r.fs = g /\ Outcome(f, r)
    <3>1. Passes(c) => GoodFS(FSOf(Moved(T, o, n), f.nextIno))
      BY <2>3
    <3> QED BY <1>2, <1>4, <3>1, ResultFacts
  <2>5. /\ Relocates(f, g, o, n)
        /\ ~IsStrictPrefix(o, n) => Conserves(f, g, n)
    BY <1>2, <1>4, MovedRelocates
  <2>6. ASSUME old = Text(o), new = Text(n) PROVE ~IsStrictPrefix(o, n)
    <3> SUFFICES ASSUME IsStrictPrefix(o, n) PROVE FALSE
      OBVIOUS
    <3>1. IsPrefix(o, n) /\ o # n
      BY DEF IsStrictPrefix
    <3>2. IsDir(T, o)
      BY <2>1, <3>1
    <3>3. TextBelow(old, new)
      BY <1>2, <1>4, <2>6, TextsBelow
    <3> QED BY <1>2, <1>4, <3>2, <3>3
  <2> HIDE DEF g, r
  <2> QED BY <1>1, <1>4, <2>4, <2>5, <2>6
<1>5. CASE old # new /\ ~Passes(c)
  <2>1. r.fs = f /\ Outcome(f, r)
    <3>1. Passes(c) => GoodFS(FSOf(Moved(T, o, n), f.nextIno))
      BY <1>5
    <3> QED BY <1>2, <1>5, <3>1, ResultFacts
  <2> HIDE DEF r
  <2> QED BY <1>1, <1>5, <2>1, NothingRelocated
<1> QED
  BY <1>3, <1>4, <1>5

------------------------------------------------------------------------------
(* mkdir, recursive.  The function of the turns of its loop exists.         *)

MakingDirs(m, f, p, mode, l) ==
  m = [i \in 0..l |-> IF i = 0 THEN [err |-> "ok", fs |-> f]
                      ELSE LET r == m[i - 1]
                           IN  IF r.err = "ok" THEN MakeNext(r, SubSeq(p, 1, i), mode) ELSE r]

LEMMA MadeExists ==
  ASSUME NEW f, NEW p, NEW mode, NEW l \in Nat
  PROVE  \E m : MakingDirs(m, f, p, mode, l)
<1> DEFINE Turn(r, i) == IF r.err = "ok" THEN MakeNext(r, SubSeq(p, 1, i), mode) ELSE r
           Start == [err |-> "ok", fs |-> f]
           Made(n, m) == m = [i \in 0..n |-> IF i = 0 THEN Start ELSE Turn(m[i - 1], i)]
           S == {n \in Nat : \E m : Made(n, m)}
<1> HIDE DEF Turn, Start
<1>1. 0 \in S
  <2> DEFINE m == [i \in 0..0 |-> Start]
  <2>1. Made(0, m)
    OBVIOUS
  <2> QED BY <2>1
<1>2. ASSUME NEW n \in S PROVE n + 1 \in S
  <2>1. PICK m : Made(n, m)
    OBVIOUS
  <2> DEFINE g == [i \in 0..(n + 1) |-> IF i = n + 1 THEN Turn(m[n], n + 1) ELSE m[i]]
  <2>2. ASSUME NEW i \in 0..(n + 1) PROVE g[i] = IF i = 0 THEN Start ELSE Turn(g[i - 1], i)
    <3>1. CASE i = n + 1
      BY <3>1
    <3>2. CASE i # n + 1
      BY <2>1, <3>2
    <3> QED BY <3>1, <3>2
  <2>3. Made(n + 1, g)
    BY <2>2
  <2> HIDE DEF Made, g
  <2> QED BY <2>3
<1> HIDE DEF S
<1>3. S = Nat
  <2>1. S \in SUBSET Nat
    BY DEF S
  <2> QED BY <1>1, <1>2, <2>1, Induction
<1> QED
  BY <1>3 DEF S, Turn, Start, MakingDirs

LEMMA MadeDef ==
  ASSUME NEW f, NEW p \in Seq(STRING), NEW mode
  PROVE  /\ MakeAll(f, p, mode)[0] = [err |-> "ok", fs |-> f]
         /\ \A i \in 1..Len(p) :
              MakeAll(f, p, mode)[i] =
                IF MakeAll(f, p, mode)[i - 1].err = "ok"
                THEN MakeNext(MakeAll(f, p, mode)[i - 1], SubSeq(p, 1, i), mode)
                ELSE MakeAll(f, p, mode)[i - 1]
<1> DEFINE m == MakeAll(f, p, mode)
<1>1. m = [i \in 0..Len(p) |->
             IF i = 0 THEN [err |-> "ok", fs |-> f]
             ELSE LET r == m[i - 1]
                  IN  IF r.err = "ok" THEN MakeNext(r, SubSeq(p, 1, i), mode) ELSE r]
  <2>1. \E g : MakingDirs(g, f, p, mode, Len(p))
    <3>1. Len(p) \in Nat
      OBVIOUS
    <3> QED BY <3>1, MadeExists
  <2>2. m = CHOOSE g : MakingDirs(g, f, p, mode, Len(p))
    BY DEF MakeAll, MakingDirs
  <2> HIDE DEF m
  <2>3. MakingDirs(m, f, p, mode, Len(p))
    BY <2>1, <2>2
  <2> QED BY <2>3 DEF MakingDirs
<1> HIDE DEF m
<1>2. Len(p) \in Nat
  OBVIOUS
<1> DEFINE turn == [i \in 0..Len(p) |->
                      IF i = 0 THEN [err |-> "ok", fs |-> f]
                      ELSE LET r == m[i - 1]
                           IN  IF r.err = "ok" THEN MakeNext(r, SubSeq(p, 1, i), mode) ELSE r]
<1>5. m = turn
  BY <1>1
<1>6. turn[0] = [err |-> "ok", fs |-> f]
  BY <1>2
<1>7. ASSUME NEW i \in 1..Len(p)
      PROVE  turn[i] = IF m[i - 1].err = "ok" THEN MakeNext(m[i - 1], SubSeq(p, 1, i), mode)
                                               ELSE m[i - 1]
  <2>1. i \in 0..Len(p) /\ i # 0
    BY <1>2
  <2> QED BY <2>1
<1> HIDE DEF turn
<1>3. m[0] = [err |-> "ok", fs |-> f]
  BY <1>5, <1>6
<1>4. ASSUME NEW i \in 1..Len(p)
      PROVE  m[i] = IF m[i - 1].err = "ok" THEN MakeNext(m[i - 1], SubSeq(p, 1, i), mode)
                                            ELSE m[i - 1]
  BY <1>5, <1>7
<1> QED
  BY <1>3, <1>4 DEF m

(* After i turns: the directories up to there exist, what was there before  *)
(* is there, and after an error nothing has been made.                      *)
MadeUpTo(f, p, i, r) ==
  /\ r = [err |-> r.err, fs |-> r.fs]
  /\ r.err \in {"ok", "ENOTDIR"}
  /\ GoodFS(r.fs) /\ r.fs.nextIno >= f.nextIno
  /\ r.err # "ok" => r.fs = f
  /\ r.err = "ok" => /\ \A j \in 0..i : IsDir(r.fs.tree, SubSeq(p, 1, j))
                     /\ r.fs = f \/ SubSeq(p, 1, i) \notin DOMAIN f.tree
  /\ \A q \in DOMAIN f.tree : q \in DOMAIN r.fs.tree /\ r.fs.tree[q] = f.tree[q]
  /\ \A q \in DOMAIN r.fs.tree \ DOMAIN f.tree :
       IsPrefix(q, p) /\ r.fs.tree[q].ino >= f.nextIno /\ r.fs.tree[q].kind = "dir"

LEMMA MakeNextFacts ==
  ASSUME NEW f, GoodFS(f), NEW p \in Seq(STRING), NEW mode \in Mode, NEW i \in Nat,
         i + 1 \in 1..Len(p), NEW r, MadeUpTo(f, p, i, r), r.err = "ok"
  PROVE  MadeUpTo(f, p, i + 1, MakeNext(r, SubSeq(p, 1, i + 1), mode))
<1> DEFINE q == SubSeq(p, 1, i + 1)
           T == r.fs.tree
           n == Dir(r.fs.nextIno, mode)
           k == r.fs.nextIno + 1
           g == PutIn(r.fs, q, n, k)
           s == MakeNext(r, q, mode)
<1> USE DEF MadeUpTo
<1>1. /\ q \in Seq(STRING) /\ Len(q) = i + 1 /\ IsPrefix(q, p)
      /\ i + 1 \in 0..Len(p) /\ i \in 0..Len(p) /\ Len(p) \in Nat
  <2>1. i + 1 \in 0..Len(p) /\ i \in 0..Len(p) /\ Len(p) \in Nat
    OBVIOUS
  <2> QED BY <2>1, SubSeqFacts, PrefixIsSubSeq
<1>2. /\ SubSeq(p, 1, i) \in Seq(STRING) /\ IsPrefix(SubSeq(p, 1, i), q) /\ SubSeq(p, 1, i) # q
  <2>1. SubSeq(p, 1, i) \in Seq(STRING) /\ Len(SubSeq(p, 1, i)) = i
        /\ IsPrefix(SubSeq(p, 1, i), p)
    BY <1>1, SubSeqFacts, PrefixIsSubSeq
  <2> HIDE DEF q
  <2>2. Len(SubSeq(p, 1, i)) <= Len(q) /\ Len(SubSeq(p, 1, i)) # Len(q)
    BY <1>1, <2>1
  <2> QED BY <1>1, <2>1, <2>2, PrefixesNest
<1>3. \A a \in Seq(STRING) : IsPrefix(a, q) /\ a # q => IsDir(T, a)
  <2> SUFFICES ASSUME NEW a \in Seq(STRING), IsPrefix(a, q), a # q PROVE IsDir(T, a)
    OBVIOUS
  <2> HIDE DEF q
  <2>1. Len(a) < Len(q) /\ Len(a) \in Nat
    BY <1>1, PrefixIsSubSeq
  <2>2. IsPrefix(a, p)
    BY <1>1, PrefixTransitive
  <2>3. a = SubSeq(p, 1, Len(a)) /\ Len(a) \in 0..i
    BY <1>1, <2>1, <2>2, PrefixIsSubSeq
  <2> QED BY <2>3
<1>4. q \in DOMAIN f.tree => r.fs = f
  <2> SUFFICES ASSUME q \in DOMAIN f.tree PROVE SubSeq(p, 1, i) \in DOMAIN f.tree
    OBVIOUS
  <2> QED BY <1>2, GoodIsProper DEF Proper, IsDir
<1>5. (0..(i + 1)) = (0..i) \union {i + 1}
  OBVIOUS
<1>6. GoodFS(r.fs) /\ r.fs.nextIno \in Nat /\ k \in Nat /\ k >= r.fs.nextIno
      /\ r.fs.nextIno >= f.nextIno /\ f.nextIno \in Nat
  BY GoodTypes
<1>7. CASE IsFile(T, q)
  <2>1. r.fs = f
    BY <1>4, <1>7 DEF IsFile
  <2>2. s = [r EXCEPT !.err = "ENOTDIR"]
    BY <1>7 DEF MakeNext
  <2>3. s = [err |-> "ENOTDIR", fs |-> r.fs]
    BY <2>2
  <2> HIDE DEF s, q
  <2> QED BY <1>6, <2>1, <2>3 DEF s, q
<1>8. CASE IsDir(T, q)
  <2>1. s = r
    BY <1>8 DEF MakeNext, IsFile, IsDir
  <2>2. \A j \in 0..(i + 1) : IsDir(T, SubSeq(p, 1, j))
    BY <1>5, <1>8
  <2> HIDE DEF s
  <2> QED BY <1>4, <2>1, <2>2 DEF s
<1>9. CASE ~IsFile(T, q) /\ ~IsDir(T, q)
  <2>1. s = [err |-> "ok", fs |-> g]
    BY <1>9 DEF MakeNext, Result, PutIn, FSOf
  <2>2. q \notin DOMAIN T
    <3>1. q \in DOMAIN T => T[q].kind \in {"file", "dir"}
      BY <1>6, GoodTypes
    <3> QED BY <1>9, <3>1 DEF IsFile, IsDir
  <2>3. n \in Node /\ n.ino = r.fs.nextIno /\ n.kind = "dir" /\ n.size = Len(n.data)
    BY <1>6, DirFacts
  <2> HIDE DEF n, q
  <2>4. n.ino < k /\ n.ino >= r.fs.nextIno /\ n.ino >= f.nextIno
    BY <1>6, <2>3
  <2>5. GoodFS(g)
    BY <1>1, <1>3, <1>6, <2>2, <2>3, <2>4, PutGood DEF PutIn, FSOf
  <2>6. /\ g.nextIno = k
        /\ DOMAIN g.tree = DOMAIN T \union {q}
        /\ \A x \in DOMAIN g.tree : g.tree[x] = IF x = q THEN n ELSE T[x]
    BY DEF PutIn, FSOf, With
  <2> HIDE DEF g
  <2>7. \A x \in DOMAIN T : x \in DOMAIN g.tree /\ g.tree[x] = T[x]
    BY <2>2, <2>6
  <2>8. ASSUME NEW j \in 0..(i + 1) PROVE IsDir(g.tree, SubSeq(p, 1, j))
    <3>1. CASE j = i + 1
      BY <2>3, <2>6, <3>1 DEF IsDir, q
    <3>2. CASE j # i + 1
      BY <1>5, <2>7, <3>2 DEF IsDir
    <3> QED BY <3>1, <3>2
  <2>9. q \notin DOMAIN f.tree
    BY <2>2
  <2>10. \A x \in DOMAIN f.tree : x \in DOMAIN g.tree /\ g.tree[x] = f.tree[x]
    BY <2>7
  <2>11. ASSUME NEW x \in DOMAIN g.tree \ DOMAIN f.tree
         PROVE  IsPrefix(x, p) /\ g.tree[x].ino >= f.nextIno /\ g.tree[x].kind = "dir"
    <3>1. CASE x = q
      BY <1>1, <2>3, <2>4, <2>6, <3>1
    <3>2. CASE x # q
      BY <2>6, <3>2
    <3> QED BY <3>1, <3>2
  <2>12. k >= f.nextIno
    BY <1>6
  <2>13. s.err = "ok" /\ s.fs = g /\ s = [err |-> s.err, fs |-> s.fs]
    BY <2>1
  <2> HIDE DEF s
  <2> QED BY <2>5, <2>6, <2>8, <2>9, <2>10, <2>11, <2>12, <2>13 DEF s, q
<1> QED
  BY <1>7, <1>8, <1>9

LEMMA MakeAllFacts ==
  ASSUME NEW f, GoodFS(f), NEW p \in Seq(STRING), NEW mode \in Mode
  PROVE  MadeUpTo(f, p, Len(p), MakeAll(f, p, mode)[Len(p)])
<1> DEFINE made == MakeAll(f, p, mode)
           S == {i \in Nat : i <= Len(p) => MadeUpTo(f, p, i, made[i])}
<1>1. /\ made[0] = [err |-> "ok", fs |-> f]
      /\ \A i \in 1..Len(p) :
           made[i] = IF made[i - 1].err = "ok" THEN MakeNext(made[i - 1], SubSeq(p, 1, i), mode)
                                               ELSE made[i - 1]
  BY MadeDef
<1> HIDE DEF made
<1>2. 0 \in S
  <2>1. IsDir(f.tree, <<>>)
    BY GoodIsProper DEF Proper
  <2>2. \A j \in 0..0 : j = 0
    OBVIOUS
  <2>3. SubSeq(p, 1, 0) = <<>>
    BY SubSeqEmpty
  <2>4. f.nextIno \in Nat /\ f.nextIno >= f.nextIno
    BY GoodTypes
  <2>5. MadeUpTo(f, p, 0, made[0])
    <3> DEFINE m == made[0]
    <3>1. m = [err |-> "ok", fs |-> f]
      BY <1>1
    <3>2. m.err = "ok" /\ m.fs = f /\ m = [err |-> m.err, fs |-> m.fs]
      BY <3>1
    <3>3. \A j \in 0..0 : IsDir(f.tree, SubSeq(p, 1, j))
      BY <2>1, <2>2, <2>3
    <3> HIDE DEF m
    <3>4. MadeUpTo(f, p, 0, m)
      BY <2>4, <3>2, <3>3 DEF MadeUpTo
    <3> QED BY <3>4 DEF m
  <2> QED BY <2>5
<1>3. ASSUME NEW i \in S PROVE i + 1 \in S
  <2> SUFFICES ASSUME i + 1 <= Len(p) PROVE MadeUpTo(f, p, i + 1, made[i + 1])
    OBVIOUS
  <2>1. i \in Nat /\ i + 1 \in 1..Len(p) /\ i <= Len(p) /\ (i + 1) - 1 = i
    OBVIOUS
  <2>2. MadeUpTo(f, p, i, made[i])
    BY <2>1
  <2>3. made[i + 1] = IF made[i].err = "ok" THEN MakeNext(made[i], SubSeq(p, 1, i + 1), mode)
                                            ELSE made[i]
    BY <1>1, <2>1
  <2>4. CASE made[i].err = "ok"
    BY <2>1, <2>2, <2>3, <2>4, MakeNextFacts
  <2>5. CASE made[i].err # "ok"
    BY <2>2, <2>3, <2>5 DEF MadeUpTo
  <2> QED BY <2>4, <2>5
<1> HIDE DEF S
<1>4. S = Nat
  <2>1. S \in SUBSET Nat
    BY DEF S
  <2> QED BY <1>2, <1>3, <2>1, Induction
<1>5. Len(p) \in S /\ Len(p) <= Len(p)
  <2>1. Len(p) \in Nat
    OBVIOUS
  <2> QED BY <1>4, <2>1
<1> QED
  BY <1>5 DEF S, made

LEMMA MkdirAllFacts ==
  ASSUME NEW f, GoodFS(f), NEW p \in Seq(STRING), NEW mode \in Mode
  PROVE  /\ Outcome(f, MkdirAll(f, p, mode))
         /\ Touches(f, MkdirAll(f, p, mode).fs, p)
         /\ KeepsTime(f, MkdirAll(f, p, mode).fs, p)
<1> DEFINE made == MakeAll(f, p, mode)[Len(p)]
           n == WithMode(made.fs.tree[p], mode)
           k == made.fs.nextIno
           g == PutIn(made.fs, p, n, k)
           r == MkdirAll(f, p, mode)
<1>1. MadeUpTo(f, p, Len(p), made)
  BY MakeAllFacts
<1>2. r = IF p = <<>> \/ made.err # "ok" THEN made ELSE [made EXCEPT !.fs.tree[p].mode = mode]
  BY DEF MkdirAll
<1> HIDE DEF made, r
<1>3. /\ made.err \in Errno \union {"ok"} /\ GoodFS(made.fs)
      /\ \A q \in DOMAIN f.tree : q \in DOMAIN made.fs.tree /\ made.fs.tree[q] = f.tree[q]
      /\ \A q \in DOMAIN made.fs.tree \ DOMAIN f.tree :
           IsPrefix(q, p) /\ made.fs.tree[q].ino >= f.nextIno
  BY <1>1 DEF MadeUpTo, Errno
<1>4. CASE p = <<>> \/ made.err # "ok"
  <2>1. r = made
    BY <1>2, <1>4
  <2>2. Outcome(f, made)
    BY <1>1, <1>3 DEF MadeUpTo, Outcome
  <2>3. Touches(f, made.fs, p)
    BY <1>3 DEF Touches
  <2>4. KeepsTime(f, made.fs, p)
    BY <1>3 DEF KeepsTime, Same
  <2> QED BY <2>1, <2>2, <2>3, <2>4 DEF r
<1>5. CASE p # <<>> /\ made.err = "ok"
  <2>1. IsDir(made.fs.tree, p)
    <3>1. SubSeq(p, 1, Len(p)) = p /\ Len(p) \in 0..Len(p)
      OBVIOUS
    <3> QED BY <1>1, <1>5, <3>1 DEF MadeUpTo
  <2>2. made.fs.tree[p] \in Node /\ made.fs.tree[p].size = Len(made.fs.tree[p].data)
        /\ k \in Nat /\ made.fs.tree[p].ino < k
    BY <1>3, <2>1, GoodTypes DEF IsDir, GoodFS, Measured, Numbered
  <2>3. /\ n \in Node /\ n.ino = made.fs.tree[p].ino /\ n.kind = made.fs.tree[p].kind
        /\ n.data = made.fs.tree[p].data /\ n.size = made.fs.tree[p].size
        /\ n.mtime = made.fs.tree[p].mtime
    BY <2>2, SetMode
  <2>4. r.err = "ok" /\ r.fs = g
    <3>1. made = [err |-> made.err, fs |-> made.fs]
      BY <1>1 DEF MadeUpTo
    <3>2. made.fs = [tree |-> made.fs.tree, nextIno |-> made.fs.nextIno]
      BY <1>3 DEF GoodFS, Typed
    <3> DEFINE U == [made.fs.tree EXCEPT ![p] = n]
    <3>3. U = With(made.fs.tree, p, n)
      <4>1. p \in DOMAIN made.fs.tree /\ made.fs.tree = [q \in DOMAIN made.fs.tree |-> made.fs.tree[q]]
        BY <1>3, <2>1 DEF IsDir, GoodFS, Typed
      <4> HIDE DEF n
      <4> QED BY <4>1 DEF With
    <3>4. [made EXCEPT !.fs.tree[p].mode = mode]
            = [made EXCEPT !.fs = [made.fs EXCEPT !.tree = U]]
      BY DEF WithMode
    <3> HIDE DEF U
    <3>5. [made.fs EXCEPT !.tree = U] = FSOf(U, made.fs.nextIno)
      BY <3>2 DEF FSOf
    <3>6. r = [made EXCEPT !.fs = FSOf(U, made.fs.nextIno)]
      BY <1>2, <1>5, <3>4, <3>5
    <3>7. r.err = made.err /\ r.fs = FSOf(U, made.fs.nextIno)
      BY <3>1, <3>6
    <3> QED BY <1>5, <3>3, <3>7 DEF PutIn
  <2> HIDE DEF n, k
  <2>5. GoodFS(g)
    <3>1. \A s \in Seq(STRING) : IsPrefix(s, p) /\ s # p => IsDir(made.fs.tree, s)
      BY <1>3, <2>1, GoodIsProper DEF Proper, IsDir
    <3>2. /\ n.ino < k /\ n.size = Len(n.data) /\ n.kind = "dir" /\ k >= made.fs.nextIno
          /\ p \in DOMAIN made.fs.tree /\ n.ino = made.fs.tree[p].ino
      BY <2>1, <2>2, <2>3 DEF IsDir, k
    <3> QED BY <1>3, <2>2, <2>3, <3>1, <3>2, PutGood DEF PutIn, FSOf
  <2>6. /\ DOMAIN g.tree = DOMAIN made.fs.tree
        /\ \A q \in DOMAIN g.tree : g.tree[q] = IF q = p THEN n ELSE made.fs.tree[q]
    BY <2>1 DEF PutIn, FSOf, With, IsDir
  <2> HIDE DEF g
  <2>7. Outcome(f, r)
    BY <2>4, <2>5 DEF Outcome
  <2>8. Touches(f, g, p)
    BY <1>3, <2>3, <2>6 DEF Touches
  <2>9. KeepsTime(f, g, p)
    BY <1>3, <2>3, <2>6 DEF KeepsTime, Same
  <2> QED BY <2>4, <2>7, <2>8, <2>9 DEF r
<1> QED
  BY <1>4, <1>5

------------------------------------------------------------------------------
(* What the operations answer that only read.                               *)

LEMMA ReadFileFacts ==
  ASSUME NEW f, GoodFS(f), NEW p
  PROVE  /\ ReadFile(f, p).err \in Errno \union {"ok"}
         /\ ReadFile(f, p).err = "ok" <=> IsFile(f.tree, p)
         /\ ReadFile(f, p).err = "ok" => ReadFile(f, p).data \in Seq(0..255)
<1> DEFINE T == f.tree
           b == << <<IsDir(T, p), "EISDIR">> >>
           c == WalkTo(T, p) \o b
           err == FirstError(c)
<1>1. c \in Checks /\ (Passes(c) <=> p \in DOMAIN T /\ ~IsDir(T, p))
  <2>1. b \in Checks /\ (Passes(b) <=> ~IsDir(T, p))
    <3>1. IsDir(T, p) \in BOOLEAN /\ "EISDIR" \in Errno
      BY DEF IsDir, Errno
    <3> QED BY <3>1, NoCheck
  <2> HIDE DEF b
  <2> QED BY <2>1, WalkChecks, MoreChecks
<1> HIDE DEF c
<1>2. err \in Errno \union {"ok"} /\ (err = "ok" <=> Passes(c))
  BY <1>1, FirstErrorFacts
<1> HIDE DEF err
<1>3. ReadFile(f, p) = [err |-> err, data |-> IF err = "ok" THEN T[p].data ELSE <<>>]
  BY DEF ReadFile, err, c
<1>4. ReadFile(f, p).err = err /\ (err = "ok" => ReadFile(f, p).data = T[p].data)
  BY <1>3
<1>5. p \in DOMAIN T => T[p].kind \in {"file", "dir"} /\ T[p].data \in Seq(0..255)
  BY GoodTypes
<1>6. (p \in DOMAIN T /\ ~IsDir(T, p)) <=> IsFile(T, p)
  BY <1>5 DEF IsFile, IsDir
<1> QED
  BY <1>1, <1>2, <1>4, <1>5, <1>6

LEMMA StatFacts ==
  ASSUME NEW f, GoodFS(f), NEW p
  PROVE  /\ Stat(f, p).err = "ok" <=> p \in DOMAIN f.tree
         /\ Stat(f, p).kind = "file" <=> IsFile(f.tree, p)
         /\ Stat(f, p).kind = "dir" <=> IsDir(f.tree, p)
         /\ p \in DOMAIN f.tree => Stat(f, p).mode = f.tree[p].mode
<1> DEFINE T == f.tree
           err == FirstError(WalkTo(T, p))
<1>1. err = "ok" <=> p \in DOMAIN T
  <2>1. WalkTo(T, p) \in Checks /\ (Passes(WalkTo(T, p)) <=> p \in DOMAIN T)
    BY WalkChecks
  <2> QED BY <2>1, FirstErrorFacts
<1> HIDE DEF err
<1>2. Stat(f, p) = [err  |-> err,
                    kind |-> IF err = "ok" THEN T[p].kind ELSE "none",
                    mode |-> IF err = "ok" THEN T[p].mode ELSE {}]
  BY DEF Stat, err
<1> QED
  BY <1>1, <1>2 DEF IsFile, IsDir

LEMMA AccessFacts ==
  ASSUME NEW f, NEW p, NEW mode
  PROVE  Access(f, p, mode) = "ok" <=> p \in DOMAIN f.tree /\ mode \subseteq f.tree[p].mode
<1> DEFINE T == f.tree
           denied == p \in DOMAIN T /\ ~(mode \subseteq T[p].mode)
           b == << <<denied, "EACCES">> >>
           c == WalkTo(T, p) \o b
<1>1. c \in Checks /\ (Passes(c) <=> p \in DOMAIN T /\ mode \subseteq T[p].mode)
  <2>1. b \in Checks /\ (Passes(b) <=> ~denied)
    <3>1. denied \in BOOLEAN /\ "EACCES" \in Errno
      BY DEF Errno
    <3> HIDE DEF denied
    <3> QED BY <3>1, NoCheck
  <2>2. p \in DOMAIN T => (~denied <=> mode \subseteq T[p].mode)
    OBVIOUS
  <2> HIDE DEF b, denied
  <2> QED BY <2>1, <2>2, WalkChecks, MoreChecks
<1>2. Access(f, p, mode) = FirstError(c)
  BY DEF Access
<1> HIDE DEF c
<1> QED
  BY <1>1, <1>2, FirstErrorFacts

LEMMA ReaddirFacts ==
  ASSUME NEW f, GoodFS(f), NEW p \in Seq(STRING)
  PROVE  /\ Readdir(f, p).err = "ok" <=> IsDir(f.tree, p)
         /\ \A n \in STRING : n \in Readdir(f, p).names <=> Append(p, n) \in DOMAIN f.tree
<1> DEFINE T == f.tree
           b == << <<IsFile(T, p), "ENOTDIR">> >>
           c == WalkTo(T, p) \o b
           children == {q \in Below(T, p) : Len(q) = Len(p) + 1}
           names == {Last(q) : q \in children}
<1>1. c \in Checks /\ (Passes(c) <=> p \in DOMAIN T /\ ~IsFile(T, p))
  <2>1. b \in Checks /\ (Passes(b) <=> ~IsFile(T, p))
    <3>1. IsFile(T, p) \in BOOLEAN /\ "ENOTDIR" \in Errno
      BY DEF IsFile, Errno
    <3> QED BY <3>1, NoCheck
  <2> HIDE DEF b
  <2> QED BY <2>1, WalkChecks, MoreChecks
<1>2. Readdir(f, p) = [err |-> FirstError(c), names |-> names]
  BY DEF Readdir
<1> HIDE DEF c
<1>3. FirstError(c) = "ok" <=> IsDir(T, p)
  <2>1. p \in DOMAIN T => T[p].kind \in {"file", "dir"}
    BY GoodTypes
  <2> QED BY <1>1, <2>1, FirstErrorFacts DEF IsFile, IsDir
<1>4. ASSUME NEW n \in STRING PROVE n \in names <=> Append(p, n) \in DOMAIN T
  <2> DEFINE q == Append(p, n)
  <2>1. /\ q \in Seq(STRING) /\ Len(q) = Len(p) + 1 /\ q[Len(p) + 1] = n
        /\ \A i \in 1..Len(p) : q[i] = p[i]
        /\ Len(p) \in Nat
    BY AppendProperties
  <2> HIDE DEF q
  <2>2. IsPrefix(p, q) /\ Last(q) = n
    <3>1. Len(p) <= Len(q)
      BY <2>1
    <3> QED BY <2>1, <3>1, PrefixFacts DEF Last
  <2>3. ASSUME q \in DOMAIN T PROVE n \in names
    <3>1. q \in children
      BY <2>1, <2>2, <2>3 DEF Below
    <3> QED BY <2>2, <3>1
  <2>4. ASSUME n \in names PROVE q \in DOMAIN T
    <3>1. PICK r \in children : Last(r) = n
      BY <2>4
    <3>2. r \in DOMAIN T /\ r \in Seq(STRING) /\ IsPrefix(p, r) /\ Len(r) = Len(p) + 1
      BY GoodTypes DEF Below
    <3>3. \A i \in 1..Len(p) : p[i] = r[i]
      BY <3>2, PrefixFacts
    <3>4. r[Len(p) + 1] = n
      BY <3>1, <3>2 DEF Last
    <3>5. ASSUME NEW i \in 1..Len(q) PROVE q[i] = r[i]
      <4>1. CASE i = Len(p) + 1
        BY <2>1, <3>4, <4>1
      <4>2. CASE i # Len(p) + 1
        BY <2>1, <3>3, <4>2
      <4> QED BY <4>1, <4>2
    <3>6. q = r
      BY <2>1, <3>2, <3>5, SeqEqual
    <3> QED BY <3>2, <3>6
  <2> QED BY <2>3, <2>4 DEF q
<1> HIDE DEF names
<1> QED
  BY <1>2, <1>3, <1>4

------------------------------------------------------------------------------
(* What follows for the tree and its inodes.                                *)

LEMMA EmptyIsGood == GoodFS(EmptyFS)
<1> DEFINE n == Dir(1, {"read", "write", "exec"})
           T == [p \in {<<>>} |-> n]
<1>1. EmptyFS.tree = T /\ EmptyFS.nextIno = 2 /\ EmptyFS = [tree |-> T, nextIno |-> 2]
  BY DEF EmptyFS
<1>2. n \in Node /\ n.ino = 1 /\ n.kind = "dir" /\ n.size = Len(n.data)
  BY DirFacts DEF Mode
<1> HIDE DEF n
<1>3. DOMAIN T = {<<>>} /\ \A p \in DOMAIN T : T[p] = n
  OBVIOUS
<1>4. IsFiniteSet({<<>>})
  BY FS_Singleton
<1>5. Typed(EmptyFS)
  <2>1. T \in [{<<>>} -> Node]
    BY <1>2
  <2>2. <<>> \in Seq(STRING)
    OBVIOUS
  <2> HIDE DEF T
  <2>3. EmptyFS = [tree |-> EmptyFS.tree, nextIno |-> EmptyFS.nextIno]
    BY <1>1
  <2>4. IsFiniteSet(DOMAIN EmptyFS.tree) /\ DOMAIN EmptyFS.tree \subseteq Seq(STRING)
        /\ EmptyFS.tree \in [DOMAIN EmptyFS.tree -> Node]
    BY <1>1, <1>3, <1>4, <2>1, <2>2
  <2> QED BY <1>1, <2>3, <2>4 DEF Typed
<1> HIDE DEF T
<1>6. Rooted(EmptyFS)
  <2>1. \A i \in 0..(Len(<<>>) - 1) : FALSE
    OBVIOUS
  <2> QED BY <1>1, <1>2, <1>3, <2>1 DEF Rooted, DirsAbove, IsDir
<1>7. Numbered(EmptyFS) /\ Measured(EmptyFS)
  BY <1>1, <1>2, <1>3 DEF Numbered, Measured
<1> QED
  BY <1>5, <1>6, <1>7 DEF GoodFS

LEMMA GoodIsTree ==
  ASSUME NEW f, GoodFS(f)
  PROVE  IsTree(f.tree)
<1>1. Proper(f.tree)
  BY GoodIsProper
<1>2. ASSUME NEW p \in DOMAIN f.tree \ {<<>>} PROVE IsDir(f.tree, Front(p))
  <2>1. p \in Seq(STRING) /\ p # <<>>
    BY GoodTypes
  <2>2. Front(p) \in Seq(STRING) /\ Front(p) = SubSeq(p, 1, Len(p) - 1)
        /\ Len(Front(p)) = Len(p) - 1 /\ Len(p) >= 1
    BY <2>1, FrontFacts
  <2>3. Len(p) - 1 \in 0..Len(p) /\ Len(p) - 1 # Len(p)
    BY <2>1, <2>2
  <2>4. IsPrefix(Front(p), p)
    BY <2>1, <2>2, <2>3, PrefixIsSubSeq
  <2>5. Front(p) # p
    BY <2>2, <2>3
  <2> QED BY <1>1, <2>2, <2>4, <2>5 DEF Proper
<1> QED
  BY <1>1, <1>2 DEF IsTree, Proper

LEMMA GoodInos ==
  ASSUME NEW f, GoodFS(f)
  PROVE  /\ Cardinality(Inos(f)) = Cardinality(DOMAIN f.tree)
         /\ \A i \in Inos(f) : i < f.nextIno
<1> DEFINE T == f.tree
           h == [p \in DOMAIN T |-> T[p].ino]
<1>1. IsFiniteSet(DOMAIN T)
  BY DEF GoodFS, Typed
<1>2. \A p, q \in DOMAIN T : T[p].ino = T[q].ino => p = q
  BY DEF GoodFS, Numbered
<1>3. h \in Bijection(DOMAIN T, Inos(f))
  <2>1. h \in [DOMAIN T -> Inos(f)]
    BY DEF Inos
  <2>2. \A i \in Inos(f) : \E p \in DOMAIN T : h[p] = i
    BY DEF Inos
  <2>3. \A p, q \in DOMAIN T : h[p] = h[q] => p = q
    BY <1>2
  <2> HIDE DEF h
  <2> QED BY <2>1, <2>2, <2>3 DEF Bijection, Injection, Surjection, IsInjective
<1>4. ExistsBijection(DOMAIN T, Inos(f))
  BY <1>3 DEF ExistsBijection
<1>5. \A i \in Inos(f) : i < f.nextIno
  BY DEF GoodFS, Numbered, Inos
<1> QED
  BY <1>1, <1>4, <1>5, FS_Bijection

(* What a rename may do to the inodes of a backend.                         *)
LEMMA RenameInos ==
  ASSUME NEW f, GoodFS(f), NEW g, GoodFS(g), NEW old, NEW new, NEW lost,
         Relocates(f, g, old, new), Conserves(f, g, lost)
  PROVE  /\ Inos(g) \subseteq Inos(f)
         /\ Cardinality(Inos(f) \ Inos(g)) <= 1
         /\ \A p \in DOMAIN f.tree :
              f.tree[p].ino \in Inos(f) \ Inos(g) => ~HasChildren(f.tree, p)
<1>1. Inos(g) \subseteq Inos(f)
  BY DEF Relocates, Inos
<1>2. ASSUME NEW p \in DOMAIN f.tree, f.tree[p].ino \notin Inos(g)
      PROVE  p = lost /\ ~HasChildren(f.tree, p)
  BY <1>2 DEF Conserves, Inos
<1>3. Inos(f) \ Inos(g) \subseteq {f.tree[lost].ino}
  BY <1>2 DEF Inos
<1>4. Cardinality(Inos(f) \ Inos(g)) <= 1
  <2> DEFINE S == {f.tree[lost].ino}
  <2>1. IsFiniteSet(S) /\ Cardinality(S) = 1
    BY FS_Singleton
  <2> HIDE DEF S
  <2>2. Cardinality(Inos(f) \ Inos(g)) <= Cardinality(S)
    BY <1>3, <2>1, FS_Subset DEF S
  <2> QED BY <2>1, <2>2
<1> QED
  BY <1>1, <1>2, <1>4
==============================================================================
