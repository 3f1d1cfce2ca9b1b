----------------------------- MODULE FilesProofs -----------------------------
(***************************************************************************)
(* Proofs about file operations, for any trees with links, any paths and   *)
(* any step failing: the file system stays a tree, an operation on text    *)
(* does what it is asked and changes no other file, a copy or a move that  *)
(* returns has copied every file, and no operation loses a text that it    *)
(* was not called to replace or remove; of copy and move the last two are  *)
(* shown where there is no link at or below the destination.               *)
(*                                                                         *)
(* What a path leads to is shown by induction on the number of its names   *)
(* (Ascend), for sets of numbers.                                          *)
(***************************************************************************)
EXTENDS Files, SequenceTheorems, WellFoundedInduction, TLAPS

Path == Seq(Words)
Lines == Seq(Path)

-----------------------------------------------------------------------------
(* Induction and recursion                                                 *)

\* Induction on the numbers up to N, by sets.
LEMMA Ascend ==
  ASSUME NEW N \in Nat, NEW S \in SUBSET (0..N), 0 \in S,
         \A n \in S : n < N => n + 1 \in S
  PROVE  S = 0..N
<1> DEFINE R == (0..N) \ S
           Less == OpToRel(<, Nat)
<1> SUFFICES ASSUME R # {}
             PROVE  FALSE
  OBVIOUS
<1>1. R \in SUBSET Nat
  OBVIOUS
<1>2. \A m, n \in Nat : m < n => <<m, n>> \in Less
  BY DEF OpToRel
<1>3. IsWellFoundedOn(Less, Nat)
  BY NatLessThanWellFounded
<1> HIDE DEF R, Less
<1>4. PICK n \in R : \A m \in R : <<m, n>> \notin Less
  BY <1>1, <1>3, WFMin
<1>5. \A m \in R : ~(m < n)
  BY <1>1, <1>2, <1>4, Zenon
<1>6. n \in (0..N) \ S
  BY <1>4 DEF R
<1>7. n # 0 /\ n - 1 \in 0..N /\ n - 1 < N /\ n - 1 < n
  BY <1>6
<1>8. n - 1 \in S
  BY <1>5, <1>7 DEF R
<1> QED
  BY <1>6, <1>7, <1>8

\* There is a function of the numbers up to N with a given beginning and step.
Recurs(g, N, T, base, h) ==
  g \in [0..N -> T] /\ g[0] = base /\ \A n \in 1..N : g[n] = h[<<g[n - 1], n>>]

LEMMA Recursion ==
  ASSUME NEW N \in Nat, NEW T, NEW base \in T, NEW h \in [T \X (1..N) -> T]
  PROVE  \E g : Recurs(g, N, T, base, h)
<1> DEFINE Is(g, k) == Recurs(g, k, T, base, h)
           S == {k \in 0..N : \E g : Is(g, k)}
<1>1. 0 \in S
  <2> DEFINE g == [n \in 0..0 |-> base]
  <2>1. g \in [0..0 -> T] /\ g[0] = base /\ 1..0 = {}
    OBVIOUS
  <2> HIDE DEF g
  <2>2. \E q : Is(q, 0)
    BY <2>1 DEF Recurs
  <2>3. 0 \in 0..N
    OBVIOUS
  <2> HIDE DEF Is
  <2> QED
    BY <2>2, <2>3
<1>2. ASSUME NEW k \in S, k < N
      PROVE  k + 1 \in S
  <2>1. k \in Nat /\ k + 1 \in 1..N /\ k + 1 \in 0..N
    <3>1. k \in 0..N
      BY <1>2
    <3> HIDE DEF S
    <3> QED
      BY <1>2, <3>1
  <2>2. PICK g : Is(g, k)
    BY <1>2
  <2> DEFINE h2 == [n \in 0..k + 1 |-> IF n = k + 1 THEN h[<<g[k], k + 1>>] ELSE g[n]]
  <2>3. k \in 0..k /\ h[<<g[k], k + 1>>] \in T
    <3>1. k \in 0..k
      BY <2>1
    <3>2. <<g[k], k + 1>> \in T \X (1..N)
      BY <2>1, <2>2, <3>1 DEF Recurs
    <3> QED
      BY <3>1, <3>2
  <2>4. /\ h2 \in [0..k + 1 -> T]
        /\ \A n \in 0..k : h2[n] = g[n]
        /\ h2[k + 1] = h[<<g[k], k + 1>>]
    BY <2>1, <2>2, <2>3 DEF Recurs
  <2> HIDE DEF h2
  <2>5. h2[0] = base
    BY <2>1, <2>2, <2>4 DEF Recurs
  <2>6. ASSUME NEW n \in 1..k + 1
        PROVE  h2[n] = h[<<h2[n - 1], n>>]
    <3>1. n - 1 \in 0..k /\ (n = k + 1 => n - 1 = k) /\ (n # k + 1 => n \in 1..k /\ n \in 0..k)
      <4> HIDE DEF S, Is
      <4> QED
        BY <2>1
    <3>2. h2[n - 1] = g[n - 1]
      BY <2>4, <3>1
    <3>3. CASE n = k + 1
      BY <2>4, <3>1, <3>2, <3>3
    <3>4. CASE n # k + 1
      <4>1. h2[n] = g[n] /\ g[n] = h[<<g[n - 1], n>>]
        BY <2>2, <2>4, <3>1, <3>4 DEF Recurs
      <4> QED
        BY <3>2, <4>1
    <3> QED
      BY <3>3, <3>4
  <2>7. Is(h2, k + 1)
    BY <2>4, <2>5, <2>6 DEF Recurs
  <2> HIDE DEF Is
  <2> QED
    BY <2>1, <2>7
<1>3. S = 0..N
  <2>1. S \in SUBSET (0..N)
    OBVIOUS
  <2> HIDE DEF S
  <2> QED
    BY <1>1, <1>2, <2>1, Ascend
<1>4. N \in S
  BY <1>3
<1> QED
  BY <1>4

-----------------------------------------------------------------------------
(* Paths                                                                   *)

\* A path is what is before its last name, and that.
LEMMA PathShape ==
  ASSUME NEW path \in Path, path # <<>>
  PROVE  /\ Parent(path) \in Path /\ Last(path) \in Words
         /\ Len(path) \in Nat \ {0} /\ Len(Parent(path)) = Len(path) - 1
         /\ \A k \in 1..Len(path) - 1 : Parent(path)[k] = path[k]
         /\ Last(path) = path[Len(path)]
         /\ Parent(path) = SubSeq(path, 1, Len(path) - 1)
<1>1. Len(path) \in Nat \ {0} /\ \A k \in 1..Len(path) : path[k] \in Words
  BY LenProperties, EmptySeq, ElementOfSeq DEF Path
<1> DEFINE n == Len(path) - 1
<1>2. n \in Nat /\ n + 1 = Len(path) /\ \A k \in 1..n : path[k] \in Words
  BY <1>1
<1>3. Parent(path) = SubSeq(path, 1, n) /\ Last(path) = path[n + 1]
  BY <1>2 DEF Parent, Front, Last
<1>4. n + 1 \in 1..Len(path)
  BY <1>1
<1> HIDE DEF n
<1>5. /\ SubSeq(path, 1, n) \in Path
      /\ Len(SubSeq(path, 1, n)) = IF 1 <= n THEN n - 1 + 1 ELSE 0
      /\ \A k \in 1..n - 1 + 1 : SubSeq(path, 1, n)[k] = path[1 + k - 1]
  BY <1>2, SubSeqProperties DEF Path
<1>6. Len(Parent(path)) = n /\ \A k \in 1..n : Parent(path)[k] = path[k]
  BY <1>2, <1>3, <1>5
<1> QED
  BY <1>1, <1>2, <1>3, <1>4, <1>5, <1>6 DEF n

\* A path below another.
LEMMA ChildShape ==
  ASSUME NEW path \in Path, NEW name \in Words
  PROVE  /\ Child(path, name) \in Path \ {<<>>}
         /\ Parent(Child(path, name)) = path
         /\ Len(Child(path, name)) = Len(path) + 1
<1> DEFINE c == Child(path, name)
<1>1. /\ c \in Path /\ Len(c) = Len(path) + 1 /\ Len(path) \in Nat
      /\ \A k \in 1..Len(path) : c[k] = path[k]
  <2>1. path \in Seq(Words) /\ Len(path) \in Nat
    BY LenProperties DEF Path
  <2>2. /\ Append(path, name) \in Seq(Words) /\ Len(Append(path, name)) = Len(path) + 1
        /\ \A k \in 1..Len(path) : Append(path, name)[k] = path[k]
    BY <2>1, AppendProperties
  <2> QED
    BY <2>1, <2>2 DEF Child, Path
<1> HIDE DEF c
<1>2. c # <<>>
  BY <1>1, EmptySeq DEF Path
<1>3. /\ Parent(c) \in Path /\ Len(Parent(c)) = Len(c) - 1
      /\ \A k \in 1..Len(c) - 1 : Parent(c)[k] = c[k]
  BY <1>1, <1>2, PathShape
<1>4. Parent(c) = path
  <2>1. Len(Parent(c)) = Len(path) /\ \A k \in 1..Len(path) : Parent(c)[k] = path[k]
    BY <1>1, <1>3
  <2> QED
    BY <1>3, <2>1, SeqEqual DEF Path
<1> QED
  BY <1>1, <1>2, <1>4 DEF c

\* The names that directories list, and the paths of such names.
LEMMA NameFacts ==
  /\ Names \in Seq(Words) /\ Len(Names) \in Nat /\ DOMAIN Names = 1..Len(Names)
  /\ \A n \in 1..Len(Names) : Names[n] \in Words \ {"temp"}
  /\ \A m, n \in 1..Len(Names) : Names[m] = Names[n] => m = n
  /\ Range(Names) \subseteq Words \ {"temp"}
  /\ Targets \subseteq Seq(Range(Names)) \ {<<>>}
  /\ Targets \subseteq Path \ {<<>>}
<1>1. /\ Names \in Seq(Words \ {"temp"}) /\ Targets \subseteq Seq(Range(Names)) \ {<<>>}
      /\ IsInjective(Names)
  BY FilesAssumption
<1>2. Len(Names) \in Nat /\ DOMAIN Names = 1..Len(Names)
  BY <1>1, LenProperties
<1>3. \A n \in 1..Len(Names) : Names[n] \in Words \ {"temp"}
  BY <1>1, ElementOfSeq
<1>4. Names \in Seq(Words)
  BY <1>1
<1>5. \A m, n \in 1..Len(Names) : Names[m] = Names[n] => m = n
  BY <1>1, <1>2 DEF IsInjective
<1>6. Range(Names) \subseteq Words \ {"temp"}
  BY <1>2, <1>3 DEF Range
<1>7. Seq(Range(Names)) \subseteq Path
  BY <1>6 DEF Path
<1> QED
  BY <1>1, <1>2, <1>3, <1>4, <1>5, <1>6, <1>7

-----------------------------------------------------------------------------
(* Prefixes                                                                *)

\* Paths, name by name.
LEMMA Named ==
  /\ \A s \in Path : Len(s) \in Nat /\ \A k \in 1..Len(s) : s[k] \in Words
  /\ \A s, t \in Path : Len(s) = Len(t) /\ (\A k \in 1..Len(s) : s[k] = t[k]) => s = t
  /\ <<>> \in Path /\ Len(<<>>) = 0
  /\ \A s \in Path : Len(s) = 0 => s = <<>>
<1>1. \A s \in Path : Len(s) \in Nat /\ \A k \in 1..Len(s) : s[k] \in Words
  BY LenProperties, ElementOfSeq DEF Path
<1>2. \A s, t \in Path : Len(s) = Len(t) /\ (\A k \in 1..Len(s) : s[k] = t[k]) => s = t
  BY SeqEqual DEF Path
<1>3. <<>> \in Path /\ \A s \in Path : Len(s) = 0 => s = <<>>
  BY EmptySeq DEF Path
<1> QED
  BY <1>1, <1>2, <1>3, EmptySeq

LEMMA NamedPrefix ==
  ASSUME NEW s \in Path, NEW t \in Path
  PROVE  IsPrefix(s, t) <=> Len(s) <= Len(t) /\ \A k \in 1..Len(s) : s[k] = t[k]
<1> DEFINE n == Len(s)
<1>1. n \in Nat /\ Len(t) \in Nat
  BY Named
<1>2. ASSUME NEW u \in {s, t}, n <= Len(u)
      PROVE  /\ SubSeq(u, 1, n) \in Path /\ Len(SubSeq(u, 1, n)) = n
             /\ \A k \in 1..n : SubSeq(u, 1, n)[k] = u[k]
  <2>1. \A k \in 1..n : u[k] \in Words
    BY <1>1, <1>2, Named
  <2>2. /\ SubSeq(u, 1, n) \in Seq(Words)
        /\ Len(SubSeq(u, 1, n)) = IF 1 <= n THEN n - 1 + 1 ELSE 0
        /\ \A k \in 1..n - 1 + 1 : SubSeq(u, 1, n)[k] = u[1 + k - 1]
    BY <1>1, <2>1, SubSeqProperties
  <2> QED
    BY <1>1, <2>2 DEF Path
<1> DEFINE a == SubSeq(s, 1, n)
           b == SubSeq(t, 1, n)
<1>3. n <= Len(t) => /\ a \in Path /\ b \in Path /\ Len(a) = n /\ Len(b) = n
                     /\ \A k \in 1..n : a[k] = s[k] /\ b[k] = t[k]
  BY <1>1, <1>2
<1> HIDE DEF a, b
<1>4. n <= Len(t) => (a = b <=> \A k \in 1..n : s[k] = t[k])
  BY <1>3, Named
<1> QED
  BY <1>4 DEF IsPrefix, a, b

LEMMA NamedCat ==
  ASSUME NEW s \in Path, NEW t \in Path
  PROVE  /\ s \o t \in Path /\ Len(s \o t) = Len(s) + Len(t)
         /\ \A k \in 1..Len(s) : (s \o t)[k] = s[k]
         /\ \A k \in 1..Len(t) : (s \o t)[Len(s) + k] = t[k]
<1>1. Len(s) \in Nat /\ Len(t) \in Nat
  BY Named
<1>2. /\ s \o t \in Path /\ Len(s \o t) = Len(s) + Len(t)
      /\ \A k \in 1..Len(s) + Len(t) : (s \o t)[k] = IF k <= Len(s) THEN s[k] ELSE t[k - Len(s)]
  BY ConcatProperties DEF Path
<1>3. \A k \in 1..Len(t) : Len(s) + k \in 1..Len(s) + Len(t) /\ ~(Len(s) + k <= Len(s))
                          /\ (Len(s) + k) - Len(s) = k
  BY <1>1
<1>4. \A k \in 1..Len(s) : k \in 1..Len(s) + Len(t) /\ k <= Len(s)
  BY <1>1
<1> QED
  BY <1>2, <1>3, <1>4

\* The first names of a path, and the others.
LEMMA NamedPart ==
  ASSUME NEW s \in Path, NEW n \in 0..Len(s)
  PROVE  /\ SubSeq(s, 1, n) \in Path /\ Len(SubSeq(s, 1, n)) = n
         /\ \A k \in 1..n : SubSeq(s, 1, n)[k] = s[k]
         /\ IsPrefix(SubSeq(s, 1, n), s)
         /\ SubSeq(s, n + 1, Len(s)) \in Path
         /\ s = SubSeq(s, 1, n) \o SubSeq(s, n + 1, Len(s))
<1> DEFINE a == SubSeq(s, 1, n)
           b == SubSeq(s, n + 1, Len(s))
           N == Len(s)
<1>1. N \in Nat /\ n \in Nat /\ n <= N /\ \A k \in 1..N : s[k] \in Words
  BY Named
<1>2. a \in Path /\ Len(a) = n /\ \A k \in 1..n : a[k] = s[k]
  <2>1. \A k \in 1..n : s[k] \in Words
    BY <1>1
  <2>2. /\ SubSeq(s, 1, n) \in Seq(Words)
        /\ Len(SubSeq(s, 1, n)) = IF 1 <= n THEN n - 1 + 1 ELSE 0
        /\ \A k \in 1..n - 1 + 1 : SubSeq(s, 1, n)[k] = s[1 + k - 1]
    BY <1>1, <2>1, SubSeqProperties
  <2> QED
    BY <1>1, <2>2 DEF Path
<1>3. b \in Path /\ Len(b) = N - n /\ \A k \in 1..N - n : b[k] = s[n + k]
  <2>1. \A k \in n + 1..N : s[k] \in Words
    BY <1>1
  <2>2. n + 1 \in Int /\ N \in Int
    BY <1>1
  <2>3. /\ SubSeq(s, n + 1, N) \in Seq(Words)
        /\ Len(SubSeq(s, n + 1, N)) = IF n + 1 <= N THEN N - (n + 1) + 1 ELSE 0
        /\ \A k \in 1..N - (n + 1) + 1 : SubSeq(s, n + 1, N)[k] = s[(n + 1) + k - 1]
    BY <2>1, <2>2, SubSeqProperties
  <2> QED
    BY <1>1, <2>3 DEF Path
<1> HIDE DEF a, b, N
<1>4. IsPrefix(a, s)
  BY <1>1, <1>2, NamedPrefix DEF N
<1> DEFINE c == a \o b
<1>5. /\ c \in Path /\ Len(c) = Len(a) + Len(b)
      /\ \A k \in 1..Len(a) : c[k] = a[k]
      /\ \A k \in 1..Len(b) : c[Len(a) + k] = b[k]
  BY <1>2, <1>3, NamedCat
<1> HIDE DEF c
<1>6. Len(c) = N /\ \A k \in 1..N : c[k] = s[k]
  <2>1. ASSUME NEW k \in 1..N
        PROVE  c[k] = s[k]
    <3>1. k \in 1..n \/ (k - n \in 1..N - n /\ n + (k - n) = k)
      BY <1>1
    <3> QED
      BY <1>2, <1>3, <1>5, <3>1
  <2> QED
    BY <1>1, <1>2, <1>3, <1>5, <2>1
<1>7. s = a \o b
  BY <1>5, <1>6, Named DEF N, c
<1> QED
  BY <1>2, <1>3, <1>4, <1>7 DEF a, b, N

LEMMA PrefixOrder ==
  /\ \A s \in Path : IsPrefix(s, s) /\ IsPrefix(<<>>, s) /\ (IsPrefix(s, <<>>) => s = <<>>)
  /\ \A s, t, u \in Path : IsPrefix(s, t) /\ IsPrefix(t, u) => IsPrefix(s, u)
  /\ \A s, t \in Path : IsPrefix(s, t) /\ IsPrefix(t, s) => s = t
  /\ \A s, t, u \in Path : IsPrefix(s, u) /\ IsPrefix(t, u) => IsPrefix(s, t) \/ IsPrefix(t, s)
<1>1. \A s \in Path : IsPrefix(s, s) /\ IsPrefix(<<>>, s)
  BY Named, NamedPrefix
<1>2. \A s, t \in Path : IsPrefix(s, t) /\ IsPrefix(t, s) => s = t
  <2> SUFFICES ASSUME NEW s \in Path, NEW t \in Path, IsPrefix(s, t), IsPrefix(t, s)
               PROVE  s = t
    OBVIOUS
  <2>1. Len(s) \in Nat /\ Len(t) \in Nat /\ Len(s) <= Len(t) /\ Len(t) <= Len(s)
        /\ \A k \in 1..Len(s) : s[k] = t[k]
    BY Named, NamedPrefix
  <2> QED
    BY <2>1, Named
<1>3. ASSUME NEW s \in Path, NEW t \in Path, NEW u \in Path, IsPrefix(s, t), IsPrefix(t, u)
      PROVE  IsPrefix(s, u)
  <2>1. Len(s) \in Nat /\ Len(t) \in Nat /\ Len(u) \in Nat /\ Len(s) <= Len(t) /\ Len(t) <= Len(u)
        /\ (\A k \in 1..Len(s) : s[k] = t[k]) /\ (\A k \in 1..Len(t) : t[k] = u[k])
    BY <1>3, Named, NamedPrefix
  <2>2. Len(s) <= Len(u) /\ \A k \in 1..Len(s) : s[k] = u[k]
    BY <2>1
  <2> QED
    BY <2>2, NamedPrefix
<1>4. ASSUME NEW s \in Path, NEW t \in Path, NEW u \in Path, IsPrefix(s, u), IsPrefix(t, u)
      PROVE  IsPrefix(s, t) \/ IsPrefix(t, s)
  <2>1. Len(s) \in Nat /\ Len(t) \in Nat
        /\ (\A k \in 1..Len(s) : s[k] = u[k]) /\ (\A k \in 1..Len(t) : t[k] = u[k])
    BY <1>4, Named, NamedPrefix
  <2>2. CASE Len(s) <= Len(t)
    <3>1. \A k \in 1..Len(s) : s[k] = t[k]
      BY <2>1, <2>2
    <3> QED
      BY <2>2, <3>1, NamedPrefix
  <2>3. CASE Len(t) <= Len(s)
    <3>1. \A k \in 1..Len(t) : t[k] = s[k]
      BY <2>1, <2>3
    <3> QED
      BY <2>3, <3>1, NamedPrefix
  <2> QED
    BY <2>1, <2>2, <2>3
<1> QED
  BY <1>1, <1>2, <1>3, <1>4, Named

LEMMA CatLess ==
  ASSUME NEW s \in Path, NEW t \in Path, NEW u \in Path
  PROVE  IsPrefix(s \o t, s \o u) <=> IsPrefix(t, u)
<1> DEFINE a == s \o t
           b == s \o u
           n == Len(s)
<1>1. /\ a \in Path /\ b \in Path /\ n \in Nat /\ Len(t) \in Nat /\ Len(u) \in Nat
      /\ Len(a) = n + Len(t) /\ Len(b) = n + Len(u)
      /\ \A k \in 1..n : a[k] = s[k] /\ b[k] = s[k]
      /\ \A k \in 1..Len(t) : a[n + k] = t[k]
      /\ \A k \in 1..Len(u) : b[n + k] = u[k]
  <2>1. n \in Nat /\ Len(t) \in Nat /\ Len(u) \in Nat
    BY Named
  <2>2. /\ a \in Path /\ Len(a) = n + Len(t)
        /\ \A k \in 1..n : a[k] = s[k]
        /\ \A k \in 1..Len(t) : a[n + k] = t[k]
    BY NamedCat
  <2>3. /\ b \in Path /\ Len(b) = n + Len(u)
        /\ \A k \in 1..n : b[k] = s[k]
        /\ \A k \in 1..Len(u) : b[n + k] = u[k]
    BY NamedCat
  <2> HIDE DEF a, b, n
  <2> QED
    BY <2>1, <2>2, <2>3
<1> HIDE DEF a, b, n
<1>2. ASSUME Len(t) <= Len(u), \A k \in 1..Len(t) : t[k] = u[k]
      PROVE  Len(a) <= Len(b) /\ \A k \in 1..Len(a) : a[k] = b[k]
  <2>1. ASSUME NEW k \in 1..Len(a)
        PROVE  a[k] = b[k]
    <3>1. k \in 1..n \/ (k - n \in 1..Len(t) /\ k - n \in 1..Len(u) /\ n + (k - n) = k)
      BY <1>1, <1>2
    <3>2. CASE k \in 1..n
      BY <1>1, <3>2
    <3>3. CASE k - n \in 1..Len(t) /\ k - n \in 1..Len(u) /\ n + (k - n) = k
      <4>1. a[n + (k - n)] = t[k - n] /\ b[n + (k - n)] = u[k - n]
        BY <1>1, <3>3
      <4> QED
        BY <1>2, <3>3, <4>1
    <3> QED
      BY <3>1, <3>2, <3>3
  <2> QED
    BY <1>1, <1>2, <2>1
<1>3. ASSUME Len(a) <= Len(b), \A k \in 1..Len(a) : a[k] = b[k]
      PROVE  Len(t) <= Len(u) /\ \A k \in 1..Len(t) : t[k] = u[k]
  <2>1. Len(t) <= Len(u)
    BY <1>1, <1>3
  <2>2. ASSUME NEW k \in 1..Len(t)
        PROVE  t[k] = u[k]
    <3>1. n + k \in 1..Len(a) /\ k \in 1..Len(u)
      BY <1>1, <2>1
    <3> QED
      BY <1>1, <1>3, <3>1
  <2> QED
    BY <2>1, <2>2
<1>4. IsPrefix(a, b) <=> IsPrefix(t, u)
  BY <1>1, <1>2, <1>3, NamedPrefix
<1> QED
  BY <1>4 DEF a, b

LEMMA CatPrefix ==
  ASSUME NEW s \in Path, NEW t \in Path, NEW u \in Path
  PROVE  /\ s \o t \in Path /\ IsPrefix(s, s \o t)
         /\ IsPrefix(s \o t, s \o u) <=> IsPrefix(t, u)
         /\ s \o t = s \o u => t = u
<1> DEFINE c == s \o t
<1>1. /\ Len(s) \in Nat /\ Len(t) \in Nat /\ c \in Path
      /\ Len(c) = Len(s) + Len(t)
      /\ \A k \in 1..Len(s) : c[k] = s[k]
  BY Named, NamedCat
<1> HIDE DEF c
<1>2. c \in Path /\ IsPrefix(s, c)
  <2>1. Len(s) <= Len(c)
    BY <1>1
  <2> QED
    BY <1>1, <2>1, NamedPrefix
<1>3. s \o t = s \o u => t = u
  <2> SUFFICES ASSUME s \o t = s \o u
               PROVE  t = u
    OBVIOUS
  <2>1. IsPrefix(s \o t, s \o u) <=> IsPrefix(t, u)
    BY CatLess
  <2>2. IsPrefix(s \o u, s \o t) <=> IsPrefix(u, t)
    BY CatLess
  <2>3. IsPrefix(c, c)
    BY <1>2, PrefixOrder
  <2>4. c = s \o u
    BY DEF c
  <2>5. IsPrefix(t, u) /\ IsPrefix(u, t)
    BY <2>1, <2>2, <2>3, <2>4 DEF c
  <2> QED
    BY <2>5, PrefixOrder
<1>4. IsPrefix(s \o t, s \o u) <=> IsPrefix(t, u)
  BY CatLess
<1> QED
  BY <1>2, <1>3, <1>4 DEF c

LEMMA PrefixCat ==
  /\ \A s, t \in Path : s \o t \in Path /\ IsPrefix(s, s \o t)
  /\ \A s \in Path : s \o <<>> = s /\ <<>> \o s = s
  /\ \A s, t, u \in Path : (s \o t) \o u = s \o (t \o u)
  /\ \A s, t \in Path : IsPrefix(s, t) => \E u \in Path : t = s \o u
<1>1. \A s, t \in Path : s \o t \in Path /\ IsPrefix(s, s \o t)
  BY CatPrefix
<1>2. \A s \in Path : s \o <<>> = s /\ <<>> \o s = s
  BY ConcatEmptySeq DEF Path
<1>5. \A s, t, u \in Path : (s \o t) \o u = s \o (t \o u)
  BY ConcatAssociative DEF Path
<1>6. ASSUME NEW s \in Path, NEW t \in Path, IsPrefix(s, t)
      PROVE  \E u \in Path : t = s \o u
  <2> DEFINE n == Len(s)
             a == SubSeq(t, 1, n)
             b == SubSeq(t, n + 1, Len(t))
  <2>1. /\ n \in Nat /\ n <= Len(t) /\ Len(t) \in Nat
        /\ \A k \in 1..n : s[k] = t[k]
    BY <1>6, Named, NamedPrefix
  <2>2. n \in 0..Len(t)
    BY <2>1
  <2>3. /\ a \in Path /\ Len(a) = n /\ (\A k \in 1..n : a[k] = t[k])
        /\ b \in Path /\ t = a \o b
    BY <2>2, NamedPart
  <2> HIDE DEF a, b
  <2>4. a = s
    BY <2>1, <2>3, Named
  <2> QED
    BY <2>3, <2>4
<1> QED
  BY <1>1, <1>2, <1>5, <1>6

LEMMA CatPath == \A s, t \in Path : s \o t \in Path
BY PrefixCat

LEMMA CatAgain == \A s, t, u \in Path : (s \o t) \o u = s \o (t \o u)
BY PrefixCat

LEMMA PrefixChild ==
  /\ \A s \in Path, x \in Words : /\ Child(s, x) \in Path \ {<<>>} /\ IsPrefix(s, Child(s, x))
                                  /\ Parent(Child(s, x)) = s /\ Last(Child(s, x)) = x
                                  /\ ~IsPrefix(Child(s, x), s)
  /\ \A s, t \in Path, x \in Words :
       IsPrefix(t, Child(s, x)) => t = Child(s, x) \/ IsPrefix(t, s)
  /\ \A s, t \in Path, x, y \in Words : Child(s, x) = Child(t, y) => s = t /\ x = y
  /\ \A s \in Path : s # <<>> => /\ Parent(s) \in Path /\ Last(s) \in Words
                                 /\ s = Child(Parent(s), Last(s))
<1>1. ASSUME NEW s \in Path, NEW x \in Words
      PROVE  /\ Child(s, x) \in Path \ {<<>>} /\ IsPrefix(s, Child(s, x))
             /\ Parent(Child(s, x)) = s /\ Last(Child(s, x)) = x
             /\ ~IsPrefix(Child(s, x), s)
             /\ Len(Child(s, x)) = Len(s) + 1 /\ Len(s) \in Nat
             /\ \A k \in 1..Len(s) : Child(s, x)[k] = s[k]
             /\ Child(s, x)[Len(s) + 1] = x
  <2> DEFINE c == Child(s, x)
  <2>1. /\ c \in Path \ {<<>>} /\ Parent(c) = s /\ Len(c) = Len(s) + 1 /\ Len(s) \in Nat
    BY ChildShape, Named
  <2>2. /\ \A k \in 1..Len(s) : c[k] = s[k]
        /\ c[Len(s) + 1] = x
    BY AppendProperties DEF Path, Child
  <2> HIDE DEF c
  <2>3. Last(c) = x
    BY <2>1, <2>2, PathShape
  <2>4. IsPrefix(s, c) /\ ~IsPrefix(c, s)
    BY <2>1, <2>2, NamedPrefix
  <2> QED
    BY <2>1, <2>2, <2>3, <2>4 DEF c
<1>2. ASSUME NEW s \in Path, NEW t \in Path, NEW x \in Words, IsPrefix(t, Child(s, x))
      PROVE  t = Child(s, x) \/ IsPrefix(t, s)
  <2> DEFINE c == Child(s, x)
  <2>1. /\ c \in Path /\ Len(c) = Len(s) + 1 /\ Len(s) \in Nat
        /\ \A k \in 1..Len(s) : c[k] = s[k]
    BY <1>1
  <2> HIDE DEF c
  <2>2. Len(t) \in Nat /\ Len(t) <= Len(c) /\ \A k \in 1..Len(t) : t[k] = c[k]
    BY <1>2, <2>1, Named, NamedPrefix DEF c
  <2>3. CASE Len(t) = Len(c)
    BY <2>1, <2>2, <2>3, Named DEF c
  <2>4. CASE Len(t) # Len(c)
    <3>1. Len(t) <= Len(s) /\ \A k \in 1..Len(t) : t[k] = s[k]
      BY <2>1, <2>2, <2>4
    <3> QED
      BY <3>1, NamedPrefix
  <2> QED
    BY <2>3, <2>4
<1>4. ASSUME NEW s \in Path, NEW t \in Path, NEW x \in Words, NEW y \in Words,
             Child(s, x) = Child(t, y)
      PROVE  s = t /\ x = y
  <2>1. Parent(Child(s, x)) = s /\ Last(Child(s, x)) = x
    BY <1>1
  <2>2. Parent(Child(t, y)) = t /\ Last(Child(t, y)) = y
    BY <1>1
  <2> QED
    BY <1>4, <2>1, <2>2, Zenon
<1>5. ASSUME NEW s \in Path, s # <<>>
      PROVE  Parent(s) \in Path /\ Last(s) \in Words /\ s = Child(Parent(s), Last(s))
  <2> DEFINE p == Parent(s)
             x == Last(s)
             c == Child(p, x)
  <2>1. /\ p \in Path /\ x \in Words /\ Len(s) \in Nat \ {0} /\ Len(p) = Len(s) - 1
        /\ \A k \in 1..Len(s) - 1 : p[k] = s[k]
        /\ x = s[Len(s)]
    BY <1>5, PathShape
  <2> HIDE DEF p, x
  <2>2. /\ c \in Path /\ Len(c) = Len(p) + 1
        /\ \A k \in 1..Len(p) : c[k] = p[k]
        /\ c[Len(p) + 1] = x
    BY <1>1, <2>1
  <2> HIDE DEF c
  <2>3. Len(c) = Len(s) /\ \A k \in 1..Len(s) : c[k] = s[k]
    <3>1. \A k \in 1..Len(s) : k \in 1..Len(p) \/ k = Len(p) + 1
      BY <2>1
    <3> QED
      BY <2>1, <2>2, <3>1
  <2>4. c = s
    BY <2>2, <2>3, Named
  <2> QED
    BY <2>1, <2>4 DEF c, p, x
<1> QED
  BY <1>1, <1>2, <1>4, <1>5

LEMMA CatChild ==
  ASSUME NEW s \in Path, NEW t \in Path, NEW x \in Words
  PROVE  s \o Child(t, x) = Child(s \o t, x)
<1>1. <<x>> \in Seq(Words) /\ \A u \in Seq(Words) : Append(u, x) = u \o <<x>>
  OBVIOUS
<1>2. s \o t \in Seq(Words)
  BY PrefixCat DEF Path
<1>3. (s \o t) \o <<x>> = s \o (t \o <<x>>)
  BY <1>1, ConcatAssociative DEF Path
<1> QED
  BY <1>1, <1>2, <1>3 DEF Child, Path

\* What comes first in a concatenation.
LEMMA TailCat ==
  ASSUME NEW S, NEW s \in Seq(S), s # <<>>, NEW t \in Seq(S)
  PROVE  /\ s \o t # <<>> /\ Head(s \o t) = s[1] /\ Tail(s \o t) = Tail(s) \o t
         /\ s \o t \in Seq(S) /\ Tail(s) \in Seq(S)
<1> DEFINE n == Len(s)
           m == Len(t)
           c == s \o t
           u == Tail(s)
           a == Tail(c)
           b == u \o t
<1>1. n \in Nat \ {0} /\ m \in Nat
  BY EmptySeq, LenProperties
<1>2. /\ c \in Seq(S) /\ Len(c) = n + m
      /\ \A k \in 1..n + m : c[k] = IF k <= n THEN s[k] ELSE t[k - n]
  BY ConcatProperties
<1>3. u \in Seq(S) /\ Len(u) = n - 1 /\ \A k \in 1..n - 1 : u[k] = s[k + 1]
  BY HeadTailProperties
<1> HIDE DEF n, m, u, c
<1>4. c # <<>> /\ c[1] = s[1]
  <2>1. 1 \in 1..n + m /\ 1 <= n /\ n + m # 0
    BY <1>1
  <2> QED
    BY <1>2, <2>1, EmptySeq
<1>5. Head(c) = s[1]
  BY <1>2, <1>4
<1>6. a \in Seq(S) /\ Len(a) = n + m - 1 /\ \A k \in 1..n + m - 1 : a[k] = c[k + 1]
  <2>1. /\ Tail(c) \in Seq(S) /\ Len(Tail(c)) = Len(c) - 1
        /\ \A k \in 1..Len(Tail(c)) : Tail(c)[k] = c[k + 1]
    BY <1>2, <1>4, HeadTailProperties
  <2>2. Len(Tail(c)) = n + m - 1
    BY <1>1, <1>2, <2>1
  <2> QED
    BY <2>1, <2>2
<1>7. /\ b \in Seq(S) /\ Len(b) = (n - 1) + m
      /\ \A k \in 1..(n - 1) + m : b[k] = IF k <= n - 1 THEN u[k] ELSE t[k - (n - 1)]
  <2>1. /\ u \o t \in Seq(S) /\ Len(u \o t) = Len(u) + Len(t)
        /\ \A k \in 1..Len(u) + Len(t) :
             (u \o t)[k] = IF k <= Len(u) THEN u[k] ELSE t[k - Len(u)]
    BY <1>3, ConcatProperties
  <2> QED
    BY <1>3, <2>1 DEF m
<1> HIDE DEF a, b
<1>8. ASSUME NEW k \in 1..n + m - 1
      PROVE  a[k] = b[k]
  <2>1. k \in 1..(n - 1) + m /\ k + 1 \in 1..n + m /\ k - (n - 1) = (k + 1) - n
    BY <1>1
  <2>2. k <= n - 1 <=> k + 1 <= n
    BY <1>1
  <2>3. k <= n - 1 => k \in 1..n - 1
    BY <1>1
  <2> QED
    BY <1>2, <1>3, <1>6, <1>7, <2>1, <2>2, <2>3
<1>9. a = b
  <2>1. Len(a) = Len(b)
    BY <1>1, <1>6, <1>7
  <2>2. \A k \in 1..Len(a) : a[k] = b[k]
    BY <1>6, <1>8
  <2> QED
    BY <1>6, <1>7, <2>1, <2>2, SeqEqual
<1> QED
  BY <1>2, <1>3, <1>4, <1>5, <1>9 DEF a, b, c, u
-----------------------------------------------------------------------------
(* Trees                                                                   *)

\* The entries of a file system.
LEMMA NodeFacts ==
  /\ \A node \in Nodes : /\ node.text \in Lines /\ node.to \in Path
                         /\ node.kind \in {"file", "dir", "link"}
                         /\ node.kind = "dir" => node = Dir
                         /\ node.kind = "file" => node = File(node.text)
  /\ \A text \in Lines : File(text) \in Nodes /\ File(text).kind = "file"
                         /\ File(text).text = text
  /\ \A path \in Path : Link(path) \in Nodes /\ Link(path).kind = "link"
  /\ Dir \in Nodes /\ Dir.kind = "dir" /\ Dir.text = <<>> /\ <<>> \in Lines
<1>1. <<>> \in Lines /\ <<>> \in Path
  BY EmptySeq DEF Lines, Path
<1>2. \A node : node \in Nodes <=>
        /\ node \in [text : Lines, kind : {"file", "dir", "link"}, to : Path]
        /\ node \in {File(node.text), Dir, Link(node.to)}
  BY DEF Nodes, Lines, Path
<1>3. \A text \in Lines : /\ File(text) \in [text : Lines, kind : {"file", "dir", "link"}, to : Path]
                         /\ File(text).kind = "file" /\ File(text).text = text
  BY <1>1 DEF File
<1>4. \A path \in Path : /\ Link(path) \in [text : Lines, kind : {"file", "dir", "link"}, to : Path]
                        /\ Link(path).kind = "link" /\ Link(path).to = path
  BY <1>1 DEF Link
<1>5. /\ Dir \in [text : Lines, kind : {"file", "dir", "link"}, to : Path]
      /\ Dir.kind = "dir" /\ Dir.text = <<>>
  BY <1>1 DEF Dir
<1>6. ASSUME NEW node \in Nodes
      PROVE  /\ node.text \in Lines /\ node.to \in Path
             /\ node.kind \in {"file", "dir", "link"}
             /\ node.kind = "dir" => node = Dir
             /\ node.kind = "file" => node = File(node.text)
  <2>1. /\ node.text \in Lines /\ node.to \in Path
        /\ node.kind \in {"file", "dir", "link"}
        /\ node \in {File(node.text), Dir, Link(node.to)}
    BY <1>2
  <2> QED
    BY <1>3, <1>4, <1>5, <2>1
<1>7. /\ \A text \in Lines : File(text) \in Nodes
      /\ \A path \in Path : Link(path) \in Nodes
      /\ Dir \in Nodes
  BY <1>2, <1>3, <1>4, <1>5
<1> QED
  BY <1>1, <1>3, <1>4, <1>5, <1>6, <1>7

LEMMA TreeFacts ==
  ASSUME NEW f, IsTree(f)
  PROVE  /\ f \in [DOMAIN f -> Nodes] /\ DOMAIN f \subseteq Path
         /\ <<>> \in DOMAIN f /\ f[<<>>] = Dir
         /\ \A q \in DOMAIN f : q # <<>> => Parent(q) \in DOMAIN f /\ f[Parent(q)] = Dir
         /\ \A q \in DOMAIN f : /\ f[q].text \in Lines /\ f[q].to \in Path
                                /\ f[q].kind \in {"file", "dir", "link"}
                                /\ f[q].kind = "dir" => f[q] = Dir
<1>1. /\ f \in [DOMAIN f -> Nodes] /\ DOMAIN f \subseteq Path
      /\ <<>> \in DOMAIN f /\ f[<<>>] = Dir
      /\ \A q \in DOMAIN f : q # <<>> => Parent(q) \in DOMAIN f /\ f[Parent(q)] = Dir
  BY DEF IsTree, Path, Parent
<1>2. \A q \in DOMAIN f : f[q] \in Nodes
  BY <1>1
<1> QED
  BY <1>1, <1>2, NodeFacts

LEMMA TreeIf ==
  ASSUME NEW f, f \in [DOMAIN f -> Nodes], DOMAIN f \subseteq Path,
         <<>> \in DOMAIN f, f[<<>>] = Dir,
         \A q \in DOMAIN f : q # <<>> => Parent(q) \in DOMAIN f /\ f[Parent(q)] = Dir
  PROVE  IsTree(f)
BY DEF IsTree, Path, Parent

\* A link leads to a path.
LEMMA FollowFacts ==
  ASSUME NEW f, IsTree(f), NEW place \in Path
  PROVE  /\ Follow(f, place) \in Path
         /\ ~IsLinkAt(f, place) => Follow(f, place) = place
         /\ ~IsLinkAt(f, Follow(f, place)) \/ Follow(f, place) = Nowhere
<1> DEFINE next(q) == IF IsLinkAt(f, q) THEN f[q].to ELSE q
<1>1. \A q \in Path : next(q) \in Path
  BY TreeFacts DEF IsLinkAt
<1>2. \A q : ~IsLinkAt(f, q) => next(q) = q
  OBVIOUS
<1> DEFINE end == next(next(next(place)))
<1>3. Follow(f, place) = IF IsLinkAt(f, end) THEN Nowhere ELSE end
  BY DEF Follow
<1> HIDE DEF next
<1>4. end \in Path /\ (~IsLinkAt(f, place) => end = place)
  BY <1>1, <1>2
<1>5. Nowhere \in Path
  <2>1. "" \in Words
    BY FilesAssumption
  <2>2. \A word \in Words : <<word>> \in Seq(Words)
    OBVIOUS
  <2> QED
    BY <2>1, <2>2 DEF Nowhere, Path
<1> HIDE DEF end
<1> QED
  BY <1>3, <1>4, <1>5

-----------------------------------------------------------------------------
(* Where paths lead                                                        *)

\* Walk is what its definition says.
LEMMA WalkFacts ==
  ASSUME NEW f, IsTree(f), NEW path \in Path
  PROVE  /\ Len(path) \in Nat /\ Walk(f, path)[0] = <<>>
         /\ \A n \in 1..Len(path) :
              Walk(f, path)[n] = Follow(f, Child(Walk(f, path)[n - 1], path[n]))
<1> DEFINE N == Len(path)
           Next1(q, n) == Follow(f, Child(q, path[n]))
           h == [x \in Path \X (1..N) |-> Next1(x[1], x[2])]
<1>1. N \in Nat /\ \A n \in 1..N : path[n] \in Words
  BY LenProperties, ElementOfSeq DEF Path
<1>2. \A q \in Path, n \in 1..N : Next1(q, n) \in Path
  <2> SUFFICES ASSUME NEW q \in Path, NEW n \in 1..N
               PROVE  Next1(q, n) \in Path
    OBVIOUS
  <2>1. Child(q, path[n]) \in Path
    BY <1>1, ChildShape
  <2> QED
    BY <2>1, FollowFacts
<1> HIDE DEF Next1, N
<1>3. h \in [Path \X (1..N) -> Path] /\ \A q \in Path, n \in 1..N : h[<<q, n>>] = Next1(q, n)
  BY <1>2
<1>4. <<>> \in Path
  BY EmptySeq DEF Path
<1> HIDE DEF h
<1>5. PICK g : Recurs(g, N, Path, <<>>, h)
  <2>1. h \in [Path \X (1..N) -> Path]
    BY <1>3
  <2>2. N \in Nat
    BY <1>1
  <2> QED
    BY <1>4, <2>1, <2>2, Recursion, Zenon
<1>6. \A n \in 1..N : n - 1 \in 0..N /\ n \in 0..N
  BY <1>1
<1>7. g \in [0..N -> Path] /\ g[0] = <<>> /\ \A n \in 1..N : g[n] = Next1(g[n - 1], n)
  BY <1>3, <1>5, <1>6 DEF Recurs
<1> DEFINE Eq(c) == c = [n \in 0..N |-> IF n = 0 THEN <<>> ELSE Next1(c[n - 1], n)]
<1>8. Eq(g)
  <2>1. \A n \in 0..N : g[n] = IF n = 0 THEN <<>> ELSE Next1(g[n - 1], n)
    <3>1. \A n \in 0..N : n # 0 => n \in 1..N
      BY <1>1
    <3> QED
      BY <1>7, <3>1
  <2> QED
    BY <1>7, <2>1
<1>9. Walk(f, path) = CHOOSE c : Eq(c)
  BY DEF Walk, Next1, N
<1> HIDE DEF Eq
<1>10. Eq(Walk(f, path))
  BY <1>8, <1>9
<1> DEFINE W == Walk(f, path)
<1>11. W = [n \in 0..N |-> IF n = 0 THEN <<>> ELSE Next1(W[n - 1], n)]
  BY <1>10 DEF Eq
<1> HIDE DEF W
<1>12. W[0] = <<>> /\ \A n \in 1..N : W[n] = Next1(W[n - 1], n)
  <2>1. 0 \in 0..N /\ \A n \in 1..N : n # 0
    BY <1>1
  <2> QED
    BY <1>6, <1>11, <2>1
<1> QED
  BY <1>1, <1>12 DEF W, N, Next1

\* File systems with the same links.
SameLinks(f, g) ==
  \A q \in DOMAIN f \cup DOMAIN g :
    /\ IsLinkAt(f, q) <=> IsLinkAt(g, q)
    /\ IsLinkAt(f, q) => f[q].to = g[q].to

LEMMA SameFollow ==
  ASSUME NEW f, NEW g, SameLinks(f, g), NEW place
  PROVE  Follow(f, place) = Follow(g, place)
<1> DEFINE nf(q) == IF IsLinkAt(f, q) THEN f[q].to ELSE q
           ng(q) == IF IsLinkAt(g, q) THEN g[q].to ELSE q
<1>1. \A q : nf(q) = ng(q)
  BY DEF SameLinks, IsLinkAt
<1>2. \A q : IsLinkAt(f, q) <=> IsLinkAt(g, q)
  BY DEF SameLinks, IsLinkAt
<1>3. /\ Follow(f, place) = IF IsLinkAt(f, nf(nf(nf(place)))) THEN Nowhere
                            ELSE nf(nf(nf(place)))
      /\ Follow(g, place) = IF IsLinkAt(g, ng(ng(ng(place)))) THEN Nowhere
                            ELSE ng(ng(ng(place)))
  BY DEF Follow
<1> HIDE DEF nf, ng
<1>4. nf(nf(nf(place))) = ng(ng(ng(place)))
  BY <1>1
<1> QED
  BY <1>2, <1>3, <1>4

\* The beginning of a path leads to the same place, whatever follows, as long as
\* the links are the same.
LEMMA WalkSame ==
  ASSUME NEW f, IsTree(f), NEW g, IsTree(g), SameLinks(f, g),
         NEW s \in Path, NEW t \in Path, NEW n \in Nat, n <= Len(s), n <= Len(t),
         \A k \in 1..n : s[k] = t[k]
  PROVE  Walk(f, s)[n] = Walk(g, t)[n] /\ Walk(f, s)[n] \in Path
<1> DEFINE P(k) == Walk(f, s)[k] = Walk(g, t)[k] /\ Walk(f, s)[k] \in Path
           S == {k \in 0..n : P(k)}
<1>1. Len(s) \in Nat /\ Len(t) \in Nat
  BY LenProperties DEF Path
<1>2. 0 \in S
  <2>1. Walk(f, s)[0] = <<>> /\ Walk(g, t)[0] = <<>>
    BY WalkFacts
  <2>2. <<>> \in Path /\ 0 \in 0..n
    BY EmptySeq DEF Path
  <2> QED
    BY <2>1, <2>2
<1>3. ASSUME NEW k \in S, k < n
      PROVE  k + 1 \in S
  <2>1. k \in 0..n /\ P(k)
    BY <1>3
  <2> HIDE DEF S, P
  <2>2. /\ k + 1 \in 1..Len(s) /\ k + 1 \in 1..Len(t) /\ k + 1 \in 1..n
        /\ (k + 1) - 1 = k /\ k + 1 \in 0..n
    BY <1>1, <1>3, <2>1
  <2>3. s[k + 1] = t[k + 1] /\ s[k + 1] \in Words
    <3>1. s[k + 1] \in Words
      BY <2>2, ElementOfSeq DEF Path
    <3> QED
      BY <2>2, <3>1
  <2>4. /\ Walk(f, s)[k + 1] = Follow(f, Child(Walk(f, s)[k], s[k + 1]))
        /\ Walk(g, t)[k + 1] = Follow(g, Child(Walk(g, t)[k], t[k + 1]))
    BY <2>2, WalkFacts
  <2>5. Child(Walk(f, s)[k], s[k + 1]) \in Path
    BY <2>1, <2>3, ChildShape DEF P
  <2>6. /\ Follow(f, Child(Walk(f, s)[k], s[k + 1])) \in Path
        /\ Follow(f, Child(Walk(f, s)[k], s[k + 1])) = Follow(g, Child(Walk(f, s)[k], s[k + 1]))
    BY <2>5, FollowFacts, SameFollow
  <2>7. P(k + 1)
    BY <2>1, <2>3, <2>4, <2>6 DEF P
  <2> QED
    BY <2>2, <2>7 DEF S
<1>4. S = 0..n
  <2>1. S \in SUBSET (0..n)
    OBVIOUS
  <2> HIDE DEF S
  <2> QED
    BY <1>2, <1>3, <2>1, Ascend
<1>5. n \in S
  BY <1>4
<1> QED
  BY <1>5

\* What a path leads to, and where its last entry is.
LEMMA RealFacts ==
  ASSUME NEW f, IsTree(f), NEW path \in Path
  PROVE  /\ Real(f, path) \in Path
         /\ path = <<>> => Real(f, path) = <<>> /\ Place(f, path) = <<>>
         /\ path # <<>> => /\ Place(f, path) \in Path \ {<<>>}
                           /\ Parent(Place(f, path)) = Real(f, Parent(path))
         /\ Real(f, path) = Follow(f, Place(f, path))
<1>1. SameLinks(f, f)
  BY DEF SameLinks
<1>2. Len(path) \in Nat /\ Real(f, path) \in Path
  BY <1>1, WalkSame, WalkFacts DEF Real
<1>3. CASE path = <<>>
  <2>1. Len(path) = 0 /\ Place(f, path) = <<>>
    BY <1>3, EmptySeq DEF Place
  <2>2. Real(f, path) = <<>>
    BY <2>1, WalkFacts DEF Real
  <2>3. ~IsLinkAt(f, <<>>) /\ <<>> \in Path
    BY TreeFacts, NodeFacts DEF IsLinkAt
  <2>4. Follow(f, <<>>) = <<>>
    BY <2>3, FollowFacts
  <2> QED
    BY <1>2, <1>3, <2>1, <2>2, <2>4
<1>4. CASE path # <<>>
  <2> DEFINE u == Parent(path)
  <2>1. /\ u \in Path /\ Last(path) \in Words /\ Len(path) \in Nat \ {0}
        /\ Len(u) = Len(path) - 1 /\ Last(path) = path[Len(path)]
        /\ \A k \in 1..Len(path) - 1 : u[k] = path[k]
    BY <1>4, PathShape
  <2> HIDE DEF u
  <2>2. Walk(f, u)[Len(u)] = Walk(f, path)[Len(u)] /\ Walk(f, u)[Len(u)] \in Path
    <3>1. Len(u) \in Nat /\ Len(u) <= Len(u) /\ Len(u) <= Len(path)
          /\ \A k \in 1..Len(u) : u[k] = path[k]
      BY <2>1
    <3> QED
      BY <1>1, <2>1, <3>1, WalkSame
  <2>3. Walk(f, path)[Len(path)] = Follow(f, Child(Walk(f, path)[Len(path) - 1], path[Len(path)]))
    <3>1. Len(path) \in 1..Len(path)
      BY <2>1
    <3> QED
      BY <3>1, WalkFacts
  <2>4. Place(f, path) = Child(Real(f, u), Last(path))
    BY <1>4 DEF Place, u
  <2>5. Real(f, path) = Follow(f, Place(f, path)) /\ Real(f, u) \in Path
    BY <2>1, <2>2, <2>3, <2>4 DEF Real
  <2>6. Place(f, path) \in Path \ {<<>>} /\ Parent(Place(f, path)) = Real(f, u)
    BY <2>1, <2>4, <2>5, ChildShape
  <2> QED
    BY <1>2, <1>4, <2>5, <2>6 DEF u
<1> QED
  BY <1>3, <1>4

\* With the same links paths lead to the same places.
LEMMA SameReal ==
  ASSUME NEW f, IsTree(f), NEW g, IsTree(g), SameLinks(f, g), NEW path \in Path
  PROVE  Real(f, path) = Real(g, path) /\ Place(f, path) = Place(g, path)
<1>1. \A p \in Path : Real(f, p) = Real(g, p)
  <2> SUFFICES ASSUME NEW p \in Path
               PROVE  Real(f, p) = Real(g, p)
    OBVIOUS
  <2>1. Len(p) \in Nat /\ Len(p) <= Len(p)
    BY LenProperties DEF Path
  <2> QED
    BY <2>1, WalkSame DEF Real
<1>2. path # <<>> => Parent(path) \in Path
  BY PathShape
<1> QED
  BY <1>1, <1>2 DEF Place


-----------------------------------------------------------------------------
(* What the steps do to a tree                                             *)

\* Entries are put where there is a directory for them, over files at most.
LEMMA Put ==
  ASSUME NEW f, IsTree(f), NEW node \in Nodes, NEW places \in SUBSET (Path \ {<<>>}),
         \A q \in places : q \in DOMAIN f => f[q].kind = "file",
         \A q \in places :
           /\ Parent(q) \in DOMAIN With(f, places, node)
           /\ With(f, places, node)[Parent(q)] = Dir
  PROVE  IsTree(With(f, places, node))
<1> DEFINE g == With(f, places, node)
<1>1. /\ f \in [DOMAIN f -> Nodes] /\ DOMAIN f \subseteq Path
      /\ <<>> \in DOMAIN f /\ f[<<>>] = Dir
      /\ \A q \in DOMAIN f : q # <<>> => Parent(q) \in DOMAIN f /\ f[Parent(q)] = Dir
  BY TreeFacts
<1>2. DOMAIN g = DOMAIN f \cup places /\ g \in [DOMAIN g -> Nodes]
  BY <1>1 DEF With
<1>3. /\ \A q \in places : g[q] = node
      /\ \A q \in DOMAIN f \ places : g[q] = f[q]
  BY DEF With
<1>4. \A q \in places : q \in DOMAIN f => f[q] # Dir
  BY NodeFacts
<1>5. \A q \in places : Parent(q) \in DOMAIN g /\ g[Parent(q)] = Dir
  OBVIOUS
<1> HIDE DEF g
<1>6. <<>> \in DOMAIN g /\ g[<<>>] = Dir /\ DOMAIN g \subseteq Path
  BY <1>1, <1>2, <1>3
<1>7. ASSUME NEW q \in DOMAIN g, q # <<>>
      PROVE  Parent(q) \in DOMAIN g /\ g[Parent(q)] = Dir
  BY <1>1, <1>2, <1>3, <1>4, <1>5, <1>7
<1>8. IsTree(g)
  BY <1>2, <1>6, <1>7, TreeIf
<1> QED
  BY <1>8 DEF g

\* A file is put in a directory, or over a file.
LEMMA PutFile ==
  ASSUME NEW f, IsTree(f), NEW text \in Lines, NEW place \in Path \ {<<>>},
         place \in DOMAIN f => f[place].kind = "file",
         Parent(place) \in DOMAIN f, f[Parent(place)].kind = "dir"
  PROVE  /\ IsTree(With(f, {place}, File(text)))
         /\ SameLinks(f, With(f, {place}, File(text)))
<1> DEFINE g == With(f, {place}, File(text))
<1>1. File(text) \in Nodes /\ File(text).kind = "file"
  BY NodeFacts
<1>2. /\ DOMAIN g = DOMAIN f \cup {place} /\ g[place] = File(text)
      /\ \A q \in DOMAIN f : q # place => g[q] = f[q]
  BY DEF With
<1>3. f[Parent(place)] = Dir
  BY TreeFacts
<1>4. g[Parent(place)] = Dir /\ Parent(place) \in DOMAIN g
  <2>1. Parent(place) # place
    BY <1>3, NodeFacts
  <2> QED
    BY <1>2, <1>3, <2>1
<1>5. SameLinks(f, g)
  <2> HIDE DEF g
  <2> QED
    BY <1>1, <1>2 DEF SameLinks, IsLinkAt
<1>6. IsTree(g)
  BY <1>1, <1>4, Put
<1> QED
  BY <1>5, <1>6

\* A file that is there has a directory.
LEMMA FileFacts ==
  ASSUME NEW f, IsTree(f), NEW place \in DOMAIN f, f[place].kind = "file"
  PROVE  /\ place \in Path \ {<<>>} /\ Parent(place) \in DOMAIN f
         /\ f[Parent(place)].kind = "dir" /\ f[place].text \in Lines
<1>1. f[<<>>] = Dir /\ Dir.kind = "dir"
  BY TreeFacts, NodeFacts
<1>2. place # <<>>
  BY <1>1
<1> QED
  BY <1>1, <1>2, TreeFacts

LEMMA OpenPlace ==
  ASSUME NEW f, IsTree(f), NEW path \in Path, CanOpen(f, path)
  PROVE  /\ Real(f, path) \in Path \ {<<>>}
         /\ Real(f, path) \in DOMAIN f => f[Real(f, path)].kind = "file"
         /\ Parent(Real(f, path)) \in DOMAIN f
         /\ f[Parent(Real(f, path))].kind = "dir"
BY RealFacts DEF CanOpen

\* The paths above a path.
LEMMA AncestorFacts ==
  ASSUME NEW path \in Path, NEW q \in Ancestors(path)
  PROVE  /\ q \in Path
         /\ q # <<>> => Parent(q) \in Ancestors(path)
<1>1. Len(path) \in Nat /\ path \in Seq(Words)
  BY LenProperties DEF Path
<1>2. PICK n \in 0..Len(path) - 1 : q = SubSeq(path, 1, n)
  BY DEF Ancestors
<1>3. n \in Nat /\ n <= Len(path) /\ n < Len(path)
  BY <1>1, <1>2
<1>4. \A k \in 1..n : path[k] \in Words
  <2>1. \A k \in 1..n : k \in 1..Len(path)
    BY <1>1, <1>3
  <2> QED
    BY <1>1, <2>1, ElementOfSeq
<1>5. q \in Path /\ Len(q) = n /\ \A k \in 1..n : q[k] = path[k]
  <2>1. /\ SubSeq(path, 1, n) \in Seq(Words)
        /\ Len(SubSeq(path, 1, n)) = IF 1 <= n THEN n - 1 + 1 ELSE 0
        /\ \A k \in 1..n - 1 + 1 : SubSeq(path, 1, n)[k] = path[1 + k - 1]
    BY <1>3, <1>4, SubSeqProperties
  <2> QED
    BY <1>2, <1>3, <2>1 DEF Path
<1>6. ASSUME q # <<>>
      PROVE  Parent(q) \in Ancestors(path)
  <2> DEFINE m == n - 1
  <2>1. /\ Parent(q) \in Path /\ Len(Parent(q)) = Len(q) - 1 /\ Len(q) \in Nat \ {0}
        /\ \A k \in 1..Len(q) - 1 : Parent(q)[k] = q[k]
    BY <1>5, <1>6, PathShape
  <2>2. /\ m \in Nat /\ m \in 0..Len(path) - 1 /\ Len(Parent(q)) = m
        /\ \A k \in 1..m : k \in 1..n /\ k \in 1..Len(q) - 1
    BY <1>3, <1>5, <2>1
  <2>3. \A k \in 1..m : Parent(q)[k] = path[k] /\ path[k] \in Words
    BY <1>4, <1>5, <2>1, <2>2
  <2> HIDE DEF m
  <2>4. SubSeq(path, 1, m) \in Path /\ Len(SubSeq(path, 1, m)) = m
        /\ \A k \in 1..m : SubSeq(path, 1, m)[k] = path[k]
    <3>1. /\ SubSeq(path, 1, m) \in Seq(Words)
          /\ Len(SubSeq(path, 1, m)) = IF 1 <= m THEN m - 1 + 1 ELSE 0
          /\ \A k \in 1..m - 1 + 1 : SubSeq(path, 1, m)[k] = path[1 + k - 1]
      BY <2>2, <2>3, SubSeqProperties
    <3> QED
      BY <2>2, <3>1 DEF Path
  <2>5. Parent(q) = SubSeq(path, 1, m)
    BY <2>1, <2>2, <2>3, <2>4, SeqEqual DEF Path
  <2> QED
    BY <2>2, <2>5 DEF Ancestors
<1> QED
  BY <1>5, <1>6

\* Making the directories above a path adds directories and nothing else.
OnlyDirsNew(f, g) ==
  /\ DOMAIN f \subseteq DOMAIN g
  /\ \A q \in DOMAIN f : g[q] = f[q]
  /\ \A q \in DOMAIN g \ DOMAIN f : g[q] = Dir

LEMMA ParentMade ==
  ASSUME IsTree(fs), NEW path \in Path, CanMakeParent(path)
  PROVE  /\ IsTree(WithParent(path)) /\ OnlyDirsNew(fs, WithParent(path))
         /\ SameLinks(fs, WithParent(path))
<1>1. CASE path = <<>> \/ exists(Parent(path))
  BY <1>1 DEF WithParent, OnlyDirsNew, SameLinks
<1>2. CASE path # <<>> /\ ~exists(Parent(path))
  <2> DEFINE missing == {r \in Ancestors(path) : ~exists(r)}
             places == {Real(fs, q) : q \in missing}
             g == With(fs, places, Dir)
  <2>1. WithParent(path) = g /\ \A q \in Ancestors(path) : exists(q) => is_dir(q)
    BY <1>2 DEF WithParent, CanMakeParent
  <2>2. ASSUME NEW q \in missing
        PROVE  /\ q \in Path \ {<<>>} /\ Parent(q) \in Ancestors(path)
               /\ Real(fs, q) \in Path \ {<<>>} /\ Real(fs, q) \notin DOMAIN fs
               /\ Parent(Real(fs, q)) = Real(fs, Parent(q))
    <3>1. q \in Ancestors(path) /\ Place(fs, q) \notin DOMAIN fs
      BY DEF exists
    <3>2. q \in Path
      BY <3>1, AncestorFacts
    <3>3. q # <<>>
      BY <3>1, <3>2, TreeFacts, RealFacts
    <3>4. /\ Place(fs, q) \in Path \ {<<>>}
          /\ Parent(Place(fs, q)) = Real(fs, Parent(q))
          /\ Real(fs, q) = Follow(fs, Place(fs, q))
      BY <3>2, <3>3, RealFacts
    <3>5. ~IsLinkAt(fs, Place(fs, q))
      BY <3>1 DEF IsLinkAt
    <3>6. Real(fs, q) = Place(fs, q)
      BY <3>4, <3>5, FollowFacts
    <3> QED
      BY <3>1, <3>2, <3>3, <3>4, <3>6, AncestorFacts
  <2>3. places \in SUBSET (Path \ {<<>>}) /\ \A r \in places : r \notin DOMAIN fs
    <3> HIDE DEF missing
    <3>1. \A q \in missing : Real(fs, q) \in Path \ {<<>>} /\ Real(fs, q) \notin DOMAIN fs
      BY <2>2
    <3> QED
      BY <3>1
  <2> HIDE DEF places
  <2>8. /\ DOMAIN g = DOMAIN fs \cup places
        /\ \A q \in places : g[q] = Dir
        /\ \A q \in DOMAIN fs \ places : g[q] = fs[q]
    BY DEF With
  <2> HIDE DEF g
  <2>4. ASSUME NEW r \in places
        PROVE  Parent(r) \in DOMAIN g /\ g[Parent(r)] = Dir
    <3>1. PICK q \in missing : r = Real(fs, q)
      BY DEF places
    <3>2. Parent(q) \in Ancestors(path) /\ Parent(r) = Real(fs, Parent(q))
      BY <2>2, <3>1
    <3>3. CASE exists(Parent(q))
      <4>1. is_dir(Parent(q))
        BY <2>1, <3>2, <3>3
      <4>2. Parent(r) \in DOMAIN fs /\ fs[Parent(r)].kind = "dir"
        BY <3>2, <4>1 DEF is_dir, Leads
      <4>3. fs[Parent(r)] = Dir /\ Parent(r) \notin places
        BY <2>3, <4>2, TreeFacts
      <4> QED
        BY <2>8, <4>2, <4>3
    <3>4. CASE ~exists(Parent(q))
      <4>1. Parent(r) \in places
        BY <3>2, <3>4 DEF places
      <4> QED
        BY <2>8, <4>1
    <3> QED
      BY <3>3, <3>4
  <2>5. IsTree(g)
    BY <2>3, <2>4, NodeFacts, Put DEF g
  <2>6. OnlyDirsNew(fs, g)
    BY <2>3, <2>8 DEF OnlyDirsNew
  <2>7. SameLinks(fs, g)
    BY <2>6, NodeFacts DEF OnlyDirsNew, SameLinks, IsLinkAt
  <2> QED
    BY <2>1, <2>5, <2>6, <2>7
<1> QED
  BY <1>1, <1>2

\* A place is within another if it begins with that.
LEMMA PrefixFacts ==
  ASSUME NEW s \in Path, NEW q \in Path, q # <<>>, IsPrefix(s, Parent(q))
  PROVE  IsPrefix(s, q) /\ Len(s) <= Len(q) - 1
<1>1. /\ Parent(q) \in Path /\ Len(q) \in Nat \ {0} /\ Len(Parent(q)) = Len(q) - 1
      /\ \A k \in 1..Len(q) - 1 : Parent(q)[k] = q[k]
  BY PathShape
<1>2. Len(s) \in Nat /\ Len(s) <= Len(Parent(q))
      /\ SubSeq(s, 1, Len(s)) = SubSeq(Parent(q), 1, Len(s))
  BY LenProperties DEF IsPrefix, Path
<1> DEFINE n == Len(s)
<1>3. SubSeq(Parent(q), 1, n) = SubSeq(q, 1, n)
  <2>1. n \in Nat /\ n <= Len(q) - 1 /\ n <= Len(q) /\ n <= Len(Parent(q))
        /\ \A k \in 1..n : k \in 1..Len(q) - 1 /\ k \in 1..Len(q) /\ k \in 1..Len(Parent(q))
    BY <1>1, <1>2
  <2>2. \A k \in 1..n : Parent(q)[k] = q[k] /\ q[k] \in Words
    BY <1>1, <2>1, ElementOfSeq DEF Path
  <2> HIDE DEF n
  <2>3. \A t \in Path : n <= Len(t) /\ (\A k \in 1..n : t[k] \in Words)
          => /\ SubSeq(t, 1, n) \in Seq(Words) /\ Len(SubSeq(t, 1, n)) = n
             /\ \A k \in 1..n : SubSeq(t, 1, n)[k] = t[k]
    <3> SUFFICES ASSUME NEW t \in Path, n <= Len(t), \A k \in 1..n : t[k] \in Words
                 PROVE  /\ SubSeq(t, 1, n) \in Seq(Words) /\ Len(SubSeq(t, 1, n)) = n
                        /\ \A k \in 1..n : SubSeq(t, 1, n)[k] = t[k]
      OBVIOUS
    <3>1. /\ SubSeq(t, 1, n) \in Seq(Words)
          /\ Len(SubSeq(t, 1, n)) = IF 1 <= n THEN n - 1 + 1 ELSE 0
          /\ \A k \in 1..n - 1 + 1 : SubSeq(t, 1, n)[k] = t[1 + k - 1]
      BY <2>1, SubSeqProperties
    <3> QED
      BY <2>1, <3>1
  <2>4. /\ SubSeq(q, 1, n) \in Seq(Words) /\ Len(SubSeq(q, 1, n)) = n
        /\ \A k \in 1..n : SubSeq(q, 1, n)[k] = q[k]
        /\ SubSeq(Parent(q), 1, n) \in Seq(Words) /\ Len(SubSeq(Parent(q), 1, n)) = n
        /\ \A k \in 1..n : SubSeq(Parent(q), 1, n)[k] = Parent(q)[k]
    BY <1>1, <2>1, <2>2, <2>3
  <2> QED
    BY <2>1, <2>2, <2>4, SeqEqual
<1> QED
  BY <1>1, <1>2, <1>3 DEF IsPrefix

\* The ways in which remove leaves the file system.
LEMMA RemovalCases ==
  ASSUME NEW path, NEW g \in Removals(path)
  PROVE  \/ g = fs
         \/ \E S \in Survivors(Place(fs, path)) :
              g = Without(fs, Within(fs, Place(fs, path)) \ S)
         \/ exists(path) /\ ~is_dir(path) /\ g = Without(fs, {Place(fs, path)})
<1> DEFINE place == Place(fs, path)
           A == {fs}
           B == {Without(fs, Within(fs, place) \ S) : S \in Survivors(place)}
           C == {Without(fs, {place})}
<1>1. g \in IF ~exists(path) \/ (is_dir(path) /\ is_link(path)) THEN A
           ELSE IF is_dir(path) THEN B ELSE C
  BY DEF Removals
<1>2. g \in A \/ g \in B \/ (exists(path) /\ ~is_dir(path) /\ g \in C)
  <2> HIDE DEF A, B, C
  <2> QED
    BY <1>1
<1> QED
  BY <1>2

\* What stays when a directory is removed, or only a part of it, is a tree.
LEMMA Removed ==
  ASSUME IsTree(fs), NEW path \in Path, path # <<>>, NEW g \in Removals(path)
  PROVE  IsTree(g)
<1> DEFINE place == Place(fs, path)
<1>1. place \in Path \ {<<>>} /\ Real(fs, path) = Follow(fs, place)
  BY RealFacts
<1>2. /\ fs \in [DOMAIN fs -> Nodes] /\ DOMAIN fs \subseteq Path
      /\ <<>> \in DOMAIN fs /\ fs[<<>>] = Dir
      /\ \A q \in DOMAIN fs : q # <<>> => Parent(q) \in DOMAIN fs /\ fs[Parent(q)] = Dir
  BY TreeFacts
<1>3. ASSUME NEW gone \in SUBSET DOMAIN fs, <<>> \notin gone,
             \A q \in DOMAIN fs : q # <<>> /\ q \notin gone => Parent(q) \notin gone
      PROVE  IsTree(Without(fs, gone))
  <2> DEFINE h == Without(fs, gone)
  <2>1. /\ DOMAIN h = DOMAIN fs \ gone /\ h \in [DOMAIN h -> Nodes]
        /\ \A q \in DOMAIN h : h[q] = fs[q]
    BY <1>2 DEF Without
  <2> HIDE DEF h
  <2>2. <<>> \in DOMAIN h /\ h[<<>>] = Dir /\ DOMAIN h \subseteq Path
    BY <1>2, <1>3, <2>1
  <2>3. \A q \in DOMAIN h : q # <<>> => Parent(q) \in DOMAIN h /\ h[Parent(q)] = Dir
    BY <1>2, <1>3, <2>1
  <2>4. IsTree(h)
    BY <2>1, <2>2, <2>3, TreeIf
  <2> QED
    BY <2>4 DEF h
<1>4. CASE g = fs
  BY <1>4
<1>5. ASSUME NEW S \in Survivors(place)
      PROVE  IsTree(Without(fs, Within(fs, place) \ S))
  <2> DEFINE gone == Within(fs, place) \ S
  <2>1. \A q \in DOMAIN fs : IsPrefix(place, q) <=> q \in Within(fs, place)
    BY DEF Within
  <2>2. /\ S \subseteq Within(fs, place)
        /\ \A q \in S : \A n \in Len(place)..Len(q) : SubSeq(q, 1, n) \in S
    BY DEF Survivors
  <2>3. gone \in SUBSET DOMAIN fs
    BY DEF Within
  <2>4. <<>> \notin gone
    <3>1. ~IsPrefix(place, <<>>)
      <4>1. Len(place) \in Nat \ {0} /\ Len(<<>>) = 0
        BY <1>1, PathShape
      <4> HIDE DEF place
      <4> QED
        BY <4>1 DEF IsPrefix
    <3> QED
      BY <3>1 DEF Within
  <2>5. ASSUME NEW q \in DOMAIN fs, q # <<>>, q \notin gone, Parent(q) \in gone
        PROVE  FALSE
    <3>1. IsPrefix(place, Parent(q)) /\ Parent(q) \notin S
      BY <2>5 DEF Within
    <3>2. q \in Path
      BY <1>2
    <3>3. IsPrefix(place, q) /\ Len(place) <= Len(q) - 1
      <4> HIDE DEF place, gone
      <4> QED
        BY <1>1, <2>5, <3>1, <3>2, PrefixFacts
    <3>4. q \in S
      BY <2>1, <2>5, <3>3
    <3>5. Len(q) \in Nat \ {0} /\ Parent(q) = SubSeq(q, 1, Len(q) - 1) /\ Len(place) \in Nat
      BY <1>1, <2>5, <3>2, PathShape
    <3>6. Len(q) - 1 \in Len(place)..Len(q)
      <4> HIDE DEF place, gone
      <4> QED
        BY <3>3, <3>5
    <3> QED
      BY <2>2, <3>1, <3>4, <3>5, <3>6
  <2> HIDE DEF gone
  <2>6. IsTree(Without(fs, gone))
    BY <1>3, <2>3, <2>4, <2>5
  <2> QED
    BY <2>6 DEF gone
<1>6. ASSUME exists(path), ~is_dir(path)
      PROVE  IsTree(Without(fs, {place}))
  <2>1. place \in DOMAIN fs
    BY <1>6 DEF exists
  <2>2. fs[place] # Dir
    <3> SUFFICES ASSUME fs[place] = Dir
                 PROVE  FALSE
      OBVIOUS
    <3>1. ~IsLinkAt(fs, place)
      BY NodeFacts DEF IsLinkAt
    <3>2. Real(fs, path) = place
      BY <1>1, <3>1, FollowFacts
    <3> QED
      BY <1>6, <2>1, <3>2, NodeFacts DEF is_dir, Leads
  <2> HIDE DEF place
  <2> QED
    BY <1>1, <1>2, <1>3, <2>1, <2>2
<1>7. \/ g = fs
      \/ \E S \in Survivors(place) : g = Without(fs, Within(fs, place) \ S)
      \/ exists(path) /\ ~is_dir(path) /\ g = Without(fs, {place})
  BY RemovalCases
<1> QED
  BY <1>4, <1>5, <1>6, <1>7

\* A link is put in a directory.
LEMMA LinkPut ==
  ASSUME IsTree(fs), NEW path \in Path, NEW to \in Path, ~exists(path), is_dir(Parent(path))
  PROVE  IsTree(With(fs, {Place(fs, path)}, Link(to)))
<1> DEFINE place == Place(fs, path)
           g == With(fs, {place}, Link(to))
<1>1. place \notin DOMAIN fs
  BY DEF exists
<1>2. path # <<>>
  BY <1>1, TreeFacts, RealFacts
<1>3. place \in Path \ {<<>>} /\ Parent(place) = Real(fs, Parent(path))
  BY <1>2, RealFacts
<1>4. Parent(place) \in DOMAIN fs /\ fs[Parent(place)].kind = "dir"
  BY <1>3 DEF is_dir, Leads
<1> HIDE DEF place
<1>5. fs[Parent(place)] = Dir
  BY <1>4, TreeFacts
<1>6. DOMAIN g = DOMAIN fs \cup {place} /\ \A q \in DOMAIN fs : q # place => g[q] = fs[q]
  BY DEF With
<1>7. Parent(place) \in DOMAIN g /\ g[Parent(place)] = Dir
  <2> HIDE DEF g
  <2> QED
    BY <1>1, <1>4, <1>5, <1>6
<1>8. IsTree(g)
  BY <1>1, <1>3, <1>7, NodeFacts, Put
<1> QED
  BY <1>8 DEF place

\* Listed is what its definition says.
LEMMA ListedFacts ==
  ASSUME NEW place
  PROVE  /\ Listed(place)[0] = <<>>
         /\ \A n \in 1..Len(Names) :
              Listed(place)[n] =
                IF Child(place, Names[n]) \in DOMAIN fs
                THEN Append(Listed(place)[n - 1], Names[n]) ELSE Listed(place)[n - 1]
<1> DEFINE N == Len(Names)
           h == [x \in Path \X (1..N) |->
                   IF Child(place, Names[x[2]]) \in DOMAIN fs THEN Append(x[1], Names[x[2]])
                   ELSE x[1]]
<1>1. N \in Nat /\ \A n \in 1..N : Names[n] \in Words
  BY NameFacts
<1> HIDE DEF N
<1>2. \A q \in Path, n \in 1..N : Append(q, Names[n]) \in Path
  BY <1>1, ChildShape DEF Child
<1>3. /\ h \in [Path \X (1..N) -> Path]
      /\ \A q \in Path, n \in 1..N :
           h[<<q, n>>] = IF Child(place, Names[n]) \in DOMAIN fs THEN Append(q, Names[n]) ELSE q
  BY <1>2
<1>4. <<>> \in Path
  BY EmptySeq DEF Path
<1> HIDE DEF h
<1>5. PICK g : Recurs(g, N, Path, <<>>, h)
  <2>1. h \in [Path \X (1..N) -> Path]
    BY <1>3
  <2>2. N \in Nat
    BY <1>1
  <2> QED
    BY <1>4, <2>1, <2>2, Recursion, Zenon
<1> DEFINE Eq(c) == c = [n \in 0..N |->
                           IF n = 0 THEN <<>>
                           ELSE IF Child(place, Names[n]) \in DOMAIN fs
                                THEN Append(c[n - 1], Names[n])
                           ELSE c[n - 1]]
<1>6. g \in [0..N -> Path] /\ g[0] = <<>> /\ \A n \in 1..N : g[n] = h[<<g[n - 1], n>>]
  BY <1>5 DEF Recurs
<1>7. \A n \in 1..N : n - 1 \in 0..N /\ n \in 0..N
  BY <1>1
<1>8. \A n \in 0..N : n # 0 => n \in 1..N
  BY <1>1
<1>9. Eq(g)
  <2>1. \A n \in 1..N : g[n] = IF Child(place, Names[n]) \in DOMAIN fs
                               THEN Append(g[n - 1], Names[n]) ELSE g[n - 1]
    BY <1>3, <1>6, <1>7
  <2> QED
    BY <1>6, <1>8, <2>1
<1>10. Listed(place) = CHOOSE c : Eq(c)
  BY DEF Listed, N
<1> DEFINE L == Listed(place)
<1>11. Eq(L)
  <2> HIDE DEF Eq
  <2> QED
    BY <1>9, <1>10
<1> HIDE DEF L
<1>12. L[0] = <<>>
  <2>1. 0 \in 0..N
    BY <1>1
  <2> QED
    BY <1>11, <2>1
<1>13. \A n \in 1..N : L[n] = IF Child(place, Names[n]) \in DOMAIN fs
                              THEN Append(L[n - 1], Names[n]) ELSE L[n - 1]
  <2>1. \A n \in 1..N : n \in 0..N /\ n # 0
    BY <1>1
  <2> QED
    BY <1>11, <2>1
<1> QED
  BY <1>12, <1>13 DEF L, N

\* The names that list_dir returns are those of the entries, each of them once.
LEMMA ListFacts ==
  ASSUME NEW path
  PROVE  /\ list_dir(path) \in Path /\ DOMAIN list_dir(path) = 1..Len(list_dir(path))
         /\ Len(list_dir(path)) \in Nat
         /\ \A k \in DOMAIN list_dir(path) :
              /\ list_dir(path)[k] \in Range(Names)
              /\ Child(Real(fs, path), list_dir(path)[k]) \in DOMAIN fs
         /\ \A k, l \in DOMAIN list_dir(path) : list_dir(path)[k] = list_dir(path)[l] => k = l
         /\ \A x \in Range(Names) :
              Child(Real(fs, path), x) \in DOMAIN fs =>
                \E k \in DOMAIN list_dir(path) : list_dir(path)[k] = x
<1> DEFINE place == Real(fs, path)
           N == Len(Names)
           L == Listed(place)
           Is(x) == Child(place, x) \in DOMAIN fs
           P(n) == /\ L[n] \in Path
                   /\ \A k \in 1..Len(L[n]) : \E m \in 1..n : L[n][k] = Names[m] /\ Is(Names[m])
                   /\ \A k, l \in 1..Len(L[n]) : L[n][k] = L[n][l] => k = l
                   /\ \A m \in 1..n : Is(Names[m]) => \E k \in 1..Len(L[n]) : L[n][k] = Names[m]
           S == {n \in 0..N : P(n)}
<1>1. N \in Nat /\ (\A n \in 1..N : Names[n] \in Words)
      /\ (\A m, n \in 1..N : Names[m] = Names[n] => m = n) /\ DOMAIN Names = 1..N
  BY NameFacts
<1>2. L[0] = <<>> /\ \A n \in 1..N : L[n] = IF Is(Names[n]) THEN Append(L[n - 1], Names[n])
                                            ELSE L[n - 1]
  BY ListedFacts
<1> HIDE DEF place, N, L, Is
<1>3. 0 \in S
  <2>1. L[0] \in Path /\ Len(L[0]) = 0
    BY <1>2, Named
  <2>2. 1..Len(L[0]) = {} /\ 1..0 = {} /\ 0 \in 0..N
    BY <1>1, <2>1
  <2> QED
    BY <2>1, <2>2
<1>4. ASSUME NEW n \in S, n < N
      PROVE  n + 1 \in S
  <2>1. n \in 0..N /\ P(n)
    BY <1>4
  <2> DEFINE m == n + 1
             u == L[n]
             v == L[m]
             x == Names[m]
  <2>2. /\ n \in Nat /\ m \in 1..N /\ m \in 0..N /\ m - 1 = n /\ m = n + 1
        /\ \A k \in 1..m : k = m \/ k \in 1..n
        /\ \A k \in 1..n : k \in 1..m /\ k # m /\ k \in 1..N
    <3> HIDE DEF S, P
    <3> QED
      BY <1>1, <1>4, <2>1
  <2>3. /\ u \in Path /\ x \in Words
        /\ v = IF Is(x) THEN Append(u, x) ELSE u
    BY <1>1, <1>2, <2>1, <2>2
  <2>4. \A k \in 1..Len(u) : \E i \in 1..n : u[k] = Names[i] /\ Is(Names[i])
    BY <2>1
  <2>5. \A k, l \in 1..Len(u) : u[k] = u[l] => k = l
    BY <2>1
  <2>6. \A i \in 1..n : Is(Names[i]) => \E k \in 1..Len(u) : u[k] = Names[i]
    BY <2>1
  <2> HIDE DEF S, P, u, v, x, m
  <2>7. CASE ~Is(x)
    <3>1. v = u
      BY <2>3, <2>7
    <3>2. \A i \in 1..m : Is(Names[i]) => \E k \in 1..Len(u) : u[k] = Names[i]
      BY <2>2, <2>6, <2>7 DEF x
    <3>3. \A k \in 1..Len(u) : \E i \in 1..m : u[k] = Names[i] /\ Is(Names[i])
      BY <2>2, <2>4
    <3>4. P(m)
      BY <2>3, <2>5, <3>1, <3>2, <3>3 DEF P, v
    <3> QED
      BY <2>2, <3>4 DEF S, m
  <2>8. CASE Is(x)
    <3> DEFINE z == Len(u)
    <3>1. /\ v \in Path /\ z \in Nat /\ Len(v) = z + 1 /\ v[z + 1] = x
          /\ \A k \in 1..z : v[k] = u[k]
      <4>1. v = Append(u, x)
        BY <2>3, <2>8
      <4> QED
        BY <2>3, <4>1, Named, ChildShape, AppendProperties DEF Path, Child
    <3>2. /\ \A k \in 1..z + 1 : k = z + 1 \/ k \in 1..z
          /\ \A k \in 1..z : k \in 1..z + 1
          /\ z + 1 \in 1..z + 1
      BY <3>1
    <3>3. \A k \in 1..z : u[k] # x
      <4> SUFFICES ASSUME NEW k \in 1..z, u[k] = x
                   PROVE  FALSE
        OBVIOUS
      <4>1. PICK i \in 1..n : u[k] = Names[i]
        BY <2>4
      <4>2. i = m
        BY <1>1, <2>2, <4>1 DEF x
      <4> QED
        BY <2>2, <4>2
    <3> HIDE DEF z
    <3>4. \A k, l \in 1..z + 1 : v[k] = v[l] => k = l
      <4> SUFFICES ASSUME NEW k \in 1..z + 1, NEW l \in 1..z + 1, v[k] = v[l]
                   PROVE  k = l
        OBVIOUS
      <4>1. CASE k \in 1..z /\ l \in 1..z
        BY <2>5, <3>1, <4>1 DEF z
      <4>2. CASE k = z + 1 /\ l \in 1..z
        BY <3>1, <3>3, <4>2
      <4>3. CASE k \in 1..z /\ l = z + 1
        BY <3>1, <3>3, <4>3
      <4> QED
        BY <3>2, <4>1, <4>2, <4>3
    <3>5. \A k \in 1..z + 1 : \E i \in 1..m : v[k] = Names[i] /\ Is(Names[i])
      <4> SUFFICES ASSUME NEW k \in 1..z + 1
                   PROVE  \E i \in 1..m : v[k] = Names[i] /\ Is(Names[i])
        OBVIOUS
      <4>1. CASE k = z + 1
        <5>1. m \in 1..m
          BY <2>2
        <5> QED
          BY <2>8, <3>1, <4>1, <5>1 DEF x
      <4>2. CASE k \in 1..z
        <5>1. PICK i \in 1..n : u[k] = Names[i] /\ Is(Names[i])
          BY <2>4, <4>2 DEF z
        <5> QED
          BY <2>2, <3>1, <4>2, <5>1
      <4> QED
        BY <3>2, <4>1, <4>2
    <3>6. \A i \in 1..m : Is(Names[i]) => \E k \in 1..z + 1 : v[k] = Names[i]
      <4> SUFFICES ASSUME NEW i \in 1..m, Is(Names[i])
                   PROVE  \E k \in 1..z + 1 : v[k] = Names[i]
        OBVIOUS
      <4>1. CASE i = m
        BY <3>1, <3>2, <4>1 DEF x
      <4>2. CASE i \in 1..n
        <5>1. PICK k \in 1..z : u[k] = Names[i]
          BY <2>6, <4>2 DEF z
        <5> QED
          BY <3>1, <3>2, <5>1
      <4> QED
        BY <2>2, <4>1, <4>2
    <3>7. Len(v) = z + 1
      BY <3>1
    <3>8. P(m)
      BY <3>1, <3>4, <3>5, <3>6, <3>7 DEF P, v
    <3> QED
      BY <2>2, <3>8 DEF S, m
  <2> QED
    BY <2>7, <2>8
<1>5. S = 0..N
  <2>1. S \in SUBSET (0..N)
    OBVIOUS
  <2> HIDE DEF S
  <2> QED
    BY <1>1, <1>3, <1>4, <2>1, Ascend
<1>6. P(N)
  <2>1. N \in 0..N
    BY <1>1
  <2> QED
    BY <1>5, <2>1
<1> DEFINE names == L[N]
<1>7. list_dir(path) = names
  BY DEF list_dir, L, place, N
<1>8. names \in Path /\ DOMAIN names = 1..Len(names) /\ Len(names) \in Nat
  <2>1. names \in Path
    BY <1>6
  <2> HIDE DEF names
  <2> QED
    BY <2>1, LenProperties DEF Path
<1>9. \A k \in 1..Len(names) : names[k] \in Range(Names) /\ Is(names[k])
  <2>1. \A k \in 1..Len(names) : \E m \in 1..N : names[k] = Names[m] /\ Is(Names[m])
    BY <1>6
  <2>2. \A m \in 1..N : Names[m] \in Range(Names)
    BY <1>1 DEF Range
  <2> HIDE DEF names
  <2> QED
    BY <2>1, <2>2
<1>10. \A k, l \in 1..Len(names) : names[k] = names[l] => k = l
  BY <1>6
<1>11. \A x \in Range(Names) : Is(x) => \E k \in 1..Len(names) : names[k] = x
  <2>1. \A m \in 1..N : Is(Names[m]) => \E k \in 1..Len(names) : names[k] = Names[m]
    BY <1>6
  <2>2. \A x \in Range(Names) : \E m \in 1..N : x = Names[m]
    BY <1>1 DEF Range
  <2> HIDE DEF names
  <2> QED
    BY <2>1, <2>2
<1> HIDE DEF names
<1> QED
  BY <1>7, <1>8, <1>9, <1>10, <1>11 DEF Is, place

-----------------------------------------------------------------------------
(* The agenda                                                              *)

Deeds == {"copy", "entries", "stat", "file", "remove", "link", "symlink", "open_w",
          "open_a", "write", "prepend", "replace", "add", "tail", "touch", "await",
          "sleep", "pack"}
Steps == {step \in [to : Path, do : Deeds, from : Path, inside : BOOLEAN, lines : Lines] :
            step.do = "copy" => step.from # <<>>}

\* What is written is written to a file that has been opened by the step before;
\* the temporary file is made by the first step of all.
Opens == {"open_w", "open_a", "write", "add"}
Free(step) == step.do \notin {"write", "add", "pack"}
Follows(step, next) ==
  Free(next) \/ (next.do # "pack" /\ step.do \in Opens /\ step.to = next.to)

Chain(steps) ==
  steps \in Seq(Steps) /\ \A n \in 1..Len(steps) : n > 1 => Follows(steps[n - 1], steps[n])

FileAt(f, path) == Real(f, path) \in DOMAIN f /\ f[Real(f, path)].kind = "file"

First(step) ==
  /\ step.do \in {"write", "add"} => FileAt(fs, step.to)
  /\ step.do = "pack" => fs = before

AgendaOK ==
  /\ Chain(agenda)
  /\ agenda # <<>> => First(Head(agenda))
  /\ outcome = "ready" => fs = before
  /\ outcome = "running" => op.to # <<>>
  /\ before \in Trees

IInv == TypeOK /\ AgendaOK

LEMMA StepFacts ==
  /\ \A do \in Deeds, from, to \in Path :
       (do = "copy" => from # <<>>) =>
         /\ Step(do, from, to) \in Steps /\ Step(do, from, to).do = do
         /\ Step(do, from, to).to = to
  /\ \A from, to \in Path, inside \in BOOLEAN :
       from # <<>> => /\ CopyStep(from, to, inside) \in Steps
                      /\ CopyStep(from, to, inside).do = "copy"
  /\ \A path \in Path, lines \in Lines :
       /\ WriteStep(path, lines) \in Steps /\ WriteStep(path, lines).do = "write"
       /\ WriteStep(path, lines).to = path /\ WriteStep(path, lines).lines = lines
<1> DEFINE All == [to : Path, do : Deeds, from : Path, inside : BOOLEAN, lines : Lines]
<1>1. <<>> \in Lines
  BY NodeFacts
<1>2. \A do \in Deeds, from, to \in Path :
        Step(do, from, to) \in All /\ Step(do, from, to).do = do
        /\ Step(do, from, to).to = to /\ Step(do, from, to).from = from
  BY <1>1 DEF Step
<1>3. "copy" \in Deeds /\ "write" \in Deeds /\ "write" # "copy"
  BY DEF Deeds
<1>4. \A step \in All : (step.do = "copy" => step.from # <<>>) => step \in Steps
  BY DEF Steps
<1>5. \A step \in All, inside \in BOOLEAN :
        /\ [step EXCEPT !.inside = inside] \in All
        /\ [step EXCEPT !.inside = inside].do = step.do
        /\ [step EXCEPT !.inside = inside].from = step.from
  OBVIOUS
<1>6. \A step \in All, lines \in Lines :
        /\ [step EXCEPT !.lines = lines] \in All
        /\ [step EXCEPT !.lines = lines].do = step.do
        /\ [step EXCEPT !.lines = lines].to = step.to
        /\ [step EXCEPT !.lines = lines].lines = lines
  OBVIOUS
<1> HIDE DEF All
<1>7. \A from, to \in Path, inside \in BOOLEAN :
        from # <<>> => /\ CopyStep(from, to, inside) \in Steps
                       /\ CopyStep(from, to, inside).do = "copy"
  <2> SUFFICES ASSUME NEW from \in Path, NEW to \in Path, NEW inside \in BOOLEAN, from # <<>>
               PROVE  /\ CopyStep(from, to, inside) \in Steps
                      /\ CopyStep(from, to, inside).do = "copy"
    OBVIOUS
  <2>1. /\ Step("copy", from, to) \in All /\ Step("copy", from, to).do = "copy"
        /\ Step("copy", from, to).from = from
    BY <1>2, <1>3
  <2> DEFINE s == Step("copy", from, to)
  <2> HIDE DEF s
  <2>2. CopyStep(from, to, inside) = [s EXCEPT !.inside = inside]
    BY DEF CopyStep, s
  <2>3. /\ [s EXCEPT !.inside = inside] \in All /\ [s EXCEPT !.inside = inside].do = "copy"
        /\ [s EXCEPT !.inside = inside].from = from
    BY <1>5, <2>1 DEF s
  <2> QED
    BY <1>4, <2>2, <2>3
<1>8. \A path \in Path, lines \in Lines :
        /\ WriteStep(path, lines) \in Steps /\ WriteStep(path, lines).do = "write"
        /\ WriteStep(path, lines).to = path /\ WriteStep(path, lines).lines = lines
  <2> SUFFICES ASSUME NEW path \in Path, NEW lines \in Lines
               PROVE  /\ WriteStep(path, lines) \in Steps /\ WriteStep(path, lines).do = "write"
                      /\ WriteStep(path, lines).to = path /\ WriteStep(path, lines).lines = lines
    OBVIOUS
  <2>1. /\ Step("write", path, path) \in All /\ Step("write", path, path).do = "write"
        /\ Step("write", path, path).to = path
    BY <1>2, <1>3
  <2> DEFINE s == Step("write", path, path)
  <2> HIDE DEF s
  <2>2. WriteStep(path, lines) = [s EXCEPT !.lines = lines]
    BY DEF WriteStep, s
  <2>3. /\ [s EXCEPT !.lines = lines] \in All /\ [s EXCEPT !.lines = lines].do = "write"
        /\ [s EXCEPT !.lines = lines].to = path /\ [s EXCEPT !.lines = lines].lines = lines
    BY <1>6, <2>1 DEF s
  <2> QED
    BY <1>3, <1>4, <2>2, <2>3
<1> QED
  BY <1>2, <1>4, <1>7, <1>8

\* The next steps, and those after them.
LEMMA Chained ==
  ASSUME Chain(agenda), agenda # <<>>, NEW steps, Chain(steps),
         steps # <<>> => Now.do \notin Opens
  PROVE  /\ Chain(steps \o Tail(agenda))
         /\ Now \in Steps
         /\ steps # <<>> => Head(steps \o Tail(agenda)) = steps[1]
         /\ steps = <<>> => steps \o Tail(agenda) = Tail(agenda)
         /\ Tail(agenda) # <<>> => Follows(Now, Head(Tail(agenda)))
<1> DEFINE A == agenda
           T == Tail(agenda)
           N == Len(agenda)
           M == Len(steps)
           L == steps \o T
<1>1. A \in Seq(Steps) /\ A # <<>> /\ steps \in Seq(Steps)
  BY DEF Chain
<1>2. /\ Head(A) \in Steps /\ T \in Seq(Steps) /\ N \in Nat \ {0} /\ Len(T) = N - 1
      /\ \A n \in 1..N - 1 : T[n] = A[n + 1]
      /\ Head(A) = A[1]
  <2>1. N \in Nat \ {0} /\ A[1] \in Steps /\ Head(A) = A[1]
    <3>1. N \in Nat \ {0}
      BY <1>1, LenProperties, EmptySeq
    <3> QED
      BY <1>1, <3>1, ElementOfSeq, HeadTailProperties
  <2>2. T \in Seq(Steps) /\ Len(T) = N - 1 /\ \A n \in 1..N - 1 : T[n] = A[n + 1]
    BY <1>1, HeadTailProperties
  <2> QED
    BY <2>1, <2>2
<1>3. M \in Nat /\ (steps = <<>> <=> M = 0)
  BY <1>1, LenProperties, EmptySeq
<1>4. /\ L \in Seq(Steps) /\ Len(L) = M + (N - 1)
      /\ \A n \in 1..M + (N - 1) : L[n] = IF n <= M THEN steps[n] ELSE T[n - M]
  BY <1>1, <1>2, ConcatProperties
<1>5. \A n \in 1..N : n > 1 => Follows(A[n - 1], A[n])
  BY DEF Chain
<1>6. \A n \in 1..M : n > 1 => Follows(steps[n - 1], steps[n])
  BY DEF Chain
<1>7. N > 1 => Follows(Now, T[1])
  <2>1. N > 1 => 2 \in 1..N /\ 2 - 1 = 1 /\ 1 \in 1..N - 1 /\ 1 + 1 = 2
    BY <1>2
  <2> HIDE DEF T, N, A
  <2> QED
    BY <1>2, <1>5, <2>1 DEF Now, A
<1> HIDE DEF L, T, N, M, A
<1>8. ASSUME NEW n \in 1..Len(L), n > 1
      PROVE  Follows(L[n - 1], L[n])
  <2>1. n \in 1..M + (N - 1) /\ n - 1 \in 1..M + (N - 1)
    BY <1>2, <1>3, <1>4, <1>8
  <2>2. CASE n <= M
    <3>1. n \in 1..M /\ n - 1 <= M
      BY <1>3, <2>1, <2>2
    <3> QED
      BY <1>4, <1>6, <1>8, <2>1, <2>2, <3>1
  <2>3. CASE n = M + 1
    <3>1. M # 0 /\ n - 1 <= M /\ ~(n <= M) /\ n - M = 1 /\ N > 1
      BY <1>2, <1>3, <1>8, <2>1, <2>3
    <3>2. L[n] = T[1] /\ Now.do \notin Opens
      BY <1>3, <1>4, <2>1, <3>1
    <3>3. Free(T[1])
      BY <1>7, <3>1, <3>2 DEF Follows
    <3> QED
      BY <3>2, <3>3 DEF Follows
  <2>4. CASE n > M + 1
    <3>1. /\ ~(n <= M) /\ ~(n - 1 <= M) /\ n - M \in 1..N - 1 /\ (n - 1) - M \in 1..N - 1
          /\ (n - M) + 1 \in 1..N /\ (n - M) + 1 > 1 /\ (n - 1) - M + 1 = ((n - M) + 1) - 1
      BY <1>2, <1>3, <2>1, <2>4
    <3>2. L[n] = T[n - M] /\ L[n - 1] = T[(n - 1) - M]
      BY <1>4, <2>1, <3>1
    <3>3. T[n - M] = A[(n - M) + 1] /\ T[(n - 1) - M] = A[((n - M) + 1) - 1]
      BY <1>2, <3>1
    <3> QED
      BY <1>5, <3>1, <3>2, <3>3
  <2> QED
    BY <1>3, <2>1, <2>2, <2>3, <2>4
<1>9. Chain(L)
  BY <1>4, <1>8 DEF Chain
<1>10. steps # <<>> => Head(L) = steps[1]
  <2> SUFFICES ASSUME steps # <<>>
               PROVE  Head(L) = steps[1]
    OBVIOUS
  <2>1. 1 \in 1..M + (N - 1) /\ 1 <= M
    BY <1>2, <1>3
  <2>2. L # <<>> /\ L[1] = steps[1]
    <3>1. Len(L) # 0
      BY <1>2, <1>3, <1>4
    <3> QED
      BY <1>4, <2>1, <3>1, EmptySeq
  <2> QED
    BY <1>4, <2>2, HeadTailProperties
<1>11. steps = <<>> => L = T
  BY <1>2, ConcatEmptySeq DEF L
<1>12. T # <<>> => Follows(Now, Head(T))
  <2> SUFFICES ASSUME T # <<>>
               PROVE  Follows(Now, Head(T))
    OBVIOUS
  <2>1. Head(T) = T[1] /\ N > 1
    BY <1>2, EmptySeq, HeadTailProperties
  <2> QED
    BY <1>7, <2>1
<1> QED
  BY <1>2, <1>9, <1>10, <1>11, <1>12 DEF L, T, A, Now

-----------------------------------------------------------------------------
(* The file system stays a tree                                            *)

LEMMA ChainsOf ==
  /\ Chain(<<>>)
  /\ \A a \in Steps : Chain(<<a>>) /\ <<a>> # <<>> /\ <<a>>[1] = a /\ Head(<<a>>) = a
  /\ \A a, b \in Steps :
       Follows(a, b) => Chain(<<a, b>>) /\ <<a, b>> # <<>> /\ <<a, b>>[1] = a
                        /\ Head(<<a, b>>) = a
  /\ \A a, b, c \in Steps :
       Follows(a, b) /\ Follows(b, c) =>
         Chain(<<a, b, c>>) /\ <<a, b, c>> # <<>> /\ Head(<<a, b, c>>) = a
<1> HIDE DEF Steps, Follows
<1>1. Chain(<<>>)
  BY EmptySeq DEF Chain
<1>2. \A a \in Steps : Chain(<<a>>) /\ <<a>> # <<>> /\ <<a>>[1] = a /\ Head(<<a>>) = a
  BY DEF Chain
<1>3. ASSUME NEW a \in Steps, NEW b \in Steps, Follows(a, b)
      PROVE  Chain(<<a, b>>) /\ <<a, b>> # <<>> /\ <<a, b>>[1] = a /\ Head(<<a, b>>) = a
  BY <1>3 DEF Chain
<1>4. ASSUME NEW a \in Steps, NEW b \in Steps, NEW c \in Steps, Follows(a, b), Follows(b, c)
      PROVE  Chain(<<a, b, c>>) /\ <<a, b, c>> # <<>> /\ Head(<<a, b, c>>) = a
  BY <1>4 DEF Chain
<1> QED
  BY <1>1, <1>2, <1>3, <1>4

LEMMA Joined ==
  ASSUME NEW s, Chain(s), s # <<>>, NEW t, Chain(t), Free(t[1])
  PROVE  Chain(s \o t) /\ s \o t # <<>> /\ Head(s \o t) = s[1] /\ (s \o t)[1] = s[1]
<1> DEFINE N == Len(s)
           M == Len(t)
           L == s \o t
<1>1. /\ s \in Seq(Steps) /\ t \in Seq(Steps) /\ N \in Nat \ {0} /\ M \in Nat
      /\ \A n \in 1..N : n > 1 => Follows(s[n - 1], s[n])
      /\ \A n \in 1..M : n > 1 => Follows(t[n - 1], t[n])
  BY EmptySeq, LenProperties DEF Chain
<1>2. /\ L \in Seq(Steps) /\ Len(L) = N + M
      /\ \A n \in 1..N + M : L[n] = IF n <= N THEN s[n] ELSE t[n - N]
  BY <1>1, ConcatProperties
<1> HIDE DEF L, N, M
<1>3. ASSUME NEW n \in 1..Len(L), n > 1
      PROVE  Follows(L[n - 1], L[n])
  <2>1. n \in 1..N + M /\ n - 1 \in 1..N + M
    BY <1>1, <1>2, <1>3
  <2>2. CASE n <= N
    <3>1. n \in 1..N /\ n - 1 <= N
      BY <1>1, <2>1, <2>2
    <3> QED
      BY <1>1, <1>2, <1>3, <2>1, <2>2, <3>1
  <2>3. CASE n = N + 1
    <3>1. ~(n <= N) /\ n - N = 1
      BY <1>1, <2>3
    <3>2. L[n] = t[1]
      BY <1>2, <2>1, <3>1
    <3> QED
      BY <3>2 DEF Follows
  <2>4. CASE n > N + 1
    <3>1. /\ ~(n <= N) /\ ~(n - 1 <= N) /\ n - N \in 1..M /\ n - N > 1
          /\ (n - 1) - N = (n - N) - 1
      BY <1>1, <2>1, <2>4
    <3>2. L[n] = t[n - N] /\ L[n - 1] = t[(n - N) - 1]
      BY <1>2, <2>1, <3>1
    <3> QED
      BY <1>1, <3>1, <3>2
  <2> QED
    BY <1>1, <2>1, <2>2, <2>3, <2>4
<1>4. L # <<>> /\ L[1] = s[1]
  <2>1. 1 \in 1..N + M /\ 1 <= N /\ N + M # 0
    BY <1>1
  <2> QED
    BY <1>2, <2>1, EmptySeq
<1>5. Head(L) = L[1]
  BY <1>2, <1>4, HeadTailProperties
<1>6. Chain(L)
  BY <1>2, <1>3 DEF Chain
<1> QED
  BY <1>4, <1>5, <1>6 DEF L

\* A step that leaves a tree, and steps to come that do not write first.
LEMMA StepKeeps ==
  ASSUME IInv, outcome = "running", agenda # <<>>, IsTree(fs'), result' \in Lines,
         NEW steps, Chain(steps), Continue(steps), UNCHANGED <<op, before>>,
         steps # <<>> => Now.do \notin Opens /\ Free(steps[1]),
         Now.do \in Opens => FileAt(fs', Now.to)
  PROVE  IInv'
<1>1. /\ Chain(agenda') /\ agenda' = steps \o Tail(agenda)
      /\ steps # <<>> => Head(agenda') = steps[1]
      /\ steps = <<>> => agenda' = Tail(agenda)
      /\ Tail(agenda) # <<>> => Follows(Now, Head(Tail(agenda)))
  BY Chained DEF IInv, AgendaOK, Continue
<1>2. agenda' # <<>> => First(Head(agenda))'
  <2> SUFFICES ASSUME agenda' # <<>>
               PROVE  First(Head(agenda))'
    OBVIOUS
  <2>1. CASE steps # <<>>
    BY <1>1, <2>1 DEF First, Free
  <2>2. CASE steps = <<>>
    <3>1. Follows(Now, Head(agenda'))
      BY <1>1, <2>2
    <3>2. FileAt(fs', Head(agenda').to) \/ Free(Head(agenda'))
      BY <3>1 DEF Follows
    <3> QED
      BY <3>1, <3>2 DEF First, Follows, Free, FileAt
  <2> QED
    BY <2>1, <2>2
<1>3. AgendaOK'
  BY <1>1, <1>2 DEF IInv, AgendaOK, Continue
<1>4. TypeOK'
  BY DEF IInv, TypeOK, Continue, Lines, Path
<1> QED
  BY <1>3, <1>4 DEF IInv

\* An operation is called.
LEMMA CallKeeps ==
  ASSUME IInv, NEW operation, NEW steps, Call(operation, steps), Chain(steps), steps # <<>>,
         operation.from \in Path, operation.to \in Path \ {<<>>}, operation.count \in Nat,
         Head(steps).do \notin {"write", "add"}
  PROVE  IInv'
<1>1. First(Head(agenda))'
  BY DEF IInv, AgendaOK, First, Call
<1>2. AgendaOK'
  BY <1>1 DEF IInv, AgendaOK, Call
<1>3. TypeOK'
  BY DEF IInv, TypeOK, Call, Path
<1> QED
  BY <1>2, <1>3 DEF IInv

\* The step that is executed.
LEMMA NowFacts ==
  ASSUME IInv, agenda # <<>>
  PROVE  /\ Now \in Steps /\ Now.from \in Path /\ Now.to \in Path /\ Now.lines \in Lines
         /\ Now.do = "copy" => Now.from # <<>>
         /\ First(Now)
         /\ IsTree(fs) /\ result \in Lines
<1>1. Now \in Steps /\ First(Now)
  BY HeadTailProperties DEF IInv, AgendaOK, Chain, Now
<1>2. IsTree(fs) /\ result \in Lines
  BY DEF IInv, TypeOK, Lines, Path
<1> QED
  BY <1>1, <1>2 DEF Steps

\* The steps for the entries of a directory.
LEMMA EntriesFacts ==
  ASSUME NEW from \in Path, NEW to \in Path
  PROVE  /\ Chain(Entries(from, to))
         /\ \A n \in 1..Len(Entries(from, to)) : Free(Entries(from, to)[n])
<1> DEFINE names == list_dir(from)
           N == Len(names)
           e == [n \in 1..N |-> CopyStep(Child(from, names[n]), Child(to, names[n]), FALSE)]
<1>1. N \in Nat /\ DOMAIN names = 1..N /\ \A n \in 1..N : names[n] \in Words
  <2>1. names \in Seq(Words)
    BY ListFacts DEF Path
  <2> HIDE DEF names
  <2> QED
    BY <2>1, LenProperties, ElementOfSeq
<1>2. Entries(from, to) = e
  BY <1>1 DEF Entries
<1> HIDE DEF names, N
<1>3. \A n \in 1..N : e[n] \in Steps /\ e[n].do = "copy"
  <2> SUFFICES ASSUME NEW n \in 1..N
               PROVE  e[n] \in Steps /\ e[n].do = "copy"
    OBVIOUS
  <2>1. /\ Child(from, names[n]) \in Path /\ Child(from, names[n]) # <<>>
        /\ Child(to, names[n]) \in Path
    BY <1>1, ChildShape
  <2>2. \A p, q \in Path : p # <<>> => /\ CopyStep(p, q, FALSE) \in Steps
                                       /\ CopyStep(p, q, FALSE).do = "copy"
    BY StepFacts
  <2> HIDE DEF Steps
  <2>3. e[n] = CopyStep(Child(from, names[n]), Child(to, names[n]), FALSE)
    OBVIOUS
  <2> QED
    BY <2>1, <2>2, <2>3
<1>4. e \in Seq(Steps) /\ Len(e) = N
  <2>1. e \in [1..N -> Steps]
    BY <1>3
  <2> HIDE DEF e
  <2>2. e \in Seq(Steps)
    BY <1>1, <2>1
  <2>3. DOMAIN e = 1..N
    BY <2>1
  <2> QED
    BY <1>1, <2>2, <2>3, LenProperties
<1> HIDE DEF e
<1>5. \A n \in 1..N : Free(e[n])
  BY <1>3 DEF Free
<1>6. Chain(e)
  BY <1>4, <1>5 DEF Chain, Follows
<1> QED
  BY <1>2, <1>4, <1>5, <1>6

-----------------------------------------------------------------------------
(* The actions                                                             *)

Called ==
  \/ \E from, to \in Targets, inside \in BOOLEAN :
       \/ \E symlinks \in BOOLEAN : copy(from, to, inside, symlinks)
       \/ move(from, to, inside)
  \/ \E path, to \in Targets : make_link(path, to) \/ concatenate(path, to)
  \/ \E path \in Targets :
       \/ remove(path) \/ touch(path)
       \/ write_lines(path) \/ append_lines(path) \/ prepend_lines(path)
       \/ replace_in_file(path) \/ await_exists(path)
       \/ \E count \in 0..2 : tail_lines(path, count)
       \/ \E n \in DOMAIN Names : rename_archive(path, Names[n])

\* An operation is called, then its steps are executed, and then nothing happens.
LEMMA Turns ==
  ASSUME Next
  PROVE  \/ outcome = "ready" /\ Called
         \/ outcome = "running" /\ ~Called /\ ~Ended
         \/ outcome \in {"done", "error"} /\ UNCHANGED vars
<1>1. CASE Called
  BY <1>1 DEF Called, copy, move, make_link, concatenate, remove, touch, write_lines,
              append_lines, prepend_lines, replace_in_file, await_exists, tail_lines,
              rename_archive, Call
<1>2. CASE Ended /\ ~Called
  BY <1>2 DEF Ended
<1>3. CASE ~Called /\ ~Ended
  BY <1>3 DEF Next, Called, DoCopy, DoEntries, DoStat, DoFile, DoRemove, DoLink, DoSymlink,
              DoOpen, DoWrite, DoRead, DoAdd, DoTail, DoTouch, DoAwait, DoSleep, DoPack,
              StepFails, Finish, Doing
<1> QED
  BY <1>1, <1>2, <1>3

\* A step is the next one of the agenda, and does not change what is called.
LEMMA Allowed ==
  ASSUME Next, outcome = "running"
  PROVE  \/ agenda = <<>> /\ Finish
         \/ /\ agenda # <<>> /\ UNCHANGED <<op, before>> /\ outcome' \in {"running", "error"}
            /\ \/ StepFails
               \/ Now.do = "copy" /\ DoCopy
               \/ Now.do = "entries" /\ DoEntries
               \/ Now.do = "stat" /\ DoStat
               \/ Now.do = "file" /\ DoFile
               \/ Now.do = "remove" /\ DoRemove
               \/ Now.do = "link" /\ DoLink
               \/ Now.do = "symlink" /\ DoSymlink
               \/ Now.do \in {"open_w", "open_a"} /\ DoOpen
               \/ Now.do = "write" /\ DoWrite
               \/ Now.do \in {"prepend", "replace"} /\ DoRead
               \/ Now.do = "add" /\ DoAdd
               \/ Now.do = "tail" /\ DoTail
               \/ Now.do = "touch" /\ DoTouch
               \/ Now.do = "await" /\ DoAwait
               \/ Now.do = "sleep" /\ DoSleep
               \/ Now.do = "pack" /\ DoPack
<1>1. ~Called /\ ~Ended
  BY Turns
<1>2. CASE DoCopy \/ DoEntries
  <2>1. DoCopy => Doing("copy") /\ UNCHANGED <<op, before, outcome>>
    BY DEF DoCopy, Continue
  <2>2. DoEntries => Doing("entries") /\ UNCHANGED <<op, before, outcome>>
    BY DEF DoEntries, Continue
  <2> QED
    BY <1>2, <2>1, <2>2 DEF Doing
<1>3. CASE DoStat \/ DoFile \/ DoRemove \/ DoLink \/ DoSymlink
  BY <1>3 DEF DoStat, DoFile, DoRemove, DoLink, DoSymlink, Doing, Continue
<1>4. CASE DoOpen \/ DoWrite \/ DoRead \/ DoAdd \/ DoTail \/ DoTouch
  BY <1>4 DEF DoOpen, DoWrite, DoRead, DoAdd, DoTail, DoTouch, Doing, Continue
<1>5. CASE DoAwait \/ DoSleep \/ DoPack
  BY <1>5 DEF DoAwait, DoSleep, DoPack, Doing, Continue
<1>6. CASE StepFails \/ Finish
  BY <1>6 DEF StepFails, Finish, Fail
<1> QED
  BY <1>1, <1>2, <1>3, <1>4, <1>5, <1>6 DEF Next, Called

\* copy and move are called.
LEMMA CopyOrMove ==
  ASSUME NEW from, NEW to, NEW inside, NEW symlinks,
         copy(from, to, inside, symlinks) \/ move(from, to, inside)
  PROVE  /\ exists(from) /\ outcome' = "running" /\ UNCHANGED <<fs, before>>
         /\ op'.name \in {"copy", "move"} /\ Call(op', agenda')
         /\ op'.from = from /\ op'.to = to /\ op'.inside = inside
         /\ agenda' = IF op'.name = "move" THEN CopyThenRemove(from, to, inside)
                      ELSE <<CopyStep(from, to, inside)>>
<1>1. CASE copy(from, to, inside, symlinks)
  <2> DEFINE o == [Operation("copy", from, to, inside, 0) EXCEPT !.symlinks = symlinks]
  <2>1. o.name = "copy" /\ o.from = from /\ o.to = to /\ o.inside = inside
    BY DEF Operation
  <2>2. exists(from) /\ Call(o, <<CopyStep(from, to, inside)>>)
    BY <1>1 DEF copy
  <2> HIDE DEF o
  <2> QED
    BY <2>1, <2>2 DEF Call
<1>2. CASE move(from, to, inside)
  <2> DEFINE o == Operation("move", from, to, inside, 0)
  <2>1. o.name = "move" /\ o.from = from /\ o.to = to /\ o.inside = inside
    BY DEF Operation
  <2>2. exists(from) /\ Call(o, CopyThenRemove(from, to, inside))
    BY <1>2 DEF move
  <2> HIDE DEF o
  <2> QED
    BY <2>1, <2>2 DEF Call
<1> QED
  BY <1>1, <1>2

\* The agendas of the operations.
LEMMA CallsKeep ==
  ASSUME IInv, Called
  PROVE  IInv'
<1>1. \A path \in Targets : path \in Path /\ path # <<>>
  BY NameFacts
<1>2. {"copy", "remove", "link", "open_w", "open_a", "prepend", "replace", "add", "tail",
       "touch", "await", "pack"} \subseteq Deeds
  BY DEF Deeds
<1>3. <<NewLine>> \in Lines
  <2>1. "new" \in Words
    BY FilesAssumption
  <2>2. \A word \in Words : <<word>> \in Path
    BY DEF Path
  <2>3. \A line \in Path : <<line>> \in Lines
    BY DEF Lines
  <2> QED
    BY <2>1, <2>2, <2>3 DEF NewLine
<1>4. ASSUME NEW from \in Targets, NEW to \in Targets, NEW inside \in BOOLEAN,
             NEW symlinks \in BOOLEAN, copy(from, to, inside, symlinks)
      PROVE  IInv'
  <2>1. CopyStep(from, to, inside) \in Steps /\ CopyStep(from, to, inside).do = "copy"
    BY <1>1, StepFacts
  <2> DEFINE a == CopyStep(from, to, inside)
  <2> HIDE DEF a
  <2>2. Chain(<<a>>) /\ <<a>> # <<>> /\ Head(<<a>>) = a
    BY <2>1, ChainsOf DEF a
  <2> DEFINE o == [Operation("copy", from, to, inside, 0) EXCEPT !.symlinks = symlinks]
  <2>3. o.from \in Path /\ o.to \in Path \ {<<>>} /\ o.count \in Nat
    BY <1>1 DEF Operation
  <2> HIDE DEF o
  <2>4. Call(o, <<a>>)
    BY <1>4 DEF copy, o, a
  <2>5. Head(<<a>>).do \notin {"write", "add"}
    BY <2>1, <2>2 DEF a
  <2> QED
    BY <2>2, <2>3, <2>4, <2>5, CallKeeps
<1>5. ASSUME NEW from \in Path \ {<<>>}, NEW to \in Path, NEW inside \in BOOLEAN
      PROVE  /\ Chain(CopyThenRemove(from, to, inside))
             /\ CopyThenRemove(from, to, inside) # <<>>
             /\ Head(CopyThenRemove(from, to, inside)).do = "copy"
  <2> DEFINE a == CopyStep(from, to, inside)
             b == Step("remove", from, from)
  <2>1. a \in Steps /\ a.do = "copy"
    BY StepFacts
  <2>2. b \in Steps /\ b.do = "remove"
    BY <1>2, StepFacts
  <2> HIDE DEF a, b
  <2>3. Follows(a, b)
    BY <2>2 DEF Follows, Free
  <2>4. Chain(<<a, b>>) /\ <<a, b>> # <<>> /\ Head(<<a, b>>) = a
    BY <2>1, <2>2, <2>3, ChainsOf
  <2> QED
    BY <2>1, <2>4 DEF CopyThenRemove, a, b
<1>6. ASSUME NEW from \in Targets, NEW to \in Targets, NEW inside \in BOOLEAN,
             move(from, to, inside)
      PROVE  IInv'
  <2> DEFINE o == Operation("move", from, to, inside, 0)
             steps == CopyThenRemove(from, to, inside)
  <2>1. o.from \in Path /\ o.to \in Path \ {<<>>} /\ o.count \in Nat
    BY <1>1 DEF Operation
  <2>2. Chain(steps) /\ steps # <<>> /\ Head(steps).do = "copy"
    BY <1>1, <1>5
  <2>3. Call(o, steps)
    BY <1>6 DEF move
  <2> HIDE DEF o, steps
  <2> QED
    BY <2>1, <2>2, <2>3, CallKeeps
<1>7. ASSUME NEW do \in Deeds \ {"copy", "write", "add"}, NEW from \in Path, NEW to \in Path,
             NEW o, o.from \in Path, o.to \in Path \ {<<>>}, o.count \in Nat,
             Call(o, <<Step(do, from, to)>>)
      PROVE  IInv'
  <2> DEFINE a == Step(do, from, to)
  <2>1. a \in Steps /\ a.do = do
    BY StepFacts
  <2> HIDE DEF a
  <2>2. Chain(<<a>>) /\ <<a>> # <<>> /\ Head(<<a>>) = a
    BY <2>1, ChainsOf
  <2>3. Call(o, <<a>>)
    BY <1>7 DEF a
  <2>4. Head(<<a>>).do \notin {"write", "add"}
    BY <2>1, <2>2
  <2> QED
    BY <1>7, <2>2, <2>3, <2>4, CallKeeps
<1>8. ASSUME NEW path \in Targets, NEW to \in Targets, make_link(path, to)
      PROVE  IInv'
  <2> DEFINE o == Operation("make_link", to, path, FALSE, 0)
  <2>1. o.from \in Path /\ o.to \in Path \ {<<>>} /\ o.count \in Nat
    BY <1>1 DEF Operation
  <2>2. Call(o, <<Step("link", to, path)>>)
    BY <1>8 DEF make_link
  <2> HIDE DEF o
  <2> QED
    BY <1>1, <1>2, <1>7, <2>1, <2>2
<1>9. ASSUME NEW path \in Targets, NEW input \in Targets, concatenate(path, input)
      PROVE  IInv'
  <2> DEFINE o == Operation("concatenate", input, path, FALSE, 0)
             a == Step("open_w", path, path)
             b == Step("add", input, path)
  <2>1. o.from \in Path /\ o.to \in Path \ {<<>>} /\ o.count \in Nat
    BY <1>1 DEF Operation
  <2>2. a \in Steps /\ a.do = "open_w" /\ a.to = path
    BY <1>1, <1>2, StepFacts
  <2>3. b \in Steps /\ b.do = "add" /\ b.to = path
    BY <1>1, <1>2, StepFacts
  <2>4. Call(o, <<a, b, b>>)
    BY <1>9 DEF concatenate
  <2> HIDE DEF o, a, b
  <2>5. Follows(a, b) /\ Follows(b, b)
    BY <2>2, <2>3 DEF Follows, Opens
  <2>6. Chain(<<a, b, b>>) /\ <<a, b, b>> # <<>> /\ Head(<<a, b, b>>) = a
    BY <2>2, <2>3, <2>5, ChainsOf
  <2>7. Head(<<a, b, b>>).do \notin {"write", "add"}
    BY <2>2, <2>6
  <2> QED
    BY <2>1, <2>4, <2>6, <2>7, CallKeeps
<1>10. ASSUME NEW path \in Targets, NEW name, NEW first \in Deeds \ {"copy", "write", "add"},
              Call(Operation(name, path, path, FALSE, 0), <<Step(first, path, path)>>)
       PROVE  IInv'
  <2> DEFINE o == Operation(name, path, path, FALSE, 0)
  <2>1. o.from \in Path /\ o.to \in Path \ {<<>>} /\ o.count \in Nat
    BY <1>1 DEF Operation
  <2>2. Call(o, <<Step(first, path, path)>>)
    BY <1>10
  <2> HIDE DEF o
  <2> QED
    BY <1>1, <1>7, <2>1, <2>2
<1>11. ASSUME NEW path \in Targets, NEW name, NEW first \in {"open_w", "open_a"},
              Call(Operation(name, path, path, FALSE, 0),
                   <<Step(first, path, path), WriteStep(path, <<NewLine>>)>>)
       PROVE  IInv'
  <2> DEFINE o == Operation(name, path, path, FALSE, 0)
             a == Step(first, path, path)
             b == WriteStep(path, <<NewLine>>)
  <2>1. o.from \in Path /\ o.to \in Path \ {<<>>} /\ o.count \in Nat
    BY <1>1 DEF Operation
  <2>2. a \in Steps /\ a.do = first /\ a.to = path
    BY <1>1, <1>2, StepFacts
  <2>3. b \in Steps /\ b.do = "write" /\ b.to = path
    BY <1>1, <1>3, StepFacts
  <2>4. Call(o, <<a, b>>)
    BY <1>11
  <2> HIDE DEF o, a, b
  <2>5. Follows(a, b)
    BY <2>2, <2>3 DEF Follows, Opens
  <2>6. Chain(<<a, b>>) /\ <<a, b>> # <<>> /\ Head(<<a, b>>) = a
    BY <2>2, <2>3, <2>5, ChainsOf
  <2>7. Head(<<a, b>>).do \notin {"write", "add"}
    BY <2>2, <2>6
  <2> QED
    BY <2>1, <2>4, <2>6, <2>7, CallKeeps
<1>12. ASSUME NEW path \in Targets,
              \/ remove(path) \/ touch(path) \/ prepend_lines(path)
              \/ replace_in_file(path) \/ await_exists(path)
       PROVE  IInv'
  <2>1. {"remove", "touch", "prepend", "replace", "await"} \subseteq Deeds \ {"copy", "write", "add"}
    BY DEF Deeds
  <2> QED
    BY <1>10, <1>12, <2>1 DEF remove, touch, prepend_lines, replace_in_file, await_exists
<1>13. ASSUME NEW path \in Targets, write_lines(path) \/ append_lines(path)
       PROVE  IInv'
  BY <1>11, <1>13 DEF write_lines, append_lines
<1>14. ASSUME NEW path \in Targets, NEW count \in 0..2, tail_lines(path, count)
       PROVE  IInv'
  <2> DEFINE o == Operation("tail_lines", path, path, FALSE, count)
  <2>1. o.from \in Path /\ o.to \in Path \ {<<>>} /\ o.count \in Nat
    <3>1. count \in Nat
      OBVIOUS
    <3> QED
      BY <1>1, <3>1 DEF Operation
  <2>2. Call(o, <<Step("tail", path, path)>>)
    BY <1>14 DEF tail_lines
  <2> HIDE DEF o
  <2> QED
    BY <1>1, <1>2, <1>7, <2>1, <2>2
<1>15. ASSUME NEW path \in Targets, NEW n \in DOMAIN Names, rename_archive(path, Names[n])
       PROVE  IInv'
  <2> DEFINE to == Child(Parent(path), Names[n])
             o == Operation("rename_archive", path, to, TRUE, 0)
             a == Step("pack", path, to)
             b == CopyStep(Temp, to, TRUE)
             c == Step("remove", Temp, Temp)
             d == Step("remove", path, path)
  <2>1. Names[n] \in Words
    BY NameFacts
  <2>2. to \in Path \ {<<>>}
    BY <1>1, <2>1, PrefixChild
  <2>3. Temp \in Path /\ Temp # <<>>
    <3>1. "temp" \in Words
      BY FilesAssumption
    <3>2. \A word \in Words : <<word>> \in Path /\ <<word>> # <<>>
      BY DEF Path
    <3> QED
      BY <3>1, <3>2 DEF Temp
  <2> HIDE DEF to
  <2>4. o.from \in Path /\ o.to \in Path \ {<<>>} /\ o.count \in Nat
    BY <1>1, <2>2 DEF Operation
  <2>5. a \in Steps /\ a.do = "pack"
    BY <1>1, <1>2, <2>2, StepFacts
  <2>6. b \in Steps /\ b.do = "copy"
    BY <2>2, <2>3, StepFacts
  <2>7. c \in Steps /\ c.do = "remove" /\ d \in Steps /\ d.do = "remove"
    BY <1>1, <1>2, <2>3, StepFacts
  <2>8. Call(o, <<a>> \o <<b, c>> \o <<d>>)
    BY <1>15 DEF rename_archive, CopyThenRemove, to
  <2> HIDE DEF o, a, b, c, d
  <2>9. Chain(<<b, c>>) /\ <<b, c>> # <<>> /\ <<b, c>>[1] = b /\ Chain(<<a>>) /\ Chain(<<d>>)
        /\ <<a>> # <<>> /\ <<a>>[1] = a /\ <<d>>[1] = d
    <3>1. Follows(b, c)
      BY <2>7 DEF Follows, Free
    <3> QED
      BY <2>5, <2>6, <2>7, <3>1, ChainsOf
  <2>10. /\ Chain(<<a>> \o <<b, c>>) /\ <<a>> \o <<b, c>> # <<>>
         /\ (<<a>> \o <<b, c>>)[1] = a
    <3>1. Free(b)
      BY <2>6 DEF Free
    <3> QED
      BY <2>9, <3>1, Joined
  <2>11. /\ Chain(<<a>> \o <<b, c>> \o <<d>>) /\ <<a>> \o <<b, c>> \o <<d>> # <<>>
         /\ Head(<<a>> \o <<b, c>> \o <<d>>) = a
    <3>1. Free(d)
      BY <2>7 DEF Free
    <3> DEFINE s == <<a>> \o <<b, c>>
    <3>2. Chain(s) /\ s # <<>> /\ s[1] = a
      BY <2>10
    <3> HIDE DEF s
    <3>3. Chain(s \o <<d>>) /\ s \o <<d>> # <<>> /\ Head(s \o <<d>>) = a
      BY <2>9, <3>1, <3>2, Joined
    <3> QED
      BY <3>3 DEF s
  <2>12. Head(<<a>> \o <<b, c>> \o <<d>>).do \notin {"write", "add"}
    BY <2>5, <2>11
  <2> QED
    BY <2>4, <2>8, <2>11, <2>12, CallKeeps
<1> QED
  BY <1>4, <1>6, <1>8, <1>9, <1>12, <1>13, <1>14, <1>15 DEF Called

\* The beginning of a text.
LEMMA PartOfLines ==
  ASSUME NEW lines \in Lines, NEW n \in 0..Len(lines)
  PROVE  /\ SubSeq(lines, 1, n) \in Lines /\ Len(SubSeq(lines, 1, n)) = n
         /\ \A k \in 1..n : SubSeq(lines, 1, n)[k] = lines[k]
<1>1. Len(lines) \in Nat /\ n \in Nat /\ n <= Len(lines)
  BY LenProperties DEF Lines
<1>2. \A k \in 1..n : lines[k] \in Path
  <2>1. \A k \in 1..n : k \in 1..Len(lines)
    BY <1>1
  <2> QED
    BY <2>1, ElementOfSeq DEF Lines
<1>3. /\ SubSeq(lines, 1, n) \in Seq(Path)
      /\ Len(SubSeq(lines, 1, n)) = IF 1 <= n THEN n - 1 + 1 ELSE 0
      /\ \A k \in 1..n - 1 + 1 : SubSeq(lines, 1, n)[k] = lines[1 + k - 1]
  BY <1>1, <1>2, SubSeqProperties
<1> QED
  BY <1>1, <1>3 DEF Lines

LEMMA SamePrefix ==
  ASSUME NEW s \in Lines, NEW t \in Lines, Len(s) <= Len(t),
         \A n \in 1..Len(s) : s[n] = t[n]
  PROVE  IsPrefix(s, t)
<1>1. Len(s) \in 0..Len(s) /\ Len(s) \in 0..Len(t)
  BY LenProperties DEF Lines
<1> DEFINE a == SubSeq(s, 1, Len(s))
           b == SubSeq(t, 1, Len(s))
<1>2. a \in Lines /\ b \in Lines /\ Len(a) = Len(s) /\ Len(b) = Len(s)
      /\ \A n \in 1..Len(s) : a[n] = s[n] /\ b[n] = t[n]
  BY <1>1, PartOfLines
<1> HIDE DEF a, b
<1>3. a = b
  BY <1>2, SeqEqual DEF Lines
<1> QED
  BY <1>3 DEF IsPrefix, a, b

\* Writing to a file that is there keeps it a file.
LEMMA Rewritten ==
  ASSUME NEW f, IsTree(f), NEW path \in Path, NEW text \in Lines, FileAt(f, path)
  PROVE  /\ IsTree(With(f, {Real(f, path)}, File(text)))
         /\ SameLinks(f, With(f, {Real(f, path)}, File(text)))
         /\ FileAt(With(f, {Real(f, path)}, File(text)), path)
         /\ f[Real(f, path)].text \in Lines
<1> DEFINE place == Real(f, path)
           g == With(f, {place}, File(text))
<1>1. place \in DOMAIN f /\ f[place].kind = "file"
  BY DEF FileAt
<1>2. /\ place \in Path \ {<<>>} /\ Parent(place) \in DOMAIN f
      /\ f[Parent(place)].kind = "dir" /\ f[place].text \in Lines
  BY <1>1, FileFacts
<1>3. IsTree(g) /\ SameLinks(f, g)
  BY <1>1, <1>2, PutFile
<1>4. g[place] = File(text) /\ place \in DOMAIN g
  BY DEF With
<1> HIDE DEF g
<1>5. Real(g, path) = place
  BY <1>3, SameReal
<1>6. FileAt(g, path)
  BY <1>4, <1>5, NodeFacts DEF FileAt
<1> QED
  BY <1>2, <1>3, <1>6 DEF g

\* Opening a file, which may make it.
LEMMA Opened ==
  ASSUME NEW f, IsTree(f), NEW path \in Path, NEW text \in Lines, CanOpen(f, path)
  PROVE  /\ IsTree(With(f, {Real(f, path)}, File(text)))
         /\ SameLinks(f, With(f, {Real(f, path)}, File(text)))
         /\ FileAt(With(f, {Real(f, path)}, File(text)), path)
<1> DEFINE place == Real(f, path)
           g == With(f, {place}, File(text))
<1>1. /\ place \in Path \ {<<>>} /\ (place \in DOMAIN f => f[place].kind = "file")
      /\ Parent(place) \in DOMAIN f /\ f[Parent(place)].kind = "dir"
  BY OpenPlace
<1>2. IsTree(g) /\ SameLinks(f, g)
  BY <1>1, PutFile
<1>3. g[place] = File(text) /\ place \in DOMAIN g
  BY DEF With
<1> HIDE DEF g
<1>4. Real(g, path) = place
  BY <1>2, SameReal
<1>5. FileAt(g, path)
  BY <1>3, <1>4, NodeFacts DEF FileAt
<1> QED
  BY <1>2, <1>5 DEF g

\* shutil.copy2 writes to a file in a directory.
LEMMA FileCopied ==
  ASSUME IInv, agenda # <<>>, CanCopyFile, NEW text \in Lines
  PROVE  IsTree(With(fs, {Real(fs, CopyTarget)}, File(text)))
<1>1. Now.from \in Path /\ Now.to \in Path /\ IsTree(fs)
  BY NowFacts
<1>2. Now.from # <<>>
  <2> SUFFICES ASSUME Now.from = <<>>
               PROVE  FALSE
    OBVIOUS
  <2>1. fs[<<>>] = Dir /\ Real(fs, Now.from) = <<>>
    BY <1>1, TreeFacts, RealFacts
  <2> QED
    BY <2>1, NodeFacts DEF CanCopyFile, is_file
<1>3. CopyTarget \in Path
  BY <1>1, <1>2, PathShape, ChildShape DEF CopyTarget
<1>4. CanOpen(fs, CopyTarget)
  BY DEF CanCopyFile
<1> QED
  BY <1>1, <1>3, <1>4, Opened

LEMMA TextType ==
  ASSUME IsTree(fs), NEW path, is_file(path)
  PROVE  Text(path) \in Lines /\ FileAt(fs, path)
BY TreeFacts DEF is_file, Leads, Text, FileAt

\* What has been written by a step that fails is a tree as well.
LEMMA FailureKeeps ==
  ASSUME IInv, agenda # <<>>, outcome = "running", Partly
  PROVE  IsTree(fs')
<1>1. /\ Now.from \in Path /\ Now.to \in Path /\ IsTree(fs) /\ First(Now)
      /\ Now.lines \in Lines
  BY NowFacts
<1>2. CASE UNCHANGED fs
  BY <1>1, <1>2
<1>3. CASE CanMakeParent(Now.to) /\ fs' = WithParent(Now.to)
  BY <1>1, <1>3, ParentMade
<1>4. CASE CanCopyFile /\ fs' = With(fs, {Real(fs, CopyTarget)}, File(<<>>))
  BY <1>4, FileCopied, NodeFacts
<1>5. CASE Now.from # <<>> /\ fs' \in Removals(Now.from)
  BY <1>1, <1>5, Removed
<1>6. ASSUME Now.do = "write", NEW n \in 0..Len(Now.lines),
             fs' = Extended(Now.to, SubSeq(Now.lines, 1, n))
      PROVE  IsTree(fs')
  <2>1. FileAt(fs, Now.to)
    BY <1>1, <1>6 DEF First
  <2>2. Text(Now.to) \in Lines
    BY <1>1, <2>1, Rewritten DEF Text
  <2>3. SubSeq(Now.lines, 1, n) \in Lines
    BY <1>1, PartOfLines
  <2>4. Text(Now.to) \o SubSeq(Now.lines, 1, n) \in Lines
    BY <2>2, <2>3, ConcatProperties DEF Lines
  <2> QED
    BY <1>1, <1>6, <2>1, <2>4, Rewritten DEF Extended
<1> QED
  BY <1>2, <1>3, <1>4, <1>5, <1>6 DEF Partly

LEMMA Extending ==
  ASSUME IsTree(fs), NEW path \in Path, FileAt(fs, path), NEW lines \in Lines
  PROVE  IsTree(Extended(path, lines)) /\ FileAt(Extended(path, lines), path)
<1>1. Text(path) \in Lines
  BY Rewritten DEF Text
<1>2. Text(path) \o lines \in Lines
  BY <1>1, ConcatProperties DEF Lines
<1> QED
  BY <1>2, Rewritten DEF Extended

LEMMA NewLineType ==
  NewLine \in Path /\ <<NewLine>> \in Lines
<1>1. "new" \in Words
  BY FilesAssumption
<1>2. \A word \in Words : <<word>> \in Path
  BY DEF Path
<1>3. \A line \in Path : <<line>> \in Lines
  BY DEF Lines
<1> QED
  BY <1>1, <1>2, <1>3 DEF NewLine

\* The texts that prepend_lines and replace_in_file write.
LEMMA NewTexts ==
  ASSUME NEW text \in Lines
  PROVE  /\ <<NewLine>> \o text \in Lines
         /\ [n \in DOMAIN text |-> NewLine] \in Lines
<1>1. NewLine \in Path /\ <<NewLine>> \in Lines
  BY NewLineType
<1>2. DOMAIN text = 1..Len(text) /\ Len(text) \in Nat
  BY LenProperties DEF Lines
<1> HIDE DEF NewLine
<1>3. [n \in 1..Len(text) |-> NewLine] \in Lines
  BY <1>1, <1>2 DEF Lines
<1> QED
  BY <1>1, <1>2, <1>3, ConcatProperties DEF Lines

LEMMA TempFacts == Temp \in Path \ {<<>>} /\ Parent(Temp) = <<>>
<1>1. "temp" \in Words
  BY FilesAssumption
<1>2. \A word \in Words : <<word>> \in Path /\ <<word>> # <<>> /\ Len(<<word>>) = 1
  BY DEF Path
<1>3. Temp \in Path \ {<<>>} /\ Len(Temp) = 1
  BY <1>1, <1>2 DEF Temp
<1>4. Parent(Temp) \in Path /\ Len(Parent(Temp)) = 0
  BY <1>3, PathShape
<1> QED
  BY <1>3, <1>4, EmptySeq DEF Path

\* tail_lines returns the end of the text.
LEMMA SlicedFacts ==
  ASSUME NEW lines \in Lines, NEW count \in Nat
  PROVE  /\ Sliced(lines, count) \in Lines
         /\ IsSuffix(Sliced(lines, count), lines)
         /\ Len(Sliced(lines, count)) = IF count \in 1..Len(lines) THEN count ELSE Len(lines)
<1> DEFINE N == Len(lines)
           s == Sliced(lines, count)
           M == IF count \in 1..N THEN count ELSE N
<1>1. N \in Nat /\ \A n \in 1..N : lines[n] \in Path
  BY LenProperties, ElementOfSeq DEF Lines
<1> HIDE DEF N
<1>2. /\ s \in Lines /\ Len(s) = M /\ M \in Nat /\ M <= N
      /\ \A n \in 1..M : s[n] = lines[N - M + n]
  <2>1. CASE count = 0 \/ count >= N
    <3>1. s = lines /\ M = N
      BY <1>1, <2>1 DEF Sliced, N
    <3>2. \A n \in 1..N : N - N + n = n
      BY <1>1
    <3> HIDE DEF s, M
    <3> QED
      BY <1>1, <3>1, <3>2 DEF N
  <2>2. CASE ~(count = 0 \/ count >= N)
    <3> DEFINE a == N - count + 1
    <3>1. /\ a \in Nat /\ a \in 1..N + 1 /\ M = count /\ a <= N /\ N - a + 1 = count
          /\ \A n \in a..N : n \in 1..N
          /\ \A n \in 1..count : a + n - 1 = N - count + n
      BY <1>1, <2>2
    <3>2. s = SubSeq(lines, a, N)
      BY <2>2 DEF Sliced, N
    <3> HIDE DEF a, M, s
    <3>3. /\ SubSeq(lines, a, N) \in Seq(Path)
          /\ Len(SubSeq(lines, a, N)) = IF a <= N THEN N - a + 1 ELSE 0
          /\ \A n \in 1..N - a + 1 : SubSeq(lines, a, N)[n] = lines[a + n - 1]
      BY <1>1, <3>1, SubSeqProperties
    <3>4. M \in Nat /\ M <= N
      BY <1>1, <2>2, <3>1
    <3> QED
      BY <3>1, <3>2, <3>3, <3>4 DEF Lines
  <2> QED
    BY <2>1, <2>2
<1> HIDE DEF s, M
<1>3. IsSuffix(s, lines)
  <2> DEFINE r == Reverse(s)
             t == Reverse(lines)
  <2>1. /\ r = [n \in 1..M |-> s[M - n + 1]]
        /\ t = [n \in 1..N |-> lines[N - n + 1]]
    BY <1>2 DEF Reverse, N
  <2>2. /\ \A n \in 1..M : M - n + 1 \in 1..M /\ N - M + (M - n + 1) = N - n + 1
        /\ \A n \in 1..N : N - n + 1 \in 1..N
        /\ \A n \in 1..M : n \in 1..N
    BY <1>1, <1>2
  <2> HIDE DEF r, t
  <2>3. \A n \in 1..M : r[n] = t[n]
    BY <1>2, <2>1, <2>2
  <2>4. t \in Lines /\ Len(t) = N
    <3>1. \A n \in 1..N : lines[N - n + 1] \in Path
      BY <1>1, <2>2
    <3> QED
      BY <1>1, <2>1, <3>1 DEF Lines
  <2>5. r \in Lines /\ Len(r) = M
    <3>1. \A n \in 1..M : s[M - n + 1] \in Path
      BY <1>2, <2>2, ElementOfSeq DEF Lines
    <3> QED
      BY <1>2, <2>1, <3>1 DEF Lines
  <2>6. IsPrefix(r, t)
    BY <1>1, <1>2, <2>2, <2>3, <2>4, <2>5, SamePrefix
  <2> QED
    BY <2>6 DEF IsSuffix, r, t
<1> QED
  BY <1>2, <1>3 DEF s, M, N

\* One entry of an archive, under any name.
Shrunk(text) == {<<[Head(text) EXCEPT ![1] = name]>> : name \in Words}

\* What is packed again.
LEMMA Packs ==
  ASSUME IInv, IsTree(fs), outcome = "running", NEW path, is_file(path), Text(path) # <<>>,
         NEW name \in NewNames(Text(path), Last(op.to))
  PROVE  /\ <<[FirstEntry(Text(path)) EXCEPT ![1] = name]>> \in Shrunk(Text(path))
         /\ <<[FirstEntry(Text(path)) EXCEPT ![1] = name]>> \in Lines
<1> DEFINE text == Text(path)
           entry == Head(text)
<1>1. text \in Lines /\ text # <<>>
  BY TextType
<1>2. Last(op.to) \in Words
  BY PrefixChild DEF IInv, TypeOK, AgendaOK, Path
<1> HIDE DEF text
<1>3. entry \in Path /\ FirstEntry(text) = entry
  BY <1>1 DEF Lines, FirstEntry
<1> HIDE DEF entry
<1>4. name = Last(op.to) \/ name = entry[1]
  BY <1>3 DEF NewNames, text
<1>5. ASSUME NEW word \in Words
      PROVE  [entry EXCEPT ![1] = word] \in Path
  <2>1. PICK n \in Nat : entry \in [1..n -> Words]
    BY <1>3, SeqDef DEF Path
  <2>2. [entry EXCEPT ![1] = word] \in [1..n -> Words]
    BY <2>1
  <2> QED
    BY <2>2, SeqDef DEF Path
<1>6. CASE name \in Words
  <2>1. [entry EXCEPT ![1] = name] \in Path
    BY <1>5, <1>6
  <2>2. <<[entry EXCEPT ![1] = name]>> \in Lines
    BY <2>1 DEF Lines
  <2> QED
    BY <1>3, <1>6, <2>2 DEF Shrunk, text, entry
<1>7. CASE name \notin Words
  <2>1. entry = <<>>
    BY <1>2, <1>3, <1>4, <1>7 DEF Path
  <2>2. [entry EXCEPT ![1] = name] = entry /\ [entry EXCEPT ![1] = Last(op.to)] = entry
    BY <2>1
  <2>3. <<entry>> \in Lines
    BY <1>3 DEF Lines
  <2>4. <<[entry EXCEPT ![1] = Last(op.to)]>> \in Shrunk(text)
    BY <1>2 DEF Shrunk, entry
  <2> QED
    BY <1>3, <2>2, <2>3, <2>4 DEF text
<1> QED
  BY <1>6, <1>7

LEMMA StepsKeep ==
  ASSUME IInv, Next
  PROVE  IInv'
<1>1. ASSUME agenda # <<>>
      PROVE  /\ Now \in Steps /\ Now.from \in Path /\ Now.to \in Path /\ Now.lines \in Lines
             /\ Now.do = "copy" => Now.from # <<>>
             /\ First(Now) /\ IsTree(fs) /\ result \in Lines
  BY <1>1, NowFacts
<1>2. Chain(<<>>)
  BY ChainsOf
<1>3. ASSUME outcome = "running", agenda # <<>>, IsTree(fs'), Continue(<<>>),
             UNCHANGED <<op, result, before>>, Now.do \notin Opens
      PROVE  IInv'
  <2>1. result' \in Lines
    BY <1>1, <1>3
  <2> QED
    BY <1>2, <1>3, <2>1, StepKeeps
<1>4. ASSUME NEW step \in Steps, Free(step), outcome = "running", agenda # <<>>, IsTree(fs'),
             Continue(<<step>>), UNCHANGED <<op, result, before>>, Now.do \notin Opens
      PROVE  IInv'
  <2>1. result' \in Lines
    BY <1>1, <1>4
  <2>2. Chain(<<step>>) /\ <<step>> # <<>> /\ <<step>>[1] = step
    BY ChainsOf
  <2> QED
    BY <1>4, <2>1, <2>2, StepKeeps
<1>5. ASSUME DoCopy
      PROVE  IInv'
  <2>1. outcome = "running" /\ agenda # <<>> /\ Now.do = "copy"
    BY <1>5 DEF DoCopy, Doing
  <2>2. CopyTo \in Path
    BY <1>1, <2>1, PathShape, ChildShape DEF CopyTo
  <2>3. IsTree(fs')
    BY <1>1, <1>5, <2>1, <2>2, ParentMade DEF DoCopy
  <2>4. "entries" \in Deeds /\ "entries" # "copy"
    BY DEF Deeds
  <2>5. Step("entries", Now.from, CopyTo) \in Steps /\ Free(Step("entries", Now.from, CopyTo))
    BY <1>1, <2>1, <2>2, <2>4, StepFacts DEF Free
  <2>6. Continue(<<Step("entries", Now.from, CopyTo)>>) /\ UNCHANGED <<op, result, before>>
    BY <1>5 DEF DoCopy
  <2>7. Now.do \notin Opens
    BY <2>1 DEF Opens
  <2> QED
    BY <1>4, <2>1, <2>3, <2>5, <2>6, <2>7
<1>6. ASSUME DoEntries
      PROVE  IInv'
  <2> DEFINE from == Now.from
             to == Now.to
  <2>1. outcome = "running" /\ agenda # <<>> /\ Now.do = "entries"
    BY <1>6 DEF DoEntries, Doing
  <2>2. from \in Path /\ to \in Path /\ IsTree(fs') /\ IsTree(fs) /\ result' \in Lines
        /\ Now.do \notin Opens /\ UNCHANGED <<op, result, before>>
    BY <1>1, <1>6, <2>1 DEF DoEntries, Opens
  <2>3. {"stat", "link", "file"} \subseteq Deeds
    BY DEF Deeds
  <2>4. CASE is_dir(from)
    <3> DEFINE s == Entries(from, to)
               e == Step("stat", from, to)
    <3>1. e \in Steps /\ e.do = "stat"
      BY <2>2, <2>3, StepFacts
    <3>2. Chain(s) /\ \A n \in 1..Len(s) : Free(s[n])
      BY <2>2, EntriesFacts
    <3>3. Continue(s \o <<e>>)
      BY <1>6, <2>4 DEF DoEntries
    <3> HIDE DEF s, e
    <3>4. Chain(<<e>>) /\ <<e>> # <<>> /\ <<e>>[1] = e /\ Free(e)
      BY <3>1, ChainsOf DEF Free
    <3>5. Chain(s \o <<e>>) /\ s \o <<e>> # <<>> /\ Free((s \o <<e>>)[1])
      <4>1. CASE s = <<>>
        <5>1. s \o <<e>> = <<e>>
          BY <4>1, <3>4, ConcatEmptySeq DEF Chain
        <5> QED
          BY <3>4, <5>1
      <4>2. CASE s # <<>>
        <5>1. Chain(s \o <<e>>) /\ s \o <<e>> # <<>> /\ (s \o <<e>>)[1] = s[1]
          BY <3>2, <3>4, <4>2, Joined
        <5>2. 1 \in 1..Len(s)
          BY <3>2, <4>2, EmptySeq DEF Chain
        <5> QED
          BY <3>2, <5>1, <5>2
      <4> QED
        BY <4>1, <4>2
    <3> QED
      BY <2>1, <2>2, <3>3, <3>5, StepKeeps
  <2>5. CASE ~is_dir(from) /\ is_link(from) /\ op.symlinks
    <3> DEFINE e == Step("link", fs[Place(fs, from)].to, to)
    <3>1. fs[Place(fs, from)].to \in Path
      BY <2>2, <2>5, TreeFacts DEF is_link, IsLinkAt
    <3>2. e \in Steps /\ e.do = "link"
      BY <2>2, <2>3, <3>1, StepFacts
    <3>3. Continue(<<e>>)
      BY <1>6, <2>5 DEF DoEntries
    <3> HIDE DEF e
    <3>4. Free(e)
      BY <3>2 DEF Free
    <3> QED
      BY <1>4, <2>1, <2>2, <3>2, <3>3, <3>4
  <2>6. CASE ~is_dir(from) /\ ~(is_link(from) /\ op.symlinks)
    <3> DEFINE e == Step("file", from, to)
    <3>1. e \in Steps /\ e.do = "file"
      BY <2>2, <2>3, StepFacts
    <3>2. Continue(<<e>>)
      BY <1>6, <2>6 DEF DoEntries
    <3> HIDE DEF e
    <3>3. Free(e)
      BY <3>1 DEF Free
    <3> QED
      BY <1>4, <2>1, <2>2, <3>1, <3>2, <3>3
  <2> QED
    BY <2>4, <2>5, <2>6
<1>7. ASSUME DoStat
      PROVE  IInv'
  BY <1>1, <1>3, <1>7 DEF DoStat, Doing, Opens
<1>8. ASSUME DoFile
      PROVE  IInv'
  <2>1. outcome = "running" /\ agenda # <<>> /\ Now.do = "file" /\ CanCopyFile
    BY <1>8 DEF DoFile, Doing
  <2>2. Text(Now.from) \in Lines
    BY <1>1, <2>1, TextType DEF CanCopyFile
  <2>3. IsTree(fs')
    BY <1>8, <2>1, <2>2, FileCopied DEF DoFile
  <2> QED
    BY <1>3, <1>8, <2>1, <2>3 DEF DoFile, Opens
<1>9. ASSUME DoRemove
      PROVE  IInv'
  <2>1. outcome = "running" /\ agenda # <<>> /\ Now.do = "remove"
    BY <1>9 DEF DoRemove, Doing
  <2>2. IsTree(fs')
    BY <1>1, <1>9, <2>1, Removed DEF DoRemove
  <2> QED
    BY <1>3, <1>9, <2>1, <2>2 DEF DoRemove, Opens
<1>10. ASSUME DoLink
       PROVE  IInv'
  <2> DEFINE a == Step("remove", Now.to, Now.to)
             b == Step("symlink", Now.from, Now.to)
  <2>1. outcome = "running" /\ agenda # <<>> /\ Now.do = "link"
    BY <1>10 DEF DoLink, Doing
  <2>2. IsTree(fs')
    BY <1>1, <1>10, <2>1, ParentMade DEF DoLink
  <2>3. {"remove", "symlink"} \subseteq Deeds
    BY DEF Deeds
  <2>4. a \in Steps /\ a.do = "remove" /\ b \in Steps /\ b.do = "symlink"
    BY <1>1, <2>1, <2>3, StepFacts
  <2>5. Continue(<<a, b>>) /\ UNCHANGED <<op, result, before>>
    BY <1>10 DEF DoLink
  <2> HIDE DEF a, b
  <2>6. Follows(a, b) /\ Free(a)
    BY <2>4 DEF Follows, Free
  <2>7. Chain(<<a, b>>) /\ <<a, b>> # <<>> /\ <<a, b>>[1] = a
    BY <2>4, <2>6, ChainsOf
  <2>8. result' \in Lines /\ Now.do \notin Opens
    BY <1>1, <2>1, <2>5 DEF Opens
  <2> QED
    BY <2>1, <2>2, <2>5, <2>6, <2>7, <2>8, StepKeeps
<1>11. ASSUME DoSymlink
       PROVE  IInv'
  <2>1. outcome = "running" /\ agenda # <<>> /\ Now.do = "symlink"
    BY <1>11 DEF DoSymlink, Doing
  <2>2. IsTree(fs')
    BY <1>1, <1>11, <2>1, LinkPut DEF DoSymlink
  <2> QED
    BY <1>3, <1>11, <2>1, <2>2 DEF DoSymlink, Opens
<1>12. ASSUME DoOpen
       PROVE  IInv'
  <2> DEFINE f == WithParent(Now.to)
             place == Real(f, Now.to)
             text == IF Now.do = "open_a" /\ place \in DOMAIN f THEN f[place].text ELSE <<>>
  <2>1. /\ outcome = "running" /\ agenda # <<>> /\ CanMakeParent(Now.to) /\ CanOpen(f, Now.to)
        /\ fs' = With(f, {place}, File(text)) /\ Continue(<<>>)
        /\ UNCHANGED <<op, result, before>>
    BY <1>12 DEF DoOpen
  <2> HIDE DEF f
  <2>2. IsTree(f)
    BY <1>1, <2>1, ParentMade DEF f
  <2>3. text \in Lines
    BY <2>2, TreeFacts, NodeFacts
  <2> HIDE DEF text
  <2>4. IsTree(fs') /\ FileAt(fs', Now.to)
    BY <1>1, <2>1, <2>2, <2>3, Opened
  <2>5. result' \in Lines
    BY <1>1, <2>1
  <2> QED
    BY <1>2, <2>1, <2>4, <2>5, StepKeeps
<1>13. ASSUME DoWrite
       PROVE  IInv'
  <2>1. /\ outcome = "running" /\ agenda # <<>> /\ Now.do = "write"
        /\ fs' = Extended(Now.to, Now.lines) /\ Continue(<<>>)
        /\ UNCHANGED <<op, result, before>>
    BY <1>13 DEF DoWrite, Doing
  <2>2. IsTree(fs') /\ FileAt(fs', Now.to)
    BY <1>1, <2>1, Extending DEF First
  <2>3. result' \in Lines
    BY <1>1, <2>1
  <2> QED
    BY <1>2, <2>1, <2>2, <2>3, StepKeeps
<1>14. ASSUME DoRead
       PROVE  IInv'
  <2> DEFINE path == Now.to
             lines == IF Now.do = "replace" THEN [n \in DOMAIN Text(path) |-> NewLine]
                      ELSE <<NewLine>> \o Text(path)
             a == Step("open_w", path, path)
             b == WriteStep(path, lines)
  <2>1. /\ outcome = "running" /\ agenda # <<>> /\ Now.do \in {"prepend", "replace"}
        /\ is_file(path) /\ UNCHANGED <<fs, op, result, before>>
    BY <1>14 DEF DoRead, Doing
  <2>2. Continue(<<a, b>>)
    BY <1>14 DEF DoRead, Replaced, ReadThenWrite
  <2>3. Text(path) \in Lines
    BY <1>1, <2>1, TextType
  <2>4. lines \in Lines
    BY <2>3, NewTexts
  <2> HIDE DEF lines
  <2>5. "open_w" \in Deeds
    BY DEF Deeds
  <2>6. a \in Steps /\ a.do = "open_w" /\ a.to = path
    BY <1>1, <2>1, <2>5, StepFacts
  <2>7. b \in Steps /\ b.do = "write" /\ b.to = path
    BY <1>1, <2>1, <2>4, StepFacts
  <2> HIDE DEF a, b
  <2>8. Follows(a, b) /\ Free(a)
    BY <2>6, <2>7 DEF Follows, Opens, Free
  <2>9. Chain(<<a, b>>) /\ <<a, b>> # <<>> /\ <<a, b>>[1] = a
    BY <2>6, <2>7, <2>8, ChainsOf
  <2>10. result' \in Lines /\ IsTree(fs') /\ Now.do \notin Opens
    BY <1>1, <2>1 DEF Opens
  <2> QED
    BY <2>1, <2>2, <2>8, <2>9, <2>10, StepKeeps
<1>15. ASSUME DoAdd
       PROVE  IInv'
  <2>1. /\ outcome = "running" /\ agenda # <<>> /\ Now.do = "add"
        /\ Continue(<<>>) /\ UNCHANGED <<op, result, before>>
    BY <1>15 DEF DoAdd, Doing
  <2>2. FileAt(fs, Now.to) /\ IsTree(fs) /\ result' \in Lines
    BY <1>1, <2>1 DEF First
  <2>3. fs' = fs \/ (is_file(Now.from) /\ fs' = Extended(Now.to, Text(Now.from)))
    BY <1>15 DEF DoAdd
  <2>4. IsTree(fs') /\ FileAt(fs', Now.to)
    <3>1. CASE fs' = fs
      BY <2>2, <3>1
    <3>2. CASE is_file(Now.from) /\ fs' = Extended(Now.to, Text(Now.from))
      BY <1>1, <2>1, <2>2, <3>2, TextType, Extending
    <3> QED
      BY <2>3, <3>1, <3>2
  <2> QED
    BY <1>2, <2>1, <2>2, <2>4, StepKeeps
<1>16. ASSUME DoTail
       PROVE  IInv'
  <2>1. /\ outcome = "running" /\ agenda # <<>> /\ Now.do = "tail" /\ is_file(Now.to)
        /\ result' = Sliced(Text(Now.to), op.count) /\ Continue(<<>>)
        /\ UNCHANGED <<fs, op, before>>
    BY <1>16 DEF DoTail, Doing
  <2>2. Text(Now.to) \in Lines
    BY <1>1, <2>1, TextType
  <2>3. result' \in Lines
    BY <2>1, <2>2, SlicedFacts DEF IInv, TypeOK
  <2>4. IsTree(fs') /\ Now.do \notin Opens
    BY <1>1, <2>1 DEF Opens
  <2> QED
    BY <1>2, <2>1, <2>3, <2>4, StepKeeps
<1>17. ASSUME DoTouch \/ DoAwait \/ DoSleep
       PROVE  IInv'
  <2>1. /\ outcome = "running" /\ agenda # <<>> /\ Now.do \notin Opens
        /\ UNCHANGED <<op, result, before>>
    BY <1>17 DEF DoTouch, DoAwait, DoSleep, Doing, Opens
  <2>2. IsTree(fs')
    <3>1. CASE UNCHANGED fs
      BY <1>1, <2>1, <3>1
    <3>2. CASE CanOpen(fs, Now.to) /\ fs' = With(fs, {Real(fs, Now.to)}, File(<<>>))
      BY <1>1, <2>1, <3>2, Opened, NodeFacts
    <3> QED
      BY <1>17, <3>1, <3>2 DEF DoTouch, DoAwait, DoSleep
  <2>3. {"open_a", "sleep", "await"} \subseteq Deeds
    BY DEF Deeds
  <2>4. \A do \in {"open_a", "sleep", "await"} :
          Step(do, Now.to, Now.to) \in Steps /\ Free(Step(do, Now.to, Now.to))
    BY <1>1, <2>1, <2>3, StepFacts DEF Free
  <2>5. Continue(<<>>) \/ \E do \in {"open_a", "sleep", "await"} :
                            Continue(<<Step(do, Now.to, Now.to)>>)
    BY <1>17 DEF DoTouch, DoAwait, DoSleep
  <2> QED
    BY <1>3, <1>4, <2>1, <2>2, <2>4, <2>5
<1>18. ASSUME DoPack
       PROVE  IInv'
  <2>1. /\ outcome = "running" /\ agenda # <<>> /\ Now.do = "pack" /\ is_file(Now.from)
        /\ Text(Now.from) # <<>> /\ Continue(<<>>) /\ UNCHANGED <<op, result, before>>
    BY <1>18 DEF DoPack, Doing
  <2>2. PICK text \in Shrunk(Text(Now.from)) : fs' = With(fs, {Temp}, File(text)) /\ text \in Lines
    BY <1>1, <1>18, <2>1, Packs DEF DoPack
  <2>3. Temp \notin DOMAIN fs
    BY <1>1, <2>1, FilesAssumption DEF IInv, AgendaOK, First
  <2>4. Temp \in Path \ {<<>>} /\ Parent(Temp) = <<>>
    BY TempFacts
  <2>5. <<>> \in DOMAIN fs /\ fs[<<>>].kind = "dir"
    BY <1>1, <2>1, TreeFacts, NodeFacts
  <2>6. IsTree(fs')
    BY <1>1, <2>1, <2>2, <2>3, <2>4, <2>5, PutFile
  <2> QED
    BY <1>3, <2>1, <2>6 DEF Opens
<1>19. ASSUME StepFails
       PROVE  IInv'
  <2>1. IsTree(fs')
    BY <1>19, FailureKeeps DEF StepFails
  <2> QED
    BY <1>2, <1>19, <2>1 DEF StepFails, Fail, IInv, TypeOK, AgendaOK
<1>20. ASSUME Finish \/ Ended
       PROVE  IInv'
  <2>1. UNCHANGED <<fs, op, agenda, result, before>> /\ outcome' \in {"done", "error"}
        /\ agenda = <<>>
    BY <1>20 DEF Finish, Ended, vars, IInv, TypeOK
  <2>2. TypeOK'
    BY <2>1 DEF IInv, TypeOK
  <2>3. AgendaOK'
    BY <2>1 DEF IInv, AgendaOK
  <2> QED
    BY <2>2, <2>3 DEF IInv
<1> QED
  BY <1>5, <1>6, <1>7, <1>8, <1>9, <1>10, <1>11, <1>12, <1>13, <1>14, <1>15, <1>16, <1>17,
     <1>18, <1>19, <1>20, CallsKeep DEF Next, Called

\* The invariant holds in every state.
THEOREM Invariance == Spec => []IInv
<1>1. Init => IInv
  <2> SUFFICES ASSUME Init
               PROVE  IInv
    OBVIOUS
  <2>1. IsTree(fs) /\ before = fs /\ fs \in Trees
    BY FilesAssumption DEF Init
  <2>2. <<>> \in Seq(Words) /\ <<>> \in Seq(Seq(Words)) /\ 0 \in Nat
    OBVIOUS
  <2>3. TypeOK
    BY <2>1, <2>2 DEF Init, TypeOK, NoOperation, Operation
  <2>4. AgendaOK
    BY <2>1, ChainsOf DEF Init, AgendaOK
  <2> QED
    BY <2>3, <2>4 DEF IInv
<1>2. IInv /\ [Next]_vars => IInv'
  <2> SUFFICES ASSUME IInv, [Next]_vars
               PROVE  IInv'
    OBVIOUS
  <2>1. CASE Next
    BY <2>1, StepsKeep
  <2>2. CASE UNCHANGED vars
    BY <2>2 DEF vars, IInv, TypeOK, AgendaOK, First, Chain, FileAt
  <2> QED
    BY <2>1, <2>2
<1> QED
  BY <1>1, <1>2, PTL DEF Spec

\* Whatever step fails, the file system stays a tree (main.py:472-660).
THEOREM TypeCorrect == Spec => []TypeOK
<1>1. IInv => TypeOK
  BY DEF IInv
<1> QED
  BY <1>1, Invariance, PTL

-----------------------------------------------------------------------------
(* Operations on text                                                      *)

Old == Text0(op.to)
Input == IF Real0(op.from) = Real0(op.to) THEN <<>> ELSE Text0(op.from)

\* What the operation promises of the text, and what it keeps on its way there.
Asked(text) ==
  /\ op.name = "write_lines" => text = <<NewLine>>
  /\ op.name = "append_lines" => text = Append(Old, NewLine)
  /\ op.name = "prepend_lines" => text = <<NewLine>> \o Old
  /\ op.name = "replace_in_file" => text = [n \in DOMAIN Old |-> NewLine]
  /\ op.name = "concatenate" => text = Input \o Input
  /\ op.name = "touch" => text = Old
Keeps(text) == op.name \in {"append_lines", "touch"} => IsPrefix(Old, text)

\* The steps that lead from a text to the one that is asked.
Ask(do) == Step(do, op.to, op.to)
AddStep == Step("add", op.from, op.to)
Completes(text, steps) ==
  \/ steps = <<>> /\ Asked(text)
  \/ /\ steps # <<>> /\ steps = <<WriteStep(op.to, Head(steps).lines)>>
     /\ Asked(text \o Head(steps).lines)
  \/ op.name = "concatenate" /\ steps = <<AddStep>> /\ text = Input
  \/ op.name = "concatenate" /\ steps = <<AddStep, AddStep>> /\ text = <<>>

\* Only the text of the file has changed; directories may have been made for it.
Others(f) ==
  /\ SameLinks(before, f)
  /\ \A q \in DOMAIN before \ {Real0(op.to)} : q \in DOMAIN f /\ f[q] = before[q]
  /\ \A q \in DOMAIN f \ DOMAIN before : q = Real0(op.to) \/ f[q] = Dir
Written(f, text) ==
  /\ Others(f) /\ Real0(op.to) \in DOMAIN f /\ f[Real0(op.to)] = File(text)

\* The steps before the file is opened, and those after.
Begun == IF Now.do = "open_a" THEN Old ELSE <<>>
Planned ==
  /\ fs = before
  /\ \/ /\ agenda # <<>> /\ Now \in {Ask("open_w"), Ask("open_a")}
        /\ op.name # "tail_lines"
        /\ Completes(Begun, Tail(agenda)) /\ Keeps(Begun)
     \/ op.name = "prepend_lines" /\ agenda = <<Ask("prepend")>>
     \/ op.name = "replace_in_file" /\ agenda = <<Ask("replace")>>
     \/ op.name = "touch" /\ agenda \in {<<Ask("touch")>>, <<>>}
     \/ op.name = "tail_lines" /\ agenda = <<Ask("tail")>>
     \/ /\ op.name = "tail_lines" /\ agenda = <<>>
        /\ IsSuffix(result, Old)
        /\ Len(result) = IF op.count \in 1..Len(Old) THEN op.count ELSE Len(Old)
OnTheWay ==
  LET text == fs[Real0(op.to)].text
  IN /\ op.name # "tail_lines"
     /\ Written(fs, text) /\ Completes(text, agenda) /\ Keeps(text)

TextInv ==
  /\ outcome = "ready" => op.name = "none"
  /\ op.name \in TextOperations =>
       /\ outcome = "running" => Planned \/ OnTheWay
       /\ outcome \in {"done", "error"} => TextAsAsked

LEMMA TupleFacts ==
  \A a, b \in Steps :
    /\ Head(<<a>>) = a /\ Tail(<<a>>) = <<>> /\ <<a>> # <<>>
    /\ Head(<<a, b>>) = a /\ Tail(<<a, b>>) = <<b>> /\ <<a, b>> # <<>>
    /\ <<>> \o <<>> = <<>> /\ <<>> \o <<a>> = <<a>>
    /\ <<a>> \o <<>> = <<a>> /\ <<a, b>> \o <<>> = <<a, b>>
<1> HIDE DEF Steps
<1> SUFFICES ASSUME NEW a \in Steps, NEW b \in Steps
             PROVE  /\ Head(<<a>>) = a /\ Tail(<<a>>) = <<>> /\ <<a>> # <<>>
                    /\ Head(<<a, b>>) = a /\ Tail(<<a, b>>) = <<b>> /\ <<a, b>> # <<>>
                    /\ <<>> \o <<>> = <<>> /\ <<>> \o <<a>> = <<a>>
                    /\ <<a>> \o <<>> = <<a>> /\ <<a, b>> \o <<>> = <<a, b>>
  OBVIOUS
<1>1. <<>> \in Seq(Steps) /\ <<a>> \in Seq(Steps) /\ <<a, b>> \in Seq(Steps)
      /\ <<b>> \in Seq(Steps)
  OBVIOUS
<1>2. Head(<<a>>) = a /\ <<a>> # <<>> /\ Head(<<a, b>>) = a /\ <<a, b>> # <<>>
  OBVIOUS
<1>3. Tail(<<a>>) = <<>>
  OBVIOUS
<1>4. Tail(<<a, b>>) = <<b>>
  OBVIOUS
<1>5. /\ <<>> \o <<>> = <<>> /\ <<>> \o <<a>> = <<a>>
      /\ <<a>> \o <<>> = <<a>> /\ <<a, b>> \o <<>> = <<a, b>>
  BY <1>1, ConcatEmptySeq
<1> QED
  BY <1>2, <1>3, <1>4, <1>5

\* Steps are told apart by their fields.
LEMMA FieldFacts ==
  /\ \A do, from, to : /\ Step(do, from, to).do = do /\ Step(do, from, to).from = from
                       /\ Step(do, from, to).to = to
  /\ \A path, lines : /\ WriteStep(path, lines).do = "write"
                      /\ WriteStep(path, lines).lines = lines
                      /\ WriteStep(path, lines).to = path
BY DEF Step, WriteStep

\* The types of what the operation refers to.
LEMMA OldFacts ==
  ASSUME IInv
  PROVE  /\ IsTree(fs) /\ IsTree(before) /\ op.to \in Path /\ op.from \in Path
         /\ Real0(op.to) \in Path /\ Old \in Lines /\ Input \in Lines
         /\ Real0(op.to) \in DOMAIN before => Old = before[Real0(op.to)].text
         /\ Real0(op.to) \notin DOMAIN before => Old = <<>>
<1>1. IsTree(fs) /\ IsTree(before) /\ op.to \in Path /\ op.from \in Path
  BY DEF IInv, TypeOK, Path
<1>2. \A path : Text0(path) \in Lines
  BY <1>1, TreeFacts, NodeFacts DEF Text0
<1>3. Real0(op.to) \in Path
  BY <1>1, RealFacts DEF Real0
<1>4. Old \in Lines /\ Input \in Lines
  BY <1>2, NodeFacts DEF Old, Input
<1> QED
  BY <1>1, <1>3, <1>4 DEF Old, Text0

LEMMA Beginnings ==
  ASSUME NEW s \in Lines, NEW t \in Lines, NEW u \in Lines
  PROVE  /\ IsPrefix(s, s) /\ t \o u \in Lines
         /\ IsPrefix(s, t) => IsPrefix(s, t \o u)
         /\ <<>> \o t = t /\ t \o <<>> = t
<1>1. IsPrefix(s, s)
  <2>1. Len(s) <= Len(s)
    BY LenProperties DEF Lines
  <2> QED
    BY <2>1, SamePrefix
<1>2. /\ t \o u \in Lines /\ Len(t \o u) = Len(t) + Len(u)
      /\ \A n \in 1..Len(t) + Len(u) : (t \o u)[n] = IF n <= Len(t) THEN t[n] ELSE u[n - Len(t)]
  BY ConcatProperties DEF Lines
<1>3. Len(s) \in Nat /\ Len(t) \in Nat /\ Len(u) \in Nat
  BY LenProperties DEF Lines
<1>4. ASSUME IsPrefix(s, t)
      PROVE  IsPrefix(s, t \o u)
  <2>1. Len(s) <= Len(t) /\ SubSeq(s, 1, Len(s)) = SubSeq(t, 1, Len(s))
    BY <1>4 DEF IsPrefix
  <2>2. Len(s) \in 0..Len(s) /\ Len(s) \in 0..Len(t)
    BY <1>3, <2>1
  <2>3. \A n \in 1..Len(s) : SubSeq(s, 1, Len(s))[n] = s[n] /\ SubSeq(t, 1, Len(s))[n] = t[n]
    BY <2>2, PartOfLines
  <2>4. \A n \in 1..Len(s) : n \in 1..Len(t) + Len(u) /\ n <= Len(t)
    BY <1>3, <2>1
  <2> DEFINE v == t \o u
  <2>5. v \in Lines /\ Len(s) <= Len(v) /\ \A n \in 1..Len(s) : s[n] = v[n]
    <3>1. \A n \in 1..Len(s) : s[n] = t[n]
      BY <2>1, <2>3
    <3>2. \A n \in 1..Len(s) : v[n] = t[n]
      BY <1>2, <2>4
    <3>3. Len(s) <= Len(v)
      BY <1>2, <1>3, <2>1
    <3> QED
      BY <1>2, <3>1, <3>2, <3>3
  <2> HIDE DEF v
  <2>6. IsPrefix(s, v)
    BY <2>5, SamePrefix
  <2> QED
    BY <2>6 DEF v
<1> QED
  BY <1>1, <1>2, <1>4, ConcatEmptySeq DEF Lines

\* The text that the path leads to.
Shown(f) == IF Real(f, op.to) \in DOMAIN f THEN f[Real(f, op.to)].text ELSE <<>>

LEMMA ShownFacts ==
  ASSUME IInv, NEW f, IsTree(f), Others(f)
  PROVE  /\ Real(f, op.to) = Real0(op.to)
         /\ \A text \in Lines : Written(f, text) => Shown(f) = text
<1>1. Real(f, op.to) = Real0(op.to)
  BY OldFacts, SameReal DEF Others, Real0
<1>2. \A text \in Lines : Written(f, text) => Shown(f) = text
  BY <1>1, NodeFacts DEF Written, Shown
<1> QED
  BY <1>1, <1>2

LEMMA Unchanged ==
  ASSUME IInv, fs = before
  PROVE  Others(fs) /\ Shown(fs) = Old
<1>1. SameLinks(before, fs)
  BY DEF SameLinks
<1>2. Others(fs)
  BY <1>1 DEF Others
<1> QED
  BY <1>2 DEF Shown, Old, Text0, Real0

\* Making the directories above the file.
LEMMA DirsMade ==
  ASSUME IInv, fs = before, CanMakeParent(op.to)
  PROVE  /\ IsTree(WithParent(op.to)) /\ Others(WithParent(op.to))
         /\ Shown(WithParent(op.to)) = Old /\ OnlyDirsNew(before, WithParent(op.to))
<1> DEFINE g == WithParent(op.to)
<1>1. IsTree(g) /\ OnlyDirsNew(before, g) /\ SameLinks(before, g)
  BY OldFacts, ParentMade
<1> HIDE DEF g
<1>2. Others(g)
  BY <1>1 DEF Others, OnlyDirsNew
<1>3. Real(g, op.to) = Real0(op.to)
  BY <1>1, <1>2, ShownFacts
<1>4. Shown(g) = Old
  BY <1>1, <1>3, OldFacts, NodeFacts DEF Shown, OnlyDirsNew
<1> QED
  BY <1>1, <1>2, <1>4 DEF g

\* Opening the file, to write it anew or to append to it.
LEMMA OpenWrites ==
  ASSUME IInv, fs = before, CanMakeParent(op.to), NEW f, f = WithParent(op.to),
         CanOpen(f, op.to), NEW text \in Lines
  PROVE  /\ Written(With(f, {Real(f, op.to)}, File(text)), text)
         /\ Real(f, op.to) = Real0(op.to)
         /\ Real(f, op.to) \in DOMAIN f => f[Real(f, op.to)].text = Old
         /\ Real(f, op.to) \notin DOMAIN f => Old = <<>>
<1> DEFINE place == Real0(op.to)
           g == With(f, {place}, File(text))
<1>1. IsTree(f) /\ Others(f) /\ Shown(f) = Old /\ OnlyDirsNew(before, f)
  BY DirsMade
<1>2. Real(f, op.to) = place
  BY <1>1, ShownFacts
<1>3. IsTree(g) /\ SameLinks(f, g)
  BY <1>1, <1>2, OldFacts, Opened
<1>4. DOMAIN g = DOMAIN f \cup {place} /\ g[place] = File(text)
      /\ \A q \in DOMAIN f : q # place => g[q] = f[q]
  BY DEF With
<1> HIDE DEF g, place
<1>5. SameLinks(before, g)
  BY <1>1, <1>3 DEF SameLinks, Others, IsLinkAt
<1>6. Others(g)
  BY <1>1, <1>4, <1>5 DEF Others, place
<1>7. Written(g, text)
  BY <1>4, <1>6 DEF Written, place
<1> QED
  BY <1>1, <1>2, <1>7 DEF Shown, g, place

\* Writing to the file.
LEMMA WriteWrites ==
  ASSUME IInv, NEW text \in Lines, Written(fs, text), NEW lines \in Lines
  PROVE  Written(Extended(op.to, lines), text \o lines)
<1> DEFINE place == Real0(op.to)
           g == With(fs, {place}, File(text \o lines))
<1>1. Others(fs) /\ place \in DOMAIN fs /\ fs[place] = File(text) /\ IsTree(fs)
  BY OldFacts DEF Written
<1>2. Real(fs, op.to) = place
  BY <1>1, ShownFacts
<1>3. Text(op.to) = text
  BY <1>1, <1>2, NodeFacts DEF Text
<1>4. Extended(op.to, lines) = g
  BY <1>2, <1>3 DEF Extended
<1>5. FileAt(fs, op.to) /\ text \o lines \in Lines
  BY <1>1, <1>2, NodeFacts, ConcatProperties DEF FileAt, Lines
<1>6. SameLinks(fs, g)
  BY <1>1, <1>2, <1>5, OldFacts, Rewritten
<1>7. DOMAIN g = DOMAIN fs /\ g[place] = File(text \o lines)
      /\ \A q \in DOMAIN fs : q # place => g[q] = fs[q]
  BY <1>1 DEF With
<1> HIDE DEF g, place
<1>8. SameLinks(before, g)
  BY <1>1, <1>6 DEF SameLinks, Others, IsLinkAt
<1>9. Others(g)
  BY <1>1, <1>7, <1>8 DEF Others, place
<1>10. Written(g, text \o lines)
  BY <1>1, <1>7, <1>9 DEF Written, place
<1> QED
  BY <1>4, <1>10

\* The text of the file while the operation is on its way.
LEMMA OnTheWayFacts ==
  ASSUME IInv, OnTheWay
  PROVE  \E text \in Lines :
           Written(fs, text) /\ Completes(text, agenda) /\ Keeps(text)
           /\ fs[Real0(op.to)].text = text
<1>1. Real0(op.to) \in DOMAIN fs
  BY DEF OnTheWay, Written
<1>2. fs[Real0(op.to)].text \in Lines
  BY <1>1, OldFacts, TreeFacts
<1> QED
  BY <1>2 DEF OnTheWay

LEMMA OnTheWayIf ==
  ASSUME IInv, NEW text \in Lines, Written(fs, text), Completes(text, agenda), Keeps(text),
         op.name # "tail_lines"
  PROVE  OnTheWay
<1>1. fs[Real0(op.to)].text = text
  BY NodeFacts DEF Written
<1> QED
  BY <1>1 DEF OnTheWay

\* While it is executed, an operation keeps what it promises to keep.
LEMMA KeepsOnTheWay ==
  ASSUME IInv, op.name \in TextOperations, Planned \/ OnTheWay
  PROVE  Others(fs) /\ Keeps(Shown(fs)) /\ (Planned => Shown(fs) = Old)
<1>1. CASE Planned
  <2>1. Others(fs) /\ Shown(fs) = Old
    BY <1>1, Unchanged DEF Planned
  <2>2. Keeps(Old)
    BY OldFacts, Beginnings DEF Keeps
  <2> QED
    BY <2>1, <2>2
<1>2. CASE OnTheWay /\ ~Planned
  <2>1. PICK text \in Lines : Written(fs, text) /\ Keeps(text)
    BY <1>2, OnTheWayFacts
  <2>2. Others(fs) /\ Shown(fs) = text
    BY <2>1, OldFacts, ShownFacts DEF Written
  <2> QED
    BY <1>2, <2>1, <2>2
<1> QED
  BY <1>1, <1>2

\* TextAsAsked, in these terms.
InTerms ==
  /\ op.name \in TextOperations /\ Others(fs) /\ Keeps(Shown(fs))
  /\ outcome = "done" => Asked(Shown(fs))
  /\ outcome = "done" /\ op.name = "tail_lines" =>
       /\ Shown(fs) = Old /\ IsSuffix(result, Old)
       /\ Len(result) = IF op.count \in 1..Len(Old) THEN op.count ELSE Len(Old)

LEMMA InTheseTerms == InTerms => TextAsAsked
<1> SUFFICES ASSUME InTerms
             PROVE  TextAsAsked
  OBVIOUS
<1> DEFINE new == IF Leads(op.to) THEN Text(op.to) ELSE <<>>
<1>1. new = Shown(fs)
  BY DEF Leads, Text, Shown
<1>2. /\ op.name \in {"append_lines", "touch"} => IsPrefix(Old, new)
      /\ \A q \in DOMAIN before \ {Real0(op.to)} : q \in DOMAIN fs /\ fs[q] = before[q]
  BY <1>1 DEF InTerms, Keeps, Others
<1>3. outcome = "done" =>
        /\ op.name = "write_lines" => new = <<NewLine>>
        /\ op.name = "append_lines" => new = Append(Old, NewLine)
        /\ op.name = "prepend_lines" => new = <<NewLine>> \o Old
        /\ op.name = "replace_in_file" => new = [n \in DOMAIN Old |-> NewLine]
        /\ op.name = "concatenate" => new = Input \o Input
        /\ op.name \in {"tail_lines", "touch"} => new = Old
  BY <1>1 DEF InTerms, Asked
<1>4. outcome = "done" /\ op.name = "tail_lines" =>
        /\ IsSuffix(result, Old)
        /\ Len(result) = IF op.count \in 1..Len(Old) THEN op.count ELSE Len(Old)
  BY DEF InTerms
<1> HIDE DEF new
<1> QED
  BY <1>2, <1>3, <1>4 DEF TextAsAsked, Old, Input, new

LEMMA InTheseTermsNext == InTerms' => TextAsAsked'
<1>1. InTerms => TextAsAsked
  BY InTheseTerms
<1> QED
  BY <1>1, PTL

\* The same, of the next state.
LEMMA Frames ==
  ASSUME UNCHANGED <<op, before>>
  PROVE  /\ Old' = Old /\ Input' = Input /\ Real0(op.to)' = Real0(op.to)
         /\ Others(fs)' <=> Others(fs')
         /\ Shown(fs)' = Shown(fs')
<1>1. Old' = Old
  BY DEF Old, Text0, Real0
<1>2. Input' = Input
  BY DEF Input, Text0, Real0
<1>3. Real0(op.to)' = Real0(op.to)
  BY DEF Real0
<1>4. Others(fs)' <=> Others(fs')
  BY DEF Others, Real0
<1>5. Shown(fs)' = Shown(fs')
  BY DEF Shown
<1> QED
  BY <1>1, <1>2, <1>3, <1>4, <1>5

LEMMA Proceeds ==
  ASSUME UNCHANGED <<op, before>>, NEW text \in Lines, Written(fs', text),
         Completes(text, agenda'), Keeps(text), op.name # "tail_lines"
  PROVE  OnTheWay'
<1>1. fs'[Real0(op.to)].text = text
  BY NodeFacts DEF Written
<1>2. Old' = Old /\ Input' = Input /\ Real0(op.to)' = Real0(op.to)
      /\ (Others(fs)' <=> Others(fs'))
  BY Frames
<1>3. Written(fs, text)'
  BY <1>2 DEF Written
<1>4. Keeps(text)'
  BY <1>2 DEF Keeps
<1>5. Completes(text, agenda)'
  <2>1. \A t : Asked(t) => Asked(t)'
    BY <1>2 DEF Asked
  <2>2. AddStep' = AddStep
    BY DEF AddStep
  <2> QED
    BY <1>2, <2>1, <2>2 DEF Completes
<1> QED
  BY <1>1, <1>2, <1>3, <1>4, <1>5 DEF OnTheWay

\* How the operations on text start, and what reading the file leads to.
StartPlan ==
  \/ /\ op.name = "write_lines"
     /\ agenda = <<Ask("open_w"), WriteStep(op.to, <<NewLine>>)>>
  \/ /\ op.name = "append_lines"
     /\ agenda = <<Ask("open_a"), WriteStep(op.to, <<NewLine>>)>>
  \/ op.name = "prepend_lines" /\ agenda = <<Ask("prepend")>>
  \/ /\ op.name = "prepend_lines"
     /\ agenda = <<Ask("open_w"), WriteStep(op.to, <<NewLine>> \o Old)>>
  \/ op.name = "replace_in_file" /\ agenda = <<Ask("replace")>>
  \/ /\ op.name = "replace_in_file"
     /\ agenda = <<Ask("open_w"), WriteStep(op.to, [n \in DOMAIN Old |-> NewLine])>>
  \/ op.name = "concatenate" /\ agenda = <<Ask("open_w"), AddStep, AddStep>>
  \/ op.name = "tail_lines" /\ agenda = <<Ask("tail")>>
  \/ op.name = "touch" /\ agenda \in {<<Ask("touch")>>, <<Ask("open_a")>>, <<>>}

LEMMA AskFacts ==
  ASSUME IInv
  PROVE  /\ \A do \in Deeds \ {"copy"} : /\ Ask(do) \in Steps /\ Ask(do).do = do
                                         /\ Ask(do).to = op.to
         /\ AddStep \in Steps /\ AddStep.do = "add" /\ AddStep.from = op.from
         /\ AddStep.to = op.to
         /\ \A lines \in Lines : WriteStep(op.to, lines) \in Steps
         /\ {"open_w", "open_a", "prepend", "replace", "touch", "tail", "add"}
              \subseteq Deeds \ {"copy"}
<1>1. {"open_w", "open_a", "prepend", "replace", "touch", "tail", "add"}
        \subseteq Deeds \ {"copy"}
  BY DEF Deeds
<1>2. op.to \in Path /\ op.from \in Path
  BY OldFacts
<1> QED
  BY <1>1, <1>2, StepFacts, FieldFacts DEF Ask, AddStep

LEMMA Starts == IInv /\ fs = before /\ StartPlan => Planned
<1> SUFFICES ASSUME IInv, fs = before, StartPlan
             PROVE  Planned
  OBVIOUS
<1>1. \A do \in Deeds \ {"copy"} : Ask(do) \in Steps /\ Ask(do).do = do /\ Ask(do).to = op.to
  BY AskFacts
<1>2. {"open_w", "open_a", "prepend", "replace", "touch", "tail", "add"}
        \subseteq Deeds \ {"copy"}
  BY AskFacts
<1>3. Old \in Lines /\ <<NewLine>> \in Lines
  BY OldFacts, NewLineType
<1>4. ASSUME NEW o \in {"open_w", "open_a"}, NEW lines \in Lines,
             agenda = <<Ask(o), WriteStep(op.to, lines)>>, op.name # "tail_lines",
             Asked((IF o = "open_a" THEN Old ELSE <<>>) \o lines),
             Keeps(IF o = "open_a" THEN Old ELSE <<>>)
      PROVE  Planned
  <2> DEFINE w == WriteStep(op.to, lines)
  <2>1. w \in Steps /\ w.lines = lines /\ Ask(o) \in Steps /\ Ask(o).do = o
    BY <1>1, <1>2, AskFacts, FieldFacts
  <2> HIDE DEF w
  <2>2. Now = Ask(o) /\ Tail(agenda) = <<w>> /\ agenda # <<>> /\ Head(<<w>>) = w /\ <<w>> # <<>>
    BY <1>4, <2>1, TupleFacts DEF Now, w
  <2>3. Completes(Begun, Tail(agenda)) /\ Keeps(Begun)
    BY <1>4, <2>1, <2>2 DEF Completes, Begun, w
  <2> QED
    BY <1>4, <2>2, <2>3 DEF Planned
<1>5. CASE /\ op.name = "write_lines"
           /\ agenda = <<Ask("open_w"), WriteStep(op.to, <<NewLine>>)>>
  <2>1. Asked(<<>> \o <<NewLine>>) /\ Keeps(<<>>)
    BY <1>3, <1>5, Beginnings DEF Asked, Keeps
  <2> QED
    BY <1>3, <1>4, <1>5, <2>1
<1>6. CASE /\ op.name = "append_lines"
           /\ agenda = <<Ask("open_a"), WriteStep(op.to, <<NewLine>>)>>
  <2>1. Old \o <<NewLine>> = Append(Old, NewLine)
    BY <1>3, NewLineType, AppendIsConcat DEF Lines
  <2>2. Asked(Old \o <<NewLine>>) /\ Keeps(Old)
    BY <1>3, <1>6, <2>1, Beginnings DEF Asked, Keeps
  <2> QED
    BY <1>3, <1>4, <1>6, <2>2
<1>7. CASE /\ op.name = "prepend_lines"
           /\ agenda = <<Ask("open_w"), WriteStep(op.to, <<NewLine>> \o Old)>>
  <2> DEFINE lines == <<NewLine>> \o Old
  <2>1. lines \in Lines
    BY <1>3, NewTexts
  <2>2. Asked(lines) /\ Keeps(<<>>)
    BY <1>7 DEF Asked, Keeps
  <2> HIDE DEF lines
  <2>3. Asked(<<>> \o lines)
    BY <2>1, <2>2, Beginnings
  <2>4. agenda = <<Ask("open_w"), WriteStep(op.to, lines)>>
    BY <1>7 DEF lines
  <2> QED
    BY <1>4, <1>7, <2>1, <2>2, <2>3, <2>4
<1>8. CASE /\ op.name = "replace_in_file"
           /\ agenda = <<Ask("open_w"), WriteStep(op.to, [n \in DOMAIN Old |-> NewLine])>>
  <2> DEFINE lines == [n \in DOMAIN Old |-> NewLine]
  <2>1. lines \in Lines
    BY <1>3, NewTexts
  <2>2. Asked(lines) /\ Keeps(<<>>)
    BY <1>8 DEF Asked, Keeps
  <2> HIDE DEF lines
  <2>3. Asked(<<>> \o lines)
    BY <2>1, <2>2, Beginnings
  <2>4. agenda = <<Ask("open_w"), WriteStep(op.to, lines)>>
    BY <1>8 DEF lines
  <2> QED
    BY <1>4, <1>8, <2>1, <2>2, <2>3, <2>4
<1>9. CASE op.name = "concatenate" /\ agenda = <<Ask("open_w"), AddStep, AddStep>>
  <2> DEFINE a == Ask("open_w")
             b == AddStep
  <2>1. a \in Steps /\ a.do = "open_w" /\ b \in Steps
    BY <1>1, <1>2, AskFacts
  <2> HIDE DEF a, b
  <2>2. Head(<<a, b, b>>) = a /\ <<a, b, b>> # <<>>
    BY <2>1
  <2>3. Tail(<<a, b, b>>) = <<b, b>>
    BY <2>1
  <2>4. agenda = <<a, b, b>>
    BY <1>9 DEF a, b
  <2>5. Now = a /\ Tail(agenda) = <<b, b>> /\ agenda # <<>>
    BY <2>2, <2>3, <2>4 DEF Now
  <2>6. Begun = <<>>
    BY <2>1, <2>5 DEF Begun
  <2>7. Completes(Begun, Tail(agenda)) /\ Keeps(Begun)
    BY <1>9, <2>5, <2>6 DEF Completes, Keeps, b
  <2> QED
    BY <1>9, <2>5, <2>7 DEF Planned, a
<1>10. CASE op.name = "touch" /\ agenda = <<Ask("open_a")>>
  <2>1. Ask("open_a") \in Steps /\ Ask("open_a").do = "open_a"
    BY <1>1, <1>2
  <2>2. Now = Ask("open_a") /\ Tail(agenda) = <<>> /\ agenda # <<>>
    BY <1>10, <2>1, TupleFacts DEF Now
  <2>3. Begun = Old
    BY <2>1, <2>2 DEF Begun
  <2>4. Completes(Begun, Tail(agenda)) /\ Keeps(Begun)
    BY <1>3, <1>10, <2>2, <2>3, Beginnings DEF Completes, Asked, Keeps
  <2> QED
    BY <1>10, <2>2, <2>4 DEF Planned
<1>11. CASE \/ op.name = "prepend_lines" /\ agenda = <<Ask("prepend")>>
            \/ op.name = "replace_in_file" /\ agenda = <<Ask("replace")>>
            \/ op.name = "tail_lines" /\ agenda = <<Ask("tail")>>
            \/ op.name = "touch" /\ agenda \in {<<Ask("touch")>>, <<>>}
  BY <1>11 DEF Planned
<1> QED
  BY <1>5, <1>6, <1>7, <1>8, <1>9, <1>10, <1>11 DEF StartPlan

LEMMA StartsNext == (IInv /\ fs = before /\ StartPlan)' => Planned'
<1>1. IInv /\ fs = before /\ StartPlan => Planned
  BY Starts
<1> QED
  BY <1>1, PTL

\* Calling an operation.
LEMMA TextCalls ==
  ASSUME IInv, IInv', outcome = "ready", Called
  PROVE  TextInv'
<1>1. fs = before
  BY DEF IInv, AgendaOK
<1>2. ASSUME NEW operation, NEW steps, Call(operation, steps),
             operation.name \in TextOperations => StartPlan'
      PROVE  TextInv'
  <2>1. outcome' = "running" /\ op' = operation /\ (fs = before)'
    BY <1>1, <1>2 DEF Call
  <2>2. op'.name \in TextOperations => Planned'
    BY <1>2, <2>1, StartsNext
  <2> QED
    BY <2>1, <2>2 DEF TextInv, TextOperations
<1>3. ASSUME NEW name \in {"copy", "move", "make_link", "remove", "await_exists",
                           "rename_archive"},
             NEW from, NEW to, NEW inside, NEW count, NEW steps,
             Call(Operation(name, from, to, inside, count), steps)
      PROVE  TextInv'
  <2>1. Operation(name, from, to, inside, count).name \notin TextOperations
    BY DEF Operation, TextOperations
  <2> QED
    BY <1>2, <1>3, <2>1
<1>4. ASSUME NEW from \in Targets, NEW to \in Targets, NEW inside \in BOOLEAN,
             NEW symlinks \in BOOLEAN,
             copy(from, to, inside, symlinks) \/ move(from, to, inside)
      PROVE  TextInv'
  <2>1. Call(op', agenda') /\ op'.name \notin TextOperations
    BY <1>4, CopyOrMove DEF TextOperations
  <2> QED
    BY <1>2, <2>1
<1>5. ASSUME NEW path \in Targets, NEW to \in Targets, make_link(path, to)
      PROVE  TextInv'
  BY <1>3, <1>5 DEF make_link
<1>6. ASSUME NEW path \in Targets, remove(path) \/ await_exists(path)
      PROVE  TextInv'
  BY <1>3, <1>6 DEF remove, await_exists
<1>7. ASSUME NEW path \in Targets, NEW n \in DOMAIN Names, rename_archive(path, Names[n])
      PROVE  TextInv'
  BY <1>3, <1>7 DEF rename_archive
<1>8. ASSUME NEW path \in Targets, NEW input \in Targets, concatenate(path, input)
      PROVE  TextInv'
  <2> DEFINE o == Operation("concatenate", input, path, FALSE, 0)
             steps == <<Step("open_w", path, path), Step("add", input, path),
                        Step("add", input, path)>>
  <2>1. o.from = input /\ o.to = path /\ o.name = "concatenate"
    BY DEF Operation
  <2>2. Call(o, steps)
    BY <1>8 DEF concatenate
  <2> HIDE DEF o
  <2>3. op' = o /\ agenda' = steps
    BY <2>2 DEF Call
  <2>4. StartPlan'
    BY <2>1, <2>3 DEF StartPlan, Ask, AddStep
  <2> QED
    BY <1>2, <2>2, <2>4
<1>9. ASSUME NEW path \in Targets, write_lines(path)
       PROVE  TextInv'
  <2>1. op'.to = path /\ op'.name = "write_lines"
        /\ agenda' = <<Step("open_w", path, path), WriteStep(path, <<NewLine>>)>>
    BY <1>9 DEF write_lines, Call, Operation
  <2>2. StartPlan'
    BY <2>1 DEF StartPlan, Ask
  <2> QED
    BY <1>2, <1>9, <2>2 DEF write_lines
<1>10. ASSUME NEW path \in Targets, append_lines(path)
       PROVE  TextInv'
  <2>1. op'.to = path /\ op'.name = "append_lines"
        /\ agenda' = <<Step("open_a", path, path), WriteStep(path, <<NewLine>>)>>
    BY <1>10 DEF append_lines, Call, Operation
  <2>2. StartPlan'
    BY <2>1 DEF StartPlan, Ask
  <2> QED
    BY <1>2, <1>10, <2>2 DEF append_lines
<1>11. ASSUME NEW path \in Targets, touch(path)
       PROVE  TextInv'
  <2>1. op'.to = path /\ op'.name = "touch" /\ agenda' = <<Step("touch", path, path)>>
    BY <1>11 DEF touch, Call, Operation
  <2>2. StartPlan'
    BY <2>1 DEF StartPlan, Ask
  <2> QED
    BY <1>2, <1>11, <2>2 DEF touch
<1>12. ASSUME NEW path \in Targets, prepend_lines(path)
       PROVE  TextInv'
  <2>1. op'.to = path /\ op'.name = "prepend_lines"
        /\ agenda' = <<Step("prepend", path, path)>>
    BY <1>12 DEF prepend_lines, Call, Operation
  <2>2. StartPlan'
    BY <2>1 DEF StartPlan, Ask
  <2> QED
    BY <1>2, <1>12, <2>2 DEF prepend_lines
<1>13. ASSUME NEW path \in Targets, replace_in_file(path)
       PROVE  TextInv'
  <2>1. op'.to = path /\ op'.name = "replace_in_file"
        /\ agenda' = <<Step("replace", path, path)>>
    BY <1>13 DEF replace_in_file, Call, Operation
  <2>2. StartPlan'
    BY <2>1 DEF StartPlan, Ask
  <2> QED
    BY <1>2, <1>13, <2>2 DEF replace_in_file
<1>14. ASSUME NEW path \in Targets, NEW count \in 0..2, tail_lines(path, count)
       PROVE  TextInv'
  <2>1. op'.to = path /\ op'.name = "tail_lines" /\ agenda' = <<Step("tail", path, path)>>
    BY <1>14 DEF tail_lines, Call, Operation
  <2>2. StartPlan'
    BY <2>1 DEF StartPlan, Ask
  <2> QED
    BY <1>2, <1>14, <2>2 DEF tail_lines
<1> QED
  BY <1>4, <1>5, <1>6, <1>7, <1>8, <1>9, <1>10, <1>11, <1>12, <1>13, <1>14 DEF Called

\* The operation is over.
LEMMA Ends ==
  ASSUME UNCHANGED <<op, before>>, op.name \in TextOperations,
         Others(fs'), Keeps(Shown(fs')),
         \/ outcome' = "error"
         \/ /\ outcome' = "done" /\ Asked(Shown(fs'))
            /\ op.name = "tail_lines" =>
                 /\ Shown(fs') = Old /\ IsSuffix(result', Old)
                 /\ Len(result') = IF op.count \in 1..Len(Old) THEN op.count ELSE Len(Old)
  PROVE  TextAsAsked'
<1>1. Old' = Old /\ Input' = Input /\ (Others(fs)' <=> Others(fs')) /\ Shown(fs)' = Shown(fs')
  BY Frames
<1>2. Keeps(Shown(fs))'
  BY <1>1 DEF Keeps
<1>3. outcome' = "done" => Asked(Shown(fs))'
  BY <1>1 DEF Asked
<1>4. InTerms'
  BY <1>1, <1>2, <1>3 DEF InTerms
<1> QED
  BY <1>4, InTheseTermsNext

\* The steps to come, once the file is open.
LEMMA OnTheWayNow ==
  ASSUME IInv, NEW text \in Lines, Completes(text, agenda), agenda # <<>>
  PROVE  \/ /\ Now.do = "write" /\ Now.to = op.to /\ Tail(agenda) = <<>>
            /\ Asked(text \o Now.lines)
         \/ /\ Now.do = "add" /\ Now.to = op.to /\ Now.from = op.from
            /\ op.name = "concatenate"
            /\ \/ text = Input /\ Tail(agenda) = <<>>
               \/ text = <<>> /\ Tail(agenda) = <<AddStep>>
<1>1. AddStep \in Steps /\ AddStep.do = "add" /\ AddStep.from = op.from /\ AddStep.to = op.to
  BY AskFacts
<1>2. CASE /\ agenda = <<WriteStep(op.to, Head(agenda).lines)>>
           /\ Asked(text \o Head(agenda).lines)
  <2> DEFINE w == WriteStep(op.to, Now.lines)
  <2>1. w \in Steps /\ w.do = "write" /\ w.to = op.to
    BY NowFacts, AskFacts, FieldFacts
  <2>2. agenda = <<w>> /\ Asked(text \o Now.lines)
    BY <1>2 DEF Now
  <2> HIDE DEF w
  <2>3. Now = w /\ Tail(agenda) = <<>>
    BY <2>1, <2>2, TupleFacts DEF Now
  <2> QED
    BY <2>1, <2>2, <2>3
<1>3. CASE op.name = "concatenate" /\ agenda = <<AddStep>> /\ text = Input
  BY <1>1, <1>3, TupleFacts DEF Now
<1>4. CASE op.name = "concatenate" /\ agenda = <<AddStep, AddStep>> /\ text = <<>>
  BY <1>1, <1>4, TupleFacts DEF Now
<1> QED
  BY <1>2, <1>3, <1>4 DEF Completes

\* The steps before the file is opened.
LEMMA PlannedNow ==
  ASSUME IInv, Planned, agenda # <<>>
  PROVE  /\ Now.to = op.to
         /\ \/ /\ Now.do \in {"open_w", "open_a"} /\ op.name # "tail_lines"
               /\ Completes(Begun, Tail(agenda)) /\ Keeps(Begun)
            \/ /\ Tail(agenda) = <<>>
               /\ \/ Now.do = "prepend" /\ op.name = "prepend_lines"
                  \/ Now.do = "replace" /\ op.name = "replace_in_file"
                  \/ Now.do = "touch" /\ op.name = "touch"
                  \/ Now.do = "tail" /\ op.name = "tail_lines"
<1>1. \A do \in Deeds \ {"copy"} : Ask(do) \in Steps /\ Ask(do).do = do /\ Ask(do).to = op.to
  BY AskFacts
<1>2. {"open_w", "open_a", "prepend", "replace", "touch", "tail", "add"}
        \subseteq Deeds \ {"copy"}
  BY AskFacts
<1>3. CASE /\ Now \in {Ask("open_w"), Ask("open_a")} /\ op.name # "tail_lines"
           /\ Completes(Begun, Tail(agenda)) /\ Keeps(Begun)
  BY <1>1, <1>2, <1>3
<1>4. ASSUME NEW do \in {"prepend", "replace", "touch", "tail"}, agenda = <<Ask(do)>>
      PROVE  Now.to = op.to /\ Now.do = do /\ Tail(agenda) = <<>>
  BY <1>1, <1>2, <1>4, TupleFacts DEF Now
<1> QED
  BY <1>3, <1>4 DEF Planned

\* A step fails: what it may have done before is no harm to what the operation keeps.
LEMMA TextFails ==
  ASSUME IInv, op.name \in TextOperations, Planned \/ OnTheWay, StepFails
  PROVE  TextAsAsked'
<1>1. /\ outcome = "running" /\ agenda # <<>> /\ Partly /\ outcome' = "error"
      /\ UNCHANGED <<op, before>>
  BY DEF StepFails, Fail
<1>2. Others(fs) /\ Keeps(Shown(fs))
  BY KeepsOnTheWay
<1>3. CASE UNCHANGED fs
  BY <1>1, <1>2, <1>3, Ends
<1>4. CASE Now.do \in {"open_w", "open_a"} /\ CanMakeParent(Now.to)
           /\ fs' = WithParent(Now.to)
  <2>1. Planned
    <3> SUFFICES ASSUME OnTheWay
                 PROVE  FALSE
      OBVIOUS
    <3>1. PICK text \in Lines : Completes(text, agenda)
      BY OnTheWayFacts
    <3> QED
      BY <1>1, <1>4, <3>1, OnTheWayNow
  <2>2. fs = before /\ Now.to = op.to
    BY <1>1, <2>1, PlannedNow DEF Planned
  <2>3. Others(fs') /\ Shown(fs') = Old
    BY <1>4, <2>2, DirsMade
  <2>4. Keeps(Old)
    BY OldFacts, Beginnings DEF Keeps
  <2> QED
    BY <1>1, <2>3, <2>4, Ends
<1>5. Now.do \notin {"file", "remove"}
  <2>1. CASE Planned
    BY <1>1, <2>1, PlannedNow
  <2>2. CASE OnTheWay
    <3>1. PICK text \in Lines : Completes(text, agenda)
      BY <2>2, OnTheWayFacts
    <3> QED
      BY <1>1, <3>1, OnTheWayNow
  <2> QED
    BY <2>1, <2>2
<1>6. ASSUME Now.do = "write", NEW n \in 0..Len(Now.lines),
             fs' = Extended(Now.to, SubSeq(Now.lines, 1, n))
      PROVE  TextAsAsked'
  <2>1. OnTheWay
    <3> SUFFICES ASSUME Planned
                 PROVE  FALSE
      OBVIOUS
    <3> QED
      BY <1>1, <1>6, PlannedNow
  <2>2. PICK text \in Lines : Written(fs, text) /\ Completes(text, agenda) /\ Keeps(text)
    BY <2>1, OnTheWayFacts
  <2> DEFINE part == SubSeq(Now.lines, 1, n)
  <2>3. part \in Lines /\ Now.to = op.to
    BY <1>1, <1>6, <2>2, NowFacts, PartOfLines, OnTheWayNow
  <2> HIDE DEF part
  <2>4. Written(fs', text \o part)
    BY <1>6, <2>2, <2>3, WriteWrites DEF part
  <2>5. Keeps(text \o part) /\ text \o part \in Lines
    BY <2>2, <2>3, OldFacts, Beginnings DEF Keeps
  <2>6. IsTree(fs')
    BY <1>1, FailureKeeps
  <2>7. Others(fs') /\ Shown(fs') = text \o part
    BY <2>4, <2>5, <2>6, ShownFacts DEF Written
  <2> QED
    BY <1>1, <2>5, <2>7, Ends
<1> QED
  BY <1>1, <1>3, <1>4, <1>5, <1>6 DEF Partly

\* concatenate appends the text of the input, as it was when it was called.
LEMMA Added ==
  ASSUME IInv, NEW text \in Lines, Written(fs, text), DoAdd, Now.to = op.to,
         Now.from = op.from
  PROVE  Written(fs', text \o Input)
<1>1. /\ IsTree(fs) /\ IsTree(before) /\ op.to \in Path /\ op.from \in Path
      /\ Input \in Lines /\ Others(fs) /\ Real0(op.to) \in DOMAIN fs
  BY OldFacts DEF Written
<1>2. /\ Real(fs, op.to) = Real0(op.to) /\ Real(fs, op.from) = Real0(op.from)
      /\ Place(fs, op.from) = Place(before, op.from)
  BY <1>1, SameReal DEF Others, Real0
<1>3. text \o <<>> = text
  BY Beginnings
<1>4. CASE ~exists(op.from)
  <2>1. Place(before, op.from) \notin DOMAIN before
    BY <1>1, <1>2, <1>4 DEF exists, Others
  <2>2. Place(before, op.from) \in Path
        /\ Real0(op.from) = Follow(before, Place(before, op.from))
    BY <1>1, RealFacts, TreeFacts DEF Real0
  <2>3. Real0(op.from) = Place(before, op.from)
    BY <1>1, <2>1, <2>2, FollowFacts DEF IsLinkAt
  <2>4. Input = <<>>
    BY <2>1, <2>3 DEF Input, Text0
  <2>5. fs' = fs
    BY <1>4 DEF DoAdd
  <2> QED
    BY <1>3, <2>4, <2>5
<1>5. CASE exists(op.from) /\ Real0(op.from) = Real0(op.to)
  <2>1. fs' = fs /\ Input = <<>>
    BY <1>2, <1>5 DEF DoAdd, Input
  <2> QED
    BY <1>3, <2>1
<1>6. CASE exists(op.from) /\ Real0(op.from) # Real0(op.to)
  <2>1. is_file(op.from) /\ fs' = Extended(op.to, Text(op.from))
    BY <1>2, <1>6 DEF DoAdd
  <2>2. Real0(op.from) \in DOMAIN fs /\ fs[Real0(op.from)].kind = "file"
    BY <1>2, <2>1 DEF is_file, Leads
  <2>3. Real0(op.from) \in DOMAIN before /\ fs[Real0(op.from)] = before[Real0(op.from)]
    BY <1>1, <1>6, <2>2, NodeFacts DEF Others
  <2>4. Text(op.from) = Input
    BY <1>2, <1>6, <2>3 DEF Text, Input, Text0
  <2> QED
    BY <1>1, <2>1, <2>4, WriteWrites
<1> QED
  BY <1>4, <1>5, <1>6

\* What the invariant says of an operation that is executed.
LEMMA TextHolds == IInv /\ TextInv => TextAsAsked
<1> SUFFICES ASSUME IInv, TextInv, op.name \in TextOperations
             PROVE  TextAsAsked
  BY DEF TextAsAsked
<1>1. outcome \in {"ready", "running", "done", "error"}
  BY DEF IInv, TypeOK
<1>2. CASE outcome = "ready"
  BY <1>2 DEF TextInv, TextOperations
<1>3. CASE outcome = "running"
  <2>1. Planned \/ OnTheWay
    BY <1>3 DEF TextInv
  <2>2. Others(fs) /\ Keeps(Shown(fs))
    BY <2>1, KeepsOnTheWay
  <2>3. InTerms
    BY <1>3, <2>2 DEF InTerms
  <2> QED
    BY <2>3, InTheseTerms
<1>4. CASE outcome \in {"done", "error"}
  BY <1>4 DEF TextInv
<1> QED
  BY <1>1, <1>2, <1>3, <1>4

LEMMA TextStutters ==
  ASSUME TextInv, UNCHANGED vars
  PROVE  TextInv'
<1>1. UNCHANGED <<op, before>> /\ fs' = fs /\ agenda' = agenda /\ outcome' = outcome
      /\ result' = result
  BY DEF vars
<1>2. /\ Old' = Old /\ Input' = Input /\ Real0(op.to)' = Real0(op.to)
      /\ (Others(fs)' <=> Others(fs))
  BY <1>1, Frames
<1>3. \A t : Asked(t) => Asked(t)'
  BY <1>1, <1>2 DEF Asked
<1>4. \A t : Keeps(t) => Keeps(t)'
  BY <1>1, <1>2 DEF Keeps
<1>5. AddStep' = AddStep /\ \A do : Ask(do)' = Ask(do)
  BY <1>1 DEF AddStep, Ask
<1>6. \A t, steps : Completes(t, steps) => Completes(t, steps)'
  BY <1>1, <1>2, <1>3, <1>5 DEF Completes
<1>7. Now' = Now /\ Begun' = Begun
  BY <1>1, <1>2 DEF Now, Begun
<1>8. Planned => Planned'
  BY <1>1, <1>2, <1>4, <1>5, <1>6, <1>7 DEF Planned
<1>9. OnTheWay => OnTheWay'
  <2>1. \A t : Written(fs, t) => Written(fs, t)'
    BY <1>1, <1>2 DEF Written
  <2> QED
    BY <1>1, <1>2, <1>4, <1>6, <2>1 DEF OnTheWay
<1>10. TextAsAsked => TextAsAsked'
  BY <1>1 DEF TextAsAsked, Leads, Text, Text0, Real0
<1> QED
  BY <1>1, <1>8, <1>9, <1>10 DEF TextInv

LEMMA OpenKeepsText ==
  ASSUME IInv, Planned, DoOpen, Now.to = op.to, op.name # "tail_lines",
         Completes(Begun, Tail(agenda)), Keeps(Begun), agenda' = Tail(agenda)
  PROVE  OnTheWay'
<1> DEFINE f == WithParent(op.to)
           place == Real(f, op.to)
           text == IF Now.do = "open_a" /\ place \in DOMAIN f THEN f[place].text ELSE <<>>
<1>1. /\ CanMakeParent(op.to) /\ CanOpen(f, op.to) /\ fs' = With(f, {place}, File(text))
      /\ UNCHANGED <<op, before>>
  BY DEF DoOpen
<1>2. fs = before
  BY DEF Planned
<1> HIDE DEF f
<1>3. Old \in Lines /\ Begun \in Lines /\ <<>> \in Lines
  BY OldFacts, NodeFacts DEF Begun
<1>4. \A t \in Lines : Written(With(f, {place}, File(t)), t)
  BY <1>1, <1>2, OpenWrites DEF f
<1>5. /\ place \in DOMAIN f => f[place].text = Old
      /\ place \notin DOMAIN f => Old = <<>>
  BY <1>1, <1>2, <1>3, OpenWrites DEF f
<1>6. text = Begun
  BY <1>5 DEF Begun
<1> HIDE DEF text
<1>7. Written(fs', Begun)
  BY <1>1, <1>3, <1>4, <1>6
<1> QED
  BY <1>1, <1>3, <1>7, Proceeds

LEMMA ReadKeepsText ==
  ASSUME IInv, IInv', Planned, DoRead, Now.to = op.to, Tail(agenda) = <<>>,
         \/ Now.do = "prepend" /\ op.name = "prepend_lines"
         \/ Now.do = "replace" /\ op.name = "replace_in_file"
  PROVE  Planned'
<1>1. fs = before /\ UNCHANGED <<fs, op, before>> /\ is_file(op.to)
  BY DEF DoRead, Planned
<1>2. Text(op.to) = Old
  BY <1>1 DEF is_file, Leads, Text, Old, Text0, Real0
<1>3. Old' = Old
  BY <1>1, Frames
<1> DEFINE W(lines) == WriteStep(op.to, lines)
<1>4. \A lines \in Lines :
        /\ <<Ask("open_w"), W(lines)>> \o <<>> = <<Ask("open_w"), W(lines)>>
  BY AskFacts, TupleFacts
<1>5. <<NewLine>> \o Old \in Lines /\ [n \in DOMAIN Old |-> NewLine] \in Lines
  BY OldFacts, NewTexts
<1>6. CASE Now.do = "prepend" /\ op.name = "prepend_lines"
  <2>1. agenda' = <<Ask("open_w"), W(<<NewLine>> \o Old)>> \o <<>>
    BY <1>2, <1>6 DEF DoRead, Continue, ReadThenWrite, Ask
  <2>2. agenda' = <<Ask("open_w"), W(<<NewLine>> \o Old)>>
    BY <1>4, <1>5, <2>1
  <2>3. StartPlan'
    BY <1>1, <1>3, <1>6, <2>2 DEF StartPlan, Ask
  <2> QED
    BY <1>1, <2>3, StartsNext
<1>7. CASE Now.do = "replace" /\ op.name = "replace_in_file"
  <2>1. agenda' = <<Ask("open_w"), W([n \in DOMAIN Old |-> NewLine])>> \o <<>>
    BY <1>2, <1>7 DEF DoRead, Continue, Replaced, Ask
  <2>2. agenda' = <<Ask("open_w"), W([n \in DOMAIN Old |-> NewLine])>>
    BY <1>4, <1>5, <2>1
  <2>3. StartPlan'
    BY <1>1, <1>3, <1>7, <2>2 DEF StartPlan, Ask
  <2> QED
    BY <1>1, <2>3, StartsNext
<1> QED
  BY <1>6, <1>7

LEMMA TouchKeepsText ==
  ASSUME IInv, IInv', Planned, DoTouch, Now.to = op.to, Tail(agenda) = <<>>,
         op.name = "touch"
  PROVE  Planned'
<1>1. fs = before /\ UNCHANGED <<fs, op, before>>
  BY DEF DoTouch, Planned
<1>2. Ask("open_a") \in Steps
  BY AskFacts
<1>3. agenda' = <<>> \/ agenda' = <<Ask("open_a")>>
  <2>1. agenda' = <<>> \o <<>> \/ agenda' = <<Ask("open_a")>> \o <<>>
    BY DEF DoTouch, Continue, Ask
  <2> QED
    BY <1>2, <2>1, TupleFacts
<1>4. StartPlan'
  BY <1>1, <1>3 DEF StartPlan, Ask
<1> QED
  BY <1>1, <1>4, StartsNext

LEMMA TailKeepsText ==
  ASSUME IInv, Planned, DoTail, Now.to = op.to, agenda' = <<>>, op.name = "tail_lines"
  PROVE  Planned'
<1>1. fs = before /\ UNCHANGED <<fs, op, before>> /\ is_file(op.to)
      /\ result' = Sliced(Text(op.to), op.count)
  BY DEF DoTail, Planned
<1>2. Text(op.to) = Old
  BY <1>1 DEF is_file, Leads, Text, Old, Text0, Real0
<1>3. op.count \in Nat
  BY DEF IInv, TypeOK
<1>4. /\ IsSuffix(result', Old)
      /\ Len(result') = IF op.count \in 1..Len(Old) THEN op.count ELSE Len(Old)
  BY <1>1, <1>2, <1>3, OldFacts, SlicedFacts
<1>5. Old' = Old
  BY <1>1, Frames
<1> QED
  BY <1>1, <1>4, <1>5 DEF Planned

LEMMA TextSteps ==
  ASSUME IInv, IInv', TextInv, Next
  PROVE  TextInv'
<1>1. CASE outcome = "ready"
  BY <1>1, Turns, TextCalls
<1>2. CASE outcome \in {"done", "error"}
  BY <1>2, Turns, TextStutters
<1>3. CASE outcome = "running" /\ op.name \notin TextOperations
  <2>1. op' = op /\ outcome' # "ready"
    BY <1>3, Allowed DEF Finish
  <2> QED
    BY <1>3, <2>1 DEF TextInv
<1>4. CASE outcome = "running" /\ op.name \in TextOperations
  <2>1. Planned \/ OnTheWay
    BY <1>4 DEF TextInv
  <2>2. ASSUME op' = op, outcome' = "running", Planned' \/ OnTheWay'
        PROVE  TextInv'
    BY <2>2 DEF TextInv
  <2>3. ASSUME op' = op, outcome' \in {"done", "error"}, TextAsAsked'
        PROVE  TextInv'
    BY <2>3 DEF TextInv
  <2>4. CASE agenda = <<>> /\ Finish
    <3>1. UNCHANGED <<fs, op, result, before>> /\ outcome' = "done"
      BY <2>4 DEF Finish
    <3>2. Others(fs') /\ Keeps(Shown(fs'))
      BY <1>4, <2>1, <3>1, KeepsOnTheWay
    <3>3. /\ Asked(Shown(fs))
          /\ op.name = "tail_lines" =>
               /\ Shown(fs) = Old /\ IsSuffix(result, Old)
               /\ Len(result) = IF op.count \in 1..Len(Old) THEN op.count ELSE Len(Old)
      <4>1. CASE Planned
        <5>1. Shown(fs) = Old
          BY <1>4, <4>1, KeepsOnTheWay
        <5>2. \/ op.name = "touch"
              \/ /\ op.name = "tail_lines" /\ IsSuffix(result, Old)
                 /\ Len(result) = IF op.count \in 1..Len(Old) THEN op.count ELSE Len(Old)
          <6>1. \A do : <<Ask(do)>> # <<>>
            OBVIOUS
          <6> QED
            BY <2>4, <4>1, <6>1 DEF Planned
        <5> QED
          BY <5>1, <5>2 DEF Asked
      <4>2. CASE OnTheWay
        <5>1. PICK text \in Lines : Written(fs, text) /\ Completes(text, agenda)
          BY <4>2, OnTheWayFacts
        <5>2. Asked(text)
          <6>1. <<AddStep>> # <<>> /\ <<AddStep, AddStep>> # <<>>
            OBVIOUS
          <6> QED
            BY <2>4, <5>1, <6>1 DEF Completes
        <5>3. Shown(fs) = text /\ op.name # "tail_lines"
          BY <4>2, <5>1, OldFacts, ShownFacts DEF Written, OnTheWay
        <5> QED
          BY <5>2, <5>3
      <4> QED
        BY <2>1, <4>1, <4>2
    <3>4. TextAsAsked'
      BY <1>4, <3>1, <3>2, <3>3, Ends
    <3> QED
      BY <2>3, <3>1, <3>4
  <2>5. CASE agenda # <<>> /\ StepFails
    <3>1. TextAsAsked'
      BY <1>4, <2>1, <2>5, TextFails
    <3> QED
      BY <2>3, <2>5, <3>1 DEF StepFails, Fail
  <2>6. ASSUME agenda # <<>>, DoOpen \/ DoWrite \/ DoRead \/ DoAdd \/ DoTail \/ DoTouch
        PROVE  /\ op' = op /\ before' = before /\ outcome' = "running"
               /\ Continue(<<>>) => agenda' = Tail(agenda)
    <3>1. <<>> \o Tail(agenda) = Tail(agenda)
      BY <2>6, Chained, ChainsOf DEF IInv, AgendaOK
    <3>2. UNCHANGED <<op, before, outcome>>
      BY <2>6 DEF DoOpen, DoWrite, DoRead, DoAdd, DoTail, DoTouch, Continue
    <3> QED
      BY <1>4, <3>1, <3>2 DEF Continue
  <2>7. CASE agenda # <<>> /\ Planned /\ ~StepFails
    <3>1. /\ Now.to = op.to
          /\ \/ /\ Now.do \in {"open_w", "open_a"} /\ op.name # "tail_lines"
                /\ Completes(Begun, Tail(agenda)) /\ Keeps(Begun)
             \/ /\ Tail(agenda) = <<>>
                /\ \/ Now.do = "prepend" /\ op.name = "prepend_lines"
                   \/ Now.do = "replace" /\ op.name = "replace_in_file"
                   \/ Now.do = "touch" /\ op.name = "touch"
                   \/ Now.do = "tail" /\ op.name = "tail_lines"
      BY <2>7, PlannedNow
    <3>2. CASE Now.do \in {"open_w", "open_a"}
      <4>1. DoOpen
        BY <1>4, <2>7, <3>2, Allowed
      <4>2. Continue(<<>>)
        BY <4>1 DEF DoOpen
      <4>3. OnTheWay'
        BY <2>6, <2>7, <3>1, <3>2, <4>1, <4>2, OpenKeepsText
      <4> QED
        BY <2>2, <2>6, <2>7, <4>1, <4>3
    <3>3. CASE Now.do \in {"prepend", "replace"}
      <4>1. DoRead
        BY <1>4, <2>7, <3>3, Allowed
      <4>2. Planned'
        BY <2>7, <3>1, <3>3, <4>1, ReadKeepsText
      <4> QED
        BY <2>2, <2>6, <2>7, <4>1, <4>2
    <3>4. CASE Now.do = "touch"
      <4>1. DoTouch
        BY <1>4, <2>7, <3>4, Allowed
      <4>2. Planned'
        BY <2>7, <3>1, <3>4, <4>1, TouchKeepsText
      <4> QED
        BY <2>2, <2>6, <2>7, <4>1, <4>2
    <3>5. CASE Now.do = "tail"
      <4>1. DoTail
        BY <1>4, <2>7, <3>5, Allowed
      <4>2. agenda' = <<>>
        BY <2>6, <2>7, <3>1, <3>5, <4>1 DEF DoTail
      <4>3. Planned'
        BY <2>7, <3>1, <3>5, <4>1, <4>2, TailKeepsText
      <4> QED
        BY <2>2, <2>6, <2>7, <4>1, <4>3
    <3> QED
      BY <3>1, <3>2, <3>3, <3>4, <3>5
  <2>8. CASE agenda # <<>> /\ OnTheWay /\ ~StepFails
    <3>1. PICK text \in Lines : /\ Written(fs, text) /\ Completes(text, agenda)
                                /\ Keeps(text)
      BY <2>8, OnTheWayFacts
    <3>2. op.name # "tail_lines"
      BY <2>8 DEF OnTheWay
    <3>3. \/ /\ Now.do = "write" /\ Now.to = op.to /\ Tail(agenda) = <<>>
             /\ Asked(text \o Now.lines)
          \/ /\ Now.do = "add" /\ Now.to = op.to /\ Now.from = op.from
             /\ op.name = "concatenate"
             /\ \/ text = Input /\ Tail(agenda) = <<>>
                \/ text = <<>> /\ Tail(agenda) = <<AddStep>>
      BY <2>8, <3>1, OnTheWayNow
    <3>4. CASE Now.do = "write"
      <4>1. DoWrite
        BY <1>4, <2>8, <3>4, Allowed
      <4>2. Continue(<<>>) /\ fs' = Extended(op.to, Now.lines)
        BY <3>3, <3>4, <4>1 DEF DoWrite
      <4>3. Now.lines \in Lines
        BY <2>8, NowFacts
      <4> DEFINE new == text \o Now.lines
      <4>4. Written(fs', new) /\ new \in Lines
        BY <3>1, <4>2, <4>3, WriteWrites, Beginnings
      <4>5. Keeps(new) /\ Asked(new)
        BY <3>1, <3>3, <3>4, <4>3, OldFacts, Beginnings DEF Keeps
      <4> HIDE DEF new
      <4>6. agenda' = <<>>
        BY <2>6, <2>8, <3>3, <3>4, <4>1, <4>2
      <4>7. Completes(new, agenda')
        BY <4>5, <4>6 DEF Completes
      <4>8. OnTheWay'
        BY <2>6, <2>8, <3>2, <4>1, <4>4, <4>5, <4>7, Proceeds
      <4> QED
        BY <2>2, <2>6, <2>8, <4>1, <4>8
    <3>5. CASE Now.do = "add"
      <4>1. DoAdd /\ op.name = "concatenate"
        BY <1>4, <2>8, <3>3, <3>5, Allowed
      <4>2. Continue(<<>>)
        BY <4>1 DEF DoAdd
      <4> DEFINE new == text \o Input
      <4>3. Written(fs', new)
        BY <3>1, <3>3, <3>5, <4>1, Added
      <4>4. Input \in Lines /\ new \in Lines
        BY <3>1, OldFacts, Beginnings
      <4>5. Completes(new, agenda') /\ Keeps(new)
        <5>1. agenda' = Tail(agenda)
          BY <2>6, <2>8, <4>1, <4>2
        <5>2. Keeps(new)
          BY <4>1 DEF Keeps
        <5>3. CASE text = Input /\ Tail(agenda) = <<>>
          <6>1. Asked(new)
            BY <4>1, <5>3 DEF Asked
          <6> QED
            BY <5>1, <5>2, <5>3, <6>1 DEF Completes
        <5>4. CASE text = <<>> /\ Tail(agenda) = <<AddStep>>
          <6>1. new = Input
            BY <4>4, <5>4, Beginnings
          <6> QED
            BY <4>1, <5>1, <5>2, <5>4, <6>1 DEF Completes
        <5> QED
          BY <3>3, <3>5, <5>3, <5>4
      <4> HIDE DEF new
      <4>6. OnTheWay'
        BY <2>6, <2>8, <3>2, <4>1, <4>3, <4>4, <4>5, Proceeds
      <4> QED
        BY <2>2, <2>6, <2>8, <4>1, <4>6
    <3> QED
      BY <3>3, <3>4, <3>5
  <2>9. agenda = <<>> => Finish
    BY <1>4, Allowed
  <2> QED
    BY <2>1, <2>4, <2>5, <2>7, <2>8, <2>9
<1>5. outcome \in {"ready", "running", "done", "error"}
  BY DEF IInv, TypeOK
<1> QED
  BY <1>1, <1>2, <1>3, <1>4, <1>5

\* Whatever step fails, an operation on text keeps what it promises to keep, and when it
\* returns it has done what it promises (main.py:486-496, 564-660).
THEOREM TextIsAsked == Spec => []TextAsAsked
<1>1. Init => TextInv
  BY DEF Init, TextInv, NoOperation, Operation, TextOperations
<1>2. IInv /\ IInv' /\ TextInv /\ [Next]_vars => TextInv'
  <2> SUFFICES ASSUME IInv, IInv', TextInv, [Next]_vars
               PROVE  TextInv'
    OBVIOUS
  <2>1. CASE Next
    BY <2>1, TextSteps
  <2>2. CASE UNCHANGED vars
    BY <2>2, TextStutters
  <2> QED
    BY <2>1, <2>2
<1>3. IInv /\ TextInv => TextAsAsked
  BY TextHolds
<1> QED
  BY <1>1, <1>2, <1>3, Invariance, PTL DEF Spec

-----------------------------------------------------------------------------
(* What is lost                                                            *)

OnEntries == {"remove", "make_link", "await_exists"}
OfTrees == {"copy", "move", "rename_archive"}

\* Every file is as it was, except below the path and where it leads to.
Safe(f) ==
  \A q \in DOMAIN before :
    before[q].kind = "file" =>
      \/ q \in DOMAIN f /\ f[q] = before[q]
      \/ IsPrefix(Place(before, op.to), q)
      \/ q = Real0(op.to)

LinkStep == Step("symlink", op.from, op.to)
\* No link has changed until the path is removed or made.
Before ==
  /\ SameLinks(before, fs)
  /\ agenda \in {<<Ask("remove")>>, <<Step("link", op.from, op.to)>>,
                 <<Ask("remove"), LinkStep>>, <<Ask("await")>>, <<Ask("sleep")>>}

EntryInv ==
  /\ op.name \in {"none"} \cup TextOperations \cup OnEntries \cup OfTrees
  /\ op.inside => op.name \in OfTrees
  /\ outcome = "ready" => op.name = "none"
  /\ op.name \in OnEntries =>
       /\ Safe(fs)
       /\ outcome = "running" => agenda \in {<<>>, <<LinkStep>>} \/ Before

LEMMA SafeEnough ==
  ASSUME IInv, ~op.inside, Safe(fs)
  PROVE  NothingElseLost
<1>1. before \in Trees /\ IsTree(before) /\ op.to \in Path
  BY OldFacts DEF IInv, AgendaOK
<1>2. Temp \notin DOMAIN before
  BY <1>1, FilesAssumption
<1>3. Destination = op.to
  BY DEF Destination
<1>4. op.to \in Goals
  <2>1. <<>> \in [1..0 -> Range(Names)]
    <3>1. <<>> \in Seq(Range(Names)) /\ Len(<<>>) = 0
      BY EmptySeq
    <3> QED
      BY <3>1, LenProperties
  <2>2. 0 \in 0..MaxDepth
    <3>1. MaxDepth \in Nat
      BY FilesAssumption, Zenon
    <3> QED
      BY <3>1
  <2>3. <<>> \in Rests
    BY <2>1, <2>2 DEF Rests
  <2>4. op.to \o <<>> = op.to
    BY <1>1, ConcatEmptySeq DEF Path
  <2> QED
    BY <1>3, <2>3, <2>4 DEF Goals
<1> DEFINE left == Texts(Without(fs, {Temp}))
<1>5. ASSUME NEW q \in DOMAIN before, before[q].kind = "file"
      PROVE  \/ before[q].text \in left
             \/ \E to \in Goals : IsPrefix(Place(before, to), q) \/ q = Real0(to)
  <2>1. CASE q \in DOMAIN fs /\ fs[q] = before[q]
    <3> DEFINE g == Without(fs, {Temp})
    <3>1. q \in DOMAIN g /\ g[q] = before[q]
      BY <1>2, <2>1 DEF Without
    <3> HIDE DEF g
    <3>2. g[q].text \in Texts(g)
      BY <1>5, <3>1 DEF Texts
    <3> QED
      BY <3>1, <3>2 DEF g
  <2>2. CASE IsPrefix(Place(before, op.to), q) \/ q = Real0(op.to)
    BY <1>4, <2>2
  <2> QED
    BY <1>5, <2>1, <2>2 DEF Safe
<1> QED
  BY <1>5 DEF NothingElseLost

\* The operations on text.
LEMMA TextSafe ==
  ASSUME IInv, TextInv, op.name \in TextOperations
  PROVE  Safe(fs)
<1>1. CASE outcome = "running"
  BY <1>1, KeepsOnTheWay DEF TextInv, Others, Safe
<1>2. CASE outcome \in {"done", "error"}
  BY <1>2 DEF TextInv, TextAsAsked, Safe
<1>3. outcome # "ready"
  BY DEF TextInv, TextOperations
<1> QED
  BY <1>1, <1>2, <1>3 DEF IInv, TypeOK

\* Removing a path takes away what is there and below it.
LEMMA RemovedSafe ==
  ASSUME IInv, Safe(fs), SameLinks(before, fs), NEW g \in Removals(op.to)
  PROVE  Safe(g)
<1> DEFINE place == Place(fs, op.to)
<1>1. IsTree(fs) /\ IsTree(before) /\ op.to \in Path /\ place = Place(before, op.to)
  BY OldFacts, SameReal
<1>2. place \in Path
  BY <1>1, RealFacts, EmptySeq DEF Path
<1>3. IsPrefix(place, place)
  <2>1. Len(place) \in Nat
    BY <1>2, LenProperties DEF Path
  <2> HIDE DEF place
  <2> QED
    BY <2>1 DEF IsPrefix
<1>4. \A gone : gone \subseteq Within(fs, place) \cup {place} =>
        \A q \in DOMAIN fs : \/ q \in DOMAIN Without(fs, gone) /\ Without(fs, gone)[q] = fs[q]
                             \/ IsPrefix(place, q)
  BY <1>3 DEF Without, Within
<1>5. g = fs \/ \E gone \in SUBSET (Within(fs, place) \cup {place}) : g = Without(fs, gone)
  BY DEF Removals
<1> HIDE DEF place
<1>6. \A q \in DOMAIN fs : (q \in DOMAIN g /\ g[q] = fs[q]) \/ IsPrefix(place, q)
  BY <1>4, <1>5
<1> QED
  BY <1>1, <1>6 DEF Safe

\* The next state in these terms.
LEMMA SafeFrames ==
  ASSUME UNCHANGED <<op, before>>
  PROVE  Safe(fs') => Safe(fs)'
BY DEF Safe, Real0

\* The step that comes next, and what it leaves to be done.
LEMMA EntryNow ==
  ASSUME IInv, agenda # <<>>, agenda = <<LinkStep>> \/ Before
  PROVE  /\ Now.to = op.to
         /\ \/ Now.do = "symlink" /\ Tail(agenda) = <<>>
            \/ /\ Before /\ Now.do = "remove" /\ Now.from = op.to
               /\ Tail(agenda) \in {<<>>, <<LinkStep>>}
            \/ /\ Before /\ Now.do = "link" /\ Now.from = op.from /\ Tail(agenda) = <<>>
            \/ Before /\ Now.do \in {"await", "sleep"} /\ Tail(agenda) = <<>>
<1>1. op.to \in Path /\ op.from \in Path
  BY OldFacts
<1>2. {"remove", "link", "symlink", "await", "sleep"} \subseteq Deeds \ {"copy"}
  BY DEF Deeds
<1>3. \A do \in {"remove", "link", "symlink", "await", "sleep"}, from \in Path :
        /\ Step(do, from, op.to) \in Steps /\ Step(do, from, op.to).do = do
        /\ Step(do, from, op.to).from = from /\ Step(do, from, op.to).to = op.to
  BY <1>1, <1>2, StepFacts, FieldFacts
<1>4. ASSUME NEW do \in {"remove", "link", "symlink", "await", "sleep"}, NEW from \in Path,
             agenda = <<Step(do, from, op.to)>>
      PROVE  Now.to = op.to /\ Now.do = do /\ Now.from = from /\ Tail(agenda) = <<>>
  BY <1>3, <1>4, TupleFacts DEF Now
<1>5. CASE agenda = <<Ask("remove"), LinkStep>>
  <2>1. Ask("remove") \in Steps /\ LinkStep \in Steps
    BY <1>1, <1>3 DEF Ask, LinkStep
  <2>2. Now = Ask("remove") /\ Tail(agenda) = <<LinkStep>>
    BY <1>5, <2>1, TupleFacts DEF Now
  <2>3. Now.do = "remove" /\ Now.from = op.to /\ Now.to = op.to
    BY <2>2, FieldFacts DEF Ask
  <2>4. agenda # <<LinkStep>>
    BY <1>3, <1>1, <2>1, <2>3, TupleFacts DEF LinkStep, Now
  <2> QED
    BY <2>2, <2>3, <2>4
<1>6. CASE agenda = <<LinkStep>>
  BY <1>1, <1>4, <1>6 DEF LinkStep
<1>7. CASE agenda = <<Ask("remove")>>
  BY <1>1, <1>4, <1>7 DEF Ask, Before, LinkStep
<1>8. CASE agenda = <<Step("link", op.from, op.to)>>
  BY <1>1, <1>4, <1>8 DEF Before, LinkStep
<1>9. CASE agenda \in {<<Ask("await")>>, <<Ask("sleep")>>}
  BY <1>1, <1>4, <1>9 DEF Ask, Before, LinkStep
<1> QED
  BY <1>5, <1>6, <1>7, <1>8, <1>9 DEF Before

\* While an operation on entries is executed.
LEMMA EntrySteps ==
  ASSUME IInv, IInv', EntryInv, Next, outcome = "running", op.name \in OnEntries,
         agenda # <<>>
  PROVE  EntryInv'
<1>1. Safe(fs) /\ (agenda = <<LinkStep>> \/ Before)
  BY DEF EntryInv
<1>2. /\ Now.to = op.to
      /\ \/ Now.do = "symlink" /\ Tail(agenda) = <<>>
         \/ /\ Before /\ Now.do = "remove" /\ Now.from = op.to
            /\ Tail(agenda) \in {<<>>, <<LinkStep>>}
         \/ /\ Before /\ Now.do = "link" /\ Now.from = op.from /\ Tail(agenda) = <<>>
         \/ Before /\ Now.do \in {"await", "sleep"} /\ Tail(agenda) = <<>>
  BY <1>1, EntryNow
<1>3. IsTree(fs) /\ IsTree(before) /\ op.to \in Path /\ op.from \in Path
  BY OldFacts
<1>4. <<>> \o Tail(agenda) = Tail(agenda)
  BY Chained, ChainsOf DEF IInv, AgendaOK
<1>5. \/ StepFails
      \/ Now.do = "symlink" /\ DoSymlink
      \/ Now.do = "remove" /\ DoRemove
      \/ Now.do = "link" /\ DoLink
      \/ Now.do = "await" /\ DoAwait
      \/ Now.do = "sleep" /\ DoSleep
  BY <1>2, Allowed
<1>6. ASSUME UNCHANGED <<op, before>>, Safe(fs'), outcome' = "error"
      PROVE  EntryInv'
  BY <1>6, SafeFrames DEF EntryInv
<1>7. ASSUME UNCHANGED <<op, before>>, outcome' = outcome, Safe(fs'),
             agenda' \in {<<>>, <<LinkStep>>} \/ Before'
      PROVE  EntryInv'
  <2>1. LinkStep' = LinkStep
    BY <1>7 DEF LinkStep
  <2> QED
    BY <1>7, <2>1, SafeFrames DEF EntryInv
<1>8. ASSUME UNCHANGED <<op, before>>, SameLinks(before, fs'),
             agenda' \in {<<Ask("remove")>>, <<Step("link", op.from, op.to)>>,
                          <<Ask("remove"), LinkStep>>, <<Ask("await")>>, <<Ask("sleep")>>}
      PROVE  Before'
  BY <1>8 DEF Before, Ask, LinkStep
<1>9. CASE StepFails
  <2>1. UNCHANGED <<op, before>> /\ outcome' = "error" /\ Partly
    BY <1>9 DEF StepFails, Fail
  <2>2. CASE UNCHANGED fs
    BY <1>1, <1>6, <2>1, <2>2
  <2>3. CASE Now.do = "remove" /\ fs' \in Removals(Now.from)
    <3>1. SameLinks(before, fs) /\ Now.from = op.to
      BY <1>2, <2>3 DEF Before
    <3>2. Safe(fs')
      BY <1>1, <2>3, <3>1, RemovedSafe
    <3> QED
      BY <1>6, <2>1, <3>2
  <2>4. Now.do \notin {"open_w", "open_a", "file", "write"}
    BY <1>2
  <2> QED
    BY <2>1, <2>2, <2>3, <2>4 DEF Partly
<1>10. CASE Now.do = "symlink" /\ DoSymlink
  <2> DEFINE place == Place(fs, op.to)
  <2>1. /\ UNCHANGED <<op, before, outcome>> /\ place \notin DOMAIN fs
        /\ fs' = With(fs, {place}, Link(Now.from)) /\ agenda' = <<>> \o Tail(agenda)
    BY <1>2, <1>10 DEF DoSymlink, Continue, exists
  <2>2. agenda' = <<>>
    BY <1>2, <1>4, <1>10, <2>1
  <2> HIDE DEF place
  <2>3. \A q \in DOMAIN fs : q \in DOMAIN fs' /\ fs'[q] = fs[q]
    BY <2>1 DEF With
  <2>4. Safe(fs')
    BY <1>1, <2>3 DEF Safe
  <2> QED
    BY <1>7, <2>1, <2>2, <2>4
<1>11. CASE Now.do = "remove" /\ DoRemove
  <2>1. /\ UNCHANGED <<op, before, outcome>> /\ fs' \in Removals(op.to)
        /\ agenda' = <<>> \o Tail(agenda) /\ SameLinks(before, fs)
    BY <1>2, <1>11 DEF DoRemove, Continue, Before
  <2>2. Safe(fs')
    BY <1>1, <2>1, RemovedSafe
  <2>3. agenda' \in {<<>>, <<LinkStep>>}
    BY <1>2, <1>4, <1>11, <2>1
  <2> QED
    BY <1>7, <2>1, <2>2, <2>3
<1>12. CASE Now.do = "link" /\ DoLink
  <2> DEFINE g == WithParent(op.to)
             steps == <<Step("remove", op.to, op.to), Step("symlink", op.from, op.to)>>
  <2>1. /\ UNCHANGED <<op, before, outcome>> /\ CanMakeParent(op.to) /\ fs' = g
        /\ agenda' = steps \o Tail(agenda) /\ SameLinks(before, fs)
    BY <1>2, <1>12 DEF DoLink, Continue, Before
  <2>2. OnlyDirsNew(fs, g) /\ SameLinks(fs, g)
    BY <1>3, <2>1, ParentMade
  <2> HIDE DEF g
  <2>3. SameLinks(before, g)
    BY <2>1, <2>2 DEF SameLinks, IsLinkAt
  <2>4. Safe(g)
    BY <1>1, <2>2 DEF Safe, OnlyDirsNew
  <2>5. Ask("remove") \in Steps /\ LinkStep \in Steps
    <3>1. {"remove", "symlink"} \subseteq Deeds \ {"copy"}
      BY DEF Deeds
    <3> QED
      BY <1>3, <3>1, StepFacts DEF Ask, LinkStep
  <2>6. agenda' = <<Ask("remove"), LinkStep>> \o <<>>
    BY <1>2, <1>12, <2>1 DEF Ask, LinkStep
  <2>7. agenda' = <<Ask("remove"), LinkStep>>
    BY <2>5, <2>6, TupleFacts
  <2> QED
    BY <1>7, <1>8, <2>1, <2>3, <2>4, <2>7
<1>13. CASE Now.do \in {"await", "sleep"} /\ (DoAwait \/ DoSleep)
  <2>1. SameLinks(before, fs) /\ UNCHANGED <<op, before, outcome>>
    BY <1>2, <1>13 DEF Before, DoAwait, DoSleep, Continue
  <2>2. Ask("await") \in Steps /\ Ask("sleep") \in Steps
    <3>1. {"await", "sleep"} \subseteq Deeds \ {"copy"}
      BY DEF Deeds
    <3> QED
      BY <1>3, <3>1, StepFacts DEF Ask
  <2>3. agenda' \in {<<>>, <<Ask("await")>>, <<Ask("sleep")>>}
    <3>1. agenda' \in {<<>> \o <<>>, <<Ask("await")>> \o <<>>, <<Ask("sleep")>> \o <<>>}
      BY <1>2, <1>13 DEF DoAwait, DoSleep, Continue, Ask
    <3> QED
      BY <2>2, <3>1, TupleFacts
  <2>4. CASE UNCHANGED fs
    BY <1>1, <1>7, <1>8, <2>1, <2>3, <2>4
  <2>5. CASE CanOpen(fs, op.to) /\ fs' = With(fs, {Real(fs, op.to)}, File(<<>>))
    <3>1. Real(fs, op.to) = Real0(op.to)
      BY <1>3, <2>1, SameReal DEF Real0
    <3>2. SameLinks(fs, fs')
      BY <1>3, <2>5, NodeFacts, Opened
    <3>3. SameLinks(before, fs')
      BY <2>1, <3>2 DEF SameLinks, IsLinkAt
    <3>4. \A q \in DOMAIN fs : q # Real0(op.to) => q \in DOMAIN fs' /\ fs'[q] = fs[q]
      BY <2>5, <3>1 DEF With
    <3>5. Safe(fs')
      BY <1>1, <3>4 DEF Safe
    <3> QED
      BY <1>7, <1>8, <2>1, <2>3, <3>3, <3>5
  <2> QED
    BY <1>2, <1>13, <2>4, <2>5 DEF DoAwait, DoSleep
<1> QED
  BY <1>5, <1>9, <1>10, <1>11, <1>12, <1>13

\* The calls.
LEMMA EntryCalls ==
  ASSUME IInv, IInv', outcome = "ready", Called
  PROVE  EntryInv'
<1>1. fs = before /\ SameLinks(before, fs)
  BY DEF IInv, AgendaOK, SameLinks
<1>2. ASSUME NEW operation, NEW steps, Call(operation, steps),
             operation.name \in TextOperations \cup OfTrees,
             operation.inside => operation.name \in OfTrees
      PROVE  EntryInv'
  BY <1>2 DEF Call, EntryInv, TextOperations, OnEntries, OfTrees
<1>3. ASSUME NEW operation, NEW steps, Call(operation, steps),
             operation.name \in OnEntries, ~operation.inside, Before'
      PROVE  EntryInv'
  <2>1. fs' = before' /\ op' = operation /\ outcome' = "running"
    BY <1>1, <1>3 DEF Call
  <2>2. Safe(fs)'
    BY <2>1 DEF Safe
  <2> QED
    BY <1>3, <2>1, <2>2 DEF EntryInv, OnEntries, OfTrees
<1>4. ASSUME NEW operation, NEW steps, Call(operation, steps),
             steps \in {<<Step("remove", operation.to, operation.to)>>,
                        <<Step("link", operation.from, operation.to)>>,
                        <<Step("await", operation.to, operation.to)>>}
      PROVE  Before'
  <2>1. SameLinks(before, fs)' /\ op' = operation /\ agenda' = steps
    BY <1>1, <1>4 DEF Call, SameLinks, IsLinkAt
  <2> QED
    BY <1>4, <2>1 DEF Before, Ask
<1>5. ASSUME NEW name \in TextOperations \cup OfTrees, NEW from, NEW to, NEW count,
             NEW inside, inside => name \in OfTrees, NEW steps,
             Call(Operation(name, from, to, inside, count), steps)
      PROVE  EntryInv'
  <2> DEFINE o == Operation(name, from, to, inside, count)
  <2>1. o.name = name /\ o.inside = inside
    BY DEF Operation
  <2> HIDE DEF o
  <2> QED
    BY <1>2, <1>5, <2>1 DEF o
<1>6. ASSUME NEW name \in OnEntries, NEW from, NEW to, NEW steps,
             Call(Operation(name, from, to, FALSE, 0), steps),
             steps \in {<<Step("remove", to, to)>>, <<Step("link", from, to)>>,
                        <<Step("await", to, to)>>}
      PROVE  EntryInv'
  <2> DEFINE o == Operation(name, from, to, FALSE, 0)
  <2>1. o.name = name /\ ~o.inside /\ o.from = from /\ o.to = to
    BY DEF Operation
  <2> HIDE DEF o
  <2>2. Before'
    BY <1>4, <1>6, <2>1 DEF o
  <2> QED
    BY <1>3, <1>6, <2>1, <2>2 DEF o
<1>7. /\ {"copy", "move", "rename_archive"} \subseteq OfTrees
      /\ {"remove", "make_link", "await_exists"} \subseteq OnEntries
      /\ {"write_lines", "append_lines", "prepend_lines", "replace_in_file", "concatenate",
          "tail_lines", "touch"} \subseteq TextOperations
  BY DEF OfTrees, OnEntries, TextOperations
<1>8. ASSUME NEW from \in Targets, NEW to \in Targets, NEW inside \in BOOLEAN,
             NEW symlinks \in BOOLEAN,
             copy(from, to, inside, symlinks) \/ move(from, to, inside)
      PROVE  EntryInv'
  BY <1>2, <1>7, <1>8, CopyOrMove
<1>9. ASSUME NEW path \in Targets, NEW to \in Targets, make_link(path, to)
      PROVE  EntryInv'
  BY <1>6, <1>7, <1>9 DEF make_link
<1>10. ASSUME NEW path \in Targets, NEW to \in Targets, concatenate(path, to)
       PROVE  EntryInv'
  BY <1>5, <1>7, <1>10 DEF concatenate
<1>11. ASSUME NEW path \in Targets, remove(path) \/ await_exists(path)
       PROVE  EntryInv'
  BY <1>6, <1>7, <1>11 DEF remove, await_exists
<1>12. ASSUME NEW path \in Targets, touch(path) \/ write_lines(path) \/ append_lines(path)
       PROVE  EntryInv'
  BY <1>5, <1>7, <1>12 DEF touch, write_lines, append_lines
<1>13. ASSUME NEW path \in Targets, prepend_lines(path) \/ replace_in_file(path)
       PROVE  EntryInv'
  BY <1>5, <1>7, <1>13 DEF prepend_lines, replace_in_file
<1>14. ASSUME NEW path \in Targets, NEW count \in 0..2, tail_lines(path, count)
       PROVE  EntryInv'
  BY <1>5, <1>7, <1>14 DEF tail_lines
<1>15. ASSUME NEW path \in Targets, NEW n \in DOMAIN Names, rename_archive(path, Names[n])
       PROVE  EntryInv'
  BY <1>5, <1>7, <1>15 DEF rename_archive
<1> QED
  BY <1>8, <1>9, <1>10, <1>11, <1>12, <1>13, <1>14, <1>15 DEF Called

\* A step that leaves the operation and the file system as they are.
LEMMA EntryStutters ==
  ASSUME EntryInv, UNCHANGED <<op, before>>, outcome' = "ready" => outcome = "ready",
         op.name \in OnEntries =>
           UNCHANGED fs /\ (outcome' # "running" \/ UNCHANGED <<agenda, outcome>>)
  PROVE  EntryInv'
<1>1. CASE op.name \notin OnEntries
  BY <1>1 DEF EntryInv
<1>2. CASE op.name \in OnEntries
  <2>1. Safe(fs)'
    BY <1>2, SafeFrames DEF EntryInv
  <2>2. outcome' = "running" => agenda' \in {<<>>, <<LinkStep'>>} \/ Before'
    BY <1>2 DEF EntryInv, Before, LinkStep, Ask
  <2> QED
    BY <1>2, <2>1, <2>2 DEF EntryInv
<1> QED
  BY <1>1, <1>2

LEMMA EntryNext ==
  ASSUME IInv, IInv', EntryInv, [Next]_vars
  PROVE  EntryInv'
<1>1. CASE UNCHANGED vars
  BY <1>1, EntryStutters DEF vars
<1>2. CASE Next /\ outcome = "ready"
  BY <1>2, Turns, EntryCalls
<1>3. CASE Next /\ outcome \in {"done", "error"}
  BY <1>3, Turns, <1>1
<1>4. CASE Next /\ outcome = "running" /\ op.name \notin OnEntries
  <2>1. UNCHANGED <<op, before>> /\ outcome' # "ready"
    BY <1>4, Allowed DEF Finish
  <2> QED
    BY <1>4, <2>1, EntryStutters
<1>5. CASE Next /\ outcome = "running" /\ op.name \in OnEntries /\ agenda = <<>>
  <2>1. Finish
    BY <1>5, Allowed
  <2> QED
    BY <2>1, EntryStutters DEF Finish
<1>6. CASE Next /\ outcome = "running" /\ op.name \in OnEntries /\ agenda # <<>>
  BY <1>6, EntrySteps
<1>7. outcome \in {"ready", "running", "done", "error"}
  BY DEF IInv, TypeOK
<1> QED
  BY <1>1, <1>2, <1>3, <1>4, <1>5, <1>6, <1>7

-----------------------------------------------------------------------------
(* Ways through trees                                                      *)

\* The first names of a path, one by one.
LEMMA FirstNames ==
  ASSUME NEW s \in Path
  PROVE  /\ Len(s) \in Nat /\ SubSeq(s, 1, 0) = <<>> /\ SubSeq(s, 1, Len(s)) = s
         /\ \A n \in 0..Len(s) : SubSeq(s, 1, n) \in Path /\ IsPrefix(SubSeq(s, 1, n), s)
         /\ \A n \in 0..Len(s) : n < Len(s) =>
              s[n + 1] \in Words /\ SubSeq(s, 1, n + 1) = Child(SubSeq(s, 1, n), s[n + 1])
         /\ \A t \in Path : IsPrefix(t, s) => Len(t) \in 0..Len(s) /\ t = SubSeq(s, 1, Len(t))
<1>1. Len(s) \in Nat /\ \A k \in 1..Len(s) : s[k] \in Words
  BY Named
<1>2. \A n \in 0..Len(s) : /\ SubSeq(s, 1, n) \in Path /\ Len(SubSeq(s, 1, n)) = n
                           /\ \A k \in 1..n : SubSeq(s, 1, n)[k] = s[k]
                           /\ IsPrefix(SubSeq(s, 1, n), s)
  BY NamedPart
<1>3. SubSeq(s, 1, 0) = <<>>
  <2>1. 0 \in 0..Len(s)
    BY <1>1
  <2> QED
    BY <1>2, <2>1, Named
<1>4. ASSUME NEW t \in Path, IsPrefix(t, s)
      PROVE  Len(t) \in 0..Len(s) /\ t = SubSeq(s, 1, Len(t))
  <2>1. Len(t) \in Nat /\ Len(t) <= Len(s) /\ \A k \in 1..Len(t) : t[k] = s[k]
    BY <1>4, Named, NamedPrefix
  <2>2. Len(t) \in 0..Len(s)
    BY <1>1, <2>1
  <2> DEFINE u == SubSeq(s, 1, Len(t))
  <2>3. u \in Path /\ Len(u) = Len(t) /\ \A k \in 1..Len(t) : u[k] = s[k]
    BY <1>2, <2>2
  <2> HIDE DEF u
  <2>4. t = u
    BY <2>1, <2>3, Named
  <2> QED
    BY <2>2, <2>4 DEF u
<1>5. SubSeq(s, 1, Len(s)) = s
  BY <1>4, PrefixOrder
<1>6. ASSUME NEW n \in 0..Len(s), n < Len(s)
      PROVE  s[n + 1] \in Words /\ SubSeq(s, 1, n + 1) = Child(SubSeq(s, 1, n), s[n + 1])
  <2> DEFINE a == SubSeq(s, 1, n)
             b == SubSeq(s, 1, n + 1)
             x == s[n + 1]
             c == Child(a, x)
  <2>1. n \in Nat /\ n + 1 \in 1..Len(s) /\ n + 1 \in 0..Len(s)
    BY <1>1, <1>6
  <2>2. x \in Words
    BY <1>1, <2>1
  <2>3. a \in Path /\ Len(a) = n /\ \A k \in 1..n : a[k] = s[k]
    BY <1>2
  <2>4. b \in Path /\ Len(b) = n + 1 /\ \A k \in 1..n + 1 : b[k] = s[k]
    BY <1>2, <2>1
  <2> HIDE DEF a, b
  <2>5. /\ c \in Path /\ Len(c) = n + 1 /\ \A k \in 1..n : c[k] = a[k]
        /\ c[n + 1] = x
    BY <2>2, <2>3, ChildShape, AppendProperties DEF Path, Child
  <2> HIDE DEF c
  <2>6. \A k \in 1..n + 1 : b[k] = c[k]
    <3>1. \A k \in 1..n + 1 : k \in 1..n \/ k = n + 1
      BY <2>1
    <3> QED
      BY <2>3, <2>4, <2>5, <3>1
  <2>7. b = c
    BY <2>4, <2>5, <2>6, Named
  <2> QED
    BY <2>2, <2>7 DEF a, b, c
<1> QED
  BY <1>1, <1>2, <1>3, <1>4, <1>5, <1>6

\* Induction on the beginnings of a path, from the shortest or from the longest.
LEMMA Onward ==
  ASSUME NEW s \in Path, NEW T, <<>> \in T,
         \A t \in Path, x \in Words : IsPrefix(Child(t, x), s) /\ t \in T => Child(t, x) \in T
  PROVE  \A t \in Path : IsPrefix(t, s) => t \in T
<1> DEFINE N == Len(s)
           S == {n \in 0..N : SubSeq(s, 1, n) \in T}
<1>1. N \in Nat /\ 0 \in S /\ S \in SUBSET (0..N)
  <2>1. N \in Nat /\ SubSeq(s, 1, 0) = <<>>
    BY FirstNames
  <2>2. S \in SUBSET (0..N)
    OBVIOUS
  <2> HIDE DEF N
  <2>3. 0 \in 0..N
    BY <2>1
  <2>4. SubSeq(s, 1, 0) \in T
    BY <2>1
  <2>5. 0 \in S
    BY <2>3, <2>4
  <2> QED
    BY <2>1, <2>2, <2>5
<1>2. ASSUME NEW n \in S, n < N
      PROVE  n + 1 \in S
  <2>1. n \in 0..N /\ SubSeq(s, 1, n) \in T
    BY <1>2
  <2>2. n + 1 \in 0..N
    <3> HIDE DEF S
    <3> QED
      BY <1>1, <1>2, <2>1
  <2>3. /\ s[n + 1] \in Words /\ SubSeq(s, 1, n) \in Path
        /\ SubSeq(s, 1, n + 1) = Child(SubSeq(s, 1, n), s[n + 1])
        /\ IsPrefix(SubSeq(s, 1, n + 1), s)
    BY <1>2, <2>1, <2>2, FirstNames
  <2> QED
    BY <2>1, <2>2, <2>3
<1>3. S = 0..N
  <2> HIDE DEF S, N
  <2> QED
    BY <1>1, <1>2, Ascend
<1> QED
  BY <1>3, FirstNames

LEMMA Backward ==
  ASSUME NEW s \in Path, NEW T, s \in T,
         \A t \in Path, x \in Words : IsPrefix(Child(t, x), s) /\ Child(t, x) \in T => t \in T
  PROVE  \A t \in Path : IsPrefix(t, s) => t \in T
<1> DEFINE N == Len(s)
           S == {n \in 0..N : SubSeq(s, 1, N - n) \in T}
<1>1. N \in Nat /\ 0 \in S /\ S \in SUBSET (0..N)
  <2>1. N \in Nat /\ SubSeq(s, 1, N) = s
    BY FirstNames
  <2>2. S \in SUBSET (0..N)
    OBVIOUS
  <2> HIDE DEF N
  <2>3. N - 0 = N /\ 0 \in 0..N
    BY <2>1
  <2>4. 0 \in S
    BY <2>1, <2>3
  <2> QED
    BY <2>1, <2>2, <2>4
<1>2. ASSUME NEW n \in S, n < N
      PROVE  n + 1 \in S
  <2>1. n \in 0..N /\ SubSeq(s, 1, N - n) \in T
    BY <1>2
  <2> DEFINE m == N - (n + 1)
  <2>2. n + 1 \in 0..N /\ m \in 0..N /\ m < N /\ m + 1 = N - n /\ m + 1 \in 0..N
    <3> HIDE DEF S
    <3> QED
      BY <1>1, <1>2, <2>1
  <2> HIDE DEF m
  <2>3. /\ s[m + 1] \in Words /\ SubSeq(s, 1, m) \in Path
        /\ SubSeq(s, 1, m + 1) = Child(SubSeq(s, 1, m), s[m + 1])
        /\ IsPrefix(SubSeq(s, 1, m + 1), s)
    BY <2>2, FirstNames
  <2>4. SubSeq(s, 1, m + 1) \in T
    BY <2>1, <2>2
  <2>5. SubSeq(s, 1, m) \in T
    <3> DEFINE p == SubSeq(s, 1, m)
               x == s[m + 1]
    <3>1. p \in Path /\ x \in Words /\ IsPrefix(Child(p, x), s) /\ Child(p, x) \in T
      BY <2>3, <2>4
    <3> HIDE DEF p, x
    <3>2. p \in T
      BY <3>1
    <3> QED
      BY <3>2 DEF p
  <2> QED
    BY <2>2, <2>5 DEF m
<1>3. S = 0..N
  <2> HIDE DEF S, N
  <2> QED
    BY <1>1, <1>2, Ascend
<1>4. ASSUME NEW t \in Path, IsPrefix(t, s)
      PROVE  t \in T
  <2> DEFINE k == Len(t)
  <2>1. k \in 0..N /\ t = SubSeq(s, 1, k)
    BY <1>4, FirstNames
  <2> HIDE DEF k
  <2>2. N - k \in 0..N /\ N - (N - k) = k
    <3> HIDE DEF N
    <3> QED
      BY <1>1, <2>1
  <2>3. N - k \in S
    BY <1>3, <2>2
  <2> QED
    BY <2>1, <2>2, <2>3
<1> QED
  BY <1>4

-----------------------------------------------------------------------------
(* Ways through trees                                                      *)

LEMMA PlaceChild ==
  ASSUME NEW f, IsTree(f), NEW path \in Path, NEW x \in Words
  PROVE  /\ Place(f, Child(path, x)) = Child(Real(f, path), x)
         /\ Real(f, path) \in Path
BY RealFacts, PrefixChild DEF Place

\* Above an entry there are directories.
LEMMA Above ==
  ASSUME NEW f, IsTree(f), NEW q \in DOMAIN f, NEW s \in Path, IsPrefix(s, q), s # q
  PROVE  s \in DOMAIN f /\ f[s] = Dir
<1> DEFINE T == {t \in Path : t \in DOMAIN f /\ (t # q => f[t] = Dir)}
<1>1. q \in Path /\ q \in T
  BY TreeFacts
<1>2. ASSUME NEW t \in Path, NEW x \in Words, Child(t, x) \in T
      PROVE  t \in T
  <2>1. Parent(Child(t, x)) = t /\ Child(t, x) # <<>>
    BY PrefixChild
  <2> QED
    BY <1>2, <2>1, TreeFacts
<1> HIDE DEF T
<1>3. s \in T
  BY <1>1, <1>2, Backward
<1> QED
  BY <1>3 DEF T

\* The way to an entry is through directories.
LEMMA Through ==
  ASSUME NEW f, IsTree(f), NEW path \in Path, Place(f, path) \in DOMAIN f,
         NEW s \in Path, IsPrefix(s, path)
  PROVE  /\ Place(f, s) \in DOMAIN f
         /\ s # path => Real(f, s) \in DOMAIN f /\ f[Real(f, s)] = Dir
<1> DEFINE T == {t \in Path : /\ Place(f, t) \in DOMAIN f
                              /\ t # path => Real(f, t) \in DOMAIN f /\ f[Real(f, t)] = Dir}
<1>1. path \in T
  OBVIOUS
<1>2. ASSUME NEW t \in Path, NEW x \in Words, Child(t, x) \in T
      PROVE  t \in T
  <2>1. Place(f, Child(t, x)) = Child(Real(f, t), x) /\ Real(f, t) \in Path
    BY PlaceChild
  <2>2. Parent(Child(Real(f, t), x)) = Real(f, t) /\ Child(Real(f, t), x) # <<>>
    BY <2>1, PrefixChild
  <2>3. Real(f, t) \in DOMAIN f /\ f[Real(f, t)] = Dir
    BY <1>2, <2>1, <2>2, TreeFacts
  <2>4. Place(f, t) \in DOMAIN f
    <3>1. Real(f, t) = Follow(f, Place(f, t)) /\ Place(f, t) \in Path
      BY RealFacts, Named
    <3> QED
      BY <2>3, <3>1, FollowFacts DEF IsLinkAt
  <2> QED
    BY <2>3, <2>4
<1> HIDE DEF T
<1>3. s \in T
  BY <1>1, <1>2, Backward
<1> QED
  BY <1>3 DEF T

\* Where there are no links, paths lead to the places of the same names.
LEMMA Descend ==
  ASSUME NEW f, IsTree(f), NEW d \in Path \ {<<>>}, NEW s \in Path,
         \A t \in Path : IsPrefix(t, s) /\ t # s => ~IsLinkAt(f, Place(f, d) \o t)
  PROVE  /\ Place(f, d \o s) = Place(f, d) \o s
         /\ ~IsLinkAt(f, Place(f, d) \o s) => Real(f, d \o s) = Place(f, d) \o s
<1> DEFINE P == Place(f, d)
           T == {t \in Path : Place(f, d \o t) = P \o t}
<1>1. P \in Path
  BY RealFacts
<1> HIDE DEF P
<1>2. <<>> \in T
  BY <1>1, Named, PrefixCat DEF P
<1>3. ASSUME NEW t \in Path
      PROVE  /\ d \o t \in Path /\ P \o t \in Path
             /\ t \in T /\ ~IsLinkAt(f, P \o t) => Real(f, d \o t) = P \o t
  <2>1. d \o t \in Path /\ P \o t \in Path
    BY <1>1, PrefixCat
  <2>2. Real(f, d \o t) = Follow(f, Place(f, d \o t))
    BY <2>1, RealFacts
  <2> QED
    BY <2>1, <2>2, FollowFacts
<1>4. ASSUME NEW t \in Path, NEW x \in Words, IsPrefix(Child(t, x), s), t \in T
      PROVE  Child(t, x) \in T
  <2>1. /\ Child(t, x) \in Path /\ IsPrefix(t, Child(t, x)) /\ ~IsPrefix(Child(t, x), t)
    BY PrefixChild
  <2>2. IsPrefix(t, s) /\ t # s
    BY <1>4, <2>1, PrefixOrder
  <2>5. d \o Child(t, x) = Child(d \o t, x) /\ P \o Child(t, x) = Child(P \o t, x)
    BY <1>1, CatChild
  <2>3. Real(f, d \o t) = P \o t
    BY <1>3, <1>4, <2>2 DEF P
  <2>6. d \o t \in Path
    BY <1>3
  <2>4. Place(f, Child(d \o t, x)) = Child(P \o t, x)
    <3>1. Place(f, Child(d \o t, x)) = Child(Real(f, d \o t), x)
      BY <2>6, PlaceChild
    <3> QED
      BY <2>3, <3>1
  <2> QED
    BY <2>1, <2>4, <2>5
<1> HIDE DEF T
<1>5. s \in T
  BY <1>2, <1>4, Onward, PrefixOrder
<1> QED
  BY <1>3, <1>5 DEF T, P

\* A region without links, which no path leaves, and file systems that agree
\* outside.
Region(f, R) ==
  /\ R \subseteq Path
  /\ \A q \in R : ~IsLinkAt(f, q) /\ \A x \in Words : Child(q, x) \in R
Agree(f, g, R) ==
  \A q \in Path \ R : /\ IsLinkAt(f, q) <=> IsLinkAt(g, q)
                      /\ IsLinkAt(f, q) => f[q].to = g[q].to

LEMMA Stays ==
  ASSUME NEW f, IsTree(f), NEW R, Region(f, R), NEW path \in Path, NEW s \in Path,
         IsPrefix(s, path), Real(f, s) \in R
  PROVE  /\ Real(f, path) \in R
         /\ path # s => Place(f, path) \in R
<1> DEFINE T == {t \in Path : IsPrefix(s, t) => /\ Real(f, t) \in R
                                                /\ t # s => Place(f, t) \in R}
<1>1. <<>> \in T
  BY PrefixOrder, Named
<1>2. ASSUME NEW t \in Path, NEW x \in Words, t \in T
      PROVE  Child(t, x) \in T
  <2> DEFINE c == Child(t, x)
  <2>1. c \in Path /\ (IsPrefix(s, c) => s = c \/ IsPrefix(s, t))
    BY PrefixChild
  <2>2. Place(f, c) = Child(Real(f, t), x) /\ Real(f, c) = Follow(f, Place(f, c))
        /\ Real(f, t) \in Path /\ Child(Real(f, t), x) \in Path
    <3>1. Place(f, c) = Child(Real(f, t), x) /\ Real(f, t) \in Path
      BY PlaceChild
    <3>2. Child(Real(f, t), x) \in Path
      BY <3>1, PrefixChild
    <3> HIDE DEF c
    <3>3. Real(f, c) = Follow(f, Place(f, c))
      BY <2>1, RealFacts
    <3> QED
      BY <3>1, <3>2, <3>3
  <2> HIDE DEF c
  <2>3. IsPrefix(s, t) => Place(f, c) \in R /\ Real(f, c) \in R
    BY <1>2, <2>2, FollowFacts DEF Region
  <2>4. c \in T
    BY <2>1, <2>3
  <2> QED
    BY <2>4 DEF c
<1> HIDE DEF T
<1>3. path \in T
  BY <1>1, <1>2, Onward, PrefixOrder
<1> QED
  BY <1>3 DEF T

LEMMA FollowOutside ==
  ASSUME NEW f, IsTree(f), NEW g, NEW R, Region(f, R), Agree(f, g, R), NEW q \in Path,
         Follow(f, q) \notin R
  PROVE  Follow(g, q) = Follow(f, q)
<1> DEFINE nf(p) == IF IsLinkAt(f, p) THEN f[p].to ELSE p
           ng(p) == IF IsLinkAt(g, p) THEN g[p].to ELSE p
           a == nf(q)
           b == nf(a)
           c == nf(b)
<1>1. /\ Follow(f, q) = IF IsLinkAt(f, c) THEN Nowhere ELSE c
      /\ Follow(g, q) = IF IsLinkAt(g, ng(ng(ng(q)))) THEN Nowhere ELSE ng(ng(ng(q)))
  BY DEF Follow
<1>2. \A p \in Path : nf(p) \in Path
  BY TreeFacts DEF IsLinkAt
<1>3. \A p \in R : nf(p) = p /\ ~IsLinkAt(f, p)
  BY DEF Region
<1>4. \A p \in Path \ R : nf(p) = ng(p) /\ (IsLinkAt(f, p) <=> IsLinkAt(g, p))
  BY DEF Agree
<1> HIDE DEF nf, ng
<1>5. a \in Path /\ b \in Path /\ c \in Path
  BY <1>2
<1>6. q \notin R /\ a \notin R /\ b \notin R /\ c \notin R
  BY <1>1, <1>3
<1> QED
  BY <1>1, <1>4, <1>5, <1>6

\* Whatever changes in the region, other paths lead to the places they led to.
LEMMA SameOutside ==
  ASSUME NEW f, IsTree(f), NEW g, IsTree(g), NEW R, Region(f, R), Agree(f, g, R),
         NEW path \in Path
  PROVE  /\ Real(f, path) \notin R => Real(g, path) = Real(f, path)
         /\ Place(f, path) \notin R => Place(g, path) = Place(f, path)
<1> DEFINE T == {t \in Path : Real(f, t) \in R \/ Real(g, t) = Real(f, t)}
<1>1. <<>> \in T
  BY Named, RealFacts
<1>2. ASSUME NEW t \in Path, NEW x \in Words, t \in T
      PROVE  Child(t, x) \in T
  <2> DEFINE c == Child(t, x)
  <2>1. c \in Path /\ IsPrefix(t, c)
    BY PrefixChild
  <2>2. CASE Real(f, t) \in R
    BY <2>1, <2>2, Stays
  <2>3. CASE Real(g, t) = Real(f, t)
    <3>1. /\ Place(f, c) = Child(Real(f, t), x) /\ Real(f, c) = Follow(f, Place(f, c))
          /\ Place(g, c) = Child(Real(f, t), x) /\ Real(g, c) = Follow(g, Place(g, c))
          /\ Child(Real(f, t), x) \in Path
      BY <2>1, <2>3, PlaceChild, RealFacts, PrefixChild
    <3>2. Real(f, c) \notin R => Real(g, c) = Real(f, c)
      BY <3>1, FollowOutside
    <3> QED
      BY <2>1, <3>2
  <2> QED
    BY <1>2, <2>2, <2>3
<1>3. \A t \in Path : t \in T
  <2> HIDE DEF T
  <2> QED
    BY <1>1, <1>2, Onward, PrefixOrder
<1>4. ASSUME Place(f, path) \notin R
      PROVE  Place(g, path) = Place(f, path)
  <2>1. CASE path = <<>>
    BY <2>1, RealFacts
  <2>2. CASE path # <<>>
    <3> DEFINE p == Parent(path)
               x == Last(path)
    <3>1. p \in Path /\ x \in Words /\ path = Child(p, x)
      BY <2>2, PrefixChild
    <3> HIDE DEF p, x
    <3>2. Place(f, path) = Child(Real(f, p), x) /\ Place(g, path) = Child(Real(g, p), x)
      BY <3>1, PlaceChild
    <3>3. Real(f, p) \notin R
      BY <1>4, <3>1, <3>2 DEF Region
    <3> QED
      BY <1>3, <3>1, <3>2, <3>3
  <2> QED
    BY <2>1, <2>2
<1> QED
  BY <1>3, <1>4

-----------------------------------------------------------------------------
(* What copy and move keep, where they copy links as links and there are   *)
(* none at or below their destination                                      *)

\* The place of the destination, and what is at or below it; links are copied as links, and
\* none is there.
Base == Place(before, Destination)
Under == {q \in Path : IsPrefix(Base, q)}
Unlinked ==
  op.symlinks /\ \A q \in DOMAIN before : IsPrefix(Base, q) => before[q].kind # "link"

CopyCalled ==
  /\ IsTree(before) /\ before \in Trees
  /\ op.name \in {"copy", "move"} /\ {op.from, op.to} \subseteq Targets
  /\ Place(before, op.from) \in DOMAIN before
  /\ Unlinked

\* The files that are seen at or below the source, and are not where it is copied to.
Seen ==
  {rest \in Copied : /\ Kind0(Place(before, Source(rest))) = "file"
                     /\ ~IsPrefix(Base, Place(before, Source(rest)))}

\* Elsewhere everything is kept, and only directories are made.
Kept(f) ==
  /\ IsTree(f)
  /\ \A q \in DOMAIN before : ~IsPrefix(Base, q) => q \in DOMAIN f /\ f[q] = before[q]
  /\ \A q \in DOMAIN f \ DOMAIN before : ~IsPrefix(Base, q) => f[q] = Dir

\* There is no link on the way from the destination to a place, or below that.
Comparable(s, t) == IsPrefix(s, t) \/ IsPrefix(t, s)
Plain(f, rest) ==
  \A q \in DOMAIN f :
    f[q].kind = "link" /\ IsPrefix(Base, q) => ~Comparable(q, Base \o rest)

LEMMA RestFacts ==
  /\ <<>> \in Rests
  /\ \A rest \in Rests : /\ rest \in Path
                         /\ \A k \in 1..Len(rest) : rest[k] \in Range(Names)
  /\ \A s, t \in Path : s \o t \in Rests => t \in Rests
<1>1. MaxDepth \in Nat
  BY FilesAssumption, Zenon
<1>2. \A rest \in Rests : /\ rest \in Path /\ Len(rest) <= MaxDepth
                          /\ \A k \in 1..Len(rest) : rest[k] \in Range(Names)
  <2> SUFFICES ASSUME NEW rest \in Rests
               PROVE  /\ rest \in Path /\ Len(rest) <= MaxDepth
                      /\ \A k \in 1..Len(rest) : rest[k] \in Range(Names)
    OBVIOUS
  <2>1. PICK n \in 0..MaxDepth : rest \in [1..n -> Range(Names)]
    BY DEF Rests
  <2>2. n \in Nat /\ n <= MaxDepth
    BY <1>1, <2>1
  <2>3. rest \in Seq(Range(Names))
    BY <2>1, <2>2, SeqDef
  <2>4. Len(rest) = n
    <3>1. DOMAIN rest = 1..n /\ DOMAIN rest = 1..Len(rest) /\ Len(rest) \in Nat
      BY <2>1, <2>3, LenProperties
    <3> QED
      BY <2>2, <3>1
  <2>5. \A k \in 1..Len(rest) : rest[k] \in Range(Names)
    BY <2>3, ElementOfSeq
  <2>6. Range(Names) \subseteq Words
    BY NameFacts
  <2>7. rest \in Path
    BY <2>3, <2>6, SeqMonotonic DEF Path
  <2> QED
    BY <2>2, <2>4, <2>5, <2>7
<1>3. \A t \in Path : Len(t) <= MaxDepth /\ (\A k \in 1..Len(t) : t[k] \in Range(Names)) => t \in Rests
  <2> SUFFICES ASSUME NEW t \in Path, Len(t) <= MaxDepth,
                      \A k \in 1..Len(t) : t[k] \in Range(Names)
               PROVE  t \in Rests
    OBVIOUS
  <2>1. Len(t) \in Nat /\ t \in [1..Len(t) -> Words]
    BY LenProperties DEF Path
  <2>2. t \in [1..Len(t) -> Range(Names)]
    BY <2>1
  <2>3. Len(t) \in 0..MaxDepth
    BY <1>1, <2>1
  <2> QED
    BY <2>2, <2>3 DEF Rests
<1>4. ASSUME NEW s \in Path, NEW t \in Path, s \o t \in Rests
      PROVE  t \in Rests
  <2> DEFINE c == s \o t
  <2>1. /\ Len(s) \in Nat /\ Len(t) \in Nat /\ Len(c) = Len(s) + Len(t)
        /\ \A k \in 1..Len(t) : c[Len(s) + k] = t[k]
    BY Named, NamedCat
  <2>2. Len(c) <= MaxDepth /\ \A k \in 1..Len(c) : c[k] \in Range(Names)
    BY <1>2, <1>4
  <2> HIDE DEF c
  <2>3. \A k \in 1..Len(t) : Len(s) + k \in 1..Len(c)
    BY <2>1
  <2>4. Len(t) <= MaxDepth
    BY <1>1, <2>1, <2>2
  <2> QED
    BY <1>3, <2>1, <2>2, <2>3, <2>4
<1>5. <<>> \in Rests
  <2>1. Len(<<>>) <= MaxDepth /\ \A k \in 1..Len(<<>>) : <<>>[k] \in Range(Names)
    BY <1>1, Named
  <2> QED
    BY <1>3, <2>1, Named
<1> QED
  BY <1>2, <1>4, <1>5

LEMMA CallFacts ==
  ASSUME CopyCalled
  PROVE  /\ op.from \in Path \ {<<>>} /\ op.to \in Path \ {<<>>} /\ Last(op.from) \in Words
         /\ Destination \in Path \ {<<>>} /\ Last(Destination) \in Range(Names)
         /\ Parent(Destination) \in Path
         /\ Destination = IF op.inside /\ Kind0(Real0(op.to)) = "dir"
                          THEN Child(op.to, Last(op.from)) ELSE op.to
         /\ Base = Child(Real0(Parent(Destination)), Last(Destination))
         /\ Base \in Path \ {<<>>}
<1>1. Targets \subseteq Path \ {<<>>} /\ Range(Names) \subseteq Words
  BY NameFacts
<1>2. op.from \in Targets /\ op.to \in Targets /\ IsTree(before)
  BY DEF CopyCalled
<1>3. \A s \in Targets : Last(s) \in Range(Names)
  <2> SUFFICES ASSUME NEW s \in Targets
               PROVE  Last(s) \in Range(Names)
    OBVIOUS
  <2>1. s \in Seq(Range(Names)) /\ s \in Path /\ s # <<>>
    BY <1>1, NameFacts
  <2>2. Last(s) = s[Len(s)] /\ Len(s) \in Nat \ {0}
    BY <2>1, PathShape
  <2>3. Len(s) \in 1..Len(s)
    BY <2>2
  <2> QED
    BY <2>1, <2>2, <2>3, ElementOfSeq
<1>4. Destination = IF op.inside /\ Kind0(Real0(op.to)) = "dir"
                    THEN Child(op.to, Last(op.from)) ELSE op.to
  BY DEF Destination, CopyCalled
<1>5. Destination \in Path \ {<<>>} /\ Last(Destination) \in Range(Names)
  <2> DEFINE c == Child(op.to, Last(op.from))
  <2>1. c \in Path \ {<<>>} /\ Last(c) = Last(op.from)
    BY <1>1, <1>2, <1>3, PrefixChild
  <2> HIDE DEF c
  <2>2. Destination \in {c, op.to}
    BY <1>4 DEF c
  <2> QED
    BY <1>1, <1>2, <1>3, <2>1, <2>2
<1>6. /\ Parent(Destination) \in Path /\ Base \in Path \ {<<>>}
      /\ Base = Child(Real0(Parent(Destination)), Last(Destination))
  <2>1. Parent(Destination) \in Path
    BY <1>5, PrefixChild
  <2>2. Base = Child(Real0(Parent(Destination)), Last(Destination))
    BY <1>5 DEF Base, Place, Real0
  <2>3. Base \in Path \ {<<>>}
    BY <1>2, <1>5, RealFacts DEF Base
  <2> QED
    BY <2>1, <2>2, <2>3
<1> QED
  BY <1>1, <1>2, <1>3, <1>4, <1>5, <1>6

LEMMA BaseFacts ==
  ASSUME CopyCalled
  PROVE  /\ Base \in Under /\ Real0(Parent(Destination)) \in Path \ Under
         /\ Region(before, Under)
         /\ \A rest \in Path : Base \o rest \in Under /\ Base \o rest # <<>>
         /\ \A q \in Under : ~IsLinkAt(before, q)
         /\ \A q \in Path : q \in Under <=> IsPrefix(Base, q)
         /\ \A rest \in Path : Plain(before, rest)
<1>1. Base \in Path /\ Base # <<>> /\ IsTree(before)
  BY CallFacts DEF CopyCalled
<1>2. \A q \in Path : q \in Under <=> IsPrefix(Base, q)
  BY DEF Under
<1>3. Base \in Under
  BY <1>1, <1>2, PrefixOrder
<1>4. \A q \in Under : ~IsLinkAt(before, q)
  BY DEF Under, IsLinkAt, CopyCalled, Unlinked
<1>5. \A q \in Under : q \in Path /\ \A x \in Words : Child(q, x) \in Under
  <2> SUFFICES ASSUME NEW q \in Under, NEW x \in Words
               PROVE  q \in Path /\ Child(q, x) \in Under
    BY DEF Under
  <2>1. q \in Path /\ IsPrefix(Base, q)
    BY DEF Under
  <2>2. Child(q, x) \in Path /\ IsPrefix(q, Child(q, x))
    BY <2>1, PrefixChild
  <2> QED
    BY <1>1, <1>2, <2>1, <2>2, PrefixOrder
<1>6. ASSUME NEW rest \in Path
      PROVE  Base \o rest \in Under /\ Base \o rest # <<>>
  <2>1. Base \o rest \in Path /\ IsPrefix(Base, Base \o rest)
    BY <1>1, PrefixCat
  <2> QED
    BY <1>1, <1>2, <2>1, PrefixOrder
<1>7. Real0(Parent(Destination)) \in Path \ Under
  <2> DEFINE p == Real0(Parent(Destination))
             x == Last(Destination)
  <2>1. p \in Path
    BY <1>1, CallFacts, RealFacts DEF Real0
  <2>2. x \in Words /\ Base = Child(p, x)
    BY CallFacts, NameFacts
  <2> HIDE DEF p, x
  <2>3. ~IsPrefix(Base, p)
    BY <2>1, <2>2, PrefixChild
  <2> QED
    BY <1>2, <2>1, <2>3 DEF p
<1>8. Region(before, Under)
  BY <1>4, <1>5 DEF Region
<1>9. \A rest \in Path : Plain(before, rest)
  BY DEF Plain, CopyCalled, Unlinked
<1> QED
  BY <1>2, <1>3, <1>4, <1>6, <1>7, <1>8, <1>9

\* What is kept is found by the same paths, and so is the destination.
LEMMA KeptFacts ==
  ASSUME CopyCalled, NEW f, Kept(f)
  PROVE  /\ IsTree(f) /\ Agree(before, f, Under)
         /\ \A p \in Path : Real0(p) \notin Under => Real(f, p) = Real0(p)
         /\ \A p \in Path : Place(before, p) \notin Under => Place(f, p) = Place(before, p)
         /\ Place(f, Destination) = Base
<1>1. IsTree(before) /\ IsTree(f) /\ Region(before, Under)
  BY BaseFacts DEF CopyCalled, Kept
<1>2. Agree(before, f, Under)
  <2>1. ASSUME NEW q \in Path \ Under
        PROVE  /\ IsLinkAt(before, q) <=> IsLinkAt(f, q)
               /\ IsLinkAt(before, q) => before[q].to = f[q].to
    <3>1. ~IsPrefix(Base, q)
      BY <2>1 DEF Under
    <3>2. q \in DOMAIN before => q \in DOMAIN f /\ f[q] = before[q]
      BY <3>1 DEF Kept
    <3>3. q \in DOMAIN f /\ q \notin DOMAIN before => f[q].kind = "dir"
      BY <3>1, NodeFacts DEF Kept
    <3> QED
      BY <3>2, <3>3 DEF IsLinkAt
  <2> QED
    BY <2>1 DEF Agree
<1>3. \A p \in Path : Real0(p) \notin Under => Real(f, p) = Real0(p)
  BY <1>1, <1>2, SameOutside DEF Real0
<1>4. \A p \in Path : Place(before, p) \notin Under => Place(f, p) = Place(before, p)
  BY <1>1, <1>2, SameOutside
<1>5. Place(f, Destination) = Base
  <2>1. Real(f, Parent(Destination)) = Real0(Parent(Destination))
    BY <1>3, CallFacts, BaseFacts
  <2>2. Place(f, Destination) = Child(Real(f, Parent(Destination)), Last(Destination))
    BY CallFacts DEF Place
  <2> QED
    BY <2>1, <2>2, CallFacts
<1> QED
  BY <1>1, <1>2, <1>3, <1>4, <1>5

LEMMA KeptBefore == CopyCalled => Kept(before)
BY DEF CopyCalled, Kept

\* What leads to a comparable place.
LEMMA PlainFacts ==
  /\ \A s, t \in Path : /\ Comparable(s, s \o t) /\ Comparable(s \o t, s)
                        /\ Comparable(s, t) <=> Comparable(t, s)
  /\ \A q, s, t \in Path : Comparable(q, s \o t) => Comparable(q, s)
  /\ \A s, t, u \in Path : Comparable(s \o t, s \o u) <=> Comparable(t, u)
<1>1. \A s, t \in Path : /\ Comparable(s, s \o t) /\ Comparable(s \o t, s)
                         /\ Comparable(s, t) <=> Comparable(t, s)
  BY PrefixCat DEF Comparable
<1>2. ASSUME NEW q \in Path, NEW s \in Path, NEW t \in Path, Comparable(q, s \o t)
      PROVE  Comparable(q, s)
  <2>1. s \o t \in Path /\ IsPrefix(s, s \o t)
    BY PrefixCat
  <2> HIDE DEF Comparable
  <2>2. CASE IsPrefix(q, s \o t)
    BY <2>1, <2>2, PrefixOrder DEF Comparable
  <2>3. CASE IsPrefix(s \o t, q)
    BY <2>1, <2>3, PrefixOrder DEF Comparable
  <2> QED
    BY <1>2, <2>2, <2>3 DEF Comparable
<1>3. \A s, t, u \in Path : Comparable(s \o t, s \o u) <=> Comparable(t, u)
  BY CatPrefix DEF Comparable
<1> QED
  BY <1>1, <1>2, <1>3

LEMMA Below ==
  ASSUME CopyCalled, NEW f, IsTree(f), Place(f, Destination) = Base,
         NEW rest \in Path, Plain(f, rest), NEW t \in Path, Comparable(rest, t)
  PROVE  /\ Destination \o t \in Path
         /\ Place(f, Destination \o t) = Base \o t
         /\ Real(f, Destination \o t) = Base \o t
         /\ ~IsLinkAt(f, Base \o t)
<1>1. Destination \in Path \ {<<>>} /\ Base \in Path
  BY CallFacts
<1>2. ASSUME NEW u \in Path, IsPrefix(u, t)
      PROVE  ~IsLinkAt(f, Base \o u)
  <2>1. Base \o u \in Path /\ IsPrefix(Base, Base \o u) /\ Base \o rest \in Path
    BY <1>1, PrefixCat
  <2>2. Comparable(u, rest)
    <3>1. CASE IsPrefix(rest, t)
      BY <1>2, <3>1, PrefixOrder DEF Comparable
    <3>2. CASE IsPrefix(t, rest)
      BY <1>2, <3>2, PrefixOrder DEF Comparable
    <3> QED
      BY <3>1, <3>2 DEF Comparable
  <2>3. Comparable(Base \o u, Base \o rest)
    BY <1>1, <2>2, PlainFacts
  <2> QED
    BY <2>1, <2>3 DEF Plain, IsLinkAt
<1>3. IsPrefix(t, t)
  BY PrefixOrder
<1>4. Destination \o t \in Path
  BY <1>1, PrefixCat
<1> QED
  BY <1>1, <1>2, <1>3, <1>4, Descend

\* The files that are seen are seen as before, until the source is removed.
LEMMA SeenFacts ==
  ASSUME CopyCalled, NEW f, Kept(f), NEW rest \in Seen
  PROVE  /\ rest \in Path /\ op.from \o rest \in Path
         /\ Place(before, op.from \o rest) \in DOMAIN before
         /\ before[Place(before, op.from \o rest)].kind = "file"
         /\ Place(before, op.from \o rest) \notin Under
         /\ Real(f, op.from \o rest) = Place(before, op.from \o rest)
         /\ Place(f, op.from \o rest) = Place(before, op.from \o rest)
         /\ Place(before, op.from \o rest) \in DOMAIN f
         /\ f[Place(before, op.from \o rest)] = before[Place(before, op.from \o rest)]
         /\ \A s \in Path : IsPrefix(s, rest) /\ s # rest =>
              Real(f, op.from \o s) \in DOMAIN f /\ f[Real(f, op.from \o s)] = Dir
         /\ \A s \in Path, x \in Words : IsPrefix(Child(s, x), rest) =>
              x \in Range(Names) /\ Child(Real(f, op.from \o s), x) \in DOMAIN f
<1> DEFINE S == op.from
           p == S \o rest
           P == Place(before, p)
<1>1. rest \in Path /\ (\A k \in 1..Len(rest) : rest[k] \in Range(Names)) /\ S \in Path \ {<<>>}
  BY RestFacts, CallFacts, Named DEF Seen, Copied
<1>2. p \in Path /\ IsPrefix(S, p) /\ IsTree(before) /\ IsTree(f)
  BY <1>1, PrefixCat DEF CopyCalled, Kept
<1>3. P \in DOMAIN before /\ before[P].kind = "file" /\ ~IsPrefix(Base, P)
  <2>1. Kind0(P) = "file" /\ ~IsPrefix(Base, P)
    BY DEF Seen, Source
  <2> QED
    BY <2>1 DEF Kind0
<1>4. P \in Path /\ P \notin Under
  BY <1>2, <1>3, TreeFacts DEF Under
<1>5. Place(f, p) = P /\ P \in DOMAIN f /\ f[P] = before[P]
  BY <1>2, <1>3, <1>4, KeptFacts DEF Kept
<1>6. Real(f, p) = P
  <2>1. Real(f, p) = Follow(f, P)
    BY <1>2, <1>5, RealFacts
  <2>2. ~IsLinkAt(f, P)
    BY <1>3, <1>5 DEF IsLinkAt
  <2> QED
    BY <1>2, <1>4, <2>1, <2>2, FollowFacts
<1> HIDE DEF S, P
<1>7. ASSUME NEW s \in Path, IsPrefix(s, rest)
      PROVE  /\ S \o s \in Path /\ IsPrefix(S \o s, p) /\ (s # rest => S \o s # p)
             /\ Place(f, S \o s) \in DOMAIN f
             /\ s # rest => Real(f, S \o s) \in DOMAIN f /\ f[Real(f, S \o s)] = Dir
  <2>1. S \o s \in Path /\ IsPrefix(S \o s, p) /\ (s # rest => S \o s # p)
    BY <1>1, <1>7, CatPrefix
  <2> QED
    BY <1>2, <1>5, <2>1, Through
<1>8. ASSUME NEW s \in Path, NEW x \in Words, IsPrefix(Child(s, x), rest)
      PROVE  x \in Range(Names) /\ Child(Real(f, S \o s), x) \in DOMAIN f
  <2> DEFINE c == Child(s, x)
  <2>1. /\ c \in Path /\ Len(c) = Len(s) + 1 /\ Len(s) \in Nat /\ c[Len(s) + 1] = x
    BY ChildShape, Named, AppendProperties DEF Path, Child
  <2>2. Len(c) <= Len(rest) /\ (\A k \in 1..Len(c) : c[k] = rest[k]) /\ Len(rest) \in Nat
    BY <1>1, <1>8, <2>1, Named, NamedPrefix
  <2>3. S \o c = Child(S \o s, x) /\ S \o s \in Path
    <3>1. S \in Path
      BY <1>1
    <3>2. S \o s \in Path
      BY <3>1, CatPrefix
    <3>3. S \o Child(s, x) = Child(S \o s, x)
      BY <3>1, CatChild
    <3> QED
      BY <3>2, <3>3
  <2>4. Place(f, S \o c) \in DOMAIN f
    BY <1>7, <1>8, <2>1
  <2>5. Place(f, Child(S \o s, x)) = Child(Real(f, S \o s), x)
    BY <1>2, <2>3, PlaceChild
  <2> HIDE DEF c
  <2>6. Len(s) + 1 \in 1..Len(c) /\ Len(s) + 1 \in 1..Len(rest)
    BY <2>1, <2>2
  <2>7. x \in Range(Names)
    BY <1>1, <2>1, <2>2, <2>6
  <2> QED
    BY <2>3, <2>4, <2>5, <2>7
<1> QED
  BY <1>1, <1>2, <1>3, <1>4, <1>5, <1>6, <1>7, <1>8 DEF S, P

-----------------------------------------------------------------------------
(* The steps of a copy                                                     *)

\* The path of a step below the destination.
Rest(step) == SubSeq(step.to, Len(Destination) + 1, Len(step.to))

\* No step to come touches what a file that is seen is copied to, but the one that
\* copies it.
Clear(step) ==
  \A rest \in Seen :
    LET r == Rest(step)
    IN /\ step.do \in {"copy", "entries"} => r = rest \/ ~IsPrefix(rest, r)
       /\ step.do = "file" => r = rest \/ ~Comparable(r, rest)
       /\ step.do \in {"link", "remove", "symlink"} => ~Comparable(r, rest)

\* A step copies to the same path below the destination, where no link is.
Good(f, step) ==
  /\ step \in Steps
  /\ step.do \in {"copy", "entries", "stat", "file", "link", "remove", "symlink"}
  /\ Rest(step) \in Path /\ step.to = Destination \o Rest(step)
  /\ step.do \in {"copy", "entries", "file"} => step.from = op.from \o Rest(step)
  /\ step.do = "copy" => ~step.inside
  /\ step.do = "remove" => step.from = step.to
  /\ step.do # "stat" => Plain(f, Rest(step))
  /\ Clear(step)

\* No step makes a link where a later one goes.
Apart(s, t) ==
  s.do \notin {"stat", "remove"} /\ t.do # "stat" => ~Comparable(Rest(s), Rest(t))

\* Where the copy of a file that is seen is, and whether it is there.
IsDirAt(f, place) == place \in DOMAIN f /\ f[place].kind = "dir"
Aim(rest) ==
  IF IsDirAt(before, Base \o rest) THEN Child(Base \o rest, Last(Source(rest)))
  ELSE Base \o rest
Done(f, rest) ==
  Aim(rest) \in DOMAIN f /\ f[Aim(rest)] = before[Place(before, Source(rest))]
Pending(step, rest) ==
  step.do \in {"copy", "entries", "file"} /\ IsPrefix(Rest(step), rest)
SameDirs(f) ==
  \A rest \in Seen : IsDirAt(f, Base \o rest) <=> IsDirAt(before, Base \o rest)

\* While files are copied.
Copying(f, work) ==
  /\ Kept(f) /\ SameDirs(f)
  /\ work \in Seq(Steps)
  /\ \A i \in 1..Len(work) : Good(f, work[i])
  /\ \A i, j \in 1..Len(work) : i < j => Apart(work[i], work[j])
  /\ \A rest \in Seen : Done(f, rest) \/ \E i \in 1..Len(work) : Pending(work[i], rest)

LEMMA RestOf ==
  ASSUME CopyCalled, NEW rest \in Path, NEW step, step.to = Destination \o rest
  PROVE  Rest(step) = rest
<1> DEFINE n == Len(Destination)
           p == Destination \o rest
           a == SubSeq(p, 1, n)
           b == SubSeq(p, n + 1, Len(p))
<1>1. Destination \in Path /\ p \in Path /\ IsPrefix(Destination, p)
  BY CallFacts, CatPrefix
<1>2. n \in Nat /\ n <= Len(p) /\ (\A k \in 1..n : Destination[k] = p[k]) /\ Len(p) \in Nat
  BY <1>1, Named, NamedPrefix
<1>3. n \in 0..Len(p)
  BY <1>2
<1>4. /\ a \in Path /\ Len(a) = n /\ (\A k \in 1..n : a[k] = p[k])
      /\ b \in Path /\ p = a \o b
  BY <1>1, <1>3, NamedPart
<1> HIDE DEF a, b, n
<1>5. a = Destination
  BY <1>1, <1>2, <1>4, Named DEF n
<1>6. b = rest
  BY <1>1, <1>4, <1>5, CatPrefix
<1> QED
  BY <1>6 DEF Rest, b, n

LEMMA SeenTypes ==
  ASSUME CopyCalled, NEW rest \in Seen
  PROVE  /\ rest \in Path /\ Base \o rest \in Under /\ Base \o rest \in Path
         /\ Source(rest) = op.from \o rest /\ Last(Source(rest)) \in Words
         /\ Aim(rest) \in Under /\ IsPrefix(Base \o rest, Aim(rest))
         /\ Aim(rest) \in {Base \o rest, Child(Base \o rest, Last(Source(rest)))}
<1>1. rest \in Path /\ op.from \o rest \in Path
  BY KeptBefore, SeenFacts
<1>2. op.from \o rest # <<>>
  <2>1. op.from \in Path /\ op.from # <<>> /\ IsPrefix(op.from, op.from \o rest)
    BY <1>1, CallFacts, CatPrefix
  <2> QED
    BY <2>1, PrefixOrder
<1>3. Last(Source(rest)) \in Words
  BY <1>1, <1>2, PrefixChild DEF Source
<1>4. Base \o rest \in Under /\ Base \o rest \in Path
  BY <1>1, BaseFacts, CallFacts, CatPrefix
<1> DEFINE c == Child(Base \o rest, Last(Source(rest)))
<1>5. c \in Under /\ IsPrefix(Base \o rest, c) /\ IsPrefix(Base \o rest, Base \o rest)
  BY <1>3, <1>4, PrefixChild, PrefixOrder, BaseFacts DEF Region
<1>6. Aim(rest) \in {Base \o rest, c}
  BY DEF Aim
<1> HIDE DEF c
<1> QED
  BY <1>1, <1>3, <1>4, <1>5, <1>6 DEF Source, c

\* Directories are made, but not where a file that is seen is copied to.
LEMMA DirsKeep ==
  ASSUME CopyCalled, NEW f, Kept(f), SameDirs(f), NEW g, IsTree(g), OnlyDirsNew(f, g),
         \A rest \in Seen : Base \o rest \in DOMAIN g => Base \o rest \in DOMAIN f
  PROVE  /\ Kept(g) /\ SameDirs(g)
         /\ \A rest \in Seen : Done(f, rest) => Done(g, rest)
         /\ \A r \in Path : Plain(f, r) => Plain(g, r)
<1>1. Kept(g)
  BY DEF Kept, OnlyDirsNew
<1>2. SameDirs(g)
  BY DEF SameDirs, IsDirAt, OnlyDirsNew
<1>3. \A rest \in Seen : Done(f, rest) => Done(g, rest)
  BY DEF Done, OnlyDirsNew
<1>4. \A r \in Path : Plain(f, r) => Plain(g, r)
  BY NodeFacts DEF Plain, OnlyDirsNew
<1> QED
  BY <1>1, <1>2, <1>3, <1>4

\* Something changes at or below one path.
LEMMA Confined ==
  ASSUME CopyCalled, NEW f, Kept(f), NEW g, IsTree(g), NEW r \in Path,
         \A q \in Path : ~IsPrefix(Base \o r, q) =>
           /\ q \in DOMAIN f <=> q \in DOMAIN g
           /\ q \in DOMAIN f => g[q] = f[q]
  PROVE  /\ Kept(g)
         /\ \A rest \in Seen : ~Comparable(r, rest) =>
              /\ IsDirAt(g, Base \o rest) <=> IsDirAt(f, Base \o rest)
              /\ Done(f, rest) => Done(g, rest)
         /\ \A t \in Path : Plain(f, t) /\ ~Comparable(r, t) => Plain(g, t)
<1>1. IsTree(f) /\ IsTree(before) /\ Base \in Path /\ Base \o r \in Path /\ IsPrefix(Base, Base \o r)
  BY CallFacts, CatPrefix DEF Kept, CopyCalled
<1>2. \A q \in Path : ~IsPrefix(Base, q) => ~IsPrefix(Base \o r, q)
  BY <1>1, PrefixOrder
<1>3. Kept(g)
  <2>1. DOMAIN before \subseteq Path /\ DOMAIN g \subseteq Path
    BY <1>1, TreeFacts
  <2> QED
    BY <1>2, <2>1 DEF Kept
<1>4. ASSUME NEW rest \in Seen, ~Comparable(r, rest)
      PROVE  /\ IsDirAt(g, Base \o rest) <=> IsDirAt(f, Base \o rest)
             /\ Done(f, rest) => Done(g, rest)
  <2>1. /\ rest \in Path /\ Base \o rest \in Path /\ Aim(rest) \in Path
        /\ IsPrefix(Base \o rest, Aim(rest))
    BY SeenTypes DEF Under
  <2>2. ~Comparable(Base \o r, Base \o rest)
    BY <1>1, <1>4, <2>1, PlainFacts
  <2>3. ~IsPrefix(Base \o r, Base \o rest)
    BY <2>2 DEF Comparable
  <2>4. ~IsPrefix(Base \o r, Aim(rest))
    BY <1>1, <2>1, <2>2, PrefixOrder DEF Comparable
  <2> QED
    BY <2>1, <2>3, <2>4 DEF IsDirAt, Done
<1>5. ASSUME NEW t \in Path, Plain(f, t), ~Comparable(r, t)
      PROVE  Plain(g, t)
  <2> SUFFICES ASSUME NEW q \in DOMAIN g, g[q].kind = "link", IsPrefix(Base, q),
                      Comparable(q, Base \o t)
               PROVE  FALSE
    BY DEF Plain
  <2>1. q \in Path /\ Base \o t \in Path
    BY <1>1, TreeFacts, CatPrefix
  <2>2. CASE ~IsPrefix(Base \o r, q)
    BY <1>5, <2>1, <2>2 DEF Plain
  <2>3. CASE IsPrefix(Base \o r, q)
    <3>1. PICK u \in Path : q = (Base \o r) \o u
      BY <1>1, <2>1, <2>3, PrefixCat
    <3>2. Comparable(Base \o t, (Base \o r) \o u)
      BY <3>1 DEF Comparable
    <3>3. Comparable(Base \o t, Base \o r)
      BY <1>1, <2>1, <3>2, PlainFacts
    <3>4. Comparable(t, r)
      BY <1>1, <3>3, PlainFacts
    <3> QED
      BY <1>5, <3>4 DEF Comparable
  <2> QED
    BY <2>2, <2>3
<1> QED
  BY <1>3, <1>4, <1>5

LEMMA FewerLinks ==
  ASSUME NEW f, NEW g, NEW r,
         \A q \in DOMAIN g : g[q].kind = "link" => q \in DOMAIN f /\ f[q].kind = "link",
         Plain(f, r)
  PROVE  Plain(g, r)
BY DEF Plain

\* The next step is replaced by others.
LEMMA Resume ==
  ASSUME CopyCalled, NEW f, NEW work, Copying(f, work), work # <<>>,
         NEW g, Kept(g), SameDirs(g), NEW steps \in Seq(Steps),
         \A k \in 1..Len(steps) : Good(g, steps[k]),
         \A k, l \in 1..Len(steps) : k < l => Apart(steps[k], steps[l]),
         \A k \in 1..Len(steps), m \in 2..Len(work) : Apart(steps[k], work[m]),
         \A m \in 2..Len(work) : work[m].do # "stat" => Plain(g, Rest(work[m])),
         \A rest \in Seen : Done(f, rest) => Done(g, rest),
         \A rest \in Seen : Pending(work[1], rest) =>
           Done(g, rest) \/ \E k \in 1..Len(steps) : Pending(steps[k], rest)
  PROVE  Copying(g, steps \o Tail(work))
<1> DEFINE n == Len(steps)
           M == Len(work)
           t == Tail(work)
           w == steps \o t
<1>1. /\ n \in Nat /\ M \in Nat \ {0} /\ work \in Seq(Steps)
      /\ t \in Seq(Steps) /\ Len(t) = M - 1
      /\ \A k \in 1..M - 1 : t[k] = work[k + 1]
  <2>1. work \in Seq(Steps) /\ n \in Nat
    BY LenProperties DEF Copying
  <2>2. M \in Nat \ {0}
    BY <2>1, EmptySeq
  <2>3. t \in Seq(Steps) /\ Len(t) = M - 1 /\ \A k \in 1..Len(t) : t[k] = work[k + 1]
    BY <2>1, HeadTailProperties
  <2> HIDE DEF t, M, n
  <2> QED
    BY <2>1, <2>2, <2>3
<1> HIDE DEF t
<1>2. /\ w \in Seq(Steps) /\ Len(w) = n + (M - 1)
      /\ \A k \in 1..n + (M - 1) : w[k] = IF k <= n THEN steps[k] ELSE t[k - n]
  <2>1. /\ steps \o t \in Seq(Steps) /\ Len(steps \o t) = Len(steps) + Len(t)
        /\ \A k \in 1..Len(steps) + Len(t) : (steps \o t)[k] =
             IF k <= Len(steps) THEN steps[k] ELSE t[k - Len(steps)]
    BY <1>1, ConcatProperties
  <2> QED
    BY <1>1, <2>1
<1> HIDE DEF n, M, w
<1>3. ASSUME NEW k \in 1..Len(w)
      PROVE  \/ k \in 1..n /\ w[k] = steps[k]
             \/ /\ k - n + 1 \in 2..M /\ k - n + 1 \in 1..M /\ ~(k <= n)
                /\ w[k] = work[k - n + 1]
  <2>1. k <= n => k \in 1..n
    BY <1>1, <1>2
  <2>2. ~(k <= n) => k - n \in 1..M - 1 /\ k - n + 1 \in 2..M /\ k - n + 1 \in 1..M
    BY <1>1, <1>2
  <2>3. w[k] = IF k <= n THEN steps[k] ELSE t[k - n]
    BY <1>2
  <2>4. ~(k <= n) => t[k - n] = work[k - n + 1]
    BY <1>1, <2>2
  <2> QED
    BY <2>1, <2>2, <2>3, <2>4
<1>4. ASSUME NEW k \in 1..Len(w)
      PROVE  Good(g, w[k])
  <2>1. CASE k \in 1..n /\ w[k] = steps[k]
    BY <2>1 DEF n
  <2>2. ASSUME NEW m \in 2..M, m \in 1..M, w[k] = work[m]
        PROVE  Good(g, w[k])
    <3>1. Good(f, work[m])
      BY <2>2 DEF Copying, M
    <3>2. work[m].do # "stat" => Plain(g, Rest(work[m]))
      BY DEF M
    <3> QED
      BY <2>2, <3>1, <3>2 DEF Good
  <2> QED
    BY <1>3, <2>1, <2>2
<1>5. ASSUME NEW k \in 1..Len(w), NEW l \in 1..Len(w), k < l
      PROVE  Apart(w[k], w[l])
  <2>0. k \in Int /\ l \in Int /\ n \in Int
    BY <1>1
  <2>1. CASE k \in 1..n /\ l \in 1..n /\ w[k] = steps[k] /\ w[l] = steps[l]
    BY <1>5, <2>1 DEF n
  <2>2. CASE k \in 1..n /\ w[k] = steps[k] /\ l - n + 1 \in 2..M /\ w[l] = work[l - n + 1]
    BY <2>2 DEF n, M
  <2>3. CASE /\ k - n + 1 \in 1..M /\ w[k] = work[k - n + 1]
             /\ l - n + 1 \in 1..M /\ w[l] = work[l - n + 1]
    <3>1. k - n + 1 < l - n + 1
      BY <1>5, <2>0
    <3>2. \A i, j \in 1..M : i < j => Apart(work[i], work[j])
      BY DEF Copying, M
    <3> QED
      BY <2>3, <3>1, <3>2
  <2>4. l \in 1..n => k <= n
    BY <1>5, <2>0
  <2> QED
    BY <1>3, <2>1, <2>2, <2>3, <2>4
<1>6. ASSUME NEW rest \in Seen, ~Done(g, rest)
      PROVE  \E i \in 1..Len(w) : Pending(w[i], rest)
  <2>1. PICK i \in 1..M : Pending(work[i], rest)
    BY <1>6 DEF Copying, M
  <2>2. CASE i = 1
    <3>1. PICK k \in 1..n : Pending(steps[k], rest)
      BY <1>6, <2>1, <2>2 DEF n
    <3>2. k \in 1..Len(w) /\ k <= n /\ k \in 1..n + (M - 1)
      BY <1>1, <1>2
    <3> QED
      BY <1>2, <3>1, <3>2
  <2>3. CASE i # 1
    <3> DEFINE k == n + (i - 1)
    <3>1. /\ k \in 1..Len(w) /\ k \in 1..n + (M - 1) /\ ~(k <= n) /\ k - n = i - 1
          /\ i - 1 \in 1..M - 1 /\ i - 1 + 1 = i
      BY <1>1, <1>2, <2>3
    <3> HIDE DEF k
    <3>2. w[k] = t[i - 1]
      BY <1>2, <3>1
    <3>3. t[i - 1] = work[i - 1 + 1]
      BY <1>1, <3>1
    <3>4. w[k] = work[i]
      BY <3>1, <3>2, <3>3
    <3> QED
      BY <2>1, <3>1, <3>4
  <2> QED
    BY <2>2, <2>3
<1> QED
  BY <1>2, <1>4, <1>5, <1>6 DEF Copying, w, t

\* The next step of a copy, and what it goes on to.
Working(work) ==
  /\ CopyCalled /\ IInv /\ Copying(fs, work)
  /\ work # <<>> /\ agenda # <<>> /\ Now = work[1]
Resumed(work) ==
  \E steps \in Seq(Steps) :
    agenda' = steps \o Tail(agenda) /\ Copying(fs', steps \o Tail(work))

LEMMA NowGood ==
  ASSUME NEW work, Working(work)
  PROVE  /\ CopyCalled /\ IsTree(fs) /\ Kept(fs) /\ SameDirs(fs)
         /\ Place(fs, Destination) = Base
         /\ Good(fs, Now) /\ Now \in Steps
         /\ Now.from \in Path /\ Now.to \in Path /\ Rest(Now) \in Path
         /\ Destination \in Path \ {<<>>} /\ Base \in Path
         /\ \A m \in 2..Len(work) : Good(fs, work[m]) /\ Apart(Now, work[m])
<1>1. CopyCalled /\ IInv /\ Copying(fs, work) /\ work # <<>> /\ agenda # <<>> /\ Now = work[1]
  BY DEF Working
<1>2. work \in Seq(Steps) /\ Kept(fs) /\ SameDirs(fs)
  BY <1>1 DEF Copying
<1>3. Len(work) \in Nat \ {0}
  BY <1>1, <1>2, EmptySeq
<1>4. 1 \in 1..Len(work) /\ \A m \in 2..Len(work) : m \in 1..Len(work) /\ 1 < m
  BY <1>3
<1>5. Good(fs, Now) /\ \A m \in 2..Len(work) : Good(fs, work[m]) /\ Apart(Now, work[m])
  BY <1>1, <1>4 DEF Copying
<1>6. Rest(Now) \in Path
  BY <1>5 DEF Good
<1>7. Destination \in Path \ {<<>>} /\ Base \in Path
  BY <1>1, CallFacts
<1>8. IsTree(fs) /\ Place(fs, Destination) = Base
  BY <1>1, <1>2, KeptFacts
<1> QED
  BY <1>1, <1>2, <1>5, <1>6, <1>7, <1>8, NowFacts

\* Nothing but the next step is done with.
LEMMA NoSteps ==
  ASSUME NEW work, Working(work), agenda' = <<>> \o Tail(agenda),
         Kept(fs'), SameDirs(fs'),
         \A m \in 2..Len(work) : work[m].do # "stat" => Plain(fs', Rest(work[m])),
         \A rest \in Seen : Done(fs, rest) => Done(fs', rest),
         \A rest \in Seen : Pending(Now, rest) => Done(fs', rest)
  PROVE  Resumed(work)
<1>1. <<>> \in Seq(Steps) /\ Len(<<>>) = 0 /\ 1..0 = {}
  BY EmptySeq
<1>2. CopyCalled /\ Copying(fs, work) /\ work # <<>> /\ Now = work[1]
  BY DEF Working
<1>3. Copying(fs', <<>> \o Tail(work))
  BY <1>1, <1>2, Resume
<1> QED
  BY <1>1, <1>3 DEF Resumed

\* One step comes instead.
LEMMA OneStep ==
  ASSUME NEW work, Working(work), NEW step, agenda' = <<step>> \o Tail(agenda),
         Good(fs', step), Rest(step) = Rest(Now), Now.do \notin {"stat", "remove"},
         Kept(fs'), SameDirs(fs'),
         \A m \in 2..Len(work) : work[m].do # "stat" => Plain(fs', Rest(work[m])),
         \A rest \in Seen : Done(fs, rest) => Done(fs', rest),
         \A rest \in Seen : Pending(Now, rest) => Pending(step, rest)
  PROVE  Resumed(work)
<1> DEFINE s == <<step>>
<1>1. step \in Steps
  BY DEF Good
<1> HIDE DEF Steps
<1>2. s \in Seq(Steps) /\ Len(s) = 1 /\ s[1] = step
  BY <1>1
<1> HIDE DEF s
<1>3. \A k \in 1..Len(s) : k = 1
  BY <1>2
<1>4. \A k, l \in 1..Len(s) : ~(k < l)
  BY <1>2
<1>5. CopyCalled /\ Copying(fs, work) /\ work # <<>> /\ Now = work[1]
  BY DEF Working
<1>6. \A m \in 2..Len(work) : Apart(step, work[m])
  <2>1. \A m \in 2..Len(work) : Apart(Now, work[m])
    BY NowGood
  <2> QED
    BY <2>1 DEF Apart
<1>7. \A k \in 1..Len(s), m \in 2..Len(work) : Apart(s[k], work[m])
  BY <1>2, <1>3, <1>6
<1>8. 1 \in 1..Len(s)
  BY <1>2
<1>9. \A rest \in Seen : Pending(work[1], rest) => \E k \in 1..Len(s) : Pending(s[k], rest)
  BY <1>2, <1>5, <1>8
<1>10. Copying(fs', s \o Tail(work))
  BY <1>2, <1>3, <1>4, <1>5, <1>7, <1>9, Resume
<1> QED
  BY <1>2, <1>10 DEF Resumed, s

\* The directories above a place of the copy are made.
LEMMA ParentSteps ==
  ASSUME CopyCalled, Kept(fs), SameDirs(fs), NEW r \in Path, Plain(fs, r),
         CanMakeParent(Destination \o r),
         \A rest \in Seen : r = rest \/ ~IsPrefix(rest, r)
  PROVE  LET g == WithParent(Destination \o r)
         IN /\ Kept(g) /\ SameDirs(g)
            /\ \A rest \in Seen : Done(fs, rest) => Done(g, rest)
            /\ \A t \in Path : Plain(fs, t) => Plain(g, t)
<1> DEFINE path == Destination \o r
           g == WithParent(path)
<1>1. /\ IsTree(fs) /\ IsTree(before) /\ Place(fs, Destination) = Base
      /\ Destination \in Path \ {<<>>} /\ path \in Path /\ Base \in Path
      /\ Parent(Destination) \in Path
  BY KeptFacts, CallFacts, CatPrefix DEF CopyCalled
<1>2. IsTree(g) /\ OnlyDirsNew(fs, g)
  BY <1>1, ParentMade
<1>3. ASSUME NEW rest \in Seen, Base \o rest \in DOMAIN g, Base \o rest \notin DOMAIN fs
      PROVE  FALSE
  <2>1. rest \in Path /\ Base \o rest \in Under
    BY SeenTypes
  <2>2. PICK q \in Ancestors(path) : Base \o rest = Real(fs, q)
    BY <1>3 DEF WithParent, With
  <2>3. q \in Path /\ IsPrefix(q, path) /\ q # path
    <3>1. PICK n \in 0..Len(path) - 1 : q = SubSeq(path, 1, n)
      BY DEF Ancestors
    <3>2. n \in 0..Len(path) /\ n # Len(path) /\ Len(path) \in Nat
      BY <1>1, <3>1, Named
    <3> HIDE DEF path
    <3>3. q \in Path /\ Len(q) = n /\ IsPrefix(q, path)
      BY <1>1, <3>1, <3>2, NamedPart
    <3> QED
      BY <3>2, <3>3
  <2>4. IsPrefix(Destination, path)
    BY <1>1, CatPrefix
  <2>5. CASE IsPrefix(Destination, q)
    <3>1. PICK u \in Path : q = Destination \o u
      BY <1>1, <2>3, <2>5, PrefixCat
    <3>2. IsPrefix(u, r) /\ u # r
      BY <1>1, <2>3, <3>1, CatPrefix
    <3>3. Real(fs, q) = Base \o u
      BY <1>1, <3>1, <3>2, Below DEF Comparable
    <3>4. Base \in Path /\ rest \in Path /\ Base \o rest = Base \o u
      BY <1>1, <2>1, <2>2, <3>3
    <3>5. rest = u
      BY <3>4, CatPrefix
    <3> QED
      BY <3>2, <3>5
  <2>6. CASE ~IsPrefix(Destination, q)
    <3>1. IsPrefix(q, Destination) /\ q # Destination
      BY <1>1, <2>3, <2>4, <2>6, PrefixOrder
    <3>2. IsPrefix(q, Parent(Destination))
      BY <1>1, <2>3, <3>1, PrefixChild
    <3>3. Real0(q) \notin Under
      BY <1>1, <2>3, <3>2, BaseFacts, Stays DEF Real0
    <3>4. Real(fs, q) = Real0(q)
      BY <2>3, <3>3, KeptFacts
    <3> QED
      BY <2>1, <2>2, <3>3, <3>4
  <2> QED
    BY <2>5, <2>6
<1> HIDE DEF g, path
<1>4. /\ Kept(g) /\ SameDirs(g)
      /\ \A rest \in Seen : Done(fs, rest) => Done(g, rest)
      /\ \A t \in Path : Plain(fs, t) => Plain(g, t)
  BY <1>2, <1>3, DirsKeep
<1> QED
  BY <1>4 DEF g, path

LEMMA CopyGoes ==
  ASSUME NEW work, Working(work), DoCopy
  PROVE  Resumed(work)
<1> DEFINE r == Rest(Now)
           e == Step("entries", Now.from, Now.to)
<1>1. Good(fs, Now) /\ Now.do = "copy"
  BY NowGood DEF DoCopy, Doing
<1>2. /\ r \in Path /\ Now.to = Destination \o r /\ Now.from = op.from \o r
      /\ ~Now.inside /\ Plain(fs, r) /\ Clear(Now)
  BY <1>1 DEF Good
<1>3. CopyTo = Now.to
  BY <1>2 DEF CopyTo
<1>4. CanMakeParent(Now.to) /\ fs' = WithParent(Now.to) /\ agenda' = <<e>> \o Tail(agenda)
  BY <1>3 DEF DoCopy, Continue
<1>5. \A rest \in Seen : r = rest \/ ~IsPrefix(rest, r)
  BY <1>1, <1>2 DEF Clear
<1>6. /\ Kept(fs') /\ SameDirs(fs')
      /\ \A rest \in Seen : Done(fs, rest) => Done(fs', rest)
      /\ \A t \in Path : Plain(fs, t) => Plain(fs', t)
  BY <1>2, <1>4, <1>5, NowGood, ParentSteps
<1>7. e \in Steps /\ e.do = "entries" /\ e.from = Now.from /\ e.to = Now.to
  <2>1. "entries" \in Deeds /\ "entries" # "copy"
    BY DEF Deeds
  <2> QED
    BY <2>1, NowGood, StepFacts, FieldFacts
<1> HIDE DEF e, r
<1>8. Rest(e) = r
  BY <1>2, <1>7, NowGood, RestOf
<1>9. Good(fs', e)
  <2>1. Clear(e)
    BY <1>5, <1>7, <1>8 DEF Clear
  <2> QED
    BY <1>2, <1>6, <1>7, <1>8, <2>1 DEF Good
<1>10. \A rest \in Seen : Pending(Now, rest) => Pending(e, rest)
  BY <1>7, <1>8 DEF Pending, r
<1>11. \A m \in 2..Len(work) : work[m].do # "stat" => Plain(fs', Rest(work[m]))
  BY <1>6, NowGood DEF Good
<1> QED
  BY <1>1, <1>4, <1>6, <1>8, <1>9, <1>10, <1>11, OneStep DEF r

LEMMA LinkGoes ==
  ASSUME NEW work, Working(work), DoLink
  PROVE  Resumed(work)
<1> DEFINE r == Rest(Now)
           a == Step("remove", Now.to, Now.to)
           b == Step("symlink", Now.from, Now.to)
           s == <<a, b>>
<1>1. Good(fs, Now) /\ Now.do = "link"
  BY NowGood DEF DoLink, Doing
<1>2. r \in Path /\ Now.to = Destination \o r /\ Plain(fs, r) /\ Clear(Now)
  BY <1>1 DEF Good
<1>3. CanMakeParent(Now.to) /\ fs' = WithParent(Now.to) /\ agenda' = s \o Tail(agenda)
  BY DEF DoLink, Continue
<1>4. \A rest \in Seen : ~Comparable(r, rest)
  BY <1>1, <1>2 DEF Clear
<1>5. /\ Kept(fs') /\ SameDirs(fs')
      /\ \A rest \in Seen : Done(fs, rest) => Done(fs', rest)
      /\ \A t \in Path : Plain(fs, t) => Plain(fs', t)
  BY <1>2, <1>3, <1>4, NowGood, ParentSteps DEF Comparable
<1>6. /\ a \in Steps /\ a.do = "remove" /\ a.from = Now.to /\ a.to = Now.to
      /\ b \in Steps /\ b.do = "symlink" /\ b.from = Now.from /\ b.to = Now.to
  <2>1. {"remove", "symlink"} \subseteq Deeds \ {"copy"}
    BY DEF Deeds
  <2> QED
    BY <2>1, NowGood, StepFacts, FieldFacts
<1> HIDE DEF a, b, r, Steps
<1>7. s \in Seq(Steps) /\ Len(s) = 2 /\ s[1] = a /\ s[2] = b
  BY <1>6
<1> HIDE DEF s
<1>8. Rest(a) = r /\ Rest(b) = r
  BY <1>2, <1>6, NowGood, RestOf
<1>9. Good(fs', a) /\ Good(fs', b)
  <2>1. Clear(a) /\ Clear(b)
    BY <1>4, <1>6, <1>8 DEF Clear
  <2> QED
    BY <1>2, <1>5, <1>6, <1>8, <2>1 DEF Good
<1>10. /\ \A k \in 1..Len(s) : k = 1 \/ k = 2
       /\ \A k, l \in 1..Len(s) : k < l => k = 1
  BY <1>7
<1>11. \A m \in 2..Len(work) : Apart(b, work[m])
  <2>1. \A m \in 2..Len(work) : Apart(Now, work[m])
    BY NowGood
  <2> QED
    BY <1>1, <1>8, <2>1 DEF Apart, r
<1>12. \A t : Apart(a, t)
  BY <1>6 DEF Apart
<1>13. \A m \in 2..Len(work) : work[m].do # "stat" => Plain(fs', Rest(work[m]))
  BY <1>5, NowGood DEF Good
<1>14. \A rest : ~Pending(Now, rest)
  BY <1>1 DEF Pending
<1>15. CopyCalled /\ Copying(fs, work) /\ work # <<>> /\ Now = work[1]
  BY DEF Working
<1>16. \A k \in 1..Len(s) : Good(fs', s[k])
  BY <1>7, <1>9, <1>10
<1>17. \A k, l \in 1..Len(s) : k < l => Apart(s[k], s[l])
  BY <1>7, <1>10, <1>12
<1>18. \A k \in 1..Len(s), m \in 2..Len(work) : Apart(s[k], work[m])
  BY <1>7, <1>10, <1>11, <1>12
<1>19. Copying(fs', s \o Tail(work))
  BY <1>5, <1>7, <1>13, <1>14, <1>15, <1>16, <1>17, <1>18, Resume
<1> QED
  BY <1>3, <1>7, <1>19 DEF Resumed

LEMMA StatGoes ==
  ASSUME NEW work, Working(work), DoStat
  PROVE  Resumed(work)
<1>1. fs' = fs /\ agenda' = <<>> \o Tail(agenda) /\ Now.do = "stat"
  BY DEF DoStat, Continue, Doing
<1>2. \A rest : ~Pending(Now, rest)
  BY <1>1 DEF Pending
<1>3. \A m \in 2..Len(work) : work[m].do # "stat" => Plain(fs', Rest(work[m]))
  BY <1>1, NowGood DEF Good
<1> QED
  BY <1>1, <1>2, <1>3, NowGood, NoSteps

\* Where a step writes.
LEMMA Aimed ==
  ASSUME CopyCalled, IsTree(fs), Place(fs, Destination) = Base, NEW r \in Path, Plain(fs, r)
  PROVE  /\ Destination \o r \in Path /\ Base \o r \in Path
         /\ Place(fs, Destination \o r) = Base \o r /\ Real(fs, Destination \o r) = Base \o r
         /\ ~IsLinkAt(fs, Base \o r) /\ IsPrefix(Base \o r, Base \o r)
         /\ \A x \in Words :
              /\ Child(r, x) \in Path /\ Plain(fs, Child(r, x))
              /\ Child(Destination \o r, x) = Destination \o Child(r, x)
              /\ Child(Destination \o r, x) \in Path
              /\ Real(fs, Child(Destination \o r, x)) = Child(Base \o r, x)
              /\ Child(Base \o r, x) \in Path /\ IsPrefix(Base \o r, Child(Base \o r, x))
<1>1. Destination \in Path /\ Base \in Path /\ Base \o r \in Path
  BY CallFacts, CatPrefix
<1>2. Comparable(r, r)
  BY PrefixOrder DEF Comparable
<1>3. /\ Destination \o r \in Path
      /\ Place(fs, Destination \o r) = Base \o r /\ Real(fs, Destination \o r) = Base \o r
      /\ ~IsLinkAt(fs, Base \o r) /\ IsPrefix(Base \o r, Base \o r)
  BY <1>1, <1>2, Below, PrefixOrder
<1>4. ASSUME NEW x \in Words
      PROVE  /\ Child(r, x) \in Path /\ Plain(fs, Child(r, x))
             /\ Child(Destination \o r, x) = Destination \o Child(r, x)
             /\ Child(Destination \o r, x) \in Path
             /\ Real(fs, Child(Destination \o r, x)) = Child(Base \o r, x)
             /\ Child(Base \o r, x) \in Path /\ IsPrefix(Base \o r, Child(Base \o r, x))
  <2> DEFINE c == Child(r, x)
  <2>1. /\ c \in Path /\ IsPrefix(r, c)
        /\ Child(Base \o r, x) \in Path /\ IsPrefix(Base \o r, Child(Base \o r, x))
    BY <1>1, PrefixChild
  <2>2. Destination \o c = Child(Destination \o r, x)
    BY <1>1, CatChild
  <2>3. Base \o c = Child(Base \o r, x)
    BY <1>1, CatChild
  <2> HIDE DEF c
  <2>4. Comparable(r, c)
    BY <2>1 DEF Comparable
  <2>5. Destination \o c \in Path /\ Real(fs, Destination \o c) = Base \o c
    BY <2>1, <2>4, Below
  <2>6. Plain(fs, c)
    <3>1. PICK u \in Path : c = r \o u
      BY <2>1, PrefixCat
    <3>2. Base \o (r \o u) = (Base \o r) \o u
      <4>1. Base \in Path /\ r \in Path /\ u \in Path
        BY <1>1
      <4> QED
        BY <4>1, CatAgain
    <3>3. \A q \in Path : Comparable(q, Base \o c) => Comparable(q, Base \o r)
      BY <1>1, <3>1, <3>2, PlainFacts
    <3> QED
      BY <3>3, TreeFacts DEF Plain
  <2> QED
    BY <2>1, <2>2, <2>3, <2>5, <2>6 DEF c
<1> QED
  BY <1>1, <1>3, <1>4

\* What is removed is at or below the path.
LEMMA RemovedBelow ==
  ASSUME IsTree(fs), NEW path \in Path, NEW g \in Removals(path)
  PROVE  /\ \A q \in DOMAIN g : q \in DOMAIN fs /\ g[q] = fs[q]
         /\ \A q \in DOMAIN fs : ~IsPrefix(Place(fs, path), q) => q \in DOMAIN g
<1> DEFINE place == Place(fs, path)
           Only(h) == /\ \A q \in DOMAIN h : q \in DOMAIN fs /\ h[q] = fs[q]
                      /\ \A q \in DOMAIN fs : ~IsPrefix(place, q) => q \in DOMAIN h
<1>1. IsPrefix(place, place)
  BY RealFacts, PrefixOrder
<1>2. \A gone : (\A q \in DOMAIN fs : q \in gone => IsPrefix(place, q)) => Only(Without(fs, gone))
  BY DEF Without
<1>3. Only(fs)
  OBVIOUS
<1>4. \A S : \A q \in DOMAIN fs : q \in Within(fs, place) \ S => IsPrefix(place, q)
  BY DEF Within
<1>5. \A q \in DOMAIN fs : q \in {place} => IsPrefix(place, q)
  BY <1>1
<1> HIDE DEF Only
<1>6. Only(Without(fs, {place})) /\ \A S : Only(Without(fs, Within(fs, place) \ S))
  BY <1>2, <1>4, <1>5
<1>7. Only(g)
  BY <1>3, <1>6, RemovalCases
<1> QED
  BY <1>7 DEF Only

LEMMA Removes ==
  ASSUME NEW work, Working(work), Now.do = "remove", Now.from # <<>>,
         fs' \in Removals(Now.from)
  PROVE  /\ Kept(fs') /\ SameDirs(fs')
         /\ \A rest \in Seen : Done(fs, rest) => Done(fs', rest)
         /\ \A t \in Path : Plain(fs, t) => Plain(fs', t)
<1> DEFINE r == Rest(Now)
           g == fs'
<1>1. /\ CopyCalled /\ IsTree(fs) /\ Kept(fs) /\ SameDirs(fs) /\ r \in Path
      /\ Place(fs, Destination) = Base /\ Good(fs, Now) /\ Now.from \in Path
  BY NowGood
<1>2. Now.from = Destination \o r /\ Plain(fs, r) /\ \A rest \in Seen : ~Comparable(r, rest)
  BY <1>1 DEF Good, Clear
<1> HIDE DEF r
<1>3. Place(fs, Now.from) = Base \o r
  BY <1>1, <1>2, Aimed
<1>4. /\ IsTree(g)
      /\ \A q \in DOMAIN g : q \in DOMAIN fs /\ g[q] = fs[q]
      /\ \A q \in DOMAIN fs : ~IsPrefix(Base \o r, q) => q \in DOMAIN g
  BY <1>1, <1>3, Removed, RemovedBelow
<1> HIDE DEF g
<1>5. \A q \in Path : ~IsPrefix(Base \o r, q) => /\ q \in DOMAIN fs <=> q \in DOMAIN g
                                                 /\ q \in DOMAIN fs => g[q] = fs[q]
  BY <1>4
<1>6. /\ Kept(g)
      /\ \A rest \in Seen : /\ IsDirAt(g, Base \o rest) <=> IsDirAt(fs, Base \o rest)
                            /\ Done(fs, rest) => Done(g, rest)
  BY <1>1, <1>2, <1>4, <1>5, Confined
<1>7. SameDirs(g)
  BY <1>1, <1>6 DEF SameDirs
<1>8. \A t \in Path : Plain(fs, t) => Plain(g, t)
  BY <1>4, FewerLinks
<1> QED
  BY <1>6, <1>7, <1>8 DEF g

LEMMA RemoveGoes ==
  ASSUME NEW work, Working(work), DoRemove
  PROVE  Resumed(work)
<1>1. /\ Now.do = "remove" /\ Now.from # <<>> /\ fs' \in Removals(Now.from)
      /\ agenda' = <<>> \o Tail(agenda)
  BY DEF DoRemove, Doing, Continue
<1>2. /\ Kept(fs') /\ SameDirs(fs')
      /\ \A rest \in Seen : Done(fs, rest) => Done(fs', rest)
      /\ \A t \in Path : Plain(fs, t) => Plain(fs', t)
  BY <1>1, Removes
<1>3. \A m \in 2..Len(work) : work[m].do # "stat" => Plain(fs', Rest(work[m]))
  BY <1>2, NowGood DEF Good
<1>4. \A rest : ~Pending(Now, rest)
  BY <1>1 DEF Pending
<1> QED
  BY <1>1, <1>2, <1>3, <1>4, NoSteps

LEMMA SymlinkGoes ==
  ASSUME NEW work, Working(work), DoSymlink
  PROVE  Resumed(work)
<1> DEFINE r == Rest(Now)
           g == fs'
<1>1. /\ Now.do = "symlink" /\ agenda' = <<>> \o Tail(agenda)
      /\ ~exists(Now.to) /\ is_dir(Parent(Now.to))
      /\ g = With(fs, {Place(fs, Now.to)}, Link(Now.from))
  BY DEF DoSymlink, Doing, Continue
<1>2. /\ CopyCalled /\ IsTree(fs) /\ Kept(fs) /\ SameDirs(fs) /\ r \in Path
      /\ Place(fs, Destination) = Base /\ Good(fs, Now) /\ Now.from \in Path /\ Now.to \in Path
      /\ \A m \in 2..Len(work) : Good(fs, work[m]) /\ Apart(Now, work[m])
  BY NowGood
<1>3. Now.to = Destination \o r /\ Plain(fs, r) /\ \A rest \in Seen : ~Comparable(r, rest)
  BY <1>1, <1>2 DEF Good, Clear
<1>4. IsTree(g)
  BY <1>1, <1>2, LinkPut
<1> HIDE DEF g
<1>5. \A m \in 2..Len(work) : work[m].do # "stat" => ~Comparable(r, Rest(work[m]))
  BY <1>1, <1>2 DEF Apart
<1> HIDE DEF r
<1>6. Place(fs, Now.to) = Base \o r /\ IsPrefix(Base \o r, Base \o r)
  BY <1>2, <1>3, Aimed
<1>7. \A q \in Path : ~IsPrefix(Base \o r, q) => /\ q \in DOMAIN fs <=> q \in DOMAIN g
                                                 /\ q \in DOMAIN fs => g[q] = fs[q]
  BY <1>1, <1>6 DEF With
<1>8. /\ Kept(g)
      /\ \A rest \in Seen : /\ IsDirAt(g, Base \o rest) <=> IsDirAt(fs, Base \o rest)
                            /\ Done(fs, rest) => Done(g, rest)
      /\ \A t \in Path : Plain(fs, t) /\ ~Comparable(r, t) => Plain(g, t)
  BY <1>2, <1>3, <1>4, <1>7, Confined
<1>9. SameDirs(g)
  BY <1>2, <1>8 DEF SameDirs
<1>10. \A m \in 2..Len(work) : work[m].do # "stat" => Plain(g, Rest(work[m]))
  BY <1>2, <1>5, <1>8 DEF Good
<1>11. \A rest : ~Pending(Now, rest)
  BY <1>1 DEF Pending
<1> QED
  BY <1>1, <1>8, <1>9, <1>10, <1>11, NoSteps DEF g

\* The file is written below the destination, where no link and no directory is.
LEMMA FileWrites ==
  ASSUME NEW work, Working(work), Now.do = "file", CanCopyFile, NEW text \in Lines
  PROVE  LET g == With(fs, {Real(fs, CopyTarget)}, File(text))
         IN /\ Kept(g) /\ SameDirs(g)
            /\ \A rest \in Seen : rest # Rest(Now) /\ Done(fs, rest) => Done(g, rest)
            /\ Rest(Now) \in Seen => /\ Real(fs, CopyTarget) = Aim(Rest(Now))
                                     /\ Now.from = Source(Rest(Now))
            /\ \A t \in Path : Plain(fs, t) => Plain(g, t)
<1> DEFINE r == Rest(Now)
           p == Real(fs, CopyTarget)
           g == With(fs, {p}, File(text))
<1>1. /\ CopyCalled /\ IsTree(fs) /\ Kept(fs) /\ SameDirs(fs) /\ r \in Path
      /\ Place(fs, Destination) = Base /\ Good(fs, Now) /\ Now.from \in Path /\ Now.to \in Path
  BY NowGood
<1>2. /\ Now.to = Destination \o r /\ Now.from = op.from \o r /\ Plain(fs, r)
      /\ \A rest \in Seen : r = rest \/ ~Comparable(r, rest)
  BY <1>1 DEF Good, Clear
<1>3. IsTree(g)
  <2>1. IInv /\ agenda # <<>>
    BY DEF Working
  <2> QED
    BY <2>1, FileCopied
<1>4. p \in DOMAIN fs => fs[p].kind = "file"
  BY DEF CanCopyFile, CanOpen
<1>5. Now.from \in Path \ {<<>>} /\ Last(Now.from) \in Words
  <2>1. op.from \in Path /\ op.from # <<>>
    BY <1>1, CallFacts
  <2>2. IsPrefix(op.from, op.from \o r)
    BY <1>1, <2>1, CatPrefix
  <2> QED
    BY <1>1, <1>2, <2>1, <2>2, PrefixOrder, PrefixChild
<1>6. is_dir(Now.to) <=> IsDirAt(fs, Base \o r)
  <2>1. Real(fs, Now.to) = Base \o r
    BY <1>1, <1>2, Aimed
  <2> QED
    BY <2>1 DEF is_dir, Leads, IsDirAt
<1>7. p = IF IsDirAt(fs, Base \o r) THEN Child(Base \o r, Last(Now.from)) ELSE Base \o r
  <2>1. CASE IsDirAt(fs, Base \o r)
    <3>1. CopyTarget = Child(Destination \o r, Last(Now.from))
      BY <1>2, <1>6, <2>1 DEF CopyTarget
    <3> QED
      BY <1>1, <1>2, <1>5, <2>1, <3>1, Aimed
  <2>2. CASE ~IsDirAt(fs, Base \o r)
    <3>1. CopyTarget = Destination \o r
      BY <1>2, <1>6, <2>2 DEF CopyTarget
    <3> QED
      BY <1>1, <1>2, <2>2, <3>1, Aimed
  <2> QED
    BY <2>1, <2>2
<1>8. p \in Path /\ IsPrefix(Base \o r, p)
  BY <1>1, <1>2, <1>5, <1>7, Aimed
<1>9. r \in Seen => p = Aim(r) /\ Now.from = Source(r)
  <2> SUFFICES ASSUME r \in Seen
               PROVE  p = Aim(r) /\ Now.from = Source(r)
    OBVIOUS
  <2>1. Now.from = Source(r)
    BY <1>2 DEF Source
  <2>2. IsDirAt(fs, Base \o r) <=> IsDirAt(before, Base \o r)
    BY <1>1 DEF SameDirs
  <2> QED
    BY <1>7, <2>1, <2>2 DEF Aim
<1>10. /\ DOMAIN g = DOMAIN fs \cup {p} /\ g[p] = File(text) /\ File(text).kind = "file"
       /\ \A q \in DOMAIN fs : q # p => g[q] = fs[q]
  BY NodeFacts DEF With
<1> HIDE DEF p, g, r
<1>11. \A q : IsDirAt(g, q) <=> IsDirAt(fs, q)
  BY <1>4, <1>10 DEF IsDirAt
<1>12. SameDirs(g)
  BY <1>1, <1>11 DEF SameDirs
<1>13. \A q \in DOMAIN g : g[q].kind = "link" => q \in DOMAIN fs /\ fs[q].kind = "link"
  BY <1>10
<1>14. \A t \in Path : Plain(fs, t) => Plain(g, t)
  BY <1>13, FewerLinks
<1>15. \A q \in Path : ~IsPrefix(Base \o r, q) => /\ q \in DOMAIN fs <=> q \in DOMAIN g
                                                  /\ q \in DOMAIN fs => g[q] = fs[q]
  BY <1>8, <1>10
<1>16. /\ Kept(g)
       /\ \A rest \in Seen : ~Comparable(r, rest) /\ Done(fs, rest) => Done(g, rest)
  BY <1>1, <1>3, <1>15, Confined
<1> QED
  BY <1>2, <1>9, <1>12, <1>14, <1>16 DEF p, g, r

LEMMA FileGoes ==
  ASSUME NEW work, Working(work), DoFile
  PROVE  Resumed(work)
<1> DEFINE r == Rest(Now)
           p == Real(fs, CopyTarget)
<1>1. /\ Now.do = "file" /\ CanCopyFile /\ agenda' = <<>> \o Tail(agenda)
      /\ fs' = With(fs, {p}, File(Text(Now.from)))
  BY DEF DoFile, Doing, Continue
<1>2. /\ CopyCalled /\ IsTree(fs) /\ Kept(fs) /\ Good(fs, Now) /\ r \in Path
      /\ \A m \in 2..Len(work) : Good(fs, work[m])
  BY NowGood
<1>3. Text(Now.from) \in Lines
  BY <1>1, <1>2, TextType DEF CanCopyFile
<1>4. /\ Kept(fs') /\ SameDirs(fs')
      /\ \A rest \in Seen : rest # r /\ Done(fs, rest) => Done(fs', rest)
      /\ r \in Seen => p = Aim(r) /\ Now.from = Source(r)
      /\ \A t \in Path : Plain(fs, t) => Plain(fs', t)
  BY <1>1, <1>3, FileWrites
<1>5. ASSUME r \in Seen
      PROVE  Done(fs', r)
  <2> DEFINE P == Place(before, Source(r))
  <2>1. p = Aim(r) /\ Now.from = Source(r) /\ Source(r) = op.from \o r
    BY <1>4, <1>5 DEF Source
  <2>2. P \in DOMAIN before /\ before[P].kind = "file" /\ Real(fs, Now.from) = P
        /\ fs[P] = before[P]
    BY <1>2, <1>5, <2>1, SeenFacts
  <2>3. before[P] = File(before[P].text)
    BY <1>2, <2>2, NodeFacts, TreeFacts DEF CopyCalled
  <2>4. fs'[p] = before[P] /\ p \in DOMAIN fs'
    BY <1>1, <2>2, <2>3 DEF With, Text
  <2> QED
    BY <2>1, <2>4 DEF Done
<1>6. ASSUME NEW rest \in Seen, Pending(Now, rest)
      PROVE  Done(fs', rest)
  <2>1. r = rest \/ ~Comparable(r, rest)
    BY <1>1, <1>2 DEF Good, Clear
  <2>2. Comparable(r, rest)
    BY <1>6 DEF Pending, Comparable
  <2> QED
    BY <1>5, <2>1, <2>2
<1>7. \A m \in 2..Len(work) : work[m].do # "stat" => Plain(fs', Rest(work[m]))
  BY <1>2, <1>4 DEF Good
<1>8. \A rest \in Seen : Done(fs, rest) => Done(fs', rest)
  BY <1>4, <1>5
<1> HIDE DEF r, p
<1> QED
  BY <1>1, <1>4, <1>6, <1>7, <1>8, NoSteps

\* A longer path goes on with a name.
LEMMA NextName ==
  ASSUME NEW s \in Path, NEW t \in Path, IsPrefix(s, t), s # t
  PROVE  \E x \in Words : IsPrefix(Child(s, x), t)
<1>1. PICK u \in Path : t = s \o u
  BY PrefixCat
<1>2. u # <<>>
  BY <1>1, PrefixCat
<1>3. Len(u) \in Nat \ {0} /\ u[1] \in Words
  <2>1. Len(u) \in Nat /\ Len(u) # 0 /\ \A k \in 1..Len(u) : u[k] \in Words
    BY <1>2, Named
  <2>2. 1 \in 1..Len(u)
    BY <2>1
  <2> QED
    BY <2>1, <2>2
<1> DEFINE x == u[1]
           c == Child(<<>>, x)
<1>4. c \in Path /\ Len(c) = 1 /\ c[1] = x
  <2>1. <<>> \in Seq(Words) /\ x \in Words /\ Len(<<>>) = 0
    BY <1>3, EmptySeq
  <2> HIDE DEF x
  <2>2. /\ Append(<<>>, x) \in Seq(Words) /\ Len(Append(<<>>, x)) = Len(<<>>) + 1
        /\ Append(<<>>, x)[Len(<<>>) + 1] = x
    BY <2>1, AppendProperties
  <2> QED
    BY <2>1, <2>2 DEF Path, Child
<1>5. IsPrefix(c, u)
  <2>1. Len(c) <= Len(u) /\ \A k \in 1..Len(c) : c[k] = u[k]
    <3> HIDE DEF c
    <3> QED
      BY <1>3, <1>4
  <2> HIDE DEF c
  <2> QED
    BY <1>4, <2>1, NamedPrefix
<1>6. s \o c = Child(s, x)
  <2>1. s \o c = Child(s \o <<>>, x)
    BY <1>3, Named, CatChild
  <2> QED
    BY <2>1, PrefixCat
<1> HIDE DEF c, x
<1>7. IsPrefix(s \o c, s \o u)
  BY <1>4, <1>5, CatPrefix
<1> QED
  BY <1>1, <1>3, <1>6, <1>7 DEF x

\* The entries of a directory are copied one by one.
LEMMA EntryCopies ==
  ASSUME NEW from \in Path, NEW to \in Path
  PROVE  LET names == list_dir(from)
             e == Entries(from, to)
         IN /\ e \in Seq(Steps) /\ Len(e) = Len(names) /\ Len(names) \in Nat
            /\ DOMAIN names = 1..Len(names)
            /\ \A n \in 1..Len(names) :
                 /\ e[n].do = "copy" /\ ~e[n].inside /\ names[n] \in Words
                 /\ e[n].from = Child(from, names[n]) /\ e[n].to = Child(to, names[n])
<1> DEFINE names == list_dir(from)
           N == Len(names)
           e == [n \in 1..N |-> CopyStep(Child(from, names[n]), Child(to, names[n]), FALSE)]
<1>1. N \in Nat /\ DOMAIN names = 1..N /\ \A n \in 1..N : names[n] \in Words
  BY ListFacts, NameFacts
<1>2. Entries(from, to) = e
  BY <1>1 DEF Entries
<1>3. e \in Seq(Steps)
  <2>1. Entries(from, to) \in Seq(Steps)
    BY EntriesFacts DEF Chain
  <2> QED
    BY <1>2, <2>1
<1> HIDE DEF N, names
<1>4. Len(e) = N
  <2>1. DOMAIN e = 1..N
    OBVIOUS
  <2> HIDE DEF e
  <2>2. DOMAIN e = 1..Len(e) /\ Len(e) \in Nat
    BY <1>3, LenProperties
  <2> QED
    BY <1>1, <2>1, <2>2
<1>5. \A n \in 1..N : /\ e[n].do = "copy" /\ ~e[n].inside
                      /\ e[n].from = Child(from, names[n]) /\ e[n].to = Child(to, names[n])
  BY DEF CopyStep, Step
<1> QED
  BY <1>1, <1>2, <1>3, <1>4, <1>5 DEF N, names

\* What the next step finds where a file is seen, or on the way there.
LEMMA OnTheWayTo ==
  ASSUME NEW work, Working(work), Now.do = "entries", NEW rest \in Seen
  PROVE  /\ IsPrefix(rest, Rest(Now)) => rest = Rest(Now)
         /\ rest = Rest(Now) => ~is_dir(Now.from) /\ ~is_link(Now.from)
         /\ IsPrefix(Rest(Now), rest) /\ rest # Rest(Now) => is_dir(Now.from)
<1> DEFINE r == Rest(Now)
           P == Place(before, op.from \o rest)
<1>1. CopyCalled /\ Kept(fs) /\ Good(fs, Now) /\ r \in Path
  BY NowGood
<1>2. Now.from = op.from \o r /\ (IsPrefix(rest, r) => rest = r)
  BY <1>1 DEF Good, Clear
<1> HIDE DEF r
<1>3. rest = r => ~is_dir(Now.from) /\ ~is_link(Now.from)
  <2> SUFFICES ASSUME rest = r
               PROVE  ~is_dir(Now.from) /\ ~is_link(Now.from)
    OBVIOUS
  <2>1. Real(fs, Now.from) = P /\ Place(fs, Now.from) = P /\ fs[P].kind = "file"
    BY <1>1, <1>2, SeenFacts
  <2> QED
    BY <2>1 DEF is_dir, is_link, IsLinkAt
<1>4. IsPrefix(r, rest) /\ rest # r => is_dir(Now.from)
  <2> SUFFICES ASSUME IsPrefix(r, rest), rest # r
               PROVE  is_dir(Now.from)
    OBVIOUS
  <2>1. Real(fs, op.from \o r) \in DOMAIN fs /\ fs[Real(fs, op.from \o r)] = Dir
    BY <1>1, SeenFacts
  <2> QED
    BY <1>2, <2>1, NodeFacts DEF is_dir, Leads
<1> QED
  BY <1>2, <1>3, <1>4 DEF r

\* The steps of a directory are apart from each other and from what follows.
LEMMA ChildrenApart ==
  ASSUME NEW r \in Path, NEW x \in Words
  PROVE  /\ \A y \in Words : x # y => ~Comparable(Child(r, x), Child(r, y))
         /\ \A t \in Path : ~Comparable(r, t) => ~Comparable(Child(r, x), t)
<1>1. ASSUME NEW y \in Words, IsPrefix(Child(r, x), Child(r, y))
      PROVE  x = y
  <2>1. Child(r, x) \in Path /\ ~IsPrefix(Child(r, x), r)
    BY PrefixChild
  <2>2. Child(r, x) = Child(r, y)
    BY <1>1, <2>1, PrefixChild
  <2> QED
    BY <2>2, PrefixChild
<1>2. ASSUME NEW y \in Words, IsPrefix(Child(r, y), Child(r, x))
      PROVE  x = y
  <2>1. Child(r, y) \in Path /\ ~IsPrefix(Child(r, y), r)
    BY PrefixChild
  <2>2. Child(r, x) = Child(r, y)
    BY <1>2, <2>1, PrefixChild
  <2> QED
    BY <2>2, PrefixChild
<1>3. ASSUME NEW t \in Path, Comparable(Child(r, x), t)
      PROVE  Comparable(r, t)
  <2>0. Child(r, x) \in Path /\ IsPrefix(r, Child(r, x))
    BY PrefixChild
  <2>1. PICK u \in Path : Child(r, x) = r \o u
    BY <2>0, PrefixCat
  <2>2. Comparable(t, r \o u)
    BY <1>3, <2>1 DEF Comparable
  <2>3. Comparable(t, r)
    BY <2>2, PlainFacts
  <2> QED
    BY <2>3 DEF Comparable
<1> QED
  BY <1>1, <1>2, <1>3 DEF Comparable

LEMMA DirGoes ==
  ASSUME NEW work, Working(work), DoEntries, is_dir(Now.from)
  PROVE  Resumed(work)
<1> DEFINE r == Rest(Now)
           names == list_dir(Now.from)
           N == Len(names)
           e == Entries(Now.from, Now.to)
           last == Step("stat", Now.from, Now.to)
           s == e \o <<last>>
<1>1. Now.do = "entries" /\ fs' = fs /\ agenda' = s \o Tail(agenda)
  BY DEF DoEntries, Doing, Continue
<1>2. /\ CopyCalled /\ IsTree(fs) /\ Kept(fs) /\ SameDirs(fs) /\ r \in Path
      /\ Place(fs, Destination) = Base /\ Good(fs, Now)
      /\ Now.from \in Path /\ Now.to \in Path /\ op.from \in Path
      /\ \A m \in 2..Len(work) : Good(fs, work[m]) /\ Apart(Now, work[m])
  BY NowGood, CallFacts
<1>3. /\ Now.to = Destination \o r /\ Now.from = op.from \o r /\ Plain(fs, r)
      /\ \A rest \in Seen : r = rest \/ ~IsPrefix(rest, r)
  BY <1>1, <1>2 DEF Good, Clear
<1>4. /\ e \in Seq(Steps) /\ Len(e) = N /\ N \in Nat /\ DOMAIN names = 1..N
      /\ \A n \in 1..N :
           /\ e[n].do = "copy" /\ ~e[n].inside /\ names[n] \in Words
           /\ e[n].from = Child(Now.from, names[n]) /\ e[n].to = Child(Now.to, names[n])
  BY <1>2, EntryCopies
<1>5. /\ \A n, m \in 1..N : names[n] = names[m] => n = m
      /\ \A x \in Range(Names) : Child(Real(fs, Now.from), x) \in DOMAIN fs =>
           \E n \in 1..N : names[n] = x
  BY <1>4, ListFacts
<1>6. last \in Steps /\ last.do = "stat" /\ last.from = Now.from /\ last.to = Now.to
  <2>1. "stat" \in Deeds /\ "stat" # "copy"
    BY DEF Deeds
  <2> QED
    BY <1>2, <2>1, StepFacts, FieldFacts
<1> HIDE DEF e, last, names, N, Steps
<1>7. /\ s \in Seq(Steps) /\ Len(s) = N + 1 /\ s[N + 1] = last
      /\ \A n \in 1..N : s[n] = e[n]
  <2>1. <<last>> \in Seq(Steps) /\ Len(<<last>>) = 1 /\ <<last>>[1] = last
    BY <1>6
  <2>2. /\ e \o <<last>> \in Seq(Steps) /\ Len(e \o <<last>>) = N + 1
        /\ \A k \in 1..N + 1 : (e \o <<last>>)[k] = IF k <= N THEN e[k] ELSE <<last>>[k - N]
    <3> DEFINE l == <<last>>
    <3>1. l \in Seq(Steps) /\ Len(l) = 1
      BY <2>1
    <3> HIDE DEF l
    <3>2. /\ e \o l \in Seq(Steps) /\ Len(e \o l) = Len(e) + Len(l)
          /\ \A k \in 1..Len(e) + Len(l) :
               (e \o l)[k] = IF k <= Len(e) THEN e[k] ELSE l[k - Len(e)]
      BY <1>4, <3>1, ConcatProperties
    <3> QED
      BY <1>4, <3>1, <3>2 DEF l
  <2> HIDE DEF s
  <2>3. N + 1 \in 1..N + 1 /\ ~(N + 1 <= N) /\ (N + 1) - N = 1
        /\ \A n \in 1..N : n \in 1..N + 1 /\ n <= N
    BY <1>4
  <2> QED
    BY <2>1, <2>2, <2>3 DEF s
<1> HIDE DEF s, r
<1>8. \A k \in 1..Len(s) : k \in 1..N \/ k = N + 1
  BY <1>4, <1>7
<1>9. Rest(last) = r
  BY <1>2, <1>3, <1>6, RestOf
<1>10. ASSUME NEW n \in 1..N
       PROVE  /\ e[n] \in Steps /\ names[n] \in Words /\ Child(r, names[n]) \in Path
              /\ Rest(e[n]) = Child(r, names[n]) /\ e[n].to = Destination \o Rest(e[n])
              /\ e[n].from = op.from \o Rest(e[n])
              /\ Plain(fs, Rest(e[n]))
  <2> DEFINE x == names[n]
  <2>1. x \in Words /\ e[n].from = Child(Now.from, x) /\ e[n].to = Child(Now.to, x)
    BY <1>4
  <2>2. e[n] \in Steps
    BY <1>4, ElementOfSeq
  <2> HIDE DEF x
  <2>3. /\ Child(r, x) \in Path /\ Plain(fs, Child(r, x))
        /\ Child(Destination \o r, x) = Destination \o Child(r, x)
    BY <1>2, <1>3, <2>1, Aimed
  <2>4. op.from \o Child(r, x) = Child(op.from \o r, x)
    BY <1>2, <2>1, CatChild
  <2>5. Rest(e[n]) = Child(r, x)
    BY <1>2, <1>3, <2>1, <2>3, RestOf
  <2> QED
    BY <1>3, <2>1, <2>2, <2>3, <2>4, <2>5 DEF x
<1>11. ASSUME NEW n \in 1..N
       PROVE  Clear(e[n])
  <2> SUFFICES ASSUME NEW rest \in Seen, IsPrefix(rest, Child(r, names[n]))
               PROVE  Child(r, names[n]) = rest
    BY <1>4, <1>10 DEF Clear
  <2>1. rest \in Path
    BY <1>2, SeenTypes
  <2>2. rest = Child(r, names[n]) \/ IsPrefix(rest, r)
    BY <1>2, <1>10, <2>1, PrefixChild
  <2>3. ~IsPrefix(rest, r)
    <3> SUFFICES ASSUME IsPrefix(rest, r)
                 PROVE  FALSE
      OBVIOUS
    <3>1. rest = r
      BY <1>3
    <3> QED
      BY <1>1, <3>1, OnTheWayTo DEF r
  <2> QED
    BY <2>2, <2>3
<1>12. ASSUME NEW k \in 1..Len(s)
       PROVE  Good(fs, s[k])
  <2>1. CASE k \in 1..N
    <3>1. s[k] = e[k] /\ e[k].do = "copy" /\ ~e[k].inside
      BY <1>4, <1>7, <2>1
    <3>2. /\ e[k] \in Steps /\ Rest(e[k]) \in Path /\ e[k].to = Destination \o Rest(e[k])
          /\ e[k].from = op.from \o Rest(e[k]) /\ Plain(fs, Rest(e[k]))
      BY <1>10, <2>1
    <3> QED
      BY <1>11, <2>1, <3>1, <3>2 DEF Good
  <2>2. CASE k = N + 1
    <3>1. s[k] = last
      BY <1>7, <2>2
    <3>2. Clear(last)
      BY <1>6 DEF Clear
    <3> QED
      BY <1>2, <1>3, <1>6, <1>9, <3>1, <3>2 DEF Good
  <2> QED
    BY <1>8, <2>1, <2>2
<1>13. ASSUME NEW k \in 1..Len(s), NEW l \in 1..Len(s), k < l
       PROVE  Apart(s[k], s[l])
  <2>1. CASE l = N + 1
    BY <1>6, <1>7, <2>1 DEF Apart
  <2>2. CASE l \in 1..N
    <3>1. k \in 1..N /\ k # l
      BY <1>4, <1>7, <1>13, <2>2
    <3>2. s[k] = e[k] /\ s[l] = e[l] /\ names[k] # names[l]
      BY <1>5, <1>7, <2>2, <3>1
    <3>3. /\ names[k] \in Words /\ names[l] \in Words
          /\ Rest(e[k]) = Child(r, names[k]) /\ Rest(e[l]) = Child(r, names[l])
      BY <1>10, <2>2, <3>1
    <3>4. ~Comparable(Child(r, names[k]), Child(r, names[l]))
      BY <1>2, <3>2, <3>3, ChildrenApart
    <3> QED
      BY <3>2, <3>3, <3>4 DEF Apart
  <2> QED
    BY <1>8, <2>1, <2>2
<1>14. ASSUME NEW k \in 1..Len(s), NEW m \in 2..Len(work)
       PROVE  Apart(s[k], work[m])
  <2>1. CASE k = N + 1
    BY <1>6, <1>7, <2>1 DEF Apart
  <2>2. CASE k \in 1..N /\ work[m].do # "stat"
    <3>1. ~Comparable(r, Rest(work[m])) /\ Rest(work[m]) \in Path
      BY <1>1, <1>2, <2>2 DEF Apart, Good, r
    <3>2. s[k] = e[k] /\ Rest(e[k]) = Child(r, names[k]) /\ names[k] \in Words
      BY <1>7, <1>10, <2>2
    <3>3. ~Comparable(Child(r, names[k]), Rest(work[m]))
      BY <1>2, <3>1, <3>2, ChildrenApart
    <3> QED
      BY <3>2, <3>3 DEF Apart
  <2> QED
    BY <1>8, <2>1, <2>2 DEF Apart
<1>15. ASSUME NEW rest \in Seen, Pending(work[1], rest)
       PROVE  \E k \in 1..Len(s) : Pending(s[k], rest)
  <2>1. IsPrefix(r, rest) /\ rest \in Path
    BY <1>2, <1>15, SeenTypes DEF Pending, Working, r
  <2>2. r # rest
    BY <1>1, OnTheWayTo DEF r
  <2>3. PICK x \in Words : IsPrefix(Child(r, x), rest)
    BY <1>2, <2>1, <2>2, NextName
  <2>4. x \in Range(Names) /\ Child(Real(fs, Now.from), x) \in DOMAIN fs
    BY <1>2, <1>3, <2>3, SeenFacts
  <2>5. PICK n \in 1..N : names[n] = x
    BY <1>5, <2>4
  <2>6. n \in 1..Len(s) /\ s[n] = e[n] /\ e[n].do = "copy"
    BY <1>4, <1>7
  <2>7. Rest(e[n]) = Child(r, x)
    BY <1>10, <2>5
  <2> QED
    BY <2>3, <2>6, <2>7 DEF Pending
<1>16. CopyCalled /\ Copying(fs, work) /\ work # <<>>
  BY DEF Working
<1>17. \A m \in 2..Len(work) : work[m].do # "stat" => Plain(fs, Rest(work[m]))
  BY <1>2 DEF Good
<1>18. Copying(fs, s \o Tail(work))
  BY <1>2, <1>7, <1>12, <1>13, <1>14, <1>15, <1>16, <1>17, Resume
<1> QED
  BY <1>1, <1>7, <1>18 DEF Resumed

LEMMA EntriesGoes ==
  ASSUME NEW work, Working(work), DoEntries
  PROVE  Resumed(work)
<1> DEFINE r == Rest(Now)
<1>1. Now.do = "entries" /\ fs' = fs
  BY DEF DoEntries, Doing
<1>2. /\ CopyCalled /\ IsTree(fs) /\ Kept(fs) /\ SameDirs(fs) /\ r \in Path
      /\ Good(fs, Now) /\ Now.from \in Path /\ Now.to \in Path
      /\ \A m \in 2..Len(work) : Good(fs, work[m])
  BY NowGood
<1>3. Now.to = Destination \o r /\ Now.from = op.from \o r /\ Plain(fs, r)
  BY <1>1, <1>2 DEF Good
<1>4. \A m \in 2..Len(work) : work[m].do # "stat" => Plain(fs', Rest(work[m]))
  BY <1>1, <1>2 DEF Good
<1>5. CASE is_dir(Now.from)
  BY <1>5, DirGoes
<1>6. ASSUME ~is_dir(Now.from), NEW do \in {"link", "file"}, NEW from \in Path,
             do = "file" => from = Now.from /\ ~is_link(Now.from),
             do = "link" => is_link(Now.from),
             agenda' = <<Step(do, from, Now.to)>> \o Tail(agenda)
      PROVE  Resumed(work)
  <2> DEFINE step == Step(do, from, Now.to)
  <2>1. step \in Steps /\ step.do = do /\ step.from = from /\ step.to = Now.to
    <3>1. do \in Deeds /\ do # "copy"
      BY DEF Deeds
    <3> QED
      BY <1>2, <3>1, StepFacts, FieldFacts
  <2> HIDE DEF step
  <2>2. Rest(step) = r
    BY <1>2, <1>3, <2>1, RestOf
  <2>3. ASSUME NEW rest \in Seen
        PROVE  /\ Comparable(r, rest) => rest = r
               /\ rest = r => do = "file"
    BY <1>1, <1>6, OnTheWayTo DEF Comparable, r
  <2>4. Clear(step)
    BY <2>1, <2>2, <2>3 DEF Clear
  <2>5. Good(fs', step)
    BY <1>1, <1>2, <1>3, <1>6, <2>1, <2>2, <2>4 DEF Good
  <2>6. \A rest \in Seen : Pending(Now, rest) => Pending(step, rest)
    BY <2>1, <2>2, <2>3 DEF Pending, Comparable, r
  <2>7. agenda' = <<step>> \o Tail(agenda)
    BY <1>6 DEF step
  <2> QED
    BY <1>1, <1>2, <1>4, <2>2, <2>5, <2>6, <2>7, OneStep DEF r
<1> op.symlinks
  BY <1>2 DEF CopyCalled, Unlinked
<1>7. CASE ~is_dir(Now.from) /\ is_link(Now.from)
  <2> DEFINE to == fs[Place(fs, Now.from)].to
  <2>1. to \in Path
    BY <1>2, <1>7, TreeFacts DEF is_link, IsLinkAt
  <2>2. agenda' = <<Step("link", to, Now.to)>> \o Tail(agenda)
    BY <1>7 DEF DoEntries, Continue
  <2> QED
    BY <1>6, <1>7, <2>1, <2>2
<1>8. CASE ~is_dir(Now.from) /\ ~is_link(Now.from)
  <2>1. agenda' = <<Step("file", Now.from, Now.to)>> \o Tail(agenda)
    BY <1>8 DEF DoEntries, Continue
  <2> QED
    BY <1>2, <1>6, <1>8, <2>1
<1> QED
  BY <1>5, <1>7, <1>8

-----------------------------------------------------------------------------
(* What a copy and a move have done in the end                             *)

\* The source of a move, which is removed in the end; where the destination is found
\* without it.
Gone == Place(before, op.from)
Found ==
  op.name = "move" => Place(Without(before, Within(before, Gone)), Destination) = Base

\* A file is kept, or it was where the copy writes, or it has been copied.
Lossless(f) ==
  \A q \in DOMAIN before :
    before[q].kind = "file" =>
      \/ q \in DOMAIN f /\ f[q] = before[q]
      \/ IsPrefix(Base, q)
      \/ op.name = "move" /\ Overlap
      \/ op.name = "move" /\ \E rest \in Seen : q = Place(before, Source(rest)) /\ Done(f, rest)

\* The copy is complete, and the source of a move is removed.
Finished(f) ==
  /\ IsTree(f) /\ Lossless(f)
  /\ \/ op.name = "move" /\ Overlap
     \/ \A rest \in Seen : Done(f, rest) /\ (Found => Place(f, Destination) = Base)

LEMMA KeptLossless == \A f : Kept(f) => Lossless(f)
BY DEF Kept, Lossless

LEMMA NamesBelow ==
  ASSUME CopyCalled, NEW q \in DOMAIN before, NEW p \in Path, p # <<>>, IsPrefix(p, q)
  PROVE  \E u \in Rests : u \in Path /\ q = p \o u
<1>1. q \in Path /\ IsTree(before) /\ before \in Trees
  BY TreeFacts DEF CopyCalled
<1>2. q # <<>>
  BY <1>1, PrefixOrder
<1>3. Tail(q) \in Rests
  BY <1>1, <1>2, FilesAssumption
<1>4. PICK u \in Path : q = p \o u
  BY <1>1, PrefixCat
<1>5. Tail(q) = Tail(p) \o u /\ Tail(p) \in Path
  BY <1>4, TailCat DEF Path
<1>6. u \in Rests
  BY <1>3, <1>5, RestFacts
<1> QED
  BY <1>4, <1>6

\* What lies at or below the destination is where the copy writes.
LEMMA InGoals ==
  ASSUME CopyCalled, NEW q \in DOMAIN before, IsPrefix(Base, q)
  PROVE  \E to \in Goals : Place(before, to) = q /\ Real0(to) = q
<1>1. Base \in Path /\ Base # <<>> /\ IsTree(before) /\ Place(before, Destination) = Base
  BY CallFacts DEF CopyCalled, Base
<1>2. PICK u \in Rests : u \in Path /\ q = Base \o u
  BY <1>1, NamesBelow
<1>3. Plain(before, u) /\ Comparable(u, u)
  BY <1>2, BaseFacts, PrefixOrder DEF Comparable
<1>4. Place(before, Destination \o u) = q /\ Real(before, Destination \o u) = q
  BY <1>1, <1>2, <1>3, Below
<1>5. Destination \o u \in Goals
  BY <1>2 DEF Goals
<1> QED
  BY <1>4, <1>5 DEF Real0

\* Unless the source and the destination overlap, neither is in the other.
LEMMA ApartPlaces ==
  ASSUME CopyCalled, ~Overlap
  PROVE  /\ Gone \in Path \ {<<>>} /\ Gone \in DOMAIN before /\ ~IsPrefix(Base, Gone)
         /\ ~IsLinkAt(before, Gone) => ~IsPrefix(Gone, Base) /\ Real0(op.from) = Gone
<1>1. /\ Base \in Path /\ Base # <<>> /\ IsTree(before) /\ Place(before, Destination) = Base
      /\ op.from \in Path \ {<<>>} /\ Destination \in Path
  BY CallFacts DEF CopyCalled, Base
<1>2. /\ Gone \in Path \ {<<>>} /\ Gone \in DOMAIN before
      /\ Real0(op.from) = Follow(before, Gone)
  BY <1>1, RealFacts DEF CopyCalled, Gone, Real0
<1>3. ~IsLinkAt(before, Gone) => Real0(op.from) = Gone
  BY <1>1, <1>2, FollowFacts
<1>4. ~IsPrefix(Base, Gone)
  <2> SUFFICES ASSUME IsPrefix(Base, Gone)
               PROVE  FALSE
    OBVIOUS
  <2>1. PICK to \in Goals : Place(before, to) = Gone
    BY <1>2, InGoals
  <2>2. Gone \in Under
    BY <1>2 DEF Under
  <2>3. ~IsLinkAt(before, Gone)
    BY <2>2, BaseFacts
  <2>4. IsPrefix(Real0(op.from), Place(before, to))
    BY <1>2, <1>3, <2>1, <2>3, PrefixOrder
  <2> QED
    BY <2>4 DEF Overlap
<1>5. Destination \in Goals
  <2>1. <<>> \in Rests /\ Destination \o <<>> = Destination
    BY <1>1, RestFacts, PrefixCat
  <2> QED
    BY <2>1 DEF Goals
<1>6. ~IsLinkAt(before, Gone) => ~IsPrefix(Gone, Base)
  BY <1>1, <1>3, <1>5 DEF Overlap
<1> QED
  BY <1>2, <1>3, <1>4, <1>6

\* Where a path leads to does not change for what is removed beside it.
LEMMA WithoutFacts ==
  ASSUME NEW f, IsTree(f), NEW place \in Path \ {<<>>}
  PROVE  /\ IsTree(Without(f, Within(f, place)))
         /\ \A q \in DOMAIN Without(f, Within(f, place)) :
              ~IsPrefix(place, q) /\ q \in DOMAIN f /\ Without(f, Within(f, place))[q] = f[q]
         /\ \A q \in DOMAIN f : ~IsPrefix(place, q) => q \in DOMAIN Without(f, Within(f, place))
<1> DEFINE h == Without(f, Within(f, place))
<1>1. /\ f \in [DOMAIN f -> Nodes] /\ DOMAIN f \subseteq Path
      /\ <<>> \in DOMAIN f /\ f[<<>>] = Dir
      /\ \A q \in DOMAIN f : q # <<>> => Parent(q) \in DOMAIN f /\ f[Parent(q)] = Dir
  BY TreeFacts
<1>2. /\ DOMAIN h = {q \in DOMAIN f : ~IsPrefix(place, q)}
      /\ \A q \in DOMAIN h : h[q] = f[q]
      /\ h \in [DOMAIN h -> Nodes]
  BY <1>1 DEF Without, Within
<1>3. ~IsPrefix(place, <<>>)
  BY PrefixOrder
<1>4. \A q \in DOMAIN f : q # <<>> /\ IsPrefix(place, Parent(q)) => IsPrefix(place, q)
  <2> SUFFICES ASSUME NEW q \in DOMAIN f, q # <<>>, IsPrefix(place, Parent(q))
               PROVE  IsPrefix(place, q)
    OBVIOUS
  <2>1. q \in Path
    BY <1>1
  <2>2. Parent(q) \in Path /\ Last(q) \in Words /\ q = Child(Parent(q), Last(q))
    BY <2>1, PrefixChild
  <2>3. IsPrefix(Parent(q), Child(Parent(q), Last(q)))
    BY <2>2, PrefixChild
  <2> QED
    BY <2>1, <2>2, <2>3, PrefixOrder
<1> HIDE DEF h
<1>5. \A q \in DOMAIN h : q # <<>> => Parent(q) \in DOMAIN h /\ h[Parent(q)] = Dir
  BY <1>1, <1>2, <1>4
<1>6. IsTree(h)
  BY <1>1, <1>2, <1>3, <1>5, TreeIf
<1> QED
  BY <1>2, <1>6 DEF h

LEMMA StillFound ==
  ASSUME CopyCalled, op.name = "move", Found, Kept(fs), NEW g, IsTree(g),
         Gone \in Path \ {<<>>}, ~IsPrefix(Gone, Base),
         \A q \in DOMAIN g : q \in DOMAIN fs /\ g[q] = fs[q],
         \A q \in DOMAIN fs : ~IsPrefix(Gone, q) => q \in DOMAIN g
  PROVE  Place(g, Destination) = Base
<1> DEFINE f == Without(before, Within(before, Gone))
           R == Under \cup {q \in Path : IsPrefix(Gone, q)}
           d == Parent(Destination)
           x == Last(Destination)
<1>1. IsTree(before) /\ IsTree(fs) /\ Agree(before, fs, Under)
  BY KeptFacts DEF CopyCalled
<1>2. /\ Base \in Path /\ Base # <<>> /\ d \in Path /\ x \in Words
      /\ Base = Child(Real0(d), x) /\ Real0(d) \in Path \ Under /\ Destination # <<>>
  BY CallFacts, BaseFacts, NameFacts
<1>3. /\ IsTree(f)
      /\ \A q \in DOMAIN f : ~IsPrefix(Gone, q) /\ q \in DOMAIN before /\ f[q] = before[q]
      /\ \A q \in DOMAIN before : ~IsPrefix(Gone, q) => q \in DOMAIN f
  BY <1>1, WithoutFacts
<1>4. Place(f, Destination) = Base
  BY DEF Found
<1> HIDE DEF f
<1>5. Real(f, d) = Real0(d)
  <2>1. Child(Real(f, d), x) = Base /\ Real(f, d) \in Path
    BY <1>2, <1>3, <1>4, RealFacts DEF Place
  <2> QED
    BY <1>2, <2>1, PrefixChild
<1>6. ~IsPrefix(Gone, Real0(d))
  <2>1. IsPrefix(Real0(d), Base)
    BY <1>2, PrefixChild
  <2> QED
    BY <1>2, <2>1, PrefixOrder
<1>7. Region(f, R)
  <2>1. \A q \in Under : ~IsLinkAt(f, q) /\ q \in Path
    BY <1>3, BaseFacts DEF IsLinkAt, Under
  <2>2. \A q \in Path : IsPrefix(Gone, q) => ~IsLinkAt(f, q)
    BY <1>3 DEF IsLinkAt
  <2>3. \A q \in Path, y \in Words : IsPrefix(Gone, q) => Child(q, y) \in Path /\ IsPrefix(Gone, Child(q, y))
    BY PrefixChild, PrefixOrder
  <2>4. \A q \in Under, y \in Words : Child(q, y) \in Under
    BY BaseFacts DEF Region
  <2> QED
    BY <2>1, <2>2, <2>3, <2>4 DEF Region
<1>8. Agree(f, g, R)
  <2> SUFFICES ASSUME NEW q \in Path \ R
               PROVE  /\ IsLinkAt(f, q) <=> IsLinkAt(g, q)
                      /\ IsLinkAt(f, q) => f[q].to = g[q].to
    BY DEF Agree
  <2>1. ~IsPrefix(Gone, q) /\ q \notin Under
    OBVIOUS
  <2>2. /\ IsLinkAt(before, q) <=> IsLinkAt(fs, q)
        /\ IsLinkAt(before, q) => before[q].to = fs[q].to
    BY <1>1, <2>1 DEF Agree
  <2>3. /\ q \in DOMAIN f <=> q \in DOMAIN before
        /\ q \in DOMAIN f => f[q] = before[q]
        /\ q \in DOMAIN fs <=> q \in DOMAIN g
        /\ q \in DOMAIN g => g[q] = fs[q]
    BY <1>3, <2>1
  <2> QED
    BY <2>2, <2>3 DEF IsLinkAt
<1>9. Real0(d) \notin R
  BY <1>2, <1>6
<1> HIDE DEF R
<1>10. Real(g, d) = Real0(d)
  BY <1>2, <1>3, <1>5, <1>7, <1>8, <1>9, SameOutside
<1> QED
  BY <1>2, <1>10 DEF Place

\* The source is removed when everything has been copied.
LEMMA Removing ==
  ASSUME CopyCalled, op.name = "move", Copying(fs, <<>>), NEW g \in Removals(op.from)
  PROVE  Finished(g)
<1>1. /\ IsTree(fs) /\ IsTree(before) /\ Kept(fs) /\ op.from \in Path /\ op.from # <<>>
      /\ Base \in Path /\ Base # <<>>
  BY CallFacts DEF Copying, Kept, CopyCalled
<1>2. IsTree(g)
  BY <1>1, Removed
<1>3. \A rest \in Seen : Done(fs, rest)
  <2>1. \A i \in 1..Len(<<>>) : FALSE
    BY Named
  <2> QED
    BY <2>1 DEF Copying
<1>4. CASE Overlap
  BY <1>2, <1>4 DEF Finished, Lossless
<1>5. CASE g = fs
  <2>1. Place(g, Destination) = Base
    BY <1>1, <1>5, KeptFacts
  <2> QED
    BY <1>1, <1>3, <1>5, <2>1, KeptLossless DEF Finished
<1>6. CASE ~Overlap /\ g # fs
  <2>1. /\ Gone \in Path /\ Gone # <<>> /\ Gone \in DOMAIN before /\ ~IsPrefix(Base, Gone)
        /\ ~IsLinkAt(before, Gone) => ~IsPrefix(Gone, Base)
    BY <1>6, ApartPlaces
  <2>2. Gone \in DOMAIN fs /\ fs[Gone] = before[Gone]
    BY <1>1, <2>1 DEF Kept
  <2>3. Place(fs, op.from) = Gone
    <3>1. Gone \notin Under
      BY <2>1 DEF Under
    <3> QED
      BY <1>1, <3>1, KeptFacts DEF Gone
  <2>4. /\ \A q \in DOMAIN g : q \in DOMAIN fs /\ g[q] = fs[q]
        /\ \A q \in DOMAIN fs : ~IsPrefix(Gone, q) => q \in DOMAIN g
    BY <1>1, <2>3, RemovedBelow
  <2>5. ASSUME NEW q \in DOMAIN fs, IsPrefix(Gone, q), q # Gone
        PROVE  ~IsLinkAt(before, Gone)
    <3>1. fs[Gone] = Dir
      BY <1>1, <2>1, <2>5, Above
    <3> QED
      BY <2>2, <3>1, NodeFacts DEF IsLinkAt
  <2>6. ASSUME NEW rest \in Seen
        PROVE  /\ Aim(rest) \in DOMAIN fs /\ Aim(rest) \in Path /\ IsPrefix(Base, Aim(rest))
               /\ ~IsPrefix(Gone, Base)
    <3>1. Aim(rest) \in DOMAIN fs /\ Aim(rest) \in Path /\ IsPrefix(Base, Aim(rest))
      BY <1>3, SeenTypes DEF Done, Under
    <3>2. ~IsPrefix(Gone, Base)
      <4> SUFFICES ASSUME IsPrefix(Gone, Base)
                   PROVE  FALSE
        OBVIOUS
      <4>1. IsPrefix(Gone, Aim(rest))
        BY <1>1, <2>1, <3>1, PrefixOrder
      <4> QED
        BY <2>1, <2>5, <3>1, <4>1
    <3> QED
      BY <3>1, <3>2
  <2>7. ASSUME NEW rest \in Seen
        PROVE  Done(g, rest)
    <3>1. ~IsPrefix(Gone, Aim(rest))
      BY <1>1, <2>1, <2>6, PrefixOrder
    <3> QED
      BY <1>3, <2>4, <2>6, <3>1 DEF Done
  <2>8. ASSUME NEW rest \in Seen, Found
        PROVE  Place(g, Destination) = Base
    BY <1>1, <1>2, <2>1, <2>4, <2>6, <2>8, StillFound
  <2>9. Lossless(g)
    <3> SUFFICES ASSUME NEW q \in DOMAIN before, before[q].kind = "file", ~IsPrefix(Base, q),
                        ~(q \in DOMAIN g /\ g[q] = before[q])
                 PROVE  \E rest \in Seen : q = Place(before, Source(rest)) /\ Done(g, rest)
      BY DEF Lossless
    <3>1. q \in DOMAIN fs /\ fs[q] = before[q] /\ q \in Path
      BY <1>1, TreeFacts DEF Kept
    <3>2. IsPrefix(Gone, q)
      BY <2>4, <3>1
    <3>3. PICK u \in Rests : u \in Path /\ q = Gone \o u
      BY <2>1, <3>2, NamesBelow
    <3>4. ASSUME NEW t \in Path, IsPrefix(t, u), t # u
          PROVE  ~IsLinkAt(before, Gone \o t)
      <4>1. Gone \o t \in Path /\ IsPrefix(Gone \o t, q) /\ Gone \o t # q
        BY <2>1, <3>3, <3>4, CatPrefix
      <4>2. before[Gone \o t] = Dir
        BY <1>1, <4>1, Above
      <4> QED
        BY <4>2, NodeFacts DEF IsLinkAt
    <3>5. Place(before, op.from \o u) = q
      <4>1. op.from \in Path \ {<<>>} /\ Place(before, op.from) = Gone
        BY <1>1 DEF Gone
      <4> QED
        BY <1>1, <3>3, <3>4, <4>1, Descend
    <3>6. u \in Seen
      BY <3>3, <3>5 DEF Seen, Copied, Source, Kind0
    <3> QED
      BY <2>7, <3>5, <3>6 DEF Source
  <2> QED
    BY <1>2, <2>7, <2>8, <2>9 DEF Finished
<1> QED
  BY <1>4, <1>5, <1>6

\* Nothing but the source of a move remains to be removed.
LEMMA Copies ==
  ASSUME CopyCalled, Copying(fs, <<>>)
  PROVE  Finished(fs)
<1>1. \A rest \in Seen : Done(fs, rest)
  <2>1. \A i \in 1..Len(<<>>) : FALSE
    BY Named
  <2> QED
    BY <2>1 DEF Copying
<1>2. Kept(fs) /\ IsTree(fs)
  BY DEF Copying, Kept
<1> QED
  BY <1>1, <1>2, KeptFacts, KeptLossless DEF Finished

\* What is not lost shows in the texts that are left.
LEMMA LosslessEnough ==
  ASSUME CopyCalled, IsTree(fs), Lossless(fs)
  PROVE  NothingElseLost
<1> DEFINE left == Texts(Without(fs, {Temp}))
<1>1. /\ Base \in Path /\ Base # <<>> /\ IsTree(before) /\ before \in Trees
      /\ Last(Base) \in Range(Names)
  <2>1. /\ Base \in Path /\ Base # <<>> /\ Last(Destination) \in Range(Names)
        /\ Base = Child(Real0(Parent(Destination)), Last(Destination))
    BY CallFacts
  <2>2. Last(Destination) \in Words /\ Real0(Parent(Destination)) \in Path
    BY <2>1, BaseFacts, NameFacts
  <2>3. Last(Base) \in Range(Names)
    BY <2>1, <2>2, PrefixChild
  <2> QED
    BY <2>1, <2>3 DEF CopyCalled
<1>2. Temp \notin DOMAIN before
  BY <1>1, FilesAssumption
<1>3. ~IsPrefix(Base, Temp)
  <2> SUFFICES ASSUME IsPrefix(Base, Temp)
               PROVE  FALSE
    OBVIOUS
  <2>1. Temp = Child(<<>>, "temp") /\ <<>> \in Path /\ "temp" \in Words
    <3>1. <<>> \in Path /\ "temp" \in Words
      BY Named, FilesAssumption
    <3> QED
      BY <3>1 DEF Temp, Child
  <2>2. Base = Temp \/ IsPrefix(Base, <<>>)
    BY <1>1, <2>1, PrefixChild
  <2>3. Base = Temp
    BY <1>1, <2>2, PrefixOrder
  <2>4. Last(Base) = "temp"
    BY <2>1, <2>3, PrefixChild
  <2> QED
    BY <1>1, <2>4, NameFacts
<1>4. ASSUME NEW q \in DOMAIN fs, fs[q].kind = "file", q # Temp
      PROVE  fs[q].text \in left
  BY <1>4 DEF Texts, Without
<1>5. Destination \in Goals /\ Place(before, Destination) = Base
  <2>1. <<>> \in Rests /\ Destination \o <<>> = Destination
    BY CallFacts, RestFacts, PrefixCat
  <2> QED
    BY <2>1 DEF Goals, Base
<1> HIDE DEF left
<1>6. ASSUME NEW q \in DOMAIN before, before[q].kind = "file"
      PROVE  \/ before[q].text \in left
             \/ \E to \in Goals : IsPrefix(Place(before, to), q)
             \/ op.name = "move" /\ Overlap
  <2>1. CASE q \in DOMAIN fs /\ fs[q] = before[q]
    BY <1>2, <1>4, <1>6, <2>1
  <2>2. CASE IsPrefix(Base, q)
    BY <1>5, <2>2
  <2>3. ASSUME NEW rest \in Seen, q = Place(before, Source(rest)), Done(fs, rest)
        PROVE  before[q].text \in left
    <3>1. Aim(rest) \in DOMAIN fs /\ fs[Aim(rest)] = before[q]
      BY <2>3 DEF Done
    <3>2. Aim(rest) # Temp
      BY <1>3, SeenTypes DEF Under
    <3> QED
      BY <1>4, <1>6, <3>1, <3>2
  <2> QED
    BY <1>6, <2>1, <2>2, <2>3 DEF Lossless
<1> QED
  BY <1>6 DEF NothingElseLost, left

\* Links are copied as links.
LEMMA OriginalIs ==
  ASSUME CopyCalled, NEW rest
  PROVE  Original(rest) = Place(before, Source(rest))
BY DEF Original, CopyCalled, Unlinked

\* What has been copied is found below the destination.
LEMMA FinishedFaithful ==
  ASSUME CopyCalled, Finished(fs), Found
  PROVE  CopyFaithful
<1> SUFFICES ASSUME ~Overlap, NEW rest \in Copied,
                    Kind0(Place(before, Source(rest))) = "file",
                    Place(before, Source(rest)) \notin {Real0(to) : to \in Goals}
             PROVE  /\ Leads(Target(rest))
                    /\ fs[Real(fs, Target(rest))] = before[Place(before, Source(rest))]
  BY OriginalIs DEF CopyFaithful
<1> DEFINE P == Place(before, Source(rest))
           x == Last(Source(rest))
           s == IF IsDirAt(before, Base \o rest) THEN Child(rest, x) ELSE rest
<1>1. /\ Base \in Path /\ Base # <<>> /\ IsTree(before) /\ IsTree(fs)
      /\ Destination \in Path \ {<<>>}
  BY CallFacts DEF CopyCalled, Finished
<1>2. P \in DOMAIN before /\ before[P].kind = "file"
  BY DEF Kind0
<1>3. rest \in Seen
  <2>1. ~IsPrefix(Base, P)
    BY <1>2, InGoals
  <2> QED
    BY <2>1 DEF Seen
<1>4. /\ rest \in Path /\ Aim(rest) \in DOMAIN fs /\ fs[Aim(rest)] = before[P]
      /\ Place(fs, Destination) = Base /\ x \in Words
  BY <1>3, SeenTypes DEF Finished, Done
<1>5. s \in Path /\ Base \o s = Aim(rest) /\ Target(rest) = Destination \o s
  <2>1. Real0(Destination \o rest) = Base \o rest
    <3>1. Plain(before, rest) /\ Comparable(rest, rest)
      BY <1>4, BaseFacts, PrefixOrder DEF Comparable
    <3>2. Place(before, Destination) = Base
      BY DEF Base
    <3> QED
      BY <1>1, <1>4, <3>1, <3>2, Below DEF Real0
  <2>2. Kind0(Real0(Destination \o rest)) = "dir" <=> IsDirAt(before, Base \o rest)
    BY <2>1 DEF Kind0, IsDirAt
  <2>3. CASE IsDirAt(before, Base \o rest)
    <3>1. s = Child(rest, x) /\ Aim(rest) = Child(Base \o rest, x)
      BY <2>3 DEF Aim
    <3>2. Target(rest) = Child(Destination \o rest, x)
      BY <2>2, <2>3, OriginalIs DEF Target
    <3>3. Child(rest, x) \in Path
      BY <1>4, PrefixChild
    <3>4. Base \o Child(rest, x) = Child(Base \o rest, x)
      BY <1>1, <1>4, CatChild
    <3>5. Destination \o Child(rest, x) = Child(Destination \o rest, x)
      BY <1>1, <1>4, CatChild
    <3> QED
      BY <3>1, <3>2, <3>3, <3>4, <3>5
  <2>4. CASE ~IsDirAt(before, Base \o rest)
    BY <1>4, <2>2, <2>4, OriginalIs DEF Aim, Target
  <2> QED
    BY <2>3, <2>4
<1> HIDE DEF s, P, x
<1>6. ~IsLinkAt(fs, Aim(rest))
  BY <1>2, <1>4 DEF IsLinkAt
<1>7. ASSUME NEW t \in Path, IsPrefix(t, s), t # s
      PROVE  ~IsLinkAt(fs, Base \o t)
  <2>1. Base \o t \in Path /\ IsPrefix(Base \o t, Base \o s) /\ Base \o t # Base \o s
    BY <1>1, <1>5, <1>7, CatPrefix
  <2>2. fs[Base \o t] = Dir
    BY <1>1, <1>4, <1>5, <2>1, Above
  <2> QED
    BY <2>2, NodeFacts DEF IsLinkAt
<1>8. Real(fs, Destination \o s) = Base \o s
  BY <1>1, <1>4, <1>5, <1>6, <1>7, Descend
<1> QED
  BY <1>4, <1>5, <1>8 DEF Leads, P

-----------------------------------------------------------------------------
(* Copies and moves from their call to their end                           *)

\* What is left to be done when everything has been copied.
Finale == IF op.name = "move" THEN <<Step("remove", op.from, op.from)>> ELSE <<>>
Starting == fs = before /\ agenda = <<CopyStep(op.from, op.to, op.inside)>> \o Finale
Underway == \E work : agenda = work \o Finale /\ Copying(fs, work)

CopyInv ==
  op.name \in {"copy", "move"} =>
    /\ {op.from, op.to} \subseteq Targets /\ op.inside \in BOOLEAN /\ Gone \in DOMAIN before
    /\ Unlinked =>
         /\ outcome = "running" => Starting \/ Underway \/ (agenda = <<>> /\ Finished(fs))
         /\ outcome = "done" => Finished(fs)
         /\ outcome = "error" => Lossless(fs)

\* The next state in these terms.
LEMMA CopyFrames ==
  ASSUME UNCHANGED <<op, before>>
  PROVE  /\ Finale' = Finale /\ Unlinked' = Unlinked /\ Gone' = Gone
         /\ \A work : Copying(fs', work) => Copying(fs, work)'
         /\ Finished(fs') => Finished(fs)'
         /\ Lossless(fs') => Lossless(fs)'
<1>1. Destination' = Destination
  BY DEF Destination, Kind0, Real0
<1>2. Base' = Base /\ Gone' = Gone
  BY <1>1 DEF Base, Gone
<1>3. Finale' = Finale /\ Unlinked' = Unlinked
  BY <1>2 DEF Finale, Unlinked
<1>4. \A rest : Source(rest)' = Source(rest) /\ Aim(rest)' = Aim(rest)
  BY <1>2 DEF Source, Aim
<1>5. Copied' = Copied
  BY <1>4 DEF Copied
<1>6. Seen' = Seen
  BY <1>2, <1>4, <1>5 DEF Seen, Kind0
<1>7. \A rest : Target(rest)' = Target(rest)
  BY <1>1, <1>4 DEF Target, Original, Kind0, Real0
<1>8. Overlap' = Overlap
  BY <1>1, <1>5, <1>7 DEF Overlap, Goals, Real0
<1>9. Found' = Found
  BY <1>1, <1>2 DEF Found
<1>10. \A rest : Done(fs', rest) <=> Done(fs, rest)'
  BY <1>4 DEF Done
<1>11. Lossless(fs') => Lossless(fs)'
  BY <1>2, <1>4, <1>6, <1>8, <1>10 DEF Lossless
<1>12. Finished(fs') => Finished(fs)'
  BY <1>1, <1>2, <1>6, <1>8, <1>9, <1>10, <1>11 DEF Finished
<1>13. Kept(fs') => Kept(fs)'
  BY <1>2 DEF Kept
<1>14. SameDirs(fs') => SameDirs(fs)'
  BY <1>2, <1>6 DEF SameDirs
<1>15. \A step : Rest(step)' = Rest(step) /\ (Clear(step) => Clear(step)')
  BY <1>1, <1>6 DEF Rest, Clear
<1>16. \A rest : Plain(fs', rest) => Plain(fs, rest)'
  BY <1>2 DEF Plain
<1>17. \A step : Good(fs', step) => Good(fs, step)'
  BY <1>1, <1>15, <1>16 DEF Good
<1>18. \A s, t : Apart(s, t) => Apart(s, t)'
  BY <1>15 DEF Apart
<1>19. \A step, rest : Pending(step, rest) => Pending(step, rest)'
  BY <1>15 DEF Pending
<1>20. \A work : Copying(fs', work) => Copying(fs, work)'
  BY <1>6, <1>10, <1>13, <1>14, <1>17, <1>18, <1>19 DEF Copying
<1> QED
  BY <1>2, <1>3, <1>11, <1>12, <1>20

LEMMA FinaleFacts ==
  ASSUME CopyCalled
  PROVE  /\ Finale \in Seq(Steps) /\ op.from \in Path \ {<<>>} /\ op.to \in Path
         /\ Step("remove", op.from, op.from) \in Steps
         /\ op.name # "move" => Finale = <<>>
         /\ op.name = "move" => Finale = <<Step("remove", op.from, op.from)>>
<1> DEFINE a == Step("remove", op.from, op.from)
<1>1. op.from \in Path \ {<<>>} /\ op.to \in Path
  BY CallFacts
<1>2. a \in Steps
  <2>1. "remove" \in Deeds
    BY DEF Deeds
  <2> QED
    BY <1>1, <2>1, StepFacts
<1> HIDE DEF a, Steps
<1>3. <<a>> \in Seq(Steps) /\ <<>> \in Seq(Steps)
  BY <1>2, EmptySeq
<1> QED
  BY <1>1, <1>2, <1>3 DEF Finale, a

LEMMA Front1 ==
  ASSUME IInv, CopyCalled, NEW work, agenda = work \o Finale, Copying(fs, work), work # <<>>
  PROVE  Working(work) /\ Tail(agenda) = Tail(work) \o Finale
<1>1. work \in Seq(Steps) /\ Finale \in Seq(Steps)
  BY FinaleFacts DEF Copying
<1> HIDE DEF Steps
<1>2. agenda # <<>> /\ Head(agenda) = work[1] /\ Tail(agenda) = Tail(work) \o Finale
  BY <1>1, TailCat
<1> QED
  BY <1>2 DEF Working, Now

LEMMA Advance ==
  ASSUME IInv, CopyCalled, NEW work, agenda = work \o Finale, Copying(fs, work), work # <<>>,
         Resumed(work)
  PROVE  \E w : agenda' = w \o Finale /\ Copying(fs', w)
<1>1. PICK steps \in Seq(Steps) :
        agenda' = steps \o Tail(agenda) /\ Copying(fs', steps \o Tail(work))
  BY DEF Resumed
<1>2. Tail(agenda) = Tail(work) \o Finale
  BY Front1
<1>3. /\ Finale \in Seq(Steps) /\ work \in Seq(Steps)
  BY FinaleFacts DEF Copying
<1> HIDE DEF Steps
<1>4. Tail(work) \in Seq(Steps)
  BY <1>3, TailCat
<1>5. steps \o (Tail(work) \o Finale) = (steps \o Tail(work)) \o Finale
  BY <1>3, <1>4, ConcatAssociative, SMTT(60)
<1> QED
  BY <1>1, <1>2, <1>5

LEMMA FirstStep ==
  ASSUME IInv, CopyCalled, op.inside \in BOOLEAN, Starting
  PROVE  /\ agenda \in Seq(Steps) /\ agenda # <<>> /\ Tail(agenda) = Finale
         /\ Now.do = "copy" /\ Now.from = op.from /\ Now.to = op.to /\ Now.inside = op.inside
<1> DEFINE c == CopyStep(op.from, op.to, op.inside)
<1>1. /\ Finale \in Seq(Steps) /\ op.from \in Path \ {<<>>} /\ op.to \in Path
      /\ c.do = "copy" /\ c.from = op.from /\ c.to = op.to /\ c.inside = op.inside
  BY FinaleFacts DEF CopyStep, Step
<1>2. agenda \in Seq(Steps) /\ agenda = <<c>> \o Finale
  BY DEF IInv, AgendaOK, Chain, Starting
<1>3. c \in Steps
  BY <1>1, StepFacts
<1> HIDE DEF c, Steps
<1>4. <<c>> \in Seq(Steps) /\ <<c>> # <<>> /\ <<c>>[1] = c /\ Tail(<<c>>) = <<>>
  BY <1>3, TupleFacts
<1>5. agenda # <<>> /\ Head(agenda) = c /\ Tail(agenda) = <<>> \o Finale
  BY <1>1, <1>2, <1>4, TailCat
<1>6. <<>> \o Finale = Finale
  BY <1>1, ConcatEmptySeq
<1> QED
  BY <1>1, <1>2, <1>5, <1>6 DEF Now

LEMMA FirstCopy ==
  ASSUME IInv, CopyCalled, op.inside \in BOOLEAN, Starting, DoCopy
  PROVE  /\ agenda' = <<Step("entries", op.from, Destination)>> \o Finale
         /\ \/ fs' = fs /\ is_dir(op.to) /\ Parent(Destination) = op.to
            \/ CanMakeParent(Destination) /\ fs' = WithParent(Destination)
<1>1. IsTree(fs) /\ fs = before /\ op.to \in Path /\ Last(op.from) \in Words
  BY CallFacts DEF CopyCalled, Starting
<1>2. /\ Tail(agenda) = Finale
      /\ Now.from = op.from /\ Now.to = op.to /\ Now.inside = op.inside
  BY FirstStep
<1>3. is_dir(op.to) <=> Kind0(Real0(op.to)) = "dir"
  BY <1>1 DEF is_dir, Leads, Kind0, Real0
<1>4. CopyTo = Destination
  BY <1>2, <1>3, CallFacts DEF CopyTo
<1>5. CopyTo # Now.to => is_dir(op.to) /\ Parent(Destination) = op.to
  <2>1. Parent(Child(op.to, Last(op.from))) = op.to
    BY <1>1, PrefixChild
  <2> QED
    BY <1>2, <1>4, <2>1 DEF CopyTo
<1> QED
  BY <1>2, <1>4, <1>5 DEF DoCopy, Continue

\* The copy begins.
LEMMA CopyStarts ==
  ASSUME IInv, CopyCalled, op.inside \in BOOLEAN, Starting, DoCopy
  PROVE  \E w : agenda' = w \o Finale /\ Copying(fs', w)
<1> DEFINE e == Step("entries", op.from, Destination)
           w == <<e>>
<1>1. /\ Destination \in Path /\ Destination \o <<>> = Destination /\ <<>> \in Path
      /\ op.from \in Path /\ op.from \o <<>> = op.from /\ IsTree(fs) /\ fs = before
  BY CallFacts, PrefixCat, Named DEF CopyCalled, Starting
<1>2. /\ agenda' = w \o Finale
      /\ fs' = fs \/ (CanMakeParent(Destination) /\ fs' = WithParent(Destination))
  BY FirstCopy
<1>3. /\ Kept(fs) /\ SameDirs(fs) /\ Plain(fs, <<>>)
  BY <1>1, KeptBefore, BaseFacts DEF SameDirs
<1>4. \A rest \in Seen : <<>> = rest \/ ~IsPrefix(rest, <<>>)
  BY SeenTypes, PrefixOrder
<1>5. Kept(fs') /\ SameDirs(fs') /\ Plain(fs', <<>>)
  <2>1. CASE fs' = fs
    BY <1>3, <2>1
  <2>2. CASE CanMakeParent(Destination) /\ fs' = WithParent(Destination)
    <3>1. CanMakeParent(Destination \o <<>>)
      BY <1>1, <2>2
    <3>2. LET g == WithParent(Destination \o <<>>)
          IN Kept(g) /\ SameDirs(g) /\ \A t \in Path : Plain(fs, t) => Plain(g, t)
      BY <1>1, <1>3, <1>4, <3>1, ParentSteps
    <3> QED
      BY <1>1, <1>3, <2>2, <3>2
  <2> QED
    BY <1>2, <2>1, <2>2
<1>6. e \in Steps /\ e.do = "entries" /\ e.from = op.from /\ e.to = Destination
  <2>1. "entries" \in Deeds /\ "entries" # "copy"
    BY DEF Deeds
  <2> QED
    BY <1>1, <2>1, StepFacts, FieldFacts
<1>7. \A rest \in Seen : rest \in Path
  BY SeenTypes
<1> HIDE DEF e, Steps
<1>8. Rest(e) = <<>>
  BY <1>1, <1>6, RestOf
<1>9. Good(fs', e)
  <2>1. Clear(e)
    BY <1>4, <1>6, <1>8 DEF Clear
  <2> QED
    BY <1>1, <1>5, <1>6, <1>8, <2>1 DEF Good
<1>10. w \in Seq(Steps) /\ Len(w) = 1 /\ w[1] = e
  BY <1>6
<1> HIDE DEF w
<1>11. \A rest \in Seen : Pending(w[1], rest)
  BY <1>6, <1>7, <1>8, <1>10, PrefixOrder DEF Pending
<1>12. \A i \in 1..Len(w) : i = 1
  BY <1>10
<1>13. \A i, j \in 1..Len(w) : ~(i < j)
  BY <1>10
<1>14. 1 \in 1..Len(w)
  BY <1>10
<1>15. Copying(fs', w)
  BY <1>5, <1>9, <1>10, <1>11, <1>12, <1>13, <1>14 DEF Copying
<1> QED
  BY <1>2, <1>15

LEMMA Resumes ==
  ASSUME NEW work, Working(work), Next, outcome = "running", ~StepFails
  PROVE  outcome' = outcome /\ Resumed(work)
<1>1. Now.do \in {"copy", "entries", "stat", "file", "link", "remove", "symlink"} /\ agenda # <<>>
  BY NowGood DEF Good, Working
<1>2. Resumed(work)
  BY <1>1, Allowed, CopyGoes, EntriesGoes, StatGoes, FileGoes, LinkGoes, SymlinkGoes,
     RemoveGoes
<1>3. outcome' = outcome
  BY <1>1, Allowed DEF DoCopy, DoEntries, DoStat, DoFile, DoLink, DoSymlink, DoRemove, Continue
<1> QED
  BY <1>2, <1>3

\* A step while files are copied.
LEMMA CopyingSteps ==
  ASSUME IInv, CopyCalled, NEW work, agenda = work \o Finale, Copying(fs, work), work # <<>>,
         Next, outcome = "running"
  PROVE  \/ StepFails /\ Lossless(fs')
         \/ outcome' = outcome /\ \E w : agenda' = w \o Finale /\ Copying(fs', w)
<1>1. Working(work) /\ agenda # <<>>
  BY Front1 DEF Working
<1>2. /\ Kept(fs) /\ Good(fs, Now)
  BY <1>1, NowGood
<1>3. Now.do \in {"copy", "entries", "stat", "file", "link", "remove", "symlink"}
  BY <1>2 DEF Good
<1>4. ASSUME ~StepFails
      PROVE  outcome' = outcome /\ Resumed(work)
  BY <1>1, <1>4, Resumes
<1>5. ASSUME StepFails
      PROVE  Lossless(fs')
  <2>1. Partly
    BY <1>5 DEF StepFails
  <2>2. CASE UNCHANGED fs
    BY <1>2, <2>2, KeptLossless
  <2>3. CASE /\ Now.do = "file" /\ CanCopyFile
             /\ fs' = With(fs, {Real(fs, CopyTarget)}, File(<<>>))
    <3>1. <<>> \in Lines
      BY NodeFacts
    <3>2. Kept(fs')
      BY <1>1, <2>3, <3>1, FileWrites
    <3> QED
      BY <3>2, KeptLossless
  <2>4. CASE Now.do = "remove" /\ Now.from # <<>> /\ fs' \in Removals(Now.from)
    BY <1>1, <2>4, Removes, KeptLossless
  <2> QED
    BY <1>3, <2>1, <2>2, <2>3, <2>4 DEF Partly
<1> QED
  BY <1>4, <1>5, Advance

\* The last step of a move.
LEMMA RemovingStep ==
  ASSUME IInv, CopyCalled, agenda = <<>> \o Finale, agenda # <<>>, Copying(fs, <<>>),
         Next, outcome = "running"
  PROVE  /\ Finished(fs')
         /\ StepFails \/ (outcome' = outcome /\ agenda' = <<>>)
<1> DEFINE a == Step("remove", op.from, op.from)
<1>1. /\ Finale \in Seq(Steps) /\ a \in Steps /\ op.from # <<>>
      /\ op.name # "move" => Finale = <<>>
      /\ op.name = "move" => Finale = <<a>>
  BY FinaleFacts
<1>2. a.do = "remove" /\ a.from = op.from
  BY FieldFacts
<1> HIDE DEF a, Steps
<1>3. <<>> \o Finale = Finale
  BY <1>1, ConcatEmptySeq
<1>4. op.name = "move" /\ agenda = <<a>>
  BY <1>1, <1>3
<1>5. Now = a /\ Tail(agenda) = <<>>
  BY <1>1, <1>4, TupleFacts DEF Now
<1>6. StepFails \/ DoRemove
  BY <1>2, <1>5, Allowed
<1>7. CASE DoRemove
  <2>1. /\ fs' \in Removals(op.from) /\ outcome' = outcome
        /\ agenda' = <<>> \o Tail(agenda)
    BY <1>2, <1>5, <1>7 DEF DoRemove, Continue
  <2>2. agenda' = <<>>
    BY <1>1, <1>5, <2>1, TupleFacts
  <2> QED
    BY <1>4, <2>1, <2>2, Removing
<1>8. CASE StepFails
  <2>1. Partly
    BY <1>8 DEF StepFails
  <2>2. CASE UNCHANGED fs
    <3>1. Finished(fs)
      BY Copies
    <3> QED
      BY <1>8, <2>2, <3>1
  <2>3. CASE fs' \in Removals(op.from)
    <3>1. Finished(fs')
      BY <1>4, <2>3, Removing
    <3> QED
      BY <1>8, <3>1
  <2> QED
    BY <1>2, <1>5, <1>8, <2>1, <2>2, <2>3 DEF Partly
<1> QED
  BY <1>6, <1>7, <1>8

LEMMA CopyOn ==
  ASSUME CopyInv, UNCHANGED <<op, before>>,
         op.name \in {"copy", "move"} /\ Unlinked =>
           /\ outcome' = "running" =>
                \/ fs' = before /\ agenda' = <<CopyStep(op.from, op.to, op.inside)>> \o Finale
                \/ \E work : agenda' = work \o Finale /\ Copying(fs', work)
                \/ agenda' = <<>> /\ Finished(fs')
           /\ outcome' = "done" => Finished(fs')
           /\ outcome' = "error" => Lossless(fs')
  PROVE  CopyInv'
<1> SUFFICES ASSUME op.name \in {"copy", "move"}
             PROVE  /\ {op.from, op.to} \subseteq Targets /\ op.inside \in BOOLEAN
                    /\ Gone' \in DOMAIN before
                    /\ Unlinked' =>
                         /\ outcome' = "running" =>
                              Starting' \/ Underway' \/ (agenda' = <<>> /\ Finished(fs)')
                         /\ outcome' = "done" => Finished(fs)'
                         /\ outcome' = "error" => Lossless(fs)'
  BY DEF CopyInv
<1>1. /\ Finale' = Finale /\ Unlinked' = Unlinked /\ Gone' = Gone
      /\ \A work : Copying(fs', work) => Copying(fs, work)'
      /\ Finished(fs') => Finished(fs)'
      /\ Lossless(fs') => Lossless(fs)'
  BY CopyFrames
<1>2. /\ {op.from, op.to} \subseteq Targets /\ op.inside \in BOOLEAN /\ Gone \in DOMAIN before
  BY DEF CopyInv
<1>3. fs' = before /\ agenda' = <<CopyStep(op.from, op.to, op.inside)>> \o Finale => Starting'
  BY <1>1 DEF Starting
<1>4. (\E work : agenda' = work \o Finale /\ Copying(fs', work)) => Underway'
  BY <1>1 DEF Underway
<1> QED
  BY <1>1, <1>2, <1>3, <1>4

LEMMA Paired ==
  ASSUME NEW a \in Steps, NEW b \in Steps
  PROVE  <<a>> \o <<b>> = <<a, b>>
<1> DEFINE s == <<a>>
           t == <<b>>
           c == s \o t
           d == <<a, b>>
<1> HIDE DEF Steps
<1>1. /\ s \in Seq(Steps) /\ Len(s) = 1 /\ s[1] = a
      /\ t \in Seq(Steps) /\ Len(t) = 1 /\ t[1] = b
      /\ d \in Seq(Steps) /\ Len(d) = 2 /\ d[1] = a /\ d[2] = b
  OBVIOUS
<1> HIDE DEF s, t, d
<1>2. /\ s \o t \in Seq(Steps) /\ Len(s \o t) = Len(s) + Len(t)
      /\ \A k \in 1..Len(s) + Len(t) : (s \o t)[k] =
           IF k <= Len(s) THEN s[k] ELSE t[k - Len(s)]
  BY <1>1, ConcatProperties
<1> HIDE DEF c
<1>3. c \in Seq(Steps) /\ Len(c) = 2 /\ \A k \in 1..2 : c[k] = IF k <= 1 THEN s[k] ELSE t[k - 1]
  BY <1>1, <1>2 DEF c
<1>4. c[1] = a /\ c[2] = b
  BY <1>1, <1>3
<1>5. \A k \in 1..Len(c) : c[k] = d[k]
  <2>1. \A k \in 1..2 : k = 1 \/ k = 2
    OBVIOUS
  <2> QED
    BY <1>1, <1>3, <1>4, <2>1
<1>6. c = d
  BY <1>1, <1>3, <1>5, SeqEqual
<1> QED
  BY <1>6 DEF c, s, t, d

LEMMA CopyCalls ==
  ASSUME IInv, outcome = "ready", Called
  PROVE  /\ CopyInv'
         /\ op'.name \in {"copy", "move"} => outcome' = "running" /\ Starting'
<1> DEFINE Ready == /\ CopyInv'
                    /\ op'.name \in {"copy", "move"} => outcome' = "running" /\ Starting'
<1>1. fs = before
  BY DEF IInv, AgendaOK
<1>2. ASSUME op'.name \notin {"copy", "move"}
      PROVE  Ready
  BY <1>2 DEF CopyInv
<1>3. ASSUME NEW from \in Targets, NEW to \in Targets, NEW inside \in BOOLEAN,
             NEW symlinks \in BOOLEAN,
             copy(from, to, inside, symlinks) \/ move(from, to, inside)
      PROVE  Ready
  <2> DEFINE name == op'.name
  <2>2. /\ exists(from) /\ outcome' = "running" /\ UNCHANGED <<fs, before>>
        /\ agenda' = IF name = "move"
                     THEN <<CopyStep(from, to, inside), Step("remove", from, from)>>
                     ELSE <<CopyStep(from, to, inside)>>
    BY <1>3, CopyOrMove DEF CopyThenRemove
  <2>4. /\ name \in {"copy", "move"} /\ op'.from = from /\ op'.to = to /\ op'.inside = inside
    BY <1>3, CopyOrMove
  <2>5. from \in Path \ {<<>>} /\ to \in Path
    BY NameFacts
  <2> DEFINE a == CopyStep(from, to, inside)
             b == Step("remove", from, from)
  <2>6. a \in Steps /\ b \in Steps
    <3>1. "remove" \in Deeds
      BY DEF Deeds
    <3> QED
      BY <2>5, <3>1, StepFacts
  <2>7. Finale' = IF name = "move" THEN <<b>> ELSE <<>>
    BY <2>4 DEF Finale
  <2>8. agenda' = <<a>> \o Finale'
    <3> HIDE DEF a, b, Steps
    <3>1. <<a>> \o <<b>> = <<a, b>>
      BY <2>6, Paired
    <3>2. <<a>> \o <<>> = <<a>>
      BY <2>6, TupleFacts
    <3> QED
      BY <2>2, <2>7, <3>1, <3>2 DEF a, b
  <2>9. Starting'
    BY <1>1, <2>2, <2>4, <2>8 DEF Starting
  <2>10. Gone' \in DOMAIN before'
    BY <1>1, <2>2, <2>4 DEF Gone, exists
  <2> QED
    BY <2>2, <2>4, <2>9, <2>10 DEF CopyInv
<1>4. ASSUME NEW name, name \notin {"copy", "move"}, NEW from, NEW to, NEW inside, NEW count,
             NEW steps, Call(Operation(name, from, to, inside, count), steps)
      PROVE  Ready
  <2>1. Operation(name, from, to, inside, count).name = name
    BY DEF Operation
  <2> QED
    BY <1>2, <1>4, <2>1 DEF Call
<1>5. ASSUME NEW path \in Targets, NEW to \in Targets, make_link(path, to) \/ concatenate(path, to)
      PROVE  Ready
  BY <1>4, <1>5 DEF make_link, concatenate
<1>6. ASSUME NEW path \in Targets, remove(path) \/ touch(path) \/ await_exists(path)
      PROVE  Ready
  BY <1>4, <1>6 DEF remove, touch, await_exists
<1>7. ASSUME NEW path \in Targets, write_lines(path) \/ append_lines(path)
      PROVE  Ready
  BY <1>4, <1>7 DEF write_lines, append_lines
<1>8. ASSUME NEW path \in Targets, prepend_lines(path) \/ replace_in_file(path)
      PROVE  Ready
  BY <1>4, <1>8 DEF prepend_lines, replace_in_file
<1>9. ASSUME NEW path \in Targets, NEW count \in 0..2, tail_lines(path, count)
      PROVE  Ready
  BY <1>4, <1>9 DEF tail_lines
<1>10. ASSUME NEW path \in Targets, NEW n \in DOMAIN Names, rename_archive(path, Names[n])
       PROVE  Ready
  BY <1>4, <1>10 DEF rename_archive
<1> QED
  BY <1>3, <1>5, <1>6, <1>7, <1>8, <1>9, <1>10 DEF Called

LEMMA CopyNext ==
  ASSUME IInv, CopyInv, EntryInv, [Next]_vars
  PROVE  CopyInv'
<1>1. CASE UNCHANGED <<fs, op, agenda, outcome, before>>
  BY <1>1, CopyOn DEF CopyInv, Starting, Underway
<1>2. CASE UNCHANGED vars
  BY <1>1, <1>2 DEF vars
<1>3. CASE Next /\ outcome = "ready"
  BY <1>3, Turns, CopyCalls
<1>4. CASE Next /\ outcome \in {"done", "error"}
  BY <1>4, Turns, <1>2
<1>5. CASE Next /\ outcome = "running"
  <2>1. \/ agenda = <<>> /\ Finish
        \/ agenda # <<>> /\ UNCHANGED <<op, before>> /\ (outcome' = outcome \/ outcome' = "error")
    BY <1>5, Allowed
  <2>2. UNCHANGED <<op, before>>
    BY <2>1 DEF Finish
  <2>3. CASE op.name \notin {"copy", "move"} \/ ~Unlinked
    BY <2>2, <2>3, CopyOn
  <2>4. CASE op.name \in {"copy", "move"} /\ Unlinked
    <3>1. CopyCalled /\ op.inside \in BOOLEAN
      BY <2>4 DEF CopyCalled, CopyInv, IInv, TypeOK, AgendaOK, Gone
    <3>2. Starting \/ Underway \/ (agenda = <<>> /\ Finished(fs))
      BY <1>5, <2>4 DEF CopyInv
    <3>3. ASSUME outcome' = outcome, \E w : agenda' = w \o Finale /\ Copying(fs', w)
          PROVE  CopyInv'
      BY <1>5, <2>2, <3>3, CopyOn
    <3>4. ASSUME StepFails, Lossless(fs')
          PROVE  CopyInv'
      <4>1. outcome' = "error"
        BY <3>4 DEF StepFails, Fail
      <4> QED
        BY <2>2, <3>4, <4>1, CopyOn
    <3>5. CASE Starting
      <4>1. agenda # <<>> /\ Now.do = "copy"
        BY <3>1, <3>5, FirstStep
      <4>2. StepFails \/ DoCopy
        BY <1>5, <4>1, Allowed
      <4>3. CASE DoCopy
        <5>1. outcome' = outcome
          BY <4>3 DEF DoCopy, Continue
        <5> QED
          BY <3>1, <3>3, <3>5, <4>3, <5>1, CopyStarts
      <4>4. CASE StepFails
        <5>1. fs' = fs
          BY <4>1, <4>4 DEF StepFails, Partly
        <5>2. Lossless(fs')
          BY <3>1, <3>5, <5>1, KeptBefore, KeptLossless DEF Starting
        <5> QED
          BY <3>4, <4>4, <5>2
      <4> QED
        BY <4>2, <4>3, <4>4
    <3>6. ASSUME NEW work, agenda = work \o Finale, Copying(fs, work)
          PROVE  CopyInv'
      <4>1. CASE work # <<>>
        BY <1>5, <3>1, <3>3, <3>4, <3>6, <4>1, CopyingSteps
      <4>2. CASE work = <<>> /\ agenda # <<>>
        <5>1. /\ Finished(fs')
              /\ StepFails \/ (outcome' = outcome /\ agenda' = <<>>)
          BY <1>5, <3>1, <3>6, <4>2, RemovingStep
        <5>2. CASE StepFails
          BY <3>4, <5>1, <5>2 DEF Finished
        <5>3. CASE outcome' = outcome /\ agenda' = <<>>
          BY <1>5, <2>2, <5>1, <5>3, CopyOn
        <5> QED
          BY <5>1, <5>2, <5>3
      <4>3. CASE work = <<>> /\ agenda = <<>>
        <5>1. Finished(fs) /\ Finish
          BY <2>1, <3>1, <3>6, <4>3, Copies
        <5> QED
          BY <2>2, <5>1, CopyOn DEF Finish
      <4> QED
        BY <4>1, <4>2, <4>3
    <3>7. CASE agenda = <<>> /\ Finished(fs)
      BY <2>1, <2>2, <3>7, CopyOn DEF Finish
    <3> QED
      BY <3>2, <3>5, <3>6, <3>7 DEF Underway
  <2> QED
    BY <2>3, <2>4
<1>6. outcome \in {"ready", "running", "done", "error"}
  BY DEF IInv, TypeOK
<1> QED
  BY <1>2, <1>3, <1>4, <1>5, <1>6

LEMMA CopyHolds ==
  ASSUME IInv, EntryInv, CopyInv, op.name \in {"copy", "move"}, Unlinked
  PROVE  /\ NothingElseLost
         /\ Found => CopyFaithful
<1>1. CopyCalled /\ IsTree(fs) /\ outcome # "ready"
  BY DEF CopyCalled, CopyInv, IInv, TypeOK, AgendaOK, Gone, EntryInv
<1>2. Lossless(fs)
  <2>1. CASE outcome = "running"
    <3>1. CASE Starting
      BY <1>1, <3>1, KeptBefore, KeptLossless DEF Starting
    <3>2. CASE Underway
      BY <3>2, KeptLossless DEF Underway, Copying
    <3>3. CASE Finished(fs)
      BY <3>3 DEF Finished
    <3> QED
      BY <2>1, <3>1, <3>2, <3>3 DEF CopyInv
  <2>2. CASE outcome \in {"done", "error"}
    BY <2>2 DEF CopyInv, Finished
  <2> QED
    BY <1>1, <2>1, <2>2 DEF IInv, TypeOK
<1>3. NothingElseLost
  BY <1>1, <1>2, LosslessEnough
<1>4. CASE outcome = "done" /\ Found
  BY <1>1, <1>3, <1>4, FinishedFaithful DEF CopyInv
<1>5. CASE outcome # "done"
  BY <1>3, <1>5 DEF CopyFaithful
<1> QED
  BY <1>3, <1>4, <1>5

-----------------------------------------------------------------------------
(* A move to a place that is reached through its source                    *)

\* A file system that has lost its links of a region leads elsewhere only along one of
\* these, or where a link goes round.
Lost(f, g, R) ==
  \A q \in Path : /\ IsLinkAt(g, q) <=> IsLinkAt(f, q) /\ q \notin R
                  /\ IsLinkAt(g, q) => g[q].to = f[q].to

LEMMA Detour ==
  ASSUME NEW f, IsTree(f), NEW g, NEW R, Lost(f, g, R), NEW p \in Path
  PROVE  \/ Follow(g, p) = Follow(f, p)
         \/ IsLinkAt(f, p) /\ Follow(f, p) = Nowhere
         \/ \E q \in Path \cap R : IsLinkAt(f, q) /\ Follow(f, q) = Follow(f, p)
<1> DEFINE nf(q) == IF IsLinkAt(f, q) THEN f[q].to ELSE q
           ng(q) == IF IsLinkAt(g, q) THEN g[q].to ELSE q
           a == nf(p)
           b == nf(a)
           c == nf(b)
<1>1. /\ \A q : Follow(f, q) = IF IsLinkAt(f, nf(nf(nf(q)))) THEN Nowhere ELSE nf(nf(nf(q)))
      /\ Follow(g, p) = IF IsLinkAt(g, ng(ng(ng(p)))) THEN Nowhere ELSE ng(ng(ng(p)))
  BY DEF Follow
<1>2. \A q \in Path : nf(q) \in Path
  BY TreeFacts DEF IsLinkAt
<1>3. \A q \in Path : ~IsLinkAt(f, q) \/ q \notin R => ng(q) = nf(q)
  BY DEF Lost
<1>4. \A q \in Path : ~IsLinkAt(f, q) => nf(q) = q
  OBVIOUS
<1> HIDE DEF nf, ng
<1>5. a \in Path /\ b \in Path /\ c \in Path
  BY <1>2
<1>6. CASE IsLinkAt(f, c)
  <2>1. IsLinkAt(f, p)
    BY <1>4, <1>6
  <2> QED
    BY <1>1, <1>6, <2>1
<1>7. CASE ~IsLinkAt(f, c)
  <2>1. Follow(f, p) = c /\ nf(c) = c
    BY <1>1, <1>4, <1>5, <1>7
  <2>2. Follow(f, a) = c /\ Follow(f, b) = c
    BY <1>1, <1>7, <2>1
  <2>3. CASE \E q \in {p, a, b} : IsLinkAt(f, q) /\ q \in R
    BY <1>5, <2>1, <2>2, <2>3
  <2>4. CASE \A q \in {p, a, b} : ~IsLinkAt(f, q) \/ q \notin R
    <3>1. ng(p) = a /\ ng(a) = b /\ ng(b) = c
      BY <1>3, <1>5, <2>4
    <3>2. ~IsLinkAt(g, c)
      BY <1>5, <1>7 DEF Lost
    <3> QED
      BY <1>1, <2>1, <3>1, <3>2
  <2> QED
    BY <2>3, <2>4
<1> QED
  BY <1>6, <1>7

\* Two paths that lead to one place go on alike.
LEMMA Alike ==
  ASSUME NEW f, IsTree(f), NEW s \in Path, NEW t \in Path, Real(f, s) = Real(f, t),
         NEW u \in Path
  PROVE  /\ Real(f, s \o u) = Real(f, t \o u)
         /\ u # <<>> => Place(f, s \o u) = Place(f, t \o u)
<1> DEFINE T == {v \in Path : Real(f, s \o v) = Real(f, t \o v)}
<1>1. <<>> \in T
  BY PrefixCat, Named
<1>2. ASSUME NEW v \in Path, NEW x \in Words, v \in T
      PROVE  /\ Child(v, x) \in T
             /\ Place(f, s \o Child(v, x)) = Place(f, t \o Child(v, x))
  <2>1. s \o Child(v, x) = Child(s \o v, x) /\ t \o Child(v, x) = Child(t \o v, x)
    BY CatChild
  <2>2. s \o v \in Path /\ t \o v \in Path /\ Child(v, x) \in Path
        /\ s \o Child(v, x) \in Path /\ t \o Child(v, x) \in Path
    BY PrefixCat, PrefixChild
  <2>3. Place(f, s \o Child(v, x)) = Place(f, t \o Child(v, x))
    BY <1>2, <2>1, <2>2, PlaceChild
  <2>4. Real(f, s \o Child(v, x)) = Real(f, t \o Child(v, x))
    BY <2>2, <2>3, RealFacts
  <2> QED
    BY <2>2, <2>3, <2>4
<1> HIDE DEF T
<1>3. \A v \in Path : IsPrefix(v, u) => v \in T
  BY <1>1, <1>2, Onward
<1>4. u # <<>> => Place(f, s \o u) = Place(f, t \o u)
  <2>1. u # <<>> => Parent(u) \in Path /\ Last(u) \in Words /\ u = Child(Parent(u), Last(u))
                    /\ IsPrefix(Parent(u), u)
    BY PrefixChild
  <2> QED
    BY <1>2, <1>3, <2>1
<1> QED
  BY <1>3, <1>4, PrefixOrder DEF T

LEMMA AlikeFrom ==
  ASSUME NEW f, IsTree(f), NEW a \in Path, NEW s \in Path, NEW t \in Path,
         Real(f, a \o s) = Real(f, t), NEW u \in Path, u # <<>>
  PROVE  Place(f, a \o (s \o u)) = Place(f, t \o u)
<1>1. a \o s \in Path
  BY CatPath
<1>2. (a \o s) \o u = a \o (s \o u)
  BY CatAgain
<1>3. Place(f, (a \o s) \o u) = Place(f, t \o u)
  BY <1>1, Alike
<1> QED
  BY <1>2, <1>3

\* When the parent of a path has been made, it is there.
LEMMA ParentThere ==
  ASSUME IsTree(fs), NEW path \in Path \ {<<>>}, CanMakeParent(path)
  PROVE  Place(WithParent(path), Parent(path)) \in DOMAIN WithParent(path)
<1> DEFINE p == Parent(path)
           g == WithParent(path)
<1>1. p \in Path /\ IsTree(g) /\ SameLinks(fs, g)
  BY PrefixChild, ParentMade
<1>2. CASE exists(p)
  BY <1>2 DEF WithParent, exists
<1>3. CASE ~exists(p)
  <2>1. Place(g, p) = Place(fs, p) /\ Real(fs, p) = Place(fs, p)
    <3>1. Place(fs, p) \in Path /\ ~IsLinkAt(fs, Place(fs, p))
      BY <1>1, <1>3, RealFacts, Named DEF exists, IsLinkAt
    <3> QED
      BY <1>1, <3>1, SameReal, RealFacts, FollowFacts
  <2>2. p \in Ancestors(path)
    <3>1. /\ p = SubSeq(path, 1, Len(path) - 1)
          /\ Len(path) - 1 \in 0..Len(path) - 1
      BY PathShape
    <3> HIDE DEF p
    <3> QED
      BY <3>1 DEF Ancestors
  <2>3. Real(fs, p) \in DOMAIN g
    BY <1>3, <2>2 DEF WithParent, With
  <2> QED
    BY <2>1, <2>3
<1> QED
  BY <1>2, <1>3

\* Paths of names that list_dir finds.
Proper == {u \in Path : \A k \in 1..Len(u) : u[k] \in Range(Names)}

LEMMA ProperFacts ==
  /\ Targets \subseteq Proper /\ Rests \subseteq Proper
  /\ \A s, t \in Proper : s \o t \in Proper
  /\ \A s, t \in Path : s \o t \in Proper => t \in Proper
  /\ \A s \in Path, x \in Words : Child(s, x) \in Proper <=> s \in Proper /\ x \in Range(Names)
  /\ \A s \in Path, t \in Proper : IsPrefix(s, t) => s \in Proper
<1>1. Targets \subseteq Proper /\ Rests \subseteq Proper
  <2>1. Targets \subseteq Seq(Range(Names)) /\ Targets \subseteq Path
    BY NameFacts
  <2>2. \A u \in Seq(Range(Names)) : \A k \in 1..Len(u) : u[k] \in Range(Names)
    OBVIOUS
  <2> QED
    BY <2>1, <2>2, RestFacts DEF Proper
<1>2. ASSUME NEW s \in Path, NEW t \in Path
      PROVE  s \o t \in Proper <=> s \in Proper /\ t \in Proper
  <2> DEFINE c == s \o t
  <2>1. /\ c \in Path /\ Len(c) = Len(s) + Len(t) /\ Len(s) \in Nat /\ Len(t) \in Nat
        /\ \A k \in 1..Len(s) : c[k] = s[k]
        /\ \A k \in 1..Len(t) : c[Len(s) + k] = t[k]
    BY NamedCat, Named
  <2> HIDE DEF c
  <2>2. ASSUME c \in Proper
        PROVE  s \in Proper /\ t \in Proper
    <3>1. \A k \in 1..Len(s) : k \in 1..Len(c)
      BY <2>1
    <3>2. \A k \in 1..Len(t) : Len(s) + k \in 1..Len(c)
      BY <2>1
    <3> QED
      BY <2>1, <2>2, <3>1, <3>2 DEF Proper
  <2>3. ASSUME s \in Proper, t \in Proper
        PROVE  c \in Proper
    <3> SUFFICES ASSUME NEW k \in 1..Len(c)
                 PROVE  c[k] \in Range(Names)
      BY <2>1 DEF Proper
    <3>1. CASE k \in 1..Len(s)
      BY <2>1, <2>3, <3>1 DEF Proper
    <3>2. CASE k - Len(s) \in 1..Len(t)
      <4>1. c[Len(s) + (k - Len(s))] = t[k - Len(s)] /\ Len(s) + (k - Len(s)) = k
        BY <2>1, <3>2
      <4> QED
        BY <2>3, <3>2, <4>1 DEF Proper
    <3> QED
      BY <2>1, <3>1, <3>2
  <2> QED
    BY <2>2, <2>3 DEF c
<1>3. ASSUME NEW s \in Path, NEW x \in Words
      PROVE  Child(s, x) \in Proper <=> s \in Proper /\ x \in Range(Names)
  <2>1. /\ Child(s, x) \in Path /\ Len(Child(s, x)) = Len(s) + 1 /\ Len(s) \in Nat
        /\ Child(s, x) # <<>> /\ Parent(Child(s, x)) = s /\ Last(Child(s, x)) = x
    BY ChildShape, PrefixChild, Named
  <2> DEFINE c == Child(s, x)
  <2>2. (\A k \in 1..Len(s) : c[k] = s[k]) /\ c[Len(s) + 1] = x
    <3> HIDE DEF c
    <3>1. /\ \A k \in 1..Len(c) - 1 : Parent(c)[k] = c[k]
          /\ Last(c) = c[Len(c)]
      BY <2>1, PathShape DEF c
    <3> QED
      BY <2>1, <3>1 DEF c
  <2> HIDE DEF c
  <2>3. \A k \in 1..Len(s) + 1 : k \in 1..Len(s) \/ k = Len(s) + 1
    BY <2>1
  <2>4. Len(s) + 1 \in 1..Len(s) + 1 /\ \A k \in 1..Len(s) : k \in 1..Len(s) + 1
    BY <2>1
  <2> QED
    BY <2>1, <2>2, <2>3, <2>4 DEF c, Proper
<1>4. \A s, t \in Proper : s \o t \in Proper
  BY <1>2 DEF Proper
<1>5. \A s \in Path, t \in Proper : IsPrefix(s, t) => s \in Proper
  BY <1>2, PrefixCat DEF Proper
<1> QED
  BY <1>1, <1>2, <1>3, <1>4, <1>5

\* On the way to the destination there is an entry that leads nowhere.
Broken ==
  \E c \in Path : /\ IsPrefix(c, Destination) /\ c # Destination
                  /\ Place(before, c) \in DOMAIN before /\ Real0(c) \notin DOMAIN before

\* The destination is reached through the source: by names t from the root, or s from the
\* source, and d from there.
Loop(s, t, d) ==
  /\ s \in Path /\ t \in Path /\ d \in Path \ {<<>>} /\ s \o d \in Proper
  /\ Destination = t \o d
  /\ Place(before, op.from \o s) \in DOMAIN before \ Under
  /\ Real0(op.from \o s) = Real0(t)

LEMMA LoopIf ==
  ASSUME CopyCalled, op.name = "move", ~Found
  PROVE  Broken \/ \E s, t, d : Loop(s, t, d)
<1> DEFINE f == Without(before, Within(before, Gone))
           R == {q \in Path : IsPrefix(Gone, q)}
           e == Parent(Destination)
           x == Last(Destination)
           T == {t \in Path : Real(f, t) = Real0(t)}
<1>1. /\ IsTree(before) /\ before \in Trees /\ Gone \in DOMAIN before
      /\ op.from \in Path \ {<<>>} /\ Destination \in Path \ {<<>>}
  BY CallFacts DEF CopyCalled, Gone
<1>2. Gone \in Path \ {<<>>}
  BY <1>1, RealFacts DEF Gone
<1>3. /\ IsTree(f)
      /\ \A q \in DOMAIN f : ~IsPrefix(Gone, q) /\ q \in DOMAIN before /\ f[q] = before[q]
      /\ \A q \in DOMAIN before : ~IsPrefix(Gone, q) => q \in DOMAIN f
  BY <1>1, <1>2, WithoutFacts
<1>4. Place(f, Destination) # Base
  BY DEF Found
<1> HIDE DEF f
<1>5. e \in Path /\ x \in Words /\ Destination = Child(e, x) /\ IsPrefix(e, Destination)
  BY <1>1, PrefixChild
<1> HIDE DEF e, x
<1>6. Real(f, e) # Real0(e)
  <2>1. Place(f, Destination) = Child(Real(f, e), x)
    BY <1>3, <1>5, PlaceChild
  <2>2. Base = Child(Real0(e), x)
    BY <1>1, <1>5, PlaceChild DEF Base, Real0
  <2> QED
    BY <1>4, <2>1, <2>2
<1>7. Lost(before, f, R)
  BY <1>3 DEF IsLinkAt, Lost
<1>8. <<>> \in T
  BY <1>1, <1>3, Named, RealFacts DEF Real0
<1>9. PICK t \in Path, y \in Words : IsPrefix(Child(t, y), e) /\ t \in T /\ Child(t, y) \notin T
  <2> HIDE DEF T
  <2>1. ASSUME \A t \in Path, y \in Words : IsPrefix(Child(t, y), e) /\ t \in T => Child(t, y) \in T
        PROVE  FALSE
    <3>1. \A t \in Path : IsPrefix(t, e) => t \in T
      BY <1>5, <1>8, <2>1, Onward
    <3> QED
      BY <1>5, <1>6, <3>1, PrefixOrder DEF T
  <2> QED
    BY <2>1
<1> DEFINE c == Child(t, y)
           p == Child(Real0(t), y)
<1>10. c \in Path /\ IsPrefix(c, Destination) /\ c # Destination
  <2>1. c \in Path
    BY PrefixChild
  <2>2. ~IsPrefix(Destination, e)
    BY <1>5, PrefixChild
  <2> QED
    BY <1>1, <1>5, <1>9, <2>1, <2>2, PrefixOrder
<1>11. /\ p \in Path /\ Place(before, c) = p
       /\ Real0(c) = Follow(before, p) /\ Real(f, c) = Follow(f, p)
  <2>1. /\ Place(before, c) = Child(Real(before, t), y) /\ Real(before, t) \in Path
        /\ Place(f, c) = Child(Real(f, t), y)
    BY <1>1, <1>3, PlaceChild
  <2>2. Place(f, c) = p /\ Place(before, c) = p
    BY <1>9, <2>1 DEF Real0
  <2>3. p \in Path
    BY <2>1, PrefixChild DEF Real0
  <2> HIDE DEF c, p
  <2> QED
    BY <1>1, <1>3, <1>10, <2>2, <2>3, RealFacts DEF Real0
<1>12. Follow(f, p) # Follow(before, p)
  BY <1>9, <1>10, <1>11
<1> HIDE DEF c, p, R
<1>13. \/ IsLinkAt(before, p) /\ Follow(before, p) = Nowhere
       \/ \E q \in Path \cap R : IsLinkAt(before, q) /\ Follow(before, q) = Follow(before, p)
  <2>1. p \in Path /\ IsTree(before)
    BY <1>1, <1>11
  <2>2. \/ Follow(f, p) = Follow(before, p)
        \/ IsLinkAt(before, p) /\ Follow(before, p) = Nowhere
        \/ \E q \in Path \cap R : IsLinkAt(before, q) /\ Follow(before, q) = Follow(before, p)
    BY <1>7, <2>1, Detour
  <2> QED
    BY <1>12, <2>2
<1>14. CASE IsLinkAt(before, p) /\ Follow(before, p) = Nowhere
  <2>1. Nowhere \notin DOMAIN before
    BY <1>1, FilesAssumption
  <2> QED
    BY <1>10, <1>11, <1>14, <2>1 DEF Broken, IsLinkAt
<1>15. ASSUME NEW q \in Path \cap R, IsLinkAt(before, q), Follow(before, q) = Follow(before, p)
       PROVE  \E s, u, d : Loop(s, u, d)
  <2>1. q \in DOMAIN before /\ IsPrefix(Gone, q)
    BY <1>15 DEF IsLinkAt, R
  <2>2. PICK s \in Rests : s \in Path /\ q = Gone \o s
    BY <1>2, <2>1, NamesBelow
  <2>3. PICK d \in Path : Destination = c \o d
    BY <1>1, <1>10, PrefixCat
  <2>4. d # <<>>
    BY <1>10, <2>3, PrefixCat
  <2>5. Place(before, op.from \o s) = q
    <3>1. \A u \in Path : IsPrefix(u, s) /\ u # s => ~IsLinkAt(before, Gone \o u)
      <4> SUFFICES ASSUME NEW u \in Path, IsPrefix(u, s), u # s
                   PROVE  ~IsLinkAt(before, Gone \o u)
        OBVIOUS
      <4>1. IsPrefix(Gone \o u, q) /\ Gone \o u # q /\ Gone \o u \in Path
        BY <1>2, <2>2, CatPrefix
      <4>2. before[Gone \o u] = Dir
        BY <1>1, <2>1, <4>1, Above
      <4> QED
        BY <4>2, NodeFacts DEF IsLinkAt
    <3> QED
      BY <1>1, <2>2, <3>1, Descend DEF Gone
  <2>6. op.from \o s \in Path
    BY <1>1, <2>2, PrefixCat
  <2>7. Real0(op.from \o s) = Real0(c)
    BY <1>1, <1>11, <1>15, <2>5, <2>6, RealFacts DEF Real0
  <2>8. q \notin Under
    BY <1>15, BaseFacts
  <2>9. s \o d \in Proper
    <3>1. Destination \in Proper
      <4>1. op.to \in Proper /\ op.from \in Proper /\ op.to \in Path
        BY CallFacts, ProperFacts DEF CopyCalled
      <4>2. Last(op.from) \in Range(Names) /\ Last(op.from) \in Words
        <5>1. /\ Parent(op.from) \in Path /\ Last(op.from) \in Words
              /\ op.from = Child(Parent(op.from), Last(op.from))
          BY <1>1, PrefixChild
        <5> QED
          BY <4>1, <5>1, ProperFacts
      <4>3. Child(op.to, Last(op.from)) \in Proper
        BY <4>1, <4>2, ProperFacts
      <4> QED
        BY <4>1, <4>3, CallFacts
    <3>2. d \in Proper /\ s \in Proper
      BY <1>10, <2>2, <2>3, <3>1, ProperFacts
    <3> QED
      BY <3>2, ProperFacts
  <2>10. Loop(s, c, d)
    BY <1>10, <2>1, <2>2, <2>3, <2>4, <2>5, <2>7, <2>8, <2>9 DEF Loop
  <2> QED
    BY <2>10
<1> QED
  BY <1>13, <1>14, <1>15

\* Where the way to the destination is broken, nothing is made or written.
LEMMA BrokenFacts ==
  ASSUME CopyCalled, Broken, fs = before
  PROVE  /\ ~exists(Destination) /\ ~Leads(Destination)
         /\ ~is_dir(Parent(Destination)) /\ ~CanOpen(fs, Destination)
         /\ CanMakeParent(Destination) => WithParent(Destination) = fs
         /\ \A x \in Words : ~CanMakeParent(Child(Destination, x))
<1> DEFINE e == Parent(Destination)
<1>1. /\ IsTree(fs) /\ Destination \in Path \ {<<>>} /\ e \in Path
      /\ Base \in Path \ {<<>>} /\ Place(fs, Destination) = Base
  BY CallFacts DEF CopyCalled, Base
<1>2. PICK c \in Path : /\ IsPrefix(c, Destination) /\ c # Destination
                        /\ Place(before, c) \in DOMAIN before /\ Real0(c) \notin DOMAIN before
  BY DEF Broken
<1>3. /\ exists(c) /\ ~is_dir(c) /\ Real(fs, c) \notin DOMAIN fs
  BY <1>2 DEF exists, is_dir, Leads, Real0
<1>4. ~exists(Destination)
  BY <1>1, <1>2, <1>3, Through DEF exists
<1>5. Real(fs, Destination) = Base /\ Base \notin DOMAIN fs
  <2>1. Real(fs, Destination) = Follow(fs, Base) /\ Base \notin DOMAIN fs
    BY <1>1, <1>4, RealFacts DEF exists
  <2> QED
    BY <1>1, <2>1, FollowFacts DEF IsLinkAt
<1>6. Real(fs, e) \notin DOMAIN fs
  <2>1. CASE c = e
    BY <1>3, <2>1
  <2>2. CASE c # e
    <3>1. IsPrefix(c, e)
      <4>1. Destination = Child(e, Last(Destination)) /\ Last(Destination) \in Words
        BY <1>1, PrefixChild
      <4> HIDE DEF e
      <4> QED
        BY <1>1, <1>2, <4>1, PrefixChild
    <3>2. Place(fs, e) \notin DOMAIN fs
      BY <1>1, <1>2, <1>3, <2>2, <3>1, Through
    <3>3. Real(fs, e) = Place(fs, e)
      <4>1. Place(fs, e) \in Path
        BY <1>1, RealFacts, Named
      <4> QED
        BY <1>1, <3>2, <4>1, RealFacts, FollowFacts DEF IsLinkAt
    <3> QED
      BY <3>2, <3>3
  <2> QED
    BY <2>1, <2>2
<1>7. ~is_dir(e) /\ ~CanOpen(fs, Destination)
  <2>1. Parent(Base) = Real(fs, e)
    BY <1>1, RealFacts
  <2> QED
    BY <1>5, <1>6, <2>1 DEF is_dir, Leads, CanOpen
<1>8. \A path \in Path : IsPrefix(c, path) /\ c # path => c \in Ancestors(path)
  <2> SUFFICES ASSUME NEW path \in Path, IsPrefix(c, path), c # path
               PROVE  c \in Ancestors(path)
    OBVIOUS
  <2>1. Len(c) \in 0..Len(path) /\ c = SubSeq(path, 1, Len(c)) /\ Len(path) \in Nat
        /\ SubSeq(path, 1, Len(path)) = path
    BY <1>2, FirstNames
  <2>2. Len(c) # Len(path)
    BY <2>1
  <2>3. Len(c) \in 0..Len(path) - 1
    <3>1. \A m, n \in Nat : m \in 0..n /\ m # n => m \in 0..n - 1
      OBVIOUS
    <3>2. Len(c) \in Nat
      BY Named
    <3> QED
      BY <2>1, <2>2, <3>1, <3>2
  <2> QED
    BY <2>1, <2>3 DEF Ancestors
<1>9. CanMakeParent(Destination) => WithParent(Destination) = fs
  BY <1>1, <1>2, <1>3, <1>8 DEF CanMakeParent, WithParent
<1>10. ASSUME NEW x \in Words
       PROVE  ~CanMakeParent(Child(Destination, x))
  <2> DEFINE q == Child(Destination, x)
  <2>1. /\ q \in Path \ {<<>>} /\ Parent(q) = Destination /\ IsPrefix(Destination, q)
        /\ ~IsPrefix(q, Destination)
    BY <1>1, PrefixChild
  <2> HIDE DEF q
  <2>2. IsPrefix(c, q) /\ c # q
    BY <1>1, <1>2, <2>1, PrefixOrder
  <2>3. c \in Ancestors(q)
    BY <1>8, <2>1, <2>2
  <2> QED
    BY <1>3, <1>4, <2>1, <2>3 DEF CanMakeParent, q
<1> QED
  BY <1>4, <1>5, <1>7, <1>9, <1>10 DEF Leads

\* A copy goes on, or makes a link, where the way to its destination is broken.
Stuck(f, steps) ==
  LET h == Head(steps)
      next == Head(Tail(steps))
  IN /\ f = before /\ steps # <<>>
     /\ \/ h.do \in {"entries", "stat", "file", "link", "symlink"} /\ h.to = Destination
        \/ h.do = "copy" /\ ~h.inside /\ \E x \in Words : h.to = Child(Destination, x)
        \/ /\ h.do = "remove" /\ h.from = Destination
           /\ Tail(steps) # <<>> /\ next.do = "symlink" /\ next.to = Destination

LEMMA StuckEntries ==
  ASSUME IInv, CopyCalled, fs = before, DoEntries, Now.to = Destination
  PROVE  Stuck(fs', agenda')
<1> DEFINE from == Now.from
           names == list_dir(from)
           e == Entries(from, Destination)
           stat == Step("stat", from, Destination)
           link == Step("link", fs[Place(fs, from)].to, Destination)
           file == Step("file", from, Destination)
<1>1. agenda \in Seq(Steps) /\ agenda # <<>> /\ Tail(agenda) \in Seq(Steps) /\ IsTree(fs)
  <2>1. agenda \in Seq(Steps) /\ agenda # <<>> /\ IsTree(fs)
    BY DEF IInv, AgendaOK, Chain, TypeOK, DoEntries, Doing
  <2> HIDE DEF Steps
  <2> QED
    BY <2>1
<1>2. /\ Destination \in Path
      /\ fs' = fs
      /\ agenda' = (IF is_dir(from) THEN e \o <<stat>>
                    ELSE IF is_link(from) THEN <<link>> ELSE <<file>>) \o Tail(agenda)
  BY CallFacts DEF DoEntries, Continue, CopyCalled, Unlinked
<1>3. from \in Path
  <2>1. Now \in Steps
    <3> HIDE DEF Steps
    <3> QED
      BY <1>1 DEF Now
  <2> QED
    BY <2>1 DEF Steps
<1>4. /\ stat \in Steps /\ stat.do = "stat" /\ stat.to = Destination
      /\ file \in Steps /\ file.do = "file" /\ file.to = Destination
  <2>1. {"stat", "file"} \subseteq Deeds \ {"copy"}
    BY DEF Deeds
  <2> QED
    BY <1>2, <1>3, <2>1, StepFacts, FieldFacts
<1>5. is_link(from) => link \in Steps /\ link.do = "link" /\ link.to = Destination
  <2>1. "link" \in Deeds \ {"copy"}
    BY DEF Deeds
  <2>2. is_link(from) => fs[Place(fs, from)].to \in Path
    BY <1>1, TreeFacts DEF is_link, IsLinkAt
  <2> QED
    BY <1>2, <2>1, <2>2, StepFacts, FieldFacts
<1>6. /\ e \in Seq(Steps) /\ Len(e) = Len(names) /\ Len(names) \in Nat
      /\ \A n \in 1..Len(names) : /\ e[n].do = "copy" /\ ~e[n].inside /\ names[n] \in Words
                                  /\ e[n].to = Child(Destination, names[n])
  BY <1>2, <1>3, EntryCopies
<1> HIDE DEF e, names, stat, link, file, from, Steps
<1>7. ASSUME NEW s \in Seq(Steps), s # <<>>, agenda' = s \o Tail(agenda)
      PROVE  agenda' # <<>> /\ Head(agenda') = s[1]
  BY <1>1, <1>7, TailCat
<1>8. CASE is_dir(from) /\ e = <<>>
  <2>1. <<stat>> \in Seq(Steps) /\ <<stat>> # <<>> /\ <<stat>>[1] = stat /\ <<>> \o <<stat>> = <<stat>>
    BY <1>4
  <2>2. agenda' = <<stat>> \o Tail(agenda)
    BY <1>2, <1>8, <2>1
  <2>3. agenda' # <<>> /\ Head(agenda') = stat
    BY <1>7, <2>1, <2>2
  <2> QED
    BY <1>2, <1>4, <2>3 DEF Stuck
<1>9. CASE is_dir(from) /\ e # <<>>
  <2>1. <<stat>> \in Seq(Steps)
    BY <1>4
  <2>2. e \o <<stat>> \in Seq(Steps) /\ e \o <<stat>> # <<>> /\ Head(e \o <<stat>>) = e[1]
    BY <1>6, <1>9, <2>1, TailCat
  <2>3. (e \o <<stat>>)[1] = e[1]
    BY <1>6, <1>9, <2>1, <2>2
  <2>4. agenda' # <<>> /\ Head(agenda') = e[1]
    BY <1>2, <1>7, <1>9, <2>2, <2>3
  <2>5. 1 \in 1..Len(names)
    BY <1>6, <1>9, EmptySeq
  <2> QED
    BY <1>2, <1>6, <2>4, <2>5 DEF Stuck
<1>10. CASE ~is_dir(from) /\ is_link(from)
  <2>1. <<link>> \in Seq(Steps) /\ <<link>> # <<>> /\ <<link>>[1] = link
    BY <1>5, <1>10
  <2>2. agenda' # <<>> /\ Head(agenda') = link
    BY <1>2, <1>7, <1>10, <2>1
  <2> QED
    BY <1>2, <1>5, <1>10, <2>2 DEF Stuck
<1>11. CASE ~is_dir(from) /\ ~is_link(from)
  <2>1. <<file>> \in Seq(Steps) /\ <<file>> # <<>> /\ <<file>>[1] = file
    BY <1>4
  <2>2. agenda' # <<>> /\ Head(agenda') = file
    BY <1>2, <1>7, <1>11, <2>1
  <2> QED
    BY <1>2, <1>4, <2>2 DEF Stuck
<1> QED
  BY <1>8, <1>9, <1>10, <1>11

LEMMA StuckLink ==
  ASSUME IInv, CopyCalled, Broken, fs = before, DoLink, Now.to = Destination
  PROVE  Stuck(fs', agenda')
<1> DEFINE a == Step("remove", Destination, Destination)
           b == Step("symlink", Now.from, Destination)
<1>1. agenda \in Seq(Steps) /\ agenda # <<>> /\ Tail(agenda) \in Seq(Steps)
  <2>1. agenda \in Seq(Steps) /\ agenda # <<>>
    BY DEF IInv, AgendaOK, Chain, DoLink, Doing
  <2> HIDE DEF Steps
  <2> QED
    BY <2>1
<1>2. Now.from \in Path /\ Destination \in Path
  <2>1. Now \in Steps
    <3> HIDE DEF Steps
    <3> QED
      BY <1>1 DEF Now
  <2> QED
    BY <2>1, CallFacts DEF Steps
<1>3. fs' = fs /\ agenda' = <<a, b>> \o Tail(agenda)
  BY BrokenFacts DEF DoLink, Continue
<1>4. /\ a \in Steps /\ a.do = "remove" /\ a.from = Destination
      /\ b \in Steps /\ b.do = "symlink" /\ b.to = Destination
  <2>1. {"remove", "symlink"} \subseteq Deeds \ {"copy"}
    BY DEF Deeds
  <2> QED
    BY <1>2, <2>1, StepFacts, FieldFacts
<1> HIDE DEF a, b, Steps
<1>5. /\ <<a, b>> \in Seq(Steps) /\ <<a, b>> # <<>> /\ <<a, b>>[1] = a /\ Tail(<<a, b>>) = <<b>>
      /\ <<b>> \in Seq(Steps) /\ <<b>> # <<>> /\ <<b>>[1] = b
  <2>1. a \in Steps /\ b \in Steps
    BY <1>4
  <2>2. /\ <<a, b>> \in Seq(Steps) /\ <<a, b>>[1] = a
        /\ <<b>> \in Seq(Steps) /\ <<b>>[1] = b
    BY <2>1
  <2>3. <<a, b>> # <<>> /\ Tail(<<a, b>>) = <<b>> /\ <<b>> # <<>>
    BY <2>1, TupleFacts
  <2> QED
    BY <2>2, <2>3
<1>6. /\ agenda' # <<>> /\ Head(agenda') = a /\ Tail(agenda') = <<b>> \o Tail(agenda)
      /\ Tail(agenda') # <<>> /\ Head(Tail(agenda')) = b
  <2>1. /\ agenda' # <<>> /\ Head(agenda') = <<a, b>>[1]
        /\ Tail(agenda') = Tail(<<a, b>>) \o Tail(agenda)
    BY <1>1, <1>3, <1>5, TailCat
  <2>2. <<b>> \o Tail(agenda) # <<>> /\ Head(<<b>> \o Tail(agenda)) = <<b>>[1]
    BY <1>1, <1>5, TailCat
  <2> QED
    BY <1>5, <2>1, <2>2
<1> QED
  BY <1>3, <1>4, <1>6 DEF Stuck

LEMMA StuckStep ==
  ASSUME IInv, CopyCalled, Broken, Stuck(fs, agenda), Next, outcome = "running", ~StepFails
  PROVE  Stuck(fs', agenda')
<1>1. fs = before /\ agenda # <<>>
  BY DEF Stuck
<1>2. /\ ~Leads(Destination) /\ ~is_dir(Parent(Destination)) /\ ~CanOpen(fs, Destination)
      /\ ~exists(Destination) /\ ~is_dir(Destination)
      /\ \A x \in Words : ~CanMakeParent(Child(Destination, x))
  BY <1>1, BrokenFacts DEF is_dir
<1>3. CASE Now.do = "entries" /\ Now.to = Destination
  BY <1>1, <1>3, Allowed, StuckEntries
<1>4. CASE Now.do = "link" /\ Now.to = Destination
  BY <1>1, <1>4, Allowed, StuckLink
<1>5. ASSUME Now.do = "stat", Now.to = Destination
      PROVE  FALSE
  BY <1>1, <1>2, <1>5, Allowed DEF DoStat
<1>6. ASSUME Now.do = "file", Now.to = Destination
      PROVE  FALSE
  BY <1>1, <1>2, <1>6, Allowed DEF DoFile, CanCopyFile, CopyTarget
<1>7. ASSUME Now.do = "symlink", Now.to = Destination
      PROVE  FALSE
  BY <1>1, <1>2, <1>7, Allowed DEF DoSymlink
<1>8. ASSUME Now.do = "copy", ~Now.inside, NEW x \in Words, Now.to = Child(Destination, x)
      PROVE  FALSE
  BY <1>1, <1>2, <1>8, Allowed DEF DoCopy, CopyTo
<1>9. CASE /\ Now.do = "remove" /\ Now.from = Destination
           /\ Tail(agenda) # <<>> /\ Head(Tail(agenda)).do = "symlink"
           /\ Head(Tail(agenda)).to = Destination
  <2>1. DoRemove
    BY <1>1, <1>9, Allowed
  <2>2. fs' \in Removals(Destination) /\ agenda' = <<>> \o Tail(agenda)
    BY <1>9, <2>1 DEF DoRemove, Continue
  <2>3. agenda \in Seq(Steps)
    BY DEF IInv, AgendaOK, Chain
  <2> HIDE DEF Steps
  <2>4. agenda' = Tail(agenda)
    BY <1>1, <2>2, <2>3
  <2>5. IsTree(fs) /\ Destination \in Path
    BY <1>1, CallFacts DEF CopyCalled
  <2>6. fs' = fs
    <3>1. /\ \A q \in DOMAIN fs' : q \in DOMAIN fs /\ fs'[q] = fs[q]
          /\ \A q \in DOMAIN fs : ~IsPrefix(Place(fs, Destination), q) => q \in DOMAIN fs'
      BY <2>2, <2>5, RemovedBelow
    <3>2. \A q \in DOMAIN fs : ~IsPrefix(Place(fs, Destination), q)
      <4> SUFFICES ASSUME NEW q \in DOMAIN fs, IsPrefix(Place(fs, Destination), q)
                   PROVE  FALSE
        OBVIOUS
      <4>1. Place(fs, Destination) \in Path
        BY <2>5, RealFacts, Named
      <4> QED
        BY <1>2, <2>5, <4>1, Above DEF exists
    <3>3. IsTree(fs')
      BY <2>2, <2>5, CallFacts, Removed
    <3>4. DOMAIN fs' = DOMAIN fs
      BY <3>1, <3>2
    <3>5. fs \in [DOMAIN fs -> Nodes] /\ fs' \in [DOMAIN fs' -> Nodes]
      BY <2>5, <3>3, TreeFacts
    <3> QED
      BY <3>1, <3>4, <3>5
  <2> QED
    BY <1>1, <1>9, <2>4, <2>6 DEF Stuck
<1> QED
  BY <1>3, <1>4, <1>5, <1>6, <1>7, <1>8, <1>9 DEF Stuck, Now

LEMMA CatParent ==
  ASSUME NEW s \in Path, NEW w \in Path, w # <<>>
  PROVE  /\ Parent(w) \in Path /\ s \o w \in Path \ {<<>>}
         /\ Parent(s \o w) = s \o Parent(w) /\ s \o Parent(w) \in Path
<1> DEFINE u == Parent(w)
           x == Last(w)
<1>1. u \in Path /\ x \in Words /\ w = Child(u, x)
  BY PrefixChild
<1> HIDE DEF u, x
<1>2. s \o w = Child(s \o u, x) /\ s \o u \in Path
  <2>1. s \o Child(u, x) = Child(s \o u, x)
    BY <1>1, CatChild
  <2>2. s \o u \in Path
    BY <1>1, CatPath
  <2> QED
    BY <1>1, <2>1, <2>2
<1>3. Child(s \o u, x) \in Path \ {<<>>} /\ Parent(Child(s \o u, x)) = s \o u
  BY <1>1, <1>2, PrefixChild
<1> QED
  BY <1>1, <1>2, <1>3 DEF u

\* What is made at the destination is found in the source.
LEMMA LoopFacts ==
  ASSUME CopyCalled, ~Overlap,
         NEW s \in Path, NEW t \in Path, NEW d \in Path, Loop(s, t, d)
  PROVE  /\ s \o d \in Proper /\ Len(s \o d) >= 2
         /\ \A f : \A rest \in Path :
              Kept(f) /\ Place(f, Parent(Destination \o rest)) \in DOMAIN f =>
                Place(f, op.from \o Parent((s \o d) \o rest)) \in DOMAIN f
<1>1. /\ s \in Path /\ t \in Path /\ d \in Path \ {<<>>} /\ s \o d \in Proper
      /\ Destination = t \o d
      /\ Place(before, op.from \o s) \in DOMAIN before \ Under
      /\ Real0(op.from \o s) = Real0(t)
  BY DEF Loop
<1>2. /\ op.from \in Path \ {<<>>} /\ IsTree(before) /\ op.from \o s \in Path
      /\ Destination \in Path \ {<<>>} /\ Base = Place(before, Destination)
      /\ Region(before, Under)
  <2>1. op.from \in Path \ {<<>>} /\ Destination \in Path \ {<<>>} /\ IsTree(before)
    BY CallFacts DEF CopyCalled
  <2> QED
    BY <1>1, <2>1, PrefixCat, BaseFacts DEF Base
<1> DEFINE e == Parent(d)
           x == Last(d)
<1>3. /\ e \in Path /\ x \in Words /\ d = Child(e, x)
  BY <1>1, PrefixChild
<1> HIDE DEF e, x
<1>4. Real0(t) \notin Under
  <2>1. Destination = Child(t \o e, x) /\ t \o e \in Path /\ IsPrefix(t, t \o e)
    <3>1. t \in Path /\ e \in Path /\ x \in Words
      BY <1>1, <1>3
    <3>2. t \o Child(e, x) = Child(t \o e, x)
      BY <3>1, CatChild
    <3>3. t \o e \in Path /\ IsPrefix(t, t \o e)
      BY <3>1, CatPrefix
    <3> QED
      BY <1>1, <1>3, <3>2, <3>3
  <2>2. Parent(Destination) = t \o e
    BY <1>3, <2>1, PrefixChild
  <2> QED
    BY <1>1, <1>2, <2>1, <2>2, Stays, BaseFacts DEF Real0
<1>5. Len(s \o d) >= 2
  <2>1. s \o d \in Path /\ Len(s \o d) = Len(s) + Len(d) /\ Len(s) \in Nat /\ Len(d) \in Nat \ {0}
    BY <1>1, NamedCat, Named
  <2>2. ~(Len(s) = 0 /\ Len(d) = 1)
    <3> SUFFICES ASSUME Len(s) = 0, Len(d) = 1
                 PROVE  FALSE
      OBVIOUS
    <3>1. s = <<>> /\ op.from \o s = op.from
      BY <1>1, <1>2, Named, PrefixCat
    <3>2. e = <<>>
      <4>1. Len(Child(e, x)) = Len(e) + 1 /\ Len(e) \in Nat
        BY <1>3, ChildShape, Named
      <4>2. Len(e) = 0
        BY <1>3, <4>1
      <4> QED
        BY <1>3, <4>2, Named
    <3>3. Destination = Child(t, x)
      <4>1. t \o <<>> = t /\ <<>> \in Path
        BY PrefixCat, Named
      <4>2. t \o Child(<<>>, x) = Child(t \o <<>>, x)
        BY <1>3, <4>1, CatChild
      <4> QED
        BY <1>1, <1>3, <3>2, <4>1, <4>2
    <3>4. Base = Child(Real0(t), x) /\ Real0(t) \in Path
      <4>1. Place(before, Child(t, x)) = Child(Real(before, t), x) /\ Real(before, t) \in Path
        BY <1>2, <1>3, PlaceChild
      <4> QED
        BY <1>2, <3>3, <4>1 DEF Real0
    <3>5. IsPrefix(Real0(op.from), Base)
      BY <1>1, <1>3, <3>1, <3>4, PrefixChild
    <3>6. Destination \in Goals
      <4>1. <<>> \in Rests /\ Destination \o <<>> = Destination
        BY <1>2, RestFacts, PrefixCat
      <4> QED
        BY <4>1 DEF Goals
    <3> QED
      BY <1>2, <3>5, <3>6 DEF Overlap
  <2> QED
    BY <2>1, <2>2
<1>6. ASSUME NEW f, NEW rest \in Path, Kept(f),
             Place(f, Parent(Destination \o rest)) \in DOMAIN f
      PROVE  Place(f, op.from \o Parent((s \o d) \o rest)) \in DOMAIN f
  <2> DEFINE w == d \o rest
             u == Parent(w)
  <2>1. w \in Path \ {<<>>}
    <3>1. w \in Path /\ IsPrefix(d, w)
      BY <1>1, PrefixCat
    <3> QED
      BY <1>1, <3>1, PrefixOrder
  <2>2. /\ u \in Path /\ Parent(s \o w) = s \o u /\ Parent(t \o w) = t \o u
        /\ s \o u \in Path /\ t \o u \in Path
    BY <2>1, CatParent
  <2>3. (s \o d) \o rest = s \o w /\ (t \o d) \o rest = t \o w
    <3>1. \A a \in Path : (a \o d) \o rest = a \o (d \o rest)
      BY CatAgain
    <3> QED
      BY <3>1
  <2> HIDE DEF w, u
  <2>4. Parent((s \o d) \o rest) = s \o u /\ Parent(Destination \o rest) = t \o u
    BY <1>1, <2>2, <2>3
  <2>5. /\ IsTree(f) /\ Real(f, op.from \o s) = Real(f, t)
        /\ Place(f, op.from \o s) = Place(before, op.from \o s)
    BY <1>1, <1>2, <1>4, <1>6, KeptFacts
  <2>6. CASE u = <<>>
    <3>1. s \o u = s
      <4>1. s \o <<>> = s
        BY PrefixCat
      <4> QED
        BY <2>6, <4>1
    <3>2. Place(before, op.from \o s) \in DOMAIN before
          /\ ~IsPrefix(Base, Place(before, op.from \o s))
      <4>1. DOMAIN before \subseteq Path
        BY <1>2, TreeFacts
      <4> QED
        BY <1>1, <4>1, BaseFacts
    <3>3. Place(before, op.from \o s) \in DOMAIN f
      BY <1>6, <3>2 DEF Kept
    <3> QED
      BY <2>4, <2>5, <3>1, <3>3
  <2>7. CASE u # <<>>
    <3>1. Place(f, op.from \o (s \o u)) = Place(f, t \o u)
      BY <1>2, <2>2, <2>5, <2>7, AlikeFrom
    <3> QED
      BY <1>6, <2>4, <3>1
  <2> QED
    BY <2>6, <2>7
<1> QED
  BY <1>1, <1>5, <1>6

\* A step on the way round, by the names of r again and again.
Circles(f, steps, r) ==
  \E i \in 1..Len(steps), rest \in Proper :
    /\ IsPrefix(rest, r \o rest)
    /\ steps[i].from = op.from \o rest /\ steps[i].to = Destination \o rest
    /\ \/ steps[i].do = "copy" /\ ~steps[i].inside
       \/ /\ i = 1 /\ steps[i].do = "entries"
          /\ Place(f, op.from \o Parent(r \o rest)) \in DOMAIN f
Circling(f, steps) ==
  \E s, t, d \in Path : Loop(s, t, d) /\ Circles(f, steps, s \o d)

LEMMA EntriesStep ==
  ASSUME agenda \in Seq(Steps), agenda # <<>>, NEW e \in Steps, agenda' = <<e>> \o Tail(agenda)
  PROVE  1 \in 1..Len(agenda') /\ agenda'[1] = e
<1> HIDE DEF Steps
<1>1. <<e>> \in Seq(Steps) /\ <<e>> # <<>> /\ <<e>>[1] = e /\ Tail(agenda) \in Seq(Steps)
  OBVIOUS
<1>2. agenda' \in Seq(Steps) /\ agenda' # <<>> /\ Head(agenda') = e
  BY <1>1, TailCat
<1> QED
  BY <1>2

LEMMA CircleCopy ==
  ASSUME IInv, CopyCalled, ~Overlap, Kept(fs'),
         NEW s \in Path, NEW t \in Path, NEW d \in Path, Loop(s, t, d),
         NEW rest \in Proper, IsPrefix(rest, (s \o d) \o rest),
         DoCopy, ~Now.inside, Now.from = op.from \o rest, Now.to = Destination \o rest
  PROVE  Circles(fs', agenda', s \o d)
<1> DEFINE e == Step("entries", Now.from, Now.to)
<1>1. agenda \in Seq(Steps) /\ agenda # <<>> /\ IsTree(fs) /\ Now \in Steps
  <2>1. agenda \in Seq(Steps) /\ agenda # <<>> /\ IsTree(fs)
    BY DEF IInv, AgendaOK, Chain, TypeOK, DoCopy, Doing
  <2> HIDE DEF Steps
  <2> QED
    BY <2>1 DEF Now
<1>2. CanMakeParent(Now.to) /\ fs' = WithParent(Now.to) /\ agenda' = <<e>> \o Tail(agenda)
  BY DEF DoCopy, CopyTo, Continue
<1>3. e \in Steps /\ e.do = "entries" /\ e.from = Now.from /\ e.to = Now.to
  <2>1. "entries" \in Deeds /\ "entries" # "copy"
    BY DEF Deeds
  <2>2. Now.from \in Path /\ Now.to \in Path
    BY <1>1 DEF Steps
  <2>3. \A a, b \in Path : Step("entries", a, b) \in Steps
    BY <2>1, StepFacts
  <2> HIDE DEF Steps
  <2>4. e \in Steps
    BY <2>2, <2>3
  <2>5. \A a, b : /\ Step("entries", a, b).do = "entries"
                  /\ Step("entries", a, b).from = a /\ Step("entries", a, b).to = b
    BY FieldFacts
  <2> QED
    BY <2>4, <2>5
<1>4. rest \in Path /\ Now.to \in Path \ {<<>>}
  <2>1. rest \in Path /\ Destination \in Path \ {<<>>}
    BY CallFacts DEF Proper
  <2>2. Now.to \in Path /\ IsPrefix(Destination, Now.to)
    BY <2>1, PrefixCat
  <2> QED
    BY <2>1, <2>2, PrefixOrder
<1>5. Place(fs', Parent(Now.to)) \in DOMAIN fs'
  BY <1>1, <1>2, <1>4, ParentThere
<1>6. Place(fs', op.from \o Parent((s \o d) \o rest)) \in DOMAIN fs'
  BY <1>4, <1>5, LoopFacts
<1> HIDE DEF e, Steps
<1>7. 1 \in 1..Len(agenda') /\ agenda'[1] = e
  BY <1>1, <1>2, <1>3, EntriesStep
<1> QED
  BY <1>3, <1>6, <1>7 DEF Circles

LEMMA CircleEntries ==
  ASSUME IInv, CopyCalled, ~Overlap,
         NEW s \in Path, NEW t \in Path, NEW d \in Path, Loop(s, t, d),
         NEW rest \in Proper, IsPrefix(rest, (s \o d) \o rest),
         Place(fs, op.from \o Parent((s \o d) \o rest)) \in DOMAIN fs,
         DoEntries, Now.from = op.from \o rest, Now.to = Destination \o rest
  PROVE  Circles(fs', agenda', s \o d)
<1> DEFINE r == s \o d
           w == r \o rest
           v == Parent(w)
           from == Now.from
           to == Now.to
           e == Entries(from, to)
           stat == Step("stat", from, to)
<1>1. agenda \in Seq(Steps) /\ agenda # <<>> /\ IsTree(fs) /\ Tail(agenda) \in Seq(Steps)
  <2>1. agenda \in Seq(Steps) /\ agenda # <<>> /\ IsTree(fs)
    BY DEF IInv, AgendaOK, Chain, TypeOK, DoEntries, Doing
  <2> HIDE DEF Steps
  <2> QED
    BY <2>1
<1>2. /\ rest \in Path /\ r \in Proper /\ r \in Path /\ Len(r) >= 2
      /\ op.from \in Path /\ Destination \in Path /\ from \in Path /\ to \in Path
  <2>1. r \in Proper /\ Len(r) >= 2
    BY LoopFacts
  <2>2. rest \in Path /\ r \in Path /\ op.from \in Path /\ Destination \in Path
    BY <2>1, CallFacts DEF Proper
  <2>3. op.from \o rest \in Path /\ Destination \o rest \in Path
    BY <2>2, CatPath
  <2> QED
    BY <2>1, <2>2, <2>3
<1> HIDE DEF r
<1>3. /\ w \in Proper /\ w \in Path /\ Len(w) = Len(r) + Len(rest) /\ Len(rest) \in Nat
      /\ IsPrefix(rest, w)
  <2>1. w \in Proper /\ IsPrefix(rest, w)
    BY <1>2, ProperFacts DEF r
  <2> QED
    BY <1>2, <2>1, NamedCat, Named DEF Proper
<1>4. /\ v \in Path /\ Last(w) \in Words /\ w = Child(v, Last(w)) /\ Len(w) = Len(v) + 1
      /\ Len(v) \in Nat /\ Place(fs, op.from \o v) \in DOMAIN fs
  <2>1. w # <<>> /\ Place(fs, op.from \o v) \in DOMAIN fs
    BY <1>2, <1>3, Named DEF r
  <2> HIDE DEF w
  <2>2. v \in Path /\ Last(w) \in Words /\ w = Child(v, Last(w))
    BY <1>3, <2>1, PrefixChild
  <2>3. Len(w) = Len(v) + 1 /\ Len(v) \in Nat
    BY <2>2, ChildShape, Named
  <2> QED
    BY <2>1, <2>2, <2>3
<1> HIDE DEF v, w
<1>5. IsPrefix(rest, v) /\ rest # v
  BY <1>2, <1>3, <1>4, PrefixChild
<1>6. PICK x \in Words : IsPrefix(Child(rest, x), v)
  BY <1>2, <1>4, <1>5, NextName
<1> DEFINE next == Child(rest, x)
<1>7. /\ next \in Path /\ next \in Proper /\ x \in Range(Names)
      /\ IsPrefix(next, w) /\ IsPrefix(next, r \o next)
  <2>1. next \in Path /\ IsPrefix(rest, next)
    BY <1>2, PrefixChild
  <2>2. IsPrefix(v, w)
    BY <1>4, PrefixChild
  <2> HIDE DEF next
  <2>3. IsPrefix(next, w)
    BY <1>3, <1>4, <1>6, <2>1, <2>2, PrefixOrder DEF next
  <2>4. IsPrefix(w, r \o next) /\ r \o next \in Path
    BY <1>2, <2>1, CatPrefix DEF w
  <2>5. next \in Proper
    BY <1>3, <2>1, <2>3, ProperFacts
  <2>6. x \in Range(Names)
    BY <1>2, <2>5, ProperFacts DEF next
  <2> QED
    BY <1>3, <2>1, <2>3, <2>4, <2>5, <2>6, PrefixOrder
<1>8. /\ op.from \o v \in Path /\ op.from \o next \in Path
      /\ IsPrefix(op.from \o rest, op.from \o v) /\ op.from \o rest # op.from \o v
      /\ IsPrefix(op.from \o next, op.from \o v)
      /\ op.from \o next = Child(from, x) /\ Destination \o next = Child(to, x)
  <2>1. op.from \o next = Child(from, x) /\ Destination \o next = Child(to, x)
    <3>1. rest \in Path
      BY <1>2
    <3>2. \A a \in Path : a \o Child(rest, x) = Child(a \o rest, x)
      BY <3>1, CatChild
    <3> QED
      BY <1>2, <3>2
  <2> HIDE DEF next
  <2> QED
    BY <1>2, <1>4, <1>5, <1>6, <1>7, <2>1, CatPrefix DEF next
<1>9. is_dir(from) /\ Child(Real(fs, from), x) \in DOMAIN fs
  <2>1. Real(fs, from) \in DOMAIN fs /\ fs[Real(fs, from)] = Dir
    BY <1>1, <1>2, <1>4, <1>8, Through
  <2>2. Place(fs, op.from \o next) \in DOMAIN fs
    BY <1>1, <1>4, <1>8, Through
  <2>3. Place(fs, Child(from, x)) = Child(Real(fs, from), x)
    BY <1>1, <1>2, PlaceChild
  <2> QED
    BY <1>8, <2>1, <2>2, <2>3, NodeFacts DEF is_dir, Leads
<1> HIDE DEF next
<1>10. PICK k \in 1..Len(list_dir(from)) : list_dir(from)[k] = x
  BY <1>7, <1>9, ListFacts
<1>11. /\ e \in Seq(Steps) /\ k \in 1..Len(e) /\ e[k].do = "copy" /\ ~e[k].inside
       /\ e[k].from = op.from \o next /\ e[k].to = Destination \o next
  <2>1. /\ e \in Seq(Steps) /\ Len(e) = Len(list_dir(from))
        /\ e[k].do = "copy" /\ ~e[k].inside
        /\ e[k].from = Child(from, list_dir(from)[k]) /\ e[k].to = Child(to, list_dir(from)[k])
    <3>1. from \in Path /\ to \in Path
      BY <1>2
    <3> HIDE DEF from, to
    <3>2. /\ e \in Seq(Steps) /\ Len(e) = Len(list_dir(from))
          /\ \A n \in 1..Len(list_dir(from)) :
               /\ e[n].do = "copy" /\ ~e[n].inside
               /\ e[n].from = Child(from, list_dir(from)[n])
               /\ e[n].to = Child(to, list_dir(from)[n])
      BY <3>1, EntryCopies
    <3> QED
      BY <3>2
  <2> QED
    BY <1>8, <1>10, <2>1
<1>12. stat \in Steps
  <2>1. "stat" \in Deeds /\ "stat" # "copy"
    BY DEF Deeds
  <2> QED
    BY <1>2, <2>1, StepFacts
<1>13. agenda' = (e \o <<stat>>) \o Tail(agenda)
  BY <1>9 DEF DoEntries, Continue
<1> HIDE DEF e, stat, Steps, from, to
<1>14. k \in 1..Len(agenda') /\ agenda'[k] = e[k]
  <2>1. <<stat>> \in Seq(Steps)
    BY <1>12
  <2>2. /\ e \o <<stat>> \in Seq(Steps) /\ Len(e \o <<stat>>) = Len(e) + Len(<<stat>>)
        /\ (e \o <<stat>>)[k] = e[k] /\ k \in 1..Len(e \o <<stat>>)
    BY <1>11, <2>1
  <2> QED
    BY <1>1, <1>13, <2>2
<1> QED
  BY <1>7, <1>11, <1>14 DEF Circles, r

LEMMA CircleOn ==
  ASSUME agenda \in Seq(Steps), agenda # <<>>, NEW steps \in Seq(Steps),
         agenda' = steps \o Tail(agenda), NEW i \in 1..Len(agenda), i # 1
  PROVE  \E j \in 1..Len(agenda') : agenda'[j] = agenda[i]
<1> HIDE DEF Steps
<1> DEFINE j == Len(steps) + (i - 1)
           rest == Tail(agenda)
<1>1. /\ rest \in Seq(Steps) /\ Len(rest) = Len(agenda) - 1 /\ i - 1 \in 1..Len(rest)
      /\ rest[i - 1] = agenda[i] /\ Len(steps) \in Nat
  OBVIOUS
<1> HIDE DEF rest
<1>2. /\ Len(steps \o rest) = Len(steps) + Len(rest)
      /\ (steps \o rest)[j] = rest[i - 1]
  BY <1>1
<1>3. j \in 1..Len(agenda')
  BY <1>1, <1>2 DEF rest
<1> QED
  BY <1>1, <1>2, <1>3 DEF rest

LEMMA CircleStep ==
  ASSUME IInv, CopyCalled, ~Overlap, NEW work, agenda = work \o Finale, Copying(fs, work),
         Circling(fs, agenda), Next, outcome = "running", ~StepFails
  PROVE  outcome' = outcome /\ Circling(fs', agenda')
<1>1. PICK s, t, d \in Path : Loop(s, t, d) /\ Circles(fs, agenda, s \o d)
  BY DEF Circling
<1>2. PICK i \in 1..Len(agenda), rest \in Proper :
        /\ IsPrefix(rest, (s \o d) \o rest)
        /\ agenda[i].from = op.from \o rest /\ agenda[i].to = Destination \o rest
        /\ \/ agenda[i].do = "copy" /\ ~agenda[i].inside
           \/ /\ i = 1 /\ agenda[i].do = "entries"
              /\ Place(fs, op.from \o Parent((s \o d) \o rest)) \in DOMAIN fs
  BY <1>1 DEF Circles
<1>3. agenda \in Seq(Steps)
  BY DEF IInv, AgendaOK, Chain
<1>4. work # <<>>
  <2> SUFFICES ASSUME work = <<>>
               PROVE  FALSE
    OBVIOUS
  <2>1. agenda = Finale
    <3>1. Finale \in Seq(Steps)
      BY FinaleFacts
    <3> HIDE DEF Steps
    <3> QED
      BY <3>1, ConcatEmptySeq
  <2>2. Finale = <<>> \/ Finale = <<Step("remove", op.from, op.from)>>
    BY DEF Finale
  <2>3. agenda[i].do = "remove"
    <3>1. CASE Finale = <<>>
      BY <2>1, <3>1, Named
    <3>2. CASE Finale = <<Step("remove", op.from, op.from)>>
      <4>1. i = 1 /\ agenda[1] = Step("remove", op.from, op.from)
        BY <2>1, <3>2
      <4> QED
        BY <4>1, FieldFacts
    <3> QED
      BY <2>2, <3>1, <3>2
  <2> QED
    BY <1>2, <2>3
<1>5. Working(work)
  BY <1>4, Front1
<1>6. outcome' = outcome /\ Resumed(work)
  BY <1>5, Resumes
<1>7. agenda # <<>> /\ Kept(fs')
  BY <1>5, <1>6 DEF Working, Resumed, Copying
<1>8. Now = agenda[1]
  <2> HIDE DEF Steps
  <2> QED
    BY <1>3, <1>7 DEF Now
<1>9. CASE i # 1
  <2>1. PICK steps \in Seq(Steps) : agenda' = steps \o Tail(agenda)
    BY <1>6 DEF Resumed
  <2>2. PICK j \in 1..Len(agenda') : agenda'[j] = agenda[i]
    BY <1>3, <1>7, <1>9, <2>1, CircleOn
  <2>3. Circles(fs', agenda', s \o d)
    BY <1>2, <1>9, <2>2 DEF Circles
  <2> QED
    BY <1>1, <1>6, <2>3 DEF Circling
<1>10. CASE i = 1 /\ agenda[i].do = "copy"
  <2>1. DoCopy
    BY <1>7, <1>8, <1>10, Allowed
  <2>2. ~Now.inside /\ Now.from = op.from \o rest /\ Now.to = Destination \o rest
    BY <1>2, <1>8, <1>10
  <2>3. Circles(fs', agenda', s \o d)
    BY <1>1, <1>2, <1>7, <2>1, <2>2, CircleCopy
  <2> QED
    BY <1>1, <1>6, <2>3 DEF Circling
<1>11. CASE i = 1 /\ agenda[i].do = "entries"
  <2>1. DoEntries
    BY <1>7, <1>8, <1>11, Allowed
  <2>2. /\ Now.from = op.from \o rest /\ Now.to = Destination \o rest
        /\ Place(fs, op.from \o Parent((s \o d) \o rest)) \in DOMAIN fs
    BY <1>2, <1>8, <1>11
  <2>3. Circles(fs', agenda', s \o d)
    BY <1>1, <1>2, <2>1, <2>2, CircleEntries
  <2> QED
    BY <1>1, <1>6, <2>3 DEF Circling
<1> QED
  BY <1>2, <1>9, <1>10, <1>11

\* A move to a place that is reached through its source does not return: it fails, or goes
\* round until the path is too long.
Endless == op.name = "move" /\ Unlinked /\ ~Overlap /\ ~Found
LoopInv ==
  Endless =>
    /\ outcome # "done"
    /\ outcome = "running" =>
         Starting \/ (Broken /\ Stuck(fs, agenda)) \/ Circling(fs, agenda)

LEMMA LoopFrames ==
  ASSUME UNCHANGED <<op, before>>
  PROVE  /\ Endless' = Endless
         /\ Starting' =
              (fs' = before /\ agenda' = <<CopyStep(op.from, op.to, op.inside)>> \o Finale)
         /\ Broken /\ Stuck(fs', agenda') => Broken' /\ Stuck(fs, agenda)'
         /\ Circling(fs', agenda') => Circling(fs, agenda)'
<1>1. Destination' = Destination
  BY DEF Destination, Kind0, Real0
<1>2. Base' = Base /\ Gone' = Gone
  BY <1>1 DEF Base, Gone
<1>3. Found' = Found /\ Unlinked' = Unlinked /\ Under' = Under
  BY <1>1, <1>2 DEF Found, Unlinked, Under
<1>4. \A rest : Source(rest)' = Source(rest)
  BY DEF Source
<1>5. Copied' = Copied
  BY <1>4 DEF Copied
<1>6. \A rest : Target(rest)' = Target(rest)
  BY <1>1, <1>4 DEF Target, Original, Kind0, Real0
<1>7. Overlap' = Overlap
  BY <1>1, <1>5, <1>6 DEF Overlap, Goals, Real0
<1>8. Broken' = Broken
  BY <1>1 DEF Broken, Real0
<1>9. Stuck(fs', agenda') => Stuck(fs, agenda)'
  BY <1>1 DEF Stuck
<1>10. \A s, t, d : Loop(s, t, d)' = Loop(s, t, d)
  BY <1>1, <1>3 DEF Loop, Real0
<1>11. \A r : Circles(fs', agenda', r) => Circles(fs, agenda, r)'
  BY <1>1 DEF Circles
<1>12. Circling(fs', agenda') => Circling(fs, agenda)'
  BY <1>10, <1>11 DEF Circling
<1>13. Finale' = Finale
  BY DEF Finale
<1> QED
  BY <1>3, <1>7, <1>8, <1>9, <1>12, <1>13 DEF Endless, Starting

LEMMA LoopOn ==
  ASSUME LoopInv, UNCHANGED <<op, before>>,
         Endless =>
           /\ outcome' # "done"
           /\ outcome' = "running" =>
                \/ fs' = before /\ agenda' = <<CopyStep(op.from, op.to, op.inside)>> \o Finale
                \/ Broken /\ Stuck(fs', agenda')
                \/ Circling(fs', agenda')
  PROVE  LoopInv'
BY LoopFrames DEF LoopInv

\* The first step.
LEMMA LoopStarts ==
  ASSUME IInv, CopyCalled, op.inside \in BOOLEAN, op.name = "move", ~Overlap, ~Found,
         Starting, DoCopy
  PROVE  (Broken /\ Stuck(fs', agenda')) \/ Circling(fs', agenda')
<1> DEFINE e == Step("entries", op.from, Destination)
<1>1. /\ Destination \in Path \ {<<>>} /\ Destination \o <<>> = Destination /\ <<>> \in Path
      /\ op.from \in Path /\ op.to \in Path /\ op.from \o <<>> = op.from
      /\ IsTree(fs) /\ fs = before
  BY CallFacts, PrefixCat, Named DEF CopyCalled, Starting
<1>2. agenda \in Seq(Steps) /\ agenda # <<>> /\ Tail(agenda) = Finale
  BY FirstStep
<1>3. e \in Steps /\ e.do = "entries" /\ e.from = op.from /\ e.to = Destination
  <2>1. "entries" \in Deeds /\ "entries" # "copy"
    BY DEF Deeds
  <2> QED
    BY <1>1, <2>1, StepFacts, FieldFacts
<1>4. /\ agenda' = <<e>> \o Tail(agenda)
      /\ \/ fs' = fs /\ is_dir(op.to) /\ Parent(Destination) = op.to
         \/ CanMakeParent(Destination) /\ fs' = WithParent(Destination)
  BY <1>2, FirstCopy
<1> HIDE DEF e, Steps
<1>5. 1 \in 1..Len(agenda') /\ agenda'[1] = e
  BY <1>2, <1>3, <1>4, EntriesStep
<1>6. agenda' # <<>> /\ Head(agenda') = e
  BY <1>2, <1>3, <1>4, <1>5, Named
<1>7. CASE Broken
  <2>1. fs' = fs
    BY <1>1, <1>4, <1>7, BrokenFacts
  <2>2. Stuck(fs', agenda')
    BY <1>1, <1>3, <1>6, <2>1 DEF Stuck
  <2> QED
    BY <1>7, <2>2
<1>8. ASSUME NEW s, NEW t, NEW d, Loop(s, t, d)
       PROVE  Circling(fs', agenda')
  <2>1. s \in Path /\ t \in Path /\ d \in Path /\ s \o d \in Path
    BY <1>8, CatPath DEF Loop
  <2>2. Kept(fs')
    <3>1. \E w : agenda' = w \o Finale /\ Copying(fs', w)
      BY CopyStarts
    <3> QED
      BY <3>1 DEF Copying
  <2>3. Place(fs', Parent(Destination)) \in DOMAIN fs'
    <3>1. CASE fs' = fs /\ is_dir(op.to) /\ Parent(Destination) = op.to
      <4>1. Place(fs, op.to) \in Path /\ Real(fs, op.to) = Follow(fs, Place(fs, op.to))
        BY <1>1, RealFacts, Named
      <4>2. Place(fs, op.to) \in DOMAIN fs
        BY <1>1, <3>1, <4>1, FollowFacts DEF is_dir, Leads, IsLinkAt
      <4> QED
        BY <3>1, <4>2
    <3>2. CASE CanMakeParent(Destination) /\ fs' = WithParent(Destination)
      BY <1>1, <3>2, ParentThere
    <3> QED
      BY <1>4, <3>1, <3>2
  <2>4. Place(fs', op.from \o Parent((s \o d) \o <<>>)) \in DOMAIN fs'
    BY <1>1, <1>8, <2>1, <2>2, <2>3, LoopFacts
  <2>5. <<>> \in Proper /\ IsPrefix(<<>>, (s \o d) \o <<>>)
    <3>1. (s \o d) \o <<>> \in Path
      BY <1>1, <2>1, CatPath
    <3> QED
      BY <1>1, <3>1, PrefixOrder, RestFacts, ProperFacts
  <2>6. Circles(fs', agenda', s \o d)
    BY <1>1, <1>3, <1>5, <2>4, <2>5 DEF Circles
  <2> QED
    BY <1>8, <2>1, <2>6 DEF Circling
<1> QED
  BY <1>7, <1>8, LoopIf

LEMMA LoopNext ==
  ASSUME IInv, CopyInv, EntryInv, LoopInv, [Next]_vars
  PROVE  LoopInv'
<1>1. CASE UNCHANGED vars
  BY <1>1, LoopOn DEF LoopInv, Starting, vars
<1>2. CASE Next /\ outcome = "ready"
  <2>1. op'.name = "move" => outcome' = "running" /\ Starting'
    BY <1>2, Turns, CopyCalls
  <2> QED
    BY <2>1 DEF LoopInv, Endless
<1>3. CASE Next /\ outcome \in {"done", "error"}
  BY <1>1, <1>3, Turns
<1>4. CASE Next /\ outcome = "running"
  <2>1. \/ agenda = <<>> /\ Finish
        \/ agenda # <<>> /\ UNCHANGED <<op, before>> /\ (outcome' = outcome \/ outcome' = "error")
    BY <1>4, Allowed
  <2>2. UNCHANGED <<op, before>>
    BY <2>1 DEF Finish
  <2>3. CASE ~Endless
    BY <2>2, <2>3, LoopOn
  <2>4. CASE Endless /\ StepFails
    <3>1. outcome' = "error"
      BY <2>4 DEF StepFails, Fail
    <3> QED
      BY <2>2, <3>1, LoopOn
  <2>5. CASE Endless /\ ~StepFails
    <3>1. op.name = "move" /\ Unlinked /\ ~Overlap /\ ~Found
      BY <2>5 DEF Endless
    <3>2. CopyCalled /\ op.inside \in BOOLEAN
      BY <3>1 DEF CopyCalled, CopyInv, IInv, TypeOK, AgendaOK, Gone
    <3>3. CASE Starting
      <4>1. agenda # <<>> /\ Now.do = "copy"
        BY <3>2, <3>3, FirstStep
      <4>2. DoCopy
        BY <1>4, <2>5, <4>1, Allowed
      <4>3. outcome' = outcome
        BY <4>2 DEF DoCopy, Continue
      <4>4. (Broken /\ Stuck(fs', agenda')) \/ Circling(fs', agenda')
        BY <3>1, <3>2, <3>3, <4>2, LoopStarts
      <4> QED
        BY <1>4, <2>2, <4>3, <4>4, LoopOn
    <3>4. CASE Broken /\ Stuck(fs, agenda)
      <4>1. Stuck(fs', agenda')
        BY <1>4, <2>5, <3>2, <3>4, StuckStep
      <4>2. agenda # <<>>
        BY <3>4 DEF Stuck
      <4>3. outcome' # "done"
        BY <1>4, <2>1, <4>2
      <4> QED
        BY <2>2, <3>4, <4>1, <4>3, LoopOn
    <3>5. CASE Circling(fs, agenda) /\ ~Starting
      <4>1. agenda # <<>>
        BY <3>5, Named DEF Circling, Circles
      <4>2. PICK work : agenda = work \o Finale /\ Copying(fs, work)
        BY <1>4, <3>1, <3>5, <4>1 DEF CopyInv, Underway
      <4>3. outcome' = outcome /\ Circling(fs', agenda')
        BY <1>4, <2>5, <3>1, <3>2, <3>5, <4>2, CircleStep
      <4> QED
        BY <1>4, <2>2, <4>3, LoopOn
    <3> QED
      BY <1>4, <2>5, <3>3, <3>4, <3>5 DEF LoopInv
  <2> QED
    BY <2>3, <2>4, <2>5
<1>5. outcome \in {"ready", "running", "done", "error"}
  BY DEF IInv, TypeOK
<1> QED
  BY <1>1, <1>2, <1>3, <1>4, <1>5

\* After a copy or a move that returned, what was seen at or below the source is seen at or
\* below the destination, where links are copied as links, and none is at or below that to
\* begin with (main.py:500-533).
THEOREM CopiesAreFaithful == Spec => [](Unlinked => CopyFaithful)
<1>1. Init => CopyInv /\ EntryInv /\ LoopInv
  BY DEF Init, CopyInv, EntryInv, NoOperation, Operation, TextOperations, OnEntries, OfTrees,
         LoopInv, Endless
<1>2. IInv /\ IInv' /\ EntryInv /\ [Next]_vars => EntryInv'
  BY EntryNext
<1>3. IInv /\ CopyInv /\ EntryInv /\ [Next]_vars => CopyInv'
  BY CopyNext
<1>4. IInv /\ CopyInv /\ EntryInv /\ LoopInv /\ [Next]_vars => LoopInv'
  BY LoopNext
<1>5. IInv /\ CopyInv /\ EntryInv /\ LoopInv => (Unlinked => CopyFaithful)
  <2> SUFFICES ASSUME IInv, CopyInv, EntryInv, LoopInv, Unlinked
               PROVE  CopyFaithful
    OBVIOUS
  <2>1. CASE op.name \in {"copy", "move"} /\ Found
    BY <2>1, CopyHolds
  <2>2. CASE op.name \notin {"copy", "move"} \/ Overlap \/ outcome # "done"
    BY <2>2 DEF CopyFaithful
  <2>3. CASE ~Found /\ ~Overlap
    BY <2>2, <2>3 DEF LoopInv, Endless, Found
  <2> QED
    BY <2>1, <2>2, <2>3
<1> QED
  BY <1>1, <1>2, <1>3, <1>4, <1>5, Invariance, PTL DEF Spec

-----------------------------------------------------------------------------
(* An archive that is renamed                                              *)

RemoveTemp == Step("remove", Temp, Temp)
RemovePath == Step("remove", op.from, op.from)
Cleanup == <<RemoveTemp>> \o <<RemovePath>>
Repacking == CopyStep(Temp, op.to, TRUE)

\* The temporary file has the first entry, and then also the file that is made of it.
Packed(f) ==
  /\ FileAt(before, op.from) /\ Text0(op.from) # <<>>
  /\ \E text \in Shrunk(Text0(op.from)) : text \in Lines /\ f = With(before, {Temp}, File(text))
Moved(f) ==
  /\ FileAt(before, op.from) /\ Text0(op.from) # <<>> /\ SameLinks(before, f)
  /\ Real0(Destination) \in DOMAIN f \ {Temp}
  /\ f[Real0(Destination)].kind = "file" /\ f[Real0(Destination)].text \in Shrunk(Text0(op.from))
  /\ \A q \in DOMAIN before \ {Real0(Destination)} : q \in DOMAIN f /\ f[q] = before[q]

\* No text is lost but that of the file at the destination, and the archive after its
\* first entry.
Left(f) ==
  \A q \in DOMAIN before :
    before[q].kind = "file" =>
      \/ q = Real0(Destination)
      \/ \E p \in DOMAIN f \ {Temp} :
           /\ f[p].kind = "file"
           /\ \/ f[p].text = before[q].text
              \/ /\ q = Real0(op.from) /\ before[q].text # <<>>
                 /\ f[p].text \in Shrunk(before[q].text)

Renaming ==
  /\ op.name = "rename_archive" /\ op.inside
  /\ op.from \in Targets /\ \E x \in Range(Names) : op.to = Child(Parent(op.from), x)

\* How far it has come.
Stage(f, steps) ==
  \/ f = before /\ steps = <<Step("pack", op.from, op.to)>> \o (<<Repacking>> \o Cleanup)
  \/ /\ Packed(f)
     /\ \E step \in {Repacking, Step("entries", Temp, Destination),
                     Step("file", Temp, Destination)} : steps = <<step>> \o Cleanup
  \/ Moved(f) /\ Temp \in DOMAIN f /\ f[Temp].kind = "file" /\ steps = Cleanup
  \/ Moved(f) /\ steps = <<RemovePath>>
  \/ steps = <<>>

ArchiveInv ==
  op.name = "rename_archive" =>
    Renaming /\ Left(fs) /\ (outcome = "running" => Stage(fs, agenda))

\* Nothing has the name of the temporary file.
LEMMA NotTemp ==
  ASSUME before \in Trees, IsTree(before)
  PROVE  /\ "temp" \in Words /\ Temp = Child(<<>>, "temp") /\ Last(Temp) = "temp"
         /\ Temp \in Path /\ Temp \notin DOMAIN before
         /\ \A r \in Path : Child(r, "temp") \notin DOMAIN before
<1>1. "temp" \in Words /\ Temp \notin DOMAIN before /\ DOMAIN before \subseteq Path
  BY FilesAssumption, TreeFacts
<1>2. \A word \in Words : Child(<<>>, word) = <<word>> /\ <<word>> \in Path
  BY DEF Child, Path
<1>3. Temp = Child(<<>>, "temp") /\ Temp \in Path
  BY <1>1, <1>2 DEF Temp
<1>4. Last(Temp) = "temp"
  BY <1>1, <1>3, Named, PrefixChild
<1>5. ASSUME NEW r \in Path, Child(r, "temp") \in DOMAIN before
      PROVE  FALSE
  <2>1. r # <<>>
    BY <1>1, <1>3, <1>5
  <2>2. Child(r, "temp") = r \o Temp
    <3>1. r \o Child(<<>>, "temp") = Child(r \o <<>>, "temp")
      BY <1>1, <1>5, Named, CatChild
    <3>2. r \o <<>> = r
      BY PrefixCat
    <3> QED
      BY <1>3, <3>1, <3>2
  <2>3. Tail(r \o Temp) = Tail(r) \o Temp /\ Tail(r) \in Path
    BY <1>3, <2>1, TailCat DEF Path
  <2>4. Child(r, "temp") # <<>>
    BY <1>1, PrefixChild
  <2>5. Tail(r) \o Temp \in Rests
    <3>1. \A path \in DOMAIN before \ {<<>>} : Tail(path) \in Rests
      BY FilesAssumption
    <3> QED
      BY <1>5, <2>2, <2>3, <2>4, <3>1
  <2>6. Temp \in Rests
    BY <1>3, <2>3, <2>5, RestFacts
  <2>7. Len(Temp) = 1 /\ Temp[1] = "temp"
    BY DEF Temp
  <2>8. "temp" \in Range(Names)
    <3>1. \A k \in 1..Len(Temp) : Temp[k] \in Range(Names)
      BY <2>6, RestFacts
    <3>2. 1 \in 1..Len(Temp)
      BY <2>7
    <3> QED
      BY <2>7, <3>1, <3>2
  <2> QED
    BY <2>8, NameFacts
<1> QED
  BY <1>1, <1>3, <1>4, <1>5

LEMMA RenamingFacts ==
  ASSUME IInv, Renaming
  PROVE  /\ IsTree(before) /\ IsTree(fs)
         /\ op.from \in Path \ {<<>>} /\ op.to \in Path \ {<<>>}
         /\ Parent(op.to) = Parent(op.from) /\ Parent(op.from) \in Path
         /\ Destination = IF Kind0(Real0(op.to)) = "dir" THEN Child(op.to, "temp") ELSE op.to
         /\ Destination \in Path \ {<<>>} /\ Real0(Destination) \in Path
         /\ Temp \in Path \ {<<>>} /\ Temp \notin DOMAIN before /\ Last(Temp) = "temp"
         /\ \A q \in DOMAIN before : q # Temp
<1>1. IsTree(before) /\ IsTree(fs) /\ before \in Trees
  BY OldFacts DEF IInv, AgendaOK
<1>2. op.from \in Path \ {<<>>}
  BY NameFacts DEF Renaming
<1>3. Parent(op.from) \in Path
  BY <1>2, PrefixChild
<1>4. PICK x \in Words : op.to = Child(Parent(op.from), x)
  BY NameFacts DEF Renaming
<1>5. op.to \in Path \ {<<>>} /\ Parent(op.to) = Parent(op.from)
  BY <1>3, <1>4, PrefixChild
<1>6. Destination = IF Kind0(Real0(op.to)) = "dir" THEN Child(op.to, "temp") ELSE op.to
  BY <1>1, NotTemp DEF Destination, Renaming
<1>7. Destination \in Path \ {<<>>}
  BY <1>1, <1>5, <1>6, NotTemp, PrefixChild
<1>8. Real0(Destination) \in Path
  BY <1>1, <1>7, RealFacts DEF Real0
<1> QED
  BY <1>1, <1>2, <1>3, <1>5, <1>6, <1>7, <1>8, NotTemp, TempFacts

\* The steps to come.
LEMMA RenamingSteps ==
  ASSUME IInv, Renaming
  PROVE  /\ \A do \in {"pack", "entries", "file"} :
              \A from, to \in {op.from, op.to, Temp, Destination} : Step(do, from, to) \in Steps
         /\ RemoveTemp \in Steps /\ RemovePath \in Steps /\ Repacking \in Steps
         /\ Cleanup \in Seq(Steps) /\ Cleanup # <<>>
         /\ Head(Cleanup) = RemoveTemp /\ Tail(Cleanup) = <<RemovePath>>
         /\ \A step \in Steps : \A later \in Seq(Steps) :
              /\ <<step>> \o later # <<>> /\ <<step>> \o later \in Seq(Steps)
              /\ Head(<<step>> \o later) = step /\ Tail(<<step>> \o later) = later
              /\ <<>> \o later = later
<1>1. /\ \A do \in {"pack", "entries", "file"} :
           \A from, to \in {op.from, op.to, Temp, Destination} : Step(do, from, to) \in Steps
      /\ RemoveTemp \in Steps /\ RemovePath \in Steps /\ Repacking \in Steps
  <2>1. {"pack", "entries", "file", "remove"} \subseteq Deeds \ {"copy"}
    BY DEF Deeds
  <2>2. {op.from, op.to, Temp, Destination} \subseteq Path /\ Temp # <<>>
    BY RenamingFacts
  <2>3. \A do \in {"pack", "entries", "file", "remove"} :
          do # "copy" /\ \A from, to \in Path : Step(do, from, to) \in Steps
    BY <2>1, StepFacts
  <2>4. Repacking \in Steps
    BY <2>2, StepFacts DEF Repacking
  <2>5. RemoveTemp \in Steps /\ RemovePath \in Steps
    BY <2>2, <2>3 DEF RemoveTemp, RemovePath
  <2> QED
    BY <2>2, <2>3, <2>4, <2>5
<1> HIDE DEF Steps
<1>2. ASSUME NEW step \in Steps, NEW later \in Seq(Steps)
      PROVE  /\ <<step>> \o later # <<>> /\ <<step>> \o later \in Seq(Steps)
             /\ Head(<<step>> \o later) = step /\ Tail(<<step>> \o later) = later
             /\ <<>> \o later = later
  <2> DEFINE s == <<step>>
  <2>1. s \in Seq(Steps) /\ s # <<>> /\ s[1] = step /\ Tail(s) = <<>>
    BY TupleFacts
  <2>2. <<>> \o later = later
    BY ConcatEmptySeq
  <2> HIDE DEF s
  <2>3. s \in Seq(Steps) /\ s # <<>> /\ later \in Seq(Steps)
    BY <2>1
  <2>4. /\ s \o later # <<>> /\ s \o later \in Seq(Steps)
        /\ Head(s \o later) = s[1] /\ Tail(s \o later) = Tail(s) \o later
    BY <2>3, TailCat
  <2> QED
    BY <2>1, <2>2, <2>4 DEF s
<1>3. <<RemovePath>> \in Seq(Steps)
  BY <1>1
<1> QED
  BY <1>1, <1>2, <1>3 DEF Cleanup

\* While only the temporary file has been made.
LEMMA PackedFacts ==
  ASSUME IInv, Renaming, Packed(fs)
  PROVE  /\ SameLinks(before, fs) /\ fs[Temp].text \in Lines
         /\ \A p \in Path : Real(fs, p) = Real0(p) /\ Place(fs, p) = Place(before, p)
         /\ Temp \in DOMAIN fs /\ fs[Temp] = File(fs[Temp].text)
         /\ fs[Temp].text \in Shrunk(Text0(op.from))
         /\ Real(fs, Temp) = Temp /\ Place(fs, Temp) = Temp
         /\ ~is_dir(Temp) /\ ~is_link(Temp)
         /\ \A q \in DOMAIN before : q \in DOMAIN fs /\ fs[q] = before[q]
         /\ is_dir(op.to) <=> Kind0(Real0(op.to)) = "dir"
         /\ ~is_dir(Destination) /\ exists(Parent(op.to))
<1>1. /\ IsTree(before) /\ IsTree(fs) /\ Temp \in Path \ {<<>>} /\ Temp \notin DOMAIN before
      /\ op.from \in Path \ {<<>>} /\ op.to \in Path /\ Destination \in Path
  BY RenamingFacts
<1>2. PICK text \in Shrunk(Text0(op.from)) : text \in Lines /\ fs = With(before, {Temp}, File(text))
  BY DEF Packed
<1>3. DOMAIN fs = DOMAIN before \cup {Temp} /\ fs[Temp] = File(text) /\ fs[Temp].text = text
  BY <1>2, NodeFacts DEF With
<1>4. \A q \in DOMAIN before : q \in DOMAIN fs /\ fs[q] = before[q]
  BY <1>1, <1>2 DEF With
<1>5. SameLinks(before, fs)
  BY <1>1, <1>2, PutFile, TempFacts, TreeFacts, NodeFacts
<1>6. \A p \in Path : Real(fs, p) = Real0(p) /\ Place(fs, p) = Place(before, p)
  BY <1>1, <1>5, SameReal DEF Real0
<1>7. fs[Temp].kind = "file" /\ ~IsLinkAt(fs, Temp)
  BY <1>2, <1>3, NodeFacts DEF IsLinkAt
<1>8. \A r \in Path : Place(fs, Child(r, "temp")) = Child(Real(fs, r), "temp")
  BY <1>1, NotTemp, PlaceChild DEF IInv, AgendaOK
<1>9. Place(fs, Temp) = Temp
  <2>1. Real(fs, <<>>) = <<>> /\ <<>> \in Path /\ Temp = Child(<<>>, "temp")
    BY <1>1, Named, RealFacts, NotTemp DEF IInv, AgendaOK
  <2> QED
    BY <1>8, <2>1
<1>10. Real(fs, Temp) = Temp
  BY <1>1, <1>7, <1>9, RealFacts, FollowFacts
<1>11. ~is_dir(Temp) /\ ~is_link(Temp)
  BY <1>7, <1>9, <1>10 DEF is_dir, is_link
<1>12. is_dir(op.to) <=> Kind0(Real0(op.to)) = "dir"
  <2>1. Real(fs, op.to) = Real0(op.to)
    BY <1>1, <1>6
  <2> QED
    BY <1>1, <1>3, <1>4, <1>7, <2>1 DEF is_dir, Leads, Kind0
<1>13. ~is_dir(Destination)
  <2>1. CASE Destination = op.to
    <3>1. Kind0(Real0(op.to)) # "dir"
      <4>1. Child(op.to, "temp") # op.to
        BY <1>1, NotTemp, PrefixChild, PrefixOrder DEF IInv, AgendaOK
      <4> QED
        BY <2>1, <4>1, RenamingFacts
    <3> QED
      BY <1>12, <2>1, <3>1
  <2>2. CASE Destination = Child(op.to, "temp")
    <3>1. Place(fs, Destination) = Child(Real0(op.to), "temp") /\ Real0(op.to) \in Path
      BY <1>1, <1>6, <1>8, <2>2, RealFacts
    <3>2. Place(fs, Destination) \notin DOMAIN before
      BY <3>1, NotTemp, <1>1 DEF IInv, AgendaOK
    <3>3. Place(fs, Destination) \in Path
      BY <1>1, RealFacts, Named
    <3>4. ~IsLinkAt(fs, Place(fs, Destination))
      BY <1>3, <1>7, <3>2 DEF IsLinkAt
    <3>5. Real(fs, Destination) = Place(fs, Destination)
      BY <1>1, <3>3, <3>4, RealFacts, FollowFacts
    <3> QED
      BY <1>3, <1>7, <3>2, <3>5 DEF is_dir, Leads
  <2> QED
    BY <2>1, <2>2, RenamingFacts
<1>14. exists(Parent(op.to))
  <2>1. Real0(op.from) \in DOMAIN before
    BY DEF Packed, FileAt, Real0
  <2>2. Place(before, op.from) \in DOMAIN before
    <3>1. Place(before, op.from) \in Path /\ Real0(op.from) = Follow(before, Place(before, op.from))
      BY <1>1, RealFacts DEF Real0
    <3>2. CASE Place(before, op.from) \notin DOMAIN before
      <4>1. ~IsLinkAt(before, Place(before, op.from))
        BY <3>2 DEF IsLinkAt
      <4> QED
        BY <1>1, <2>1, <3>1, <4>1, FollowFacts
    <3> QED
      BY <3>2
  <2>3. Parent(op.from) \in Path /\ IsPrefix(Parent(op.from), op.from)
    BY <1>1, PrefixChild
  <2>4. Place(before, Parent(op.from)) \in DOMAIN before
    BY <1>1, <2>2, <2>3, Through
  <2> QED
    BY <1>4, <1>6, <2>3, <2>4, RenamingFacts DEF exists
<1> QED
  BY <1>1, <1>2, <1>3, <1>4, <1>5, <1>6, <1>9, <1>10, <1>11, <1>12, <1>13, <1>14

LEMMA PackedLeft ==
  ASSUME IInv, Renaming, NEW f, f = before \/ Packed(f)
  PROVE  Left(f)
<1>1. \A q \in DOMAIN before : q # Temp
  BY RenamingFacts
<1>2. \A q \in DOMAIN before : q \in DOMAIN f \ {Temp} /\ f[q] = before[q]
  BY <1>1 DEF Packed, With
<1> QED
  BY <1>2 DEF Left

LEMMA MovedLeft ==
  ASSUME IInv, Renaming, NEW f, Moved(f)
  PROVE  Left(f)
<1>1. \A q \in DOMAIN before : q # Temp
  BY RenamingFacts
<1> QED
  BY <1>1 DEF Left, Moved

\* The file is made of the temporary one.
LEMMA FileMoves ==
  ASSUME IInv, Renaming, Packed(fs), Now = Step("file", Temp, Destination), CanCopyFile
  PROVE  /\ CopyTarget = Destination /\ Real(fs, CopyTarget) = Real0(Destination)
         /\ Left(With(fs, {Real0(Destination)}, File(<<>>)))
         /\ LET g == With(fs, {Real0(Destination)}, File(Text(Temp)))
            IN Moved(g) /\ Temp \in DOMAIN g /\ g[Temp].kind = "file"
<1> DEFINE place == Real0(Destination)
           text == fs[Temp].text
           g == With(fs, {place}, File(text))
           h == With(fs, {place}, File(<<>>))
<1>1. Now.from = Temp /\ Now.to = Destination
  BY FieldFacts
<1>2. IsTree(fs) /\ Destination \in Path /\ Temp \notin DOMAIN before
  BY RenamingFacts
<1>3. /\ SameLinks(before, fs) /\ text \in Lines
      /\ Temp \in DOMAIN fs /\ fs[Temp] = File(text) /\ text \in Shrunk(Text0(op.from))
      /\ \A q \in DOMAIN before : q \in DOMAIN fs /\ fs[q] = before[q]
  BY PackedFacts
<1>4. CopyTarget = Destination
  BY <1>1, PackedFacts DEF CopyTarget
<1>5. Real(fs, Destination) = place /\ Real(fs, Temp) = Temp
  BY <1>2, PackedFacts
<1>6. place # Temp /\ CanOpen(fs, Destination)
  BY <1>1, <1>4, <1>5 DEF CanCopyFile
<1>7. File(text).kind = "file" /\ File(text).text = text
  BY <1>3, NodeFacts
<1>8. Text(Temp) = text
  BY <1>3, <1>5, <1>7 DEF Text
<1>9. SameLinks(fs, g)
  BY <1>2, <1>3, <1>5, <1>6, Opened
<1>10. SameLinks(before, g)
  BY <1>3, <1>9 DEF SameLinks, IsLinkAt
<1>11. /\ place \in DOMAIN g /\ g[place] = File(text)
       /\ \A q \in DOMAIN fs : q # place => q \in DOMAIN g /\ g[q] = fs[q]
       /\ \A q \in DOMAIN fs : q # place => q \in DOMAIN h /\ h[q] = fs[q]
  BY DEF With
<1> HIDE DEF g, h, text, place
<1>12. Moved(g)
  BY <1>3, <1>6, <1>7, <1>10, <1>11 DEF Moved, Packed, place, text
<1>13. Temp \in DOMAIN g /\ g[Temp].kind = "file"
  BY <1>3, <1>6, <1>7, <1>11
<1>14. Left(h)
  <2>1. \A q \in DOMAIN before : q # place => q \in DOMAIN h \ {Temp} /\ h[q] = before[q]
    BY <1>2, <1>3, <1>11
  <2> QED
    BY <2>1 DEF Left, place
<1> QED
  BY <1>4, <1>5, <1>8, <1>12, <1>13, <1>14 DEF g, h, place, text

\* The temporary file is removed.
LEMMA TempGoes ==
  ASSUME IInv, Renaming, Moved(fs), Temp \in DOMAIN fs, fs[Temp].kind = "file",
         NEW g \in Removals(Temp)
  PROVE  Moved(g)
<1>1. IsTree(before) /\ IsTree(fs) /\ Temp \in Path /\ Temp \notin DOMAIN before
  BY RenamingFacts
<1>2. Place(fs, Temp) = Temp
  <2>1. Real(fs, <<>>) = <<>> /\ <<>> \in Path /\ Temp = Child(<<>>, "temp") /\ "temp" \in Words
    BY <1>1, Named, RealFacts, NotTemp DEF IInv, AgendaOK
  <2> QED
    BY <1>1, <2>1, PlaceChild
<1>3. ~IsLinkAt(fs, Temp)
  BY DEF IsLinkAt
<1>4. Real(fs, Temp) = Temp
  BY <1>1, <1>2, <1>3, RealFacts, FollowFacts
<1>5. exists(Temp) /\ ~is_dir(Temp)
  BY <1>2, <1>4 DEF exists, is_dir
<1>6. g = Without(fs, {Temp})
  BY <1>2, <1>5 DEF Removals
<1>7. DOMAIN g = DOMAIN fs \ {Temp} /\ \A q \in DOMAIN g : g[q] = fs[q]
  BY <1>6 DEF Without
<1> HIDE DEF Temp
<1>8. SameLinks(before, g)
  BY <1>1, <1>7 DEF Moved, SameLinks, IsLinkAt
<1> QED
  BY <1>1, <1>7, <1>8 DEF Moved

\* The archive is removed under its old name.
LEMMA OldGoes ==
  ASSUME IInv, Renaming, Moved(fs), NEW g \in Removals(op.from)
  PROVE  Left(g)
<1> DEFINE place == Place(before, op.from)
           real == Real0(op.from)
           new == Real0(Destination)
<1>1. IsTree(before) /\ IsTree(fs) /\ op.from \in Path /\ \A q \in DOMAIN before : q # Temp
  BY RenamingFacts
<1>2. Place(fs, op.from) = place /\ Real(fs, op.from) = real
  BY <1>1, SameReal DEF Moved, Real0
<1>3. real \in DOMAIN before /\ before[real].kind = "file"
  BY DEF Moved, FileAt, Real0
<1>4. /\ new \in DOMAIN fs \ {Temp} /\ fs[new].kind = "file"
      /\ before[real].text # <<>> /\ fs[new].text \in Shrunk(before[real].text)
      /\ \A q \in DOMAIN before \ {new} : q \in DOMAIN fs /\ fs[q] = before[q]
  BY <1>3 DEF Moved, Text0
<1>5. real = Follow(before, place) /\ place \in Path
  BY <1>1, RealFacts, Named DEF Real0
<1> HIDE DEF place, real, new
<1>6. ~is_dir(op.from)
  BY <1>2, <1>3, <1>4 DEF is_dir
<1>7. g = fs \/ g = Without(fs, {place})
  BY <1>2, <1>6 DEF Removals
<1>8. \A q \in DOMAIN fs : q # place => g = fs \/ (q \in DOMAIN g /\ g[q] = fs[q])
  BY <1>7 DEF Without
<1>9. ASSUME NEW q \in DOMAIN before, before[q].kind = "file", q # new
      PROVE  \E p \in DOMAIN g \ {Temp} :
               /\ g[p].kind = "file"
               /\ \/ g[p].text = before[q].text
                  \/ /\ q = real /\ before[q].text # <<>> /\ g[p].text \in Shrunk(before[q].text)
  <2>1. CASE g = fs \/ q # place
    BY <1>1, <1>4, <1>8, <1>9, <2>1
  <2>2. CASE g # fs /\ q = place
    <3>1. ~IsLinkAt(before, place)
      BY <1>9, <2>2 DEF IsLinkAt
    <3>2. real = place
      BY <1>1, <1>5, <3>1, FollowFacts
    <3>3. new \in DOMAIN g /\ g[new] = fs[new]
      BY <1>4, <1>8, <1>9, <2>2
    <3> QED
      BY <1>4, <2>2, <3>2, <3>3
  <2> QED
    BY <2>1, <2>2
<1> QED
  BY <1>9 DEF Left, new, real

LEMMA LeftEnough ==
  ASSUME IInv, Renaming, Left(fs)
  PROVE  NothingElseLost
<1>1. Destination \in Goals
  <2>1. <<>> \in Rests /\ Destination \o <<>> = Destination
    BY RestFacts, PrefixCat, RenamingFacts
  <2> QED
    BY <2>1 DEF Goals
<1> DEFINE g == Without(fs, {Temp})
<1>2. DOMAIN g = DOMAIN fs \ {Temp} /\ \A p \in DOMAIN g : g[p] = fs[p]
  BY DEF Without
<1> HIDE DEF g
<1>3. ASSUME NEW q \in DOMAIN before, before[q].kind = "file"
      PROVE  \/ before[q].text \in Texts(g)
             \/ q = Real0(op.from) /\ EntryLeft(before[q].text, Texts(g))
             \/ q = Real0(Destination)
  <2>1. \A p \in DOMAIN fs \ {Temp} : fs[p].kind = "file" => fs[p].text \in Texts(g)
    BY <1>2 DEF Texts
  <2>2. \A text : text # <<>> /\ Shrunk(text) \cap Texts(g) # {} => EntryLeft(text, Texts(g))
    BY DEF Shrunk, EntryLeft
  <2> QED
    BY <1>3, <2>1, <2>2 DEF Left
<1> QED
  BY <1>1, <1>3 DEF NothingElseLost, g, Renaming

\* The next state in these terms.
LEMMA RenamingOn ==
  ASSUME UNCHANGED <<op, before>>, Renaming, Left(fs'), outcome' = "running" => Stage(fs', agenda')
  PROVE  ArchiveInv'
<1>1. Destination' = Destination /\ \A p : Real0(p)' = Real0(p)
  BY DEF Destination, Kind0, Real0
<1>2. Text0(op.from)' = Text0(op.from)
  BY <1>1 DEF Text0
<1>3. Left(fs')  => Left(fs)'
  BY <1>1 DEF Left
<1>4. Packed(fs') => Packed(fs)'
  BY <1>2 DEF Packed, FileAt
<1>5. Moved(fs') => Moved(fs)'
  BY <1>1, <1>2 DEF Moved, FileAt, SameLinks, IsLinkAt
<1>6. Repacking' = Repacking /\ RemovePath' = RemovePath /\ Cleanup' = Cleanup
  BY DEF Repacking, RemovePath, Cleanup
<1>7. Stage(fs', agenda') => Stage(fs, agenda)'
  BY <1>1, <1>4, <1>5, <1>6 DEF Stage
<1>8. Renaming'
  BY DEF Renaming
<1> QED
  BY <1>3, <1>7, <1>8 DEF ArchiveInv

\* The calls.
LEMMA RenamingCalls ==
  ASSUME IInv, outcome = "ready", Called
  PROVE  ArchiveInv'
<1>1. fs = before /\ before \in Trees
  BY DEF IInv, AgendaOK
<1>2. ASSUME NEW name, name # "rename_archive", NEW from, NEW to, NEW inside, NEW count,
             NEW steps, Call(Operation(name, from, to, inside, count), steps)
      PROVE  ArchiveInv'
  <2>1. Operation(name, from, to, inside, count).name = name
    BY DEF Operation
  <2> QED
    BY <1>2, <2>1 DEF Call, ArchiveInv
<1>3. ASSUME NEW from \in Targets, NEW to \in Targets, NEW inside \in BOOLEAN,
             NEW symlinks \in BOOLEAN,
             copy(from, to, inside, symlinks) \/ move(from, to, inside)
      PROVE  ArchiveInv'
  BY <1>3, CopyOrMove DEF ArchiveInv
<1>4. ASSUME NEW path \in Targets, NEW to \in Targets, make_link(path, to) \/ concatenate(path, to)
      PROVE  ArchiveInv'
  BY <1>2, <1>4 DEF make_link, concatenate
<1>5. ASSUME NEW path \in Targets, remove(path) \/ touch(path) \/ await_exists(path)
      PROVE  ArchiveInv'
  BY <1>2, <1>5 DEF remove, touch, await_exists
<1>6. ASSUME NEW path \in Targets, write_lines(path) \/ append_lines(path)
      PROVE  ArchiveInv'
  BY <1>2, <1>6 DEF write_lines, append_lines
<1>7. ASSUME NEW path \in Targets, prepend_lines(path) \/ replace_in_file(path)
      PROVE  ArchiveInv'
  BY <1>2, <1>7 DEF prepend_lines, replace_in_file
<1>8. ASSUME NEW path \in Targets, NEW count \in 0..2, tail_lines(path, count)
      PROVE  ArchiveInv'
  BY <1>2, <1>8 DEF tail_lines
<1>9. ASSUME NEW path \in Targets, NEW n \in DOMAIN Names, rename_archive(path, Names[n])
      PROVE  ArchiveInv'
  <2> DEFINE to == Child(Parent(path), Names[n])
             a == Step("pack", path, to)
             b == CopyStep(Temp, to, TRUE)
             c == Step("remove", Temp, Temp)
             d == Step("remove", path, path)
             o == Operation("rename_archive", path, to, TRUE, 0)
  <2>1. /\ o.name = "rename_archive" /\ o.from = path /\ o.to = to /\ o.inside = TRUE
    BY DEF Operation
  <2>2. /\ op' = o /\ outcome' = "running" /\ UNCHANGED <<fs, before>>
        /\ agenda' = <<a>> \o <<b, c>> \o <<d>>
    BY <1>9 DEF rename_archive, Call, CopyThenRemove
  <2>3. Names[n] \in Words /\ Names[n] \in Range(Names)
    BY NameFacts DEF Range
  <2>4. path \in Path \ {<<>>} /\ to \in Path
    BY <2>3, NameFacts, PrefixChild
  <2>5. a \in Steps /\ b \in Steps /\ c \in Steps /\ d \in Steps
    <3>1. "remove" \in Deeds /\ "pack" \in Deeds /\ "remove" # "copy" /\ "pack" # "copy"
      BY DEF Deeds
    <3>2. Temp \in Path \ {<<>>}
      BY TempFacts
    <3> QED
      BY <2>4, <3>1, <3>2, StepFacts
  <2> HIDE DEF a, b, c, d, o, to, Steps
  <2>6. <<a>> \o <<b, c>> \o <<d>> = <<a>> \o (<<b>> \o (<<c>> \o <<d>>))
    <3>1. <<b>> \o <<c>> = <<b, c>>
      BY <2>5, Paired
    <3>2. <<a>> \in Seq(Steps) /\ <<b>> \in Seq(Steps) /\ <<c>> \in Seq(Steps)
          /\ <<d>> \in Seq(Steps) /\ <<b, c>> \in Seq(Steps)
      BY <2>5
    <3>3. (<<a>> \o <<b, c>>) \o <<d>> = <<a>> \o (<<b, c>> \o <<d>>)
      BY <3>2, ConcatAssociative
    <3>4. (<<b>> \o <<c>>) \o <<d>> = <<b>> \o (<<c>> \o <<d>>)
      BY <3>2, ConcatAssociative
    <3> QED
      BY <3>1, <3>3, <3>4
  <2>7. op'.name = "rename_archive" /\ op'.from = path /\ op'.to = to /\ op'.inside
    BY <2>1, <2>2
  <2>8. Renaming'
    BY <2>3, <2>7 DEF Renaming, to
  <2>9. agenda' = <<a>> \o (<<b>> \o (<<c>> \o <<d>>))
    BY <2>2, <2>6
  <2>10. Stage(fs, agenda)'
    <3>1. /\ Step("pack", op'.from, op'.to) = a /\ Repacking' = b
          /\ RemoveTemp' = c /\ RemovePath' = d
      BY <2>7 DEF Repacking, RemoveTemp, RemovePath, a, b, c, d
    <3>2. Cleanup' = <<c>> \o <<d>>
      BY <3>1 DEF Cleanup
    <3> QED
      BY <1>1, <2>2, <2>9, <3>1, <3>2 DEF Stage
  <2>11. Left(fs)'
    <3>1. \A q \in DOMAIN before : q \in DOMAIN fs \ {Temp} /\ fs[q] = before[q]
      BY <1>1, FilesAssumption
    <3> QED
      BY <2>2, <3>1 DEF Left
  <2> QED
    BY <2>8, <2>10, <2>11 DEF ArchiveInv
<1> QED
  BY <1>3, <1>4, <1>5, <1>6, <1>7, <1>8, <1>9 DEF Called

\* A step.
LEMMA RenamingGoes ==
  ASSUME IInv, Renaming, Left(fs), Stage(fs, agenda), Next, outcome = "running", agenda # <<>>
  PROVE  Left(fs') /\ (outcome' = "error" \/ Stage(fs', agenda'))
<1> DEFINE P == Step("pack", op.from, op.to)
           E == Step("entries", Temp, Destination)
           F == Step("file", Temp, Destination)
<1>1. /\ P.do = "pack" /\ P.from = op.from
      /\ E.do = "entries" /\ E.from = Temp /\ E.to = Destination
      /\ F.do = "file" /\ F.from = Temp /\ F.to = Destination
      /\ RemoveTemp.do = "remove" /\ RemoveTemp.from = Temp
      /\ RemovePath.do = "remove" /\ RemovePath.from = op.from
      /\ Repacking.do = "copy" /\ Repacking.from = Temp /\ Repacking.to = op.to
      /\ Repacking.inside
  <2>1. /\ Repacking.do = "copy" /\ Repacking.from = Temp /\ Repacking.to = op.to
        /\ Repacking.inside
    BY DEF Repacking, CopyStep, Step
  <2> QED
    BY <2>1, FieldFacts DEF RemoveTemp, RemovePath
<1>2. /\ P \in Steps /\ E \in Steps /\ F \in Steps /\ Repacking \in Steps
      /\ RemovePath \in Steps /\ Cleanup \in Seq(Steps) /\ Cleanup # <<>>
      /\ Head(Cleanup) = RemoveTemp /\ Tail(Cleanup) = <<RemovePath>>
      /\ \A step \in Steps : \A later \in Seq(Steps) :
           /\ <<step>> \o later \in Seq(Steps)
           /\ Head(<<step>> \o later) = step /\ Tail(<<step>> \o later) = later
           /\ <<>> \o later = later
  BY RenamingSteps
<1>3. <<RemovePath>> \in Seq(Steps) /\ <<>> \o <<>> = <<>>
  BY <1>2
<1>4. /\ IsTree(fs) /\ op.to \in Path /\ Destination \in Path /\ Last(Temp) = "temp"
      /\ Destination = IF Kind0(Real0(op.to)) = "dir" THEN Child(op.to, "temp") ELSE op.to
  BY RenamingFacts
<1> HIDE DEF P, E, F, Steps
<1>5. /\ StepFails => Partly /\ outcome' = "error"
  BY DEF StepFails, Fail
<1>6. CASE fs = before /\ agenda = <<P>> \o (<<Repacking>> \o Cleanup)
  <2>1. Now = P /\ Tail(agenda) = <<Repacking>> \o Cleanup
    BY <1>2, <1>6 DEF Now
  <2>2. StepFails \/ DoPack
    BY <1>1, <2>1, Allowed
  <2>3. CASE StepFails
    <3>1. fs' = fs
      BY <1>1, <1>5, <2>1, <2>3 DEF Partly
    <3> QED
      BY <1>5, <2>3, <3>1
  <2>4. CASE DoPack
    <3>1. /\ is_file(op.from) /\ Text(op.from) # <<>>
          /\ \E name \in NewNames(Text(op.from), Last(op.to)) :
               fs' = With(before, {Temp}, File(<<[FirstEntry(Text(op.from)) EXCEPT ![1] = name]>>))
          /\ agenda' = <<>> \o (<<Repacking>> \o Cleanup)
      BY <1>1, <1>6, <2>1, <2>4 DEF DoPack, Continue
    <3>2. FileAt(before, op.from) /\ Text(op.from) = Text0(op.from)
      BY <1>6, <3>1 DEF is_file, Leads, FileAt, Text, Text0, Real0
    <3>3. agenda' = <<Repacking>> \o Cleanup
      BY <1>2, <3>1
    <3>4. Packed(fs')
      BY <1>4, <3>1, <3>2, Packs DEF Packed
    <3>5. Left(fs')
      BY <3>4, PackedLeft
    <3> QED
      BY <3>3, <3>4, <3>5 DEF Stage
  <2> QED
    BY <2>2, <2>3, <2>4
<1>7. CASE Packed(fs) /\ agenda = <<Repacking>> \o Cleanup
  <2>1. Now = Repacking /\ Tail(agenda) = Cleanup
    BY <1>2, <1>7 DEF Now
  <2>2. StepFails \/ DoCopy
    BY <1>1, <2>1, Allowed
  <2>3. fs' = fs
    <3>1. CASE StepFails
      BY <1>1, <1>5, <2>1, <3>1 DEF Partly
    <3>2. CASE DoCopy
      BY <1>1, <1>7, <2>1, <3>2, PackedFacts DEF DoCopy, WithParent
    <3> QED
      BY <2>2, <3>1, <3>2
  <2>4. CASE DoCopy
    <3>1. CopyTo = Destination
      BY <1>1, <1>4, <1>7, <2>1, PackedFacts DEF CopyTo
    <3>2. agenda' = <<E>> \o Cleanup
      BY <1>1, <2>1, <2>4, <3>1 DEF DoCopy, Continue, E
    <3> QED
      BY <1>7, <2>3, <3>2 DEF Stage, E
  <2> QED
    BY <1>5, <2>2, <2>3, <2>4
<1>8. CASE Packed(fs) /\ agenda = <<E>> \o Cleanup
  <2>1. Now = E /\ Tail(agenda) = Cleanup
    BY <1>2, <1>8 DEF Now
  <2>2. StepFails \/ DoEntries
    BY <1>1, <2>1, Allowed
  <2>3. fs' = fs
    BY <1>1, <1>5, <2>1, <2>2 DEF Partly, DoEntries
  <2>4. CASE DoEntries
    <3>1. ~is_dir(Temp) /\ ~is_link(Temp)
      BY <1>8, PackedFacts
    <3>2. agenda' = <<F>> \o Cleanup
      BY <1>1, <2>1, <2>4, <3>1 DEF DoEntries, Continue, F
    <3> QED
      BY <1>8, <2>3, <3>2 DEF Stage, F
  <2> QED
    BY <1>5, <2>2, <2>3, <2>4
<1>9. CASE Packed(fs) /\ agenda = <<F>> \o Cleanup
  <2>1. Now = F /\ Tail(agenda) = Cleanup
    BY <1>2, <1>9 DEF Now
  <2>2. StepFails \/ DoFile
    BY <1>1, <2>1, Allowed
  <2>3. CASE StepFails
    <3>1. fs' = fs \/ (CanCopyFile /\ fs' = With(fs, {Real(fs, CopyTarget)}, File(<<>>)))
      BY <1>1, <1>5, <2>1, <2>3 DEF Partly
    <3>2. Left(fs')
      BY <1>9, <2>1, <3>1, FileMoves DEF F
    <3> QED
      BY <1>5, <2>3, <3>2
  <2>4. CASE DoFile
    <3>1. /\ CanCopyFile /\ fs' = With(fs, {Real(fs, CopyTarget)}, File(Text(Temp)))
          /\ agenda' = <<>> \o Cleanup
      BY <1>1, <2>1, <2>4 DEF DoFile, Continue
    <3>2. Moved(fs') /\ Temp \in DOMAIN fs' /\ fs'[Temp].kind = "file"
      BY <1>9, <2>1, <3>1, FileMoves DEF F
    <3>3. agenda' = Cleanup
      BY <1>2, <3>1
    <3> QED
      BY <3>2, <3>3, MovedLeft DEF Stage
  <2> QED
    BY <2>2, <2>3, <2>4
<1>10. CASE Moved(fs) /\ Temp \in DOMAIN fs /\ fs[Temp].kind = "file" /\ agenda = Cleanup
  <2>1. Now = RemoveTemp /\ Tail(agenda) = <<RemovePath>>
    BY <1>2, <1>10 DEF Now
  <2>2. StepFails \/ DoRemove
    BY <1>1, <2>1, Allowed
  <2>3. fs' = fs \/ fs' \in Removals(Temp)
    BY <1>1, <1>5, <2>1, <2>2 DEF Partly, DoRemove
  <2>4. Moved(fs')
    BY <1>10, <2>3, TempGoes
  <2>5. CASE DoRemove
    <3>1. agenda' = <<>> \o <<RemovePath>>
      BY <2>1, <2>5 DEF DoRemove, Continue
    <3>2. agenda' = <<RemovePath>>
      BY <1>2, <1>3, <3>1
    <3> QED
      BY <2>4, <3>2, MovedLeft DEF Stage
  <2> QED
    BY <1>5, <2>2, <2>4, <2>5, MovedLeft
<1>11. CASE Moved(fs) /\ agenda = <<RemovePath>>
  <2>1. Now = RemovePath /\ Tail(agenda) = <<>>
    BY <1>2, <1>11, TupleFacts DEF Now
  <2>2. StepFails \/ DoRemove
    BY <1>1, <2>1, Allowed
  <2>3. fs' = fs \/ fs' \in Removals(op.from)
    BY <1>1, <1>5, <2>1, <2>2 DEF Partly, DoRemove
  <2>4. Left(fs')
    BY <1>11, <2>3, OldGoes
  <2>5. CASE DoRemove
    <3>1. agenda' = <<>>
      BY <1>3, <2>1, <2>5 DEF DoRemove, Continue
    <3> QED
      BY <2>4, <3>1 DEF Stage
  <2> QED
    BY <1>5, <2>2, <2>4, <2>5
<1> QED
  BY <1>6, <1>7, <1>8, <1>9, <1>10, <1>11 DEF Stage, P, E, F

LEMMA ArchiveNext ==
  ASSUME IInv, ArchiveInv, [Next]_vars
  PROVE  ArchiveInv'
<1>1. ASSUME UNCHANGED <<fs, op, agenda, before>>, outcome' = outcome \/ outcome' # "running"
      PROVE  ArchiveInv'
  <2>1. CASE op.name = "rename_archive"
    BY <1>1, <2>1, RenamingOn DEF ArchiveInv
  <2>2. CASE op.name # "rename_archive"
    BY <1>1, <2>2 DEF ArchiveInv
  <2> QED
    BY <2>1, <2>2
<1>2. CASE UNCHANGED vars
  BY <1>1, <1>2 DEF vars
<1>3. CASE Next /\ outcome = "ready"
  BY <1>3, Turns, RenamingCalls
<1>4. CASE Next /\ outcome \in {"done", "error"}
  BY <1>4, Turns, <1>2
<1>5. CASE Next /\ outcome = "running" /\ agenda = <<>>
  <2>1. Finish
    BY <1>5, Allowed
  <2> QED
    BY <1>1, <2>1 DEF Finish
<1>6. CASE Next /\ outcome = "running" /\ agenda # <<>>
  <2>1. UNCHANGED <<op, before>> /\ (outcome' = outcome \/ outcome' = "error")
    BY <1>6, Allowed
  <2>2. CASE op.name = "rename_archive"
    <3>1. Left(fs') /\ (outcome' = "error" \/ Stage(fs', agenda')) /\ Renaming
      BY <1>6, <2>2, RenamingGoes DEF ArchiveInv
    <3> QED
      BY <2>1, <3>1, RenamingOn
  <2>3. CASE op.name # "rename_archive"
    BY <2>1, <2>3 DEF ArchiveInv
  <2> QED
    BY <2>2, <2>3
<1>7. outcome \in {"ready", "running", "done", "error"}
  BY DEF IInv, TypeOK
<1> QED
  BY <1>2, <1>3, <1>4, <1>5, <1>6, <1>7

\* Whatever step fails, no operation loses the text of a file, but as NothingElseLost says;
\* of copy and move this is proved where links are copied as links, and none is at or below the
\* destination to begin with (main.py:113-131, 486-660, 766-774).
THEOREM LosesNothing ==
  Spec => []((op.name \in {"copy", "move"} => Unlinked) => NothingElseLost)
<1>1. Init => EntryInv /\ TextInv /\ CopyInv /\ ArchiveInv
  BY DEF Init, TextInv, EntryInv, CopyInv, ArchiveInv, NoOperation, Operation,
         TextOperations, OnEntries, OfTrees
<1>2. IInv /\ IInv' /\ EntryInv /\ [Next]_vars => EntryInv'
  BY EntryNext
<1>3. IInv /\ IInv' /\ TextInv /\ [Next]_vars => TextInv'
  BY TextSteps, TextStutters
<1>4. IInv /\ CopyInv /\ EntryInv /\ [Next]_vars => CopyInv'
  BY CopyNext
<1>5. IInv /\ ArchiveInv /\ [Next]_vars => ArchiveInv'
  BY ArchiveNext
<1>6. IInv /\ TextInv /\ EntryInv /\ CopyInv /\ ArchiveInv =>
        ((op.name \in {"copy", "move"} => Unlinked) => NothingElseLost)
  <2> SUFFICES ASSUME IInv, TextInv, EntryInv, CopyInv, ArchiveInv,
                      op.name \in {"copy", "move"} => Unlinked
               PROVE  NothingElseLost
    OBVIOUS
  <2>1. CASE op.name = "none"
    BY <2>1 DEF NothingElseLost
  <2>2. CASE op.name \in TextOperations \cup OnEntries
    <3>1. Safe(fs)
      BY <2>2, TextSafe DEF EntryInv
    <3>2. ~op.inside
      BY <2>2 DEF EntryInv, OfTrees, OnEntries, TextOperations
    <3> QED
      BY <3>1, <3>2, SafeEnough
  <2>3. CASE op.name \in {"copy", "move"}
    BY <2>3, CopyHolds
  <2>4. CASE op.name = "rename_archive"
    BY <2>4, LeftEnough DEF ArchiveInv
  <2> QED
    BY <2>1, <2>2, <2>3, <2>4 DEF EntryInv, OfTrees
<1> QED
  BY <1>1, <1>2, <1>3, <1>4, <1>5, <1>6, Invariance, PTL DEF Spec
=============================================================================
