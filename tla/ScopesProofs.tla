---------------------------- MODULE ScopesProofs -----------------------------
(***************************************************************************)
(* Proofs about Scopes, for any finite set of variables, any directories   *)
(* and levels, any depth of nesting, any number of changes by the bodies   *)
(* and of strikes: the blocks implement Scoped, and fail only with cause.  *)
(*                                                                         *)
(* What steps come to is shown by induction on their number (Ascend), for  *)
(* Worlds is a recursive function; every way into a block is shown to be   *)
(* of one form (Enters: EnterOK says what its __enter__ and __exit__ do),  *)
(* so that the steps of the invariant are taken once for all of them.      *)
(***************************************************************************)
EXTENDS Scopes, FiniteSetTheorems, SequenceTheorems, WellFoundedInduction, TLAPS

-----------------------------------------------------------------------------
(* Induction on the numbers up to N, by sets                               *)

LEMMA Least ==
  ASSUME NEW S \in SUBSET Nat, S # {}
  PROVE  \E n \in S : \A m \in S : n <= m
<1>. DEFINE R == OpToRel(<, Nat)
<1>1. \A m, n \in Nat : m < n => <<m, n>> \in R
  BY DEF OpToRel
<1>2. IsWellFoundedOn(R, Nat)
  BY NatLessThanWellFounded
<1>. HIDE DEF R
<1>3. PICK n \in S : \A m \in S : <<m, n>> \notin R
  BY <1>2, WFMin
<1>4. \A m \in S : ~(m < n)
  BY <1>1, <1>3, Zenon
<1>. QED
  BY <1>4

LEMMA Ascend ==
  ASSUME NEW N \in Nat, NEW S \in SUBSET (0..N), 0 \in S,
         \A n \in S : n < N => n + 1 \in S
  PROVE  S = 0..N
<1>. DEFINE R == (0..N) \ S
<1>. SUFFICES ASSUME R # {}
              PROVE  FALSE
  OBVIOUS
<1>1. R \in SUBSET Nat
  OBVIOUS
<1>. HIDE DEF R
<1>2. PICK n \in R : \A m \in R : n <= m
  BY <1>1, Least, Zenon
<1>3. n \in (0..N) \ S
  BY <1>2 DEF R
<1>4. n # 0 /\ n - 1 \in 0..N /\ n - 1 < N /\ ~(n <= n - 1)
  BY <1>3
<1>5. n - 1 \in S
  BY <1>2, <1>4 DEF R
<1>. QED
  BY <1>3, <1>4, <1>5

LEMMA WorldsExist ==
  ASSUME NEW steps, Len(steps) \in Nat
  PROVE  /\ Worlds(steps)[0] = World
         /\ \A n \in 1..Len(steps) :
              Worlds(steps)[n] = Do(Worlds(steps)[n - 1], steps[n])
<1>. DEFINE N == Len(steps)
            Is(g, k) == /\ g = [n \in 0..k |-> g[n]] /\ g[0] = World
                        /\ \A n \in 1..k : g[n] = Do(g[n - 1], steps[n])
            S == {k \in 0..N : \E g : Is(g, k)}
<1>1. 0 \in S
  <2>. DEFINE g == [n \in 0..0 |-> World]
  <2>1. g = [n \in 0..0 |-> g[n]] /\ g[0] = World /\ 1..0 = {}
    OBVIOUS
  <2>. HIDE DEF g
  <2>2. Is(g, 0)
    BY <2>1
  <2>. QED
    BY <2>2
<1>2. ASSUME NEW k \in S, k < N
      PROVE  k + 1 \in S
  <2>1. k \in 0..N /\ k + 1 \in 0..N
    BY <1>2
  <2>2. PICK g : Is(g, k)
    BY <1>2
  <2>. DEFINE h == [n \in 0..k + 1 |-> IF n <= k THEN g[n] ELSE Do(g[k], steps[k + 1])]
  <2>3. /\ h = [n \in 0..k + 1 |-> h[n]]
        /\ \A n \in 0..k : h[n] = g[n]
        /\ h[k + 1] = Do(g[k], steps[k + 1])
    BY <2>1
  <2>. HIDE DEF h
  <2>4. h[0] = World
    BY <2>1, <2>2, <2>3
  <2>5. ASSUME NEW n \in 1..k + 1
        PROVE  h[n] = Do(h[n - 1], steps[n])
    <3>0. n - 1 \in 0..k
      BY <2>1
    <3>1. h[n - 1] = g[n - 1]
      BY <2>3, <3>0
    <3>2. CASE n = k + 1
      BY <2>1, <2>3, <3>1, <3>2
    <3>3. CASE n # k + 1
      <4>1. n \in 1..k /\ n \in 0..k
        BY <2>1, <3>3
      <4>. QED
        BY <2>2, <2>3, <3>1, <4>1
    <3>. QED
      BY <3>2, <3>3
  <2>6. Is(h, k + 1)
    BY <2>3, <2>4, <2>5
  <2>. HIDE DEF Is
  <2>. QED
    BY <2>1, <2>6
<1>3. S = 0..N
  <2>1. S \in SUBSET (0..N)
    OBVIOUS
  <2>. HIDE DEF S
  <2>. QED
    BY <1>1, <1>2, <2>1, Ascend
<1>4. PICK g : Is(g, N)
  <2>1. N \in S
    <3>. HIDE DEF S
    <3>. QED
      BY <1>3
  <2>. QED
    BY <2>1
<1>. DEFINE Eq(f) == f = [n \in 0..N |-> IF n = 0 THEN World ELSE Do(f[n - 1], steps[n])]
<1>5. Eq(g)
  BY <1>4
<1>6. Worlds(steps) = CHOOSE f : Eq(f)
  BY DEF Worlds
<1>. HIDE DEF Eq
<1>7. Eq(Worlds(steps))
  BY <1>5, <1>6
<1>. DEFINE W == Worlds(steps)
<1>8. W = [n \in 0..N |-> IF n = 0 THEN World ELSE Do(W[n - 1], steps[n])]
  BY <1>7 DEF Eq
<1>. HIDE DEF W
<1>. QED
  BY <1>8 DEF W

-----------------------------------------------------------------------------
(* Lists                                                                   *)

Listed(s) == Len(s) \in Nat /\ s = [n \in 1..Len(s) |-> s[n]]

LEMMA ListedSeq ==
  ASSUME NEW s, Listed(s)
  PROVE  \E S : s \in Seq(S) /\ S = {s[n] : n \in 1..Len(s)}
<1>. DEFINE S == {s[n] : n \in 1..Len(s)}
<1>1. s \in [1..Len(s) -> S]
  BY DEF Listed
<1>2. s \in Seq(S)
  BY <1>1 DEF Listed
<1>. QED
  BY <1>2

LEMMA SeqListed ==
  ASSUME NEW S, NEW s \in Seq(S)
  PROVE  Listed(s)
BY DEF Listed

LEMMA MadeListed ==
  ASSUME NEW N \in Nat, NEW s, s = [n \in 1..N |-> s[n]]
  PROVE  Listed(s) /\ Len(s) = N
<1>. DEFINE S == {s[n] : n \in 1..N}
<1>1. s \in [1..N -> S]
  OBVIOUS
<1>2. s \in Seq(S) /\ Len(s) = N
  BY <1>1
<1>. QED
  BY <1>2 DEF Listed

LEMMA AppendListed ==
  ASSUME NEW s, Listed(s), NEW x
  PROVE  /\ Listed(Append(s, x))
         /\ Len(Append(s, x)) = Len(s) + 1
         /\ Append(s, x)[Len(s) + 1] = x
         /\ \A n \in 1..Len(s) : Append(s, x)[n] = s[n]
<1>1. PICK S : s \in Seq(S)
  BY ListedSeq
<1>. DEFINE T == S \cup {x}
<1>2. s \in Seq(T) /\ x \in T
  BY <1>1
<1>. HIDE DEF T
<1>3. /\ Append(s, x) \in Seq(T)
      /\ Len(Append(s, x)) = Len(s) + 1
      /\ \A n \in 1..Len(s) : Append(s, x)[n] = s[n]
      /\ Append(s, x)[Len(s) + 1] = x
  BY <1>2, AppendProperties
<1>. QED
  BY <1>3, SeqListed

LEMMA FrontListed ==
  ASSUME NEW s, Listed(s), s # <<>>
  PROVE  /\ Listed(Front(s))
         /\ Len(s) \in Nat \ {0}
         /\ Len(Front(s)) = Len(s) - 1
         /\ \A n \in 1..Len(s) - 1 : Front(s)[n] = s[n]
         /\ Last(s) = s[Len(s)]
<1>1. PICK S : s \in Seq(S)
  BY ListedSeq
<1>2. Len(s) \in Nat \ {0}
  BY <1>1
<1>3. \A k \in Nat : k <= Len(s) =>
        /\ SubSeq(s, 1, k) \in Seq(S) /\ Len(SubSeq(s, 1, k)) = k
        /\ \A n \in 1..k : SubSeq(s, 1, k)[n] = s[n]
  <2>. SUFFICES ASSUME NEW k \in Nat, k <= Len(s)
                PROVE  /\ SubSeq(s, 1, k) \in Seq(S) /\ Len(SubSeq(s, 1, k)) = k
                       /\ \A n \in 1..k : SubSeq(s, 1, k)[n] = s[n]
    OBVIOUS
  <2>1. \A i \in 1..k : s[i] \in S
    BY <1>1, <1>2
  <2>2. /\ SubSeq(s, 1, k) \in Seq(S)
        /\ Len(SubSeq(s, 1, k)) = IF 1 <= k THEN k - 1 + 1 ELSE 0
        /\ \A i \in 1..k - 1 + 1 : SubSeq(s, 1, k)[i] = s[1 + i - 1]
    BY <2>1, SubSeqProperties
  <2>. QED
    BY <2>2
<1>4. Len(s) - 1 \in Nat /\ Len(s) - 1 <= Len(s)
  BY <1>2
<1>5. /\ Front(s) \in Seq(S) /\ Len(Front(s)) = Len(s) - 1
      /\ \A n \in 1..Len(s) - 1 : Front(s)[n] = s[n]
  BY <1>3, <1>4 DEF Front
<1>. QED
  BY <1>2, <1>5, SeqListed DEF Last

LEMMA JoinListed ==
  ASSUME NEW a, NEW b, Listed(a), Listed(b)
  PROVE  /\ Listed(a \o b)
         /\ Len(a \o b) = Len(a) + Len(b)
         /\ \A n \in 1..Len(a) : (a \o b)[n] = a[n]
         /\ \A n \in 1..Len(b) : (a \o b)[Len(a) + n] = b[n]
<1>1. PICK S : a \in Seq(S)
  BY ListedSeq
<1>2. PICK T : b \in Seq(T)
  BY ListedSeq
<1>. DEFINE U == S \cup T
<1>3. a \in Seq(U) /\ b \in Seq(U)
  BY <1>1, <1>2
<1>. HIDE DEF U
<1>4. /\ a \o b \in Seq(U)
      /\ Len(a \o b) = Len(a) + Len(b)
      /\ \A i \in 1..Len(a) + Len(b) :
           (a \o b)[i] = IF i <= Len(a) THEN a[i] ELSE b[i - Len(a)]
  BY <1>3, ConcatProperties
<1>5. Len(a) \in Nat /\ Len(b) \in Nat
  BY DEF Listed
<1>6. ASSUME NEW n \in 1..Len(a) PROVE (a \o b)[n] = a[n]
  BY <1>4, <1>5
<1>7. ASSUME NEW n \in 1..Len(b) PROVE (a \o b)[Len(a) + n] = b[n]
  <2>1. Len(a) + n \in 1..Len(a) + Len(b) /\ ~(Len(a) + n <= Len(a)) /\ Len(a) + n - Len(a) = n
    BY <1>5
  <2>. QED
    BY <1>4, <2>1
<1>. QED
  BY <1>4, <1>6, <1>7, SeqListed

\* SetToSeq lists every element once.
LEMMA Listing ==
  ASSUME NEW S, IsFiniteSet(S)
  PROVE  LET s == SetToSeq(S)
         IN /\ Listed(s) /\ DOMAIN s = 1..Len(s)
            /\ \A n \in 1..Len(s) : s[n] \in S
            /\ \A m, n \in 1..Len(s) : s[m] = s[n] => m = n
            /\ \A x \in S : \E n \in 1..Len(s) : s[n] = x
<1>. DEFINE s == SetToSeq(S)
            N == Cardinality(S)
<1>1. N \in Nat
  BY FS_CardinalityType
<1>2. PICK f : f \in Bijection(1..N, S)
  BY FS_CardinalityType DEF ExistsBijection
<1>3. f \in [1..N -> S] /\ IsInjective(f)
  BY <1>2 DEF Bijection, Injection, IsInjective
<1>4. s \in [1..N -> S] /\ IsInjective(s)
  BY <1>3 DEF SetToSeq
<1>. HIDE DEF s
<1>5. s \in Injection(1..N, S)
  BY <1>4 DEF Injection, IsInjective
<1>6. IsFiniteSet(1..N) /\ Cardinality(1..N) = N
  BY <1>1, FS_Interval
<1>7. s \in Surjection(1..N, S)
  BY <1>5, <1>6, FS_Injection
<1>8. Listed(s) /\ Len(s) = N
  BY <1>1, <1>4, MadeListed
<1>. QED
  BY <1>1, <1>4, <1>7, <1>8 DEF Surjection, IsInjective, s

-----------------------------------------------------------------------------
(* What steps do                                                           *)

VarValues == {Absent, "start", "scope", "body"}

\* The values of setting k.
Values(k) ==
  IF k \in Vars THEN VarValues
  ELSE IF k = "cwd" THEN Dirs \cup Temps
  ELSE IF k = "path" THEN Seq(Dirs)
  ELSE IF k = "threshold" THEN Levels
  ELSE IF k = "color" THEN {Plain, "red"}
  ELSE Outputs

WorldOK(w) ==
  /\ w.value = [k \in Settings |-> w.value[k]]
  /\ \A k \in Settings : w.value[k] \in Values(k)
  /\ w.dirs \subseteq Dirs \cup Temps
  /\ w = [value |-> w.value, dirs |-> w.dirs]

\* A step makes or removes a path, or sets a setting.
Sets(step) == step.do \notin {"mkdir", "remove"}
About(step, k) == Sets(step) /\ step.name = k

StepOK(step) ==
  /\ Sets(step) => step.name \in Settings /\ step.to \in Values(step.name)
  /\ ~Sets(step) => step.to \in Dirs \cup Temps
  /\ step.do = "chdir" => step.name = "cwd"
  /\ step.do = "del" => step.name \in Vars /\ step.to = Absent

StepsOK(steps) == Listed(steps) /\ \A n \in 1..Len(steps) : StepOK(steps[n])

LEMMA DoKeeps ==
  ASSUME NEW w, NEW step, WorldOK(w), StepOK(step)
  PROVE  /\ WorldOK(Do(w, step))
         /\ Sets(step) => /\ Do(w, step).dirs = w.dirs
                          /\ Do(w, step).value[step.name] = step.to
         /\ \A k \in Settings :
              ~About(step, k) => Do(w, step).value[k] = w.value[k]
         /\ \A d : Sets(step) \/ step.to # d =>
                     (d \in Do(w, step).dirs <=> d \in w.dirs)
<1>1. CASE step.do = "mkdir"
  <2>1. Do(w, step) = [value |-> w.value, dirs |-> w.dirs \cup {step.to}]
    BY <1>1 DEF Do, WorldOK
  <2>. QED
    BY <1>1, <2>1 DEF WorldOK, StepOK, Sets
<1>2. CASE step.do = "remove"
  <2>1. Do(w, step) = [value |-> w.value, dirs |-> w.dirs \ {step.to}]
    BY <1>2 DEF Do, WorldOK
  <2>. QED
    BY <1>2, <2>1 DEF WorldOK, StepOK, Sets
<1>3. CASE Sets(step)
  <2>. DEFINE v == [w.value EXCEPT ![step.name] = step.to]
  <2>1. Do(w, step) = [value |-> v, dirs |-> w.dirs]
    BY <1>3 DEF Do, WorldOK, Sets
  <2>2. step.name \in Settings /\ step.to \in Values(step.name)
    BY <1>3 DEF StepOK
  <2>3. /\ v = [k \in Settings |-> v[k]] /\ v[step.name] = step.to
        /\ \A k \in Settings \ {step.name} : v[k] = w.value[k]
    BY <2>2 DEF WorldOK
  <2>. HIDE DEF v
  <2>4. /\ Do(w, step).value = v /\ Do(w, step).dirs = w.dirs
        /\ Do(w, step) = [value |-> Do(w, step).value, dirs |-> Do(w, step).dirs]
    BY <2>1
  <2>5. \A k \in Settings : v[k] \in Values(k)
    BY <2>2, <2>3 DEF WorldOK
  <2>. QED
    BY <1>3, <2>3, <2>4, <2>5 DEF WorldOK, About
<1>. QED
  BY <1>1, <1>2, <1>3 DEF Sets

\* A run through steps, from the world as it is.
LEMMA WorldsOK ==
  ASSUME NEW steps, StepsOK(steps), WorldOK(World), NEW n \in 0..Len(steps)
  PROVE  WorldOK(Worlds(steps)[n])
<1>. DEFINE N == Len(steps)
            S == {k \in 0..N : WorldOK(Worlds(steps)[k])}
<1>1. N \in Nat
  BY DEF StepsOK, Listed
<1>2. 0 \in S
  BY <1>1, WorldsExist
<1>3. ASSUME NEW k \in S, k < N
      PROVE  k + 1 \in S
  <2>1. k \in 0..N /\ k + 1 \in 1..N /\ (k + 1) - 1 = k
    BY <1>1, <1>3
  <2>2. Worlds(steps)[k + 1] = Do(Worlds(steps)[k], steps[k + 1])
    BY <1>1, <2>1, WorldsExist
  <2>3. WorldOK(Worlds(steps)[k]) /\ StepOK(steps[k + 1])
    BY <2>1 DEF StepsOK
  <2>4. WorldOK(Worlds(steps)[k + 1])
    BY <2>2, <2>3, DoKeeps
  <2>. QED
    BY <2>1, <2>4
<1>4. S \in SUBSET (0..N)
  OBVIOUS
<1>5. S = 0..N
  <2>. HIDE DEF S, N
  <2>. QED
    BY <1>1, <1>2, <1>3, <1>4, Ascend
<1>. QED
  BY <1>5

LEMMA NextWorld ==
  ASSUME NEW steps, StepsOK(steps), WorldOK(World), NEW n \in 0..Len(steps) - 1
  PROVE  LET w == Worlds(steps)[n]
             v == Worlds(steps)[n + 1]
             step == steps[n + 1]
         IN /\ n + 1 \in 1..Len(steps) /\ StepOK(step)
            /\ v = Do(w, step)
            /\ Sets(step) => v.dirs = w.dirs /\ v.value[step.name] = step.to
            /\ \A k \in Settings : ~About(step, k) => v.value[k] = w.value[k]
            /\ \A d : Sets(step) \/ step.to # d => (d \in v.dirs <=> d \in w.dirs)
<1>1. /\ n + 1 \in 1..Len(steps) /\ n \in 0..Len(steps) /\ (n + 1) - 1 = n
      /\ Len(steps) \in Nat
  BY DEF StepsOK, Listed
<1>2. Worlds(steps)[n + 1] = Do(Worlds(steps)[n], steps[n + 1])
  BY <1>1, WorldsExist
<1>3. WorldOK(Worlds(steps)[n]) /\ StepOK(steps[n + 1])
  BY <1>1, WorldsOK DEF StepsOK
<1>. QED
  BY <1>1, <1>2, <1>3, DoKeeps

\* A setting or a path that no step is about stays as it is.
LEMMA Untouched ==
  ASSUME NEW steps, StepsOK(steps), WorldOK(World), NEW n \in 0..Len(steps),
         NEW k \in Settings, \A m \in 1..n : ~About(steps[m], k)
  PROVE  Worlds(steps)[n].value[k] = value[k]
<1>. DEFINE S == {m \in 0..n : Worlds(steps)[m].value[k] = value[k]}
<1>1. Len(steps) \in Nat /\ n \in Nat /\ n <= Len(steps)
  BY DEF StepsOK, Listed
<1>2. 0 \in S
  BY <1>1, WorldsExist DEF World
<1>3. ASSUME NEW m \in S, m < n
      PROVE  m + 1 \in S
  <2>1. m \in 0..n /\ m + 1 \in 1..n /\ m + 1 \in 0..n /\ m \in 0..Len(steps) - 1
    BY <1>1, <1>3
  <2>2. Worlds(steps)[m + 1].value[k] = Worlds(steps)[m].value[k]
    BY <2>1, NextWorld
  <2>. QED
    BY <1>3, <2>1, <2>2
<1>4. S \in SUBSET (0..n)
  OBVIOUS
<1>5. S = 0..n
  <2>. HIDE DEF S
  <2>. QED
    BY <1>1, <1>2, <1>3, <1>4, Ascend
<1>6. n \in S
  BY <1>1, <1>5
<1>. QED
  BY <1>6

LEMMA PathUntouched ==
  ASSUME NEW steps, StepsOK(steps), WorldOK(World), NEW n \in 0..Len(steps),
         NEW d, \A m \in 1..n : Sets(steps[m]) \/ steps[m].to # d
  PROVE  d \in Worlds(steps)[n].dirs <=> d \in dirs
<1>. DEFINE S == {m \in 0..n : d \in Worlds(steps)[m].dirs <=> d \in dirs}
<1>1. Len(steps) \in Nat /\ n \in Nat /\ n <= Len(steps)
  BY DEF StepsOK, Listed
<1>2. 0 \in S
  BY <1>1, WorldsExist DEF World
<1>3. ASSUME NEW m \in S, m < n
      PROVE  m + 1 \in S
  <2>1. m \in 0..n /\ m + 1 \in 1..n /\ m + 1 \in 0..n /\ m \in 0..Len(steps) - 1
    BY <1>1, <1>3
  <2>2. d \in Worlds(steps)[m + 1].dirs <=> d \in Worlds(steps)[m].dirs
    BY <2>1, NextWorld
  <2>. QED
    BY <1>3, <2>1, <2>2
<1>4. S \in SUBSET (0..n)
  OBVIOUS
<1>5. S = 0..n
  <2>. HIDE DEF S
  <2>. QED
    BY <1>1, <1>2, <1>3, <1>4, Ascend
<1>6. n \in S
  BY <1>1, <1>5
<1>. QED
  BY <1>6

\* The steps about k all set it to v, and there is one.
Gives(steps, k, v) ==
  /\ \E m \in 1..Len(steps) : About(steps[m], k)
  /\ \A m \in 1..Len(steps) : About(steps[m], k) => steps[m].to = v

LEMMA Given ==
  ASSUME NEW steps, StepsOK(steps), WorldOK(World),
         NEW k \in Settings, NEW v, Gives(steps, k, v)
  PROVE  Worlds(steps)[Len(steps)].value[k] = v
<1>. DEFINE N == Len(steps)
            S == {m \in 0..N : (\E i \in 1..m : About(steps[i], k)) =>
                                 Worlds(steps)[m].value[k] = v}
<1>1. N \in Nat
  BY DEF StepsOK, Listed
<1>2. 0 \in S
  BY <1>1
<1>3. ASSUME NEW m \in S, m < N
      PROVE  m + 1 \in S
  <2>1. /\ m \in 0..N /\ m + 1 \in 1..N /\ m + 1 \in 0..N /\ m \in 0..N - 1
        /\ \A i \in 1..m + 1 : i = m + 1 \/ i \in 1..m
    BY <1>1, <1>3
  <2>2. CASE About(steps[m + 1], k)
    <3>1. Worlds(steps)[m + 1].value[k] = v
      BY <2>1, <2>2, NextWorld DEF About, Gives
    <3>. QED
      BY <2>1, <3>1
  <2>3. CASE ~About(steps[m + 1], k)
    <3>1. Worlds(steps)[m + 1].value[k] = Worlds(steps)[m].value[k]
      BY <2>1, <2>3, NextWorld
    <3>. QED
      BY <1>3, <2>1, <2>3, <3>1
  <2>. QED
    BY <2>2, <2>3
<1>4. S \in SUBSET (0..N)
  OBVIOUS
<1>5. S = 0..N
  <2>. HIDE DEF S, N
  <2>. QED
    BY <1>1, <1>2, <1>3, <1>4, Ascend
<1>6. N \in S
  BY <1>1, <1>5
<1>. QED
  BY <1>6 DEF Gives

-----------------------------------------------------------------------------
(* Steps within the settings of a block                                    *)

Touched(set) ==
  set \cup {"color"} \cup (IF "log" \in set THEN {"threshold", "output"} ELSE {})

Within(steps, set) ==
  \A m \in 1..Len(steps) : Sets(steps[m]) => steps[m].name \in Touched(set)

\* What a block gives back is what its steps of __exit__ set.
LogOK(log, exit) ==
  /\ Gives(exit, "threshold", log[1])
  /\ IF log[1] = "disabled" THEN log = <<"disabled">>
     ELSE log = <<log[1], log[2]>> /\ Gives(exit, "output", log[2])

ExitOK(s) ==
  /\ DOMAIN s.saved \subseteq Restorable
  /\ s.saved = [k \in DOMAIN s.saved |-> s.saved[k]]
  /\ StepsOK(s.exit) /\ Within(s.exit, DOMAIN s.saved)
  /\ \A k \in DOMAIN s.saved \ {"log"} : Gives(s.exit, k, s.saved[k])
  /\ "log" \in DOMAIN s.saved => LogOK(s.saved["log"], s.exit)
  /\ s.temp \in Temps \cup {None}

LEMMA SettingNames ==
  /\ "log" \notin Settings /\ Others \subseteq Settings /\ Vars \subseteq Settings
  /\ \A k \in Restorable \ {"log"} : k \in Settings /\ k \notin {"threshold", "output", "color"}
  /\ "cwd" \in Restorable /\ "log" \in Restorable /\ "path" \in Restorable
  /\ "stdout" \in Restorable /\ Vars \subseteq Restorable
  BY ScopesAssumption DEF Settings, Others, Restorable

LEMMA Reached ==
  ASSUME WorldOK(World), NEW steps, StepsOK(steps), NEW n \in 0..Len(steps), Reach(steps, n)
  PROVE  /\ value' = Worlds(steps)[n].value /\ dirs' = Worlds(steps)[n].dirs
         /\ WorldOK(World)'
         /\ \A k \in Settings : (\A m \in 1..n : ~About(steps[m], k)) => value'[k] = value[k]
         /\ \A d : (\A m \in 1..n : Sets(steps[m]) \/ steps[m].to # d) =>
                     (d \in dirs' <=> d \in dirs)
<1>1. value' = Worlds(steps)[n].value /\ dirs' = Worlds(steps)[n].dirs
  BY DEF Reach
<1>2. WorldOK(Worlds(steps)[n])
  BY WorldsOK
<1>3. WorldOK(World)'
  BY <1>1, <1>2 DEF WorldOK, World
<1>. QED
  BY <1>1, <1>3, Untouched, PathUntouched

\* No other setting that blocks give back is changed.
LEMMA OthersKept ==
  ASSUME WorldOK(World), NEW steps, StepsOK(steps), NEW n \in 0..Len(steps), Reach(steps, n),
         NEW set \in SUBSET Restorable, Within(steps, set), NEW k \in Restorable \ set
  PROVE  Shown'[k] = Shown[k]
<1>1. Len(steps) \in Nat /\ \A m \in 1..n : m \in 1..Len(steps)
  BY DEF StepsOK, Listed
<1>2. ASSUME NEW x \in Settings, x \notin Touched(set)
      PROVE  value'[x] = value[x]
  BY <1>1, <1>2, Reached DEF Within, About
<1>3. CASE k = "log"
  <2>1. "threshold" \notin Touched(set) /\ "output" \notin Touched(set)
    BY <1>3, ScopesAssumption DEF Touched, Restorable, Settings, Others
  <2>2. "threshold" \in Settings /\ "output" \in Settings
    BY SettingNames DEF Others
  <2>3. Log' = Log
    BY <1>2, <2>1, <2>2 DEF Log
  <2>. QED
    BY <1>3, <2>3, SettingNames DEF Shown
<1>4. CASE k # "log"
  <2>1. k \in Settings /\ k \notin Touched(set)
    BY <1>4, SettingNames DEF Touched
  <2>. QED
    BY <1>2, <1>4, <2>1 DEF Shown
<1>. QED
  BY <1>3, <1>4

\* __exit__ gives back what was saved.
LEMMA Restores ==
  ASSUME WorldOK(World), NEW s, ExitOK(s), Execute(s.exit), NEW k \in DOMAIN s.saved
  PROVE  Shown'[k] = s.saved[k]
<1>. DEFINE steps == s.exit
<1>1. /\ StepsOK(steps) /\ Len(steps) \in 0..Len(steps) /\ Reach(steps, Len(steps))
      /\ k \in Restorable
  BY DEF ExitOK, StepsOK, Listed, Execute
<1>2. value' = Worlds(steps)[Len(steps)].value
  BY <1>1, Reached
<1>3. ASSUME NEW x \in Settings, NEW v, Gives(steps, x, v)
      PROVE  value'[x] = v
  BY <1>1, <1>2, <1>3, Given
<1>4. CASE k # "log"
  <2>1. k \in Settings /\ Gives(steps, k, s.saved[k])
    BY <1>1, <1>4, SettingNames DEF ExitOK
  <2>2. value'[k] = s.saved[k]
    BY <1>3, <2>1
  <2>. QED
    BY <1>1, <1>4, <2>2 DEF Shown
<1>5. CASE k = "log"
  <2>. DEFINE log == s.saved["log"]
  <2>1. LogOK(log, steps)
    BY <1>5 DEF ExitOK
  <2>2. "threshold" \in Settings /\ "output" \in Settings
    BY SettingNames DEF Others
  <2>3. value'["threshold"] = log[1]
    BY <1>3, <2>1, <2>2 DEF LogOK
  <2>4. log[1] # "disabled" => value'["output"] = log[2]
    BY <1>3, <2>1, <2>2 DEF LogOK
  <2>5. Log' = log
    <3>. HIDE DEF log
    <3>. QED
      BY <2>1, <2>3, <2>4 DEF Log, LogOK
  <2>. QED
    BY <1>1, <1>5, <2>5 DEF Shown
<1>. QED
  BY <1>4, <1>5

-----------------------------------------------------------------------------
(* Entering a block                                                        *)

LEMMA Short ==
  ASSUME NEW a, NEW b
  PROVE  /\ Listed(<<>>) /\ Len(<<>>) = 0
         /\ Listed(<<a>>) /\ Len(<<a>>) = 1 /\ <<a>>[1] = a
         /\ Listed(<<a, b>>) /\ Len(<<a, b>>) = 2 /\ <<a, b>>[1] = a /\ <<a, b>>[2] = b
<1>1. <<>> \in Seq({a, b}) /\ <<a>> \in Seq({a, b}) /\ <<a, b>> \in Seq({a, b})
  OBVIOUS
<1>. QED
  BY <1>1, SeqListed

\* Which steps of __exit__ there are, and so which may fail.
OneKind(set) ==
  set \subseteq Vars \/ set \in {{"cwd"}, {"path"}, {"stdout"}, {"log"}}

FailOK(s) ==
  /\ OneKind(DOMAIN s.saved)
  /\ \A m \in 1..Len(s.exit) :
       LET step == s.exit[m]
       IN /\ step.do # "mkdir"
          /\ step.do = "remove" => m = Len(s.exit) /\ step.to = s.temp
          /\ step.do = "chdir" => m = 1
          /\ About(step, "color") => step.to = Plain /\ Len(s.exit) = 1
          /\ step.do = "del" => \A i \in 1..m - 1 : ~About(s.exit[i], step.name)
  /\ s.temp # None =>
       Len(s.exit) > 0 /\ s.exit[Len(s.exit)] = RemovePath(s.temp)

\* What the steps of __enter__ come to.
Leaves(s, w) ==
  /\ value["cwd"] \in dirs => w.value["cwd"] \in w.dirs
  /\ w.value["cwd"] \in Temps =>
       \/ w.value["cwd"] = value["cwd"]
       \/ w.value["cwd"] = s.temp /\ "cwd" \in DOMAIN s.saved
  /\ \A m \in 1..Len(s.exit) :
       s.exit[m].do = "del" => w.value[s.exit[m].name] # Absent

EnterOK(s, enter) ==
  /\ ExitOK(s) /\ FailOK(s)
  /\ StepsOK(enter) /\ Within(enter, DOMAIN s.saved)
  /\ \A k \in DOMAIN s.saved : s.saved[k] = Shown[k]
  /\ \A n \in 0..Len(enter) - 1 :
       ~Can(Worlds(enter)[n], enter[n + 1]) =>
         /\ value["cwd"] \notin dirs /\ DOMAIN s.saved \subseteq {"cwd"}
         /\ \A m \in 1..Len(enter) : ~About(enter[m], "color")
  /\ \A m \in 1..Len(enter) :
       /\ enter[m].do # "remove"
       /\ enter[m].do = "mkdir" => enter[m].to \in Dirs \cup {s.temp}
       /\ About(enter[m], "color") => Gives(s.exit, "color", Plain)
  /\ Leaves(s, Worlds(enter)[Len(enter)])

Enters(s, enter) ==
  With(s, enter) /\ EnterOK(s, enter) /\ (s.temp # None => NewName(s.temp))

\* Blocks that only assign settings other than those of directories and of the
\* environment.
LEMMA PlainEnter ==
  ASSUME WorldOK(World), NEW s, NEW enter, ExitOK(s), FailOK(s), StepsOK(enter),
         Within(enter, DOMAIN s.saved), s.temp = None,
         DOMAIN s.saved \cap Vars = {},
         \A k \in DOMAIN s.saved : s.saved[k] = Shown[k],
         \A m \in 1..Len(enter) :
           /\ enter[m].do = "assign" /\ enter[m].name # "cwd"
           /\ enter[m].name = "color" => Gives(s.exit, "color", Plain),
         \A m \in 1..Len(s.exit) : s.exit[m].do # "del",
         With(s, enter)
  PROVE  Enters(s, enter)
<1>1. Len(enter) \in Nat /\ Len(enter) \in 0..Len(enter)
  BY DEF StepsOK, Listed
<1>. DEFINE w == Worlds(enter)[Len(enter)]
<1>2. "cwd" \in Settings
  BY SettingNames DEF Others
<1>3. w.value["cwd"] = value["cwd"]
  BY <1>1, <1>2, Untouched DEF About
<1>4. \A d : d \in w.dirs <=> d \in dirs
  BY <1>1, PathUntouched DEF Sets
<1>5. Leaves(s, w)
  BY <1>3, <1>4 DEF Leaves
<1>6. \A n \in 0..Len(enter) - 1 : Can(Worlds(enter)[n], enter[n + 1])
  <2>1. \A n \in 0..Len(enter) - 1 : n + 1 \in 1..Len(enter)
    BY <1>1
  <2>. QED
    BY <2>1 DEF Can
<1>. QED
  BY <1>5, <1>6 DEF EnterOK, Enters, About

LEMMA ValueTypes ==
  ASSUME WorldOK(World)
  PROVE  /\ value["cwd"] \in Dirs \cup Temps /\ value["path"] \in Seq(Dirs)
         /\ value["stdout"] \in Outputs /\ value["output"] \in Outputs
         /\ value["threshold"] \in Levels /\ value["color"] \in {Plain, "red"}
         /\ \A v \in Vars : value[v] \in VarValues
         /\ dirs \subseteq Dirs \cup Temps
         /\ value = [k \in Settings |-> value[k]]
  BY ScopesAssumption DEF WorldOK, World, Values, Settings, Others

\* Steps of each kind.
LEMMA StepTypes ==
  /\ \A k \in Settings : \A x \in Values(k) :
       /\ StepOK(Assign(k, x)) /\ Sets(Assign(k, x)) /\ Assign(k, x).name = k
       /\ Assign(k, x).to = x /\ Assign(k, x).do = "assign"
  /\ \A v \in Vars :
       /\ StepOK(Delete(v)) /\ Sets(Delete(v)) /\ Delete(v).name = v
       /\ Delete(v).to = Absent /\ Delete(v).do = "del"
  /\ \A d \in Dirs \cup Temps :
       /\ StepOK(ChangeDir(d)) /\ Sets(ChangeDir(d)) /\ ChangeDir(d).name = "cwd"
       /\ ChangeDir(d).to = d /\ ChangeDir(d).do = "chdir"
       /\ StepOK(MakeDir(d)) /\ ~Sets(MakeDir(d))
       /\ MakeDir(d).to = d /\ MakeDir(d).do = "mkdir"
       /\ StepOK(RemovePath(d)) /\ ~Sets(RemovePath(d))
       /\ RemovePath(d).to = d /\ RemovePath(d).do = "remove"
<1>1. "cwd" \in Settings /\ Values("cwd") = Dirs \cup Temps
  BY ScopesAssumption DEF Values, Settings, Others
<1>2. \A v \in Vars : v \in Settings /\ Absent \in Values(v)
  BY DEF Values, VarValues, Settings
<1>3. \A v \in Vars : v # "cwd"
  BY ScopesAssumption DEF Others
<1>. QED
  BY <1>1, <1>2, <1>3
     DEF StepOK, Sets, Assign, Delete, ChangeDir, MakeDir, RemovePath

LEMMA SettingTypes ==
  /\ {"cwd", "path", "stdout", "threshold", "output", "color"} \subseteq Settings
  /\ Values("cwd") = Dirs \cup Temps /\ Values("path") = Seq(Dirs)
  /\ Values("stdout") = Outputs /\ Values("output") = Outputs
  /\ Values("threshold") = Levels /\ Values("color") = {Plain, "red"}
  /\ \A v \in Vars : v \in Settings /\ Values(v) = VarValues
  BY ScopesAssumption DEF Values, Settings, Others

LEMMA ScopeFacts ==
  ASSUME NEW set \in SUBSET Restorable, NEW exit, NEW t
  PROVE  LET s == Scope(set, exit, t)
         IN /\ DOMAIN s.saved = set /\ s.saved = [k \in DOMAIN s.saved |-> s.saved[k]]
            /\ \A k \in DOMAIN s.saved : s.saved[k] = Shown[k]
            /\ s.exit = exit /\ s.temp = t
  BY DEF Scope

LEMMA EnterPathOrOutput ==
  ASSUME WorldOK(World), NEW k \in {"path", "stdout"}, NEW x \in Values(k),
         With(Scope({k}, <<Assign(k, value[k])>>, None), <<Assign(k, x)>>)
  PROVE  \E s, enter : Enters(s, enter)
<1>. DEFINE a == Assign(k, value[k])
            b == Assign(k, x)
            s == Scope({k}, <<a>>, None)
<1>1. /\ k \in Settings /\ k \in Restorable /\ value[k] \in Values(k)
      /\ k \notin {"cwd", "color", "threshold", "output", "log"} /\ k \notin Vars
  BY SettingNames, SettingTypes, ValueTypes, ScopesAssumption DEF Others
<1>2. /\ StepOK(a) /\ Sets(a) /\ a.name = k /\ a.to = value[k] /\ a.do = "assign"
      /\ StepOK(b) /\ Sets(b) /\ b.name = k /\ b.do = "assign"
  BY <1>1, StepTypes
<1>3. /\ DOMAIN s.saved = {k} /\ s.saved = [y \in DOMAIN s.saved |-> s.saved[y]]
      /\ \A y \in DOMAIN s.saved : s.saved[y] = Shown[y]
      /\ s.exit = <<a>> /\ s.temp = None
  BY <1>1, ScopeFacts
<1>4. Shown[k] = value[k]
  BY <1>1 DEF Shown
<1>5. With(s, <<b>>)
  OBVIOUS
<1>. HIDE DEF a, b, s
<1>6. /\ Listed(<<a>>) /\ Len(<<a>>) = 1 /\ <<a>>[1] = a
      /\ Listed(<<b>>) /\ Len(<<b>>) = 1 /\ <<b>>[1] = b
  BY Short
<1>7. /\ StepsOK(<<a>>) /\ Within(<<a>>, {k}) /\ Gives(<<a>>, k, value[k])
      /\ StepsOK(<<b>>) /\ Within(<<b>>, {k})
  BY <1>2, <1>6 DEF StepsOK, Within, Touched, Gives, About
<1>8. ExitOK(s)
  BY <1>1, <1>3, <1>4, <1>7 DEF ExitOK
<1>9. FailOK(s)
  BY <1>1, <1>2, <1>3, <1>6 DEF FailOK, OneKind, About
<1>10. /\ \A m \in 1..Len(<<b>>) : <<b>>[m].do = "assign" /\ <<b>>[m].name = k
       /\ \A m \in 1..Len(s.exit) : s.exit[m].do # "del"
  BY <1>2, <1>3, <1>6
<1>11. Enters(s, <<b>>)
  BY <1>1, <1>3, <1>5, <1>7, <1>8, <1>9, <1>10, PlainEnter
<1>. QED
  BY <1>11

LEMMA EnterColor ==
  ASSUME WorldOK(World), console_color("red")
  PROVE  \E s, enter : Enters(s, enter)
<1>. DEFINE a == Assign("color", Plain)
            b == Assign("color", "red")
            s == Scope({}, <<a>>, None)
<1>1. /\ StepOK(a) /\ Sets(a) /\ a.name = "color" /\ a.to = Plain /\ a.do = "assign"
      /\ StepOK(b) /\ Sets(b) /\ b.name = "color" /\ b.do = "assign"
  BY SettingTypes, StepTypes
<1>2. /\ DOMAIN s.saved = {} /\ s.saved = [y \in DOMAIN s.saved |-> s.saved[y]]
      /\ s.exit = <<a>> /\ s.temp = None
  BY ScopeFacts
<1>3. With(s, <<b>>)
  BY DEF console_color
<1>. HIDE DEF a, b, s
<1>4. /\ Listed(<<a>>) /\ Len(<<a>>) = 1 /\ <<a>>[1] = a
      /\ Listed(<<b>>) /\ Len(<<b>>) = 1 /\ <<b>>[1] = b
  BY Short
<1>5. /\ StepsOK(<<a>>) /\ Within(<<a>>, {}) /\ Gives(<<a>>, "color", Plain)
      /\ StepsOK(<<b>>) /\ Within(<<b>>, {})
  BY <1>1, <1>4 DEF StepsOK, Within, Touched, Gives, About
<1>6. ExitOK(s)
  BY <1>2, <1>5 DEF ExitOK
<1>7. FailOK(s)
  BY <1>1, <1>2, <1>4 DEF FailOK, OneKind, About
<1>8. /\ \A m \in 1..Len(<<b>>) : <<b>>[m].do = "assign" /\ <<b>>[m].name = "color"
      /\ \A m \in 1..Len(s.exit) : s.exit[m].do # "del"
  BY <1>1, <1>2, <1>4
<1>9. Enters(s, <<b>>)
  BY <1>2, <1>3, <1>5, <1>6, <1>7, <1>8, PlainEnter
<1>. QED
  BY <1>9

LEMMA EnterNothing ==
  ASSUME WorldOK(World), working_dir_here
  PROVE  \E s, enter : Enters(s, enter)
<1>. DEFINE s == Scope({}, <<>>, None)
<1>1. /\ DOMAIN s.saved = {} /\ s.saved = [y \in DOMAIN s.saved |-> s.saved[y]]
      /\ s.exit = <<>> /\ s.temp = None
  BY ScopeFacts
<1>2. With(s, <<>>)
  BY DEF working_dir_here
<1>. HIDE DEF s
<1>3. Listed(<<>>) /\ 1..Len(<<>>) = {}
  <2>1. Listed(<<>>) /\ Len(<<>>) = 0
    BY Short
  <2>. QED
    BY <2>1
<1>4. StepsOK(<<>>) /\ Within(<<>>, {})
  BY <1>3 DEF StepsOK, Within
<1>5. ExitOK(s)
  BY <1>1, <1>4 DEF ExitOK
<1>6. FailOK(s)
  BY <1>1, <1>3 DEF FailOK, OneKind
<1>7. Enters(s, <<>>)
  BY <1>1, <1>2, <1>3, <1>4, <1>5, <1>6, PlainEnter
<1>. QED
  BY <1>7

\* The steps of enable_logging and disable_logging.
LEMMA LoggingSteps ==
  ASSUME NEW level \in Levels, NEW output \in Outputs
  PROVE  LET steps == SetLogging(level, output)
         IN /\ StepsOK(steps) /\ Within(steps, {"log"})
            /\ Gives(steps, "threshold", level)
            /\ level # "disabled" => Gives(steps, "output", output)
            /\ \A m \in 1..Len(steps) :
                 steps[m].do = "assign" /\ steps[m].name \in {"threshold", "output"}
<1>. DEFINE a == Assign("threshold", level)
            b == Assign("output", output)
<1>1. /\ StepOK(a) /\ Sets(a) /\ a.name = "threshold" /\ a.to = level /\ a.do = "assign"
      /\ StepOK(b) /\ Sets(b) /\ b.name = "output" /\ b.to = output /\ b.do = "assign"
  BY SettingTypes, StepTypes
<1>2. SetLogging(level, output) = IF level = "disabled" THEN <<a>> ELSE <<a, b>>
  BY DEF SetLogging, disable_logging, enable_logging
<1>. HIDE DEF a, b
<1>3. /\ Listed(<<a>>) /\ Len(<<a>>) = 1 /\ <<a>>[1] = a
      /\ Listed(<<a, b>>) /\ Len(<<a, b>>) = 2 /\ <<a, b>>[1] = a /\ <<a, b>>[2] = b
  BY Short
<1>4. CASE level = "disabled"
  BY <1>1, <1>2, <1>3, <1>4 DEF StepsOK, Within, Touched, Gives, About
<1>5. CASE level # "disabled"
  <2>. DEFINE t == <<a, b>>
  <2>1. t = SetLogging(level, output) /\ Listed(t) /\ Len(t) = 2 /\ t[1] = a /\ t[2] = b
    BY <1>2, <1>3, <1>5
  <2>. HIDE DEF t
  <2>2. \A m \in 1..Len(t) : m = 1 \/ m = 2
    BY <2>1
  <2>3. StepsOK(t) /\ Within(t, {"log"})
    BY <1>1, <2>1, <2>2 DEF StepsOK, Within, Touched
  <2>4. 1 \in 1..Len(t) /\ 2 \in 1..Len(t)
    BY <2>1
  <2>5. Gives(t, "threshold", level) /\ Gives(t, "output", output)
    BY <1>1, <2>1, <2>2, <2>4 DEF Gives, About
  <2>6. \A m \in 1..Len(t) : t[m].do = "assign" /\ t[m].name \in {"threshold", "output"}
    BY <1>1, <2>1, <2>2
  <2>. QED
    BY <2>1, <2>3, <2>5, <2>6
<1>. QED
  BY <1>4, <1>5

LEMMA EnterLogging ==
  ASSUME WorldOK(World), NEW level \in Levels, NEW output \in Outputs,
         logging_enabled(level, output)
  PROVE  \E s, enter : Enters(s, enter)
<1>. DEFINE exit == SetLogging(value["threshold"], value["output"])
            enter == SetLogging(level, output)
            s == Scope({"log"}, exit, None)
<1>1. With(s, enter)
  BY DEF logging_enabled, LoggingBack
<1>2. /\ StepsOK(exit) /\ Within(exit, {"log"})
      /\ Gives(exit, "threshold", value["threshold"])
      /\ value["threshold"] # "disabled" => Gives(exit, "output", value["output"])
      /\ \A m \in 1..Len(exit) :
           exit[m].do = "assign" /\ exit[m].name \in {"threshold", "output"}
  BY ValueTypes, LoggingSteps
<1>3. /\ StepsOK(enter) /\ Within(enter, {"log"})
      /\ \A m \in 1..Len(enter) :
           enter[m].do = "assign" /\ enter[m].name \in {"threshold", "output"}
  BY LoggingSteps
<1>4. /\ DOMAIN s.saved = {"log"} /\ s.saved = [y \in DOMAIN s.saved |-> s.saved[y]]
      /\ \A y \in DOMAIN s.saved : s.saved[y] = Shown[y]
      /\ s.exit = exit /\ s.temp = None
  BY SettingNames, ScopeFacts
<1>5. s.saved["log"] = Log
  BY <1>4, SettingNames DEF Shown
<1>. HIDE DEF s, enter, exit
<1>6. LogOK(Log, exit)
  BY <1>2 DEF LogOK, Log
<1>7. ExitOK(s)
  BY <1>2, <1>4, <1>5, <1>6, SettingNames DEF ExitOK
<1>8. FailOK(s)
  BY <1>2, <1>4 DEF FailOK, OneKind, About
<1>9. "log" \notin Vars
  BY ScopesAssumption
<1>10. \A m \in 1..Len(enter) : enter[m].name # "cwd" /\ enter[m].name # "color"
  BY <1>3
<1>11. Enters(s, enter)
  BY <1>1, <1>2, <1>3, <1>4, <1>7, <1>8, <1>9, <1>10, PlainEnter
<1>. QED
  BY <1>11

\* Making a directory and going there.
LEMMA GoTo ==
  ASSUME WorldOK(World), NEW dir \in Dirs \cup Temps
  PROVE  LET steps == <<MakeDir(dir), ChangeDir(dir)>>
             w == Worlds(steps)[Len(steps)]
         IN /\ StepsOK(steps) /\ Within(steps, {"cwd"})
            /\ \A n \in 0..Len(steps) - 1 :
                 ~Can(Worlds(steps)[n], steps[n + 1]) => value["cwd"] \notin dirs
            /\ \A m \in 1..Len(steps) :
                 /\ steps[m].do # "remove" /\ ~About(steps[m], "color")
                 /\ steps[m].do = "mkdir" => steps[m].to = dir
            /\ w.value["cwd"] = dir /\ dir \in w.dirs
<1>. DEFINE a == MakeDir(dir)
            b == ChangeDir(dir)
            t == <<a, b>>
<1>1. /\ StepOK(a) /\ ~Sets(a) /\ a.to = dir /\ a.do = "mkdir"
      /\ StepOK(b) /\ Sets(b) /\ b.name = "cwd" /\ b.to = dir /\ b.do = "chdir"
  BY StepTypes
<1>2. Listed(t) /\ Len(t) = 2 /\ t[1] = a /\ t[2] = b
  BY Short
<1>. HIDE DEF a, b
<1>. SUFFICES
       LET w == Worlds(t)[Len(t)]
       IN /\ StepsOK(t) /\ Within(t, {"cwd"})
          /\ \A n \in 0..Len(t) - 1 :
               ~Can(Worlds(t)[n], t[n + 1]) => value["cwd"] \notin dirs
          /\ \A m \in 1..Len(t) :
               /\ t[m].do # "remove" /\ ~About(t[m], "color")
               /\ t[m].do = "mkdir" => t[m].to = dir
          /\ w.value["cwd"] = dir /\ dir \in w.dirs
  BY DEF a, b
<1>. HIDE DEF t
<1>3. \A m \in 1..Len(t) : m = 1 \/ m = 2
  BY <1>2
<1>4. StepsOK(t) /\ Within(t, {"cwd"})
  BY <1>1, <1>2, <1>3 DEF StepsOK, Within, Touched
<1>5. \A m \in 1..Len(t) : /\ t[m].do # "remove" /\ ~About(t[m], "color")
                           /\ t[m].do = "mkdir" => t[m].to = dir
  BY <1>1, <1>2, <1>3 DEF About
<1>6. /\ Worlds(t)[0] = World
      /\ Worlds(t)[1] = Do(World, a) /\ Worlds(t)[2] = Do(Worlds(t)[1], b)
  BY <1>2, WorldsExist
<1>7. /\ Worlds(t)[1].value = value /\ Worlds(t)[1].dirs = dirs \cup {dir}
  BY <1>1, <1>6 DEF Do, World
<1>8. WorldOK(Worlds(t)[1])
  BY <1>2, <1>4, WorldsOK
<1>9. /\ Worlds(t)[2].value["cwd"] = dir /\ Worlds(t)[2].dirs = dirs \cup {dir}
  BY <1>1, <1>6, <1>7, <1>8, DoKeeps
<1>10. ASSUME NEW n \in 0..Len(t) - 1, ~Can(Worlds(t)[n], t[n + 1])
       PROVE  value["cwd"] \notin dirs
  <2>1. CASE n = 0
    BY <1>1, <1>2, <1>6, <1>10, <2>1 DEF Can, World
  <2>2. CASE n = 1
    BY <1>1, <1>2, <1>7, <1>10, <2>2 DEF Can
  <2>. QED
    BY <1>2, <2>1, <2>2
<1>. QED
  BY <1>2, <1>4, <1>5, <1>9, <1>10

\* Going back, and removing a temporary directory.
LEMMA GoBack ==
  ASSUME WorldOK(World)
  PROVE  LET steps == <<Back>>
         IN /\ StepsOK(steps) /\ Within(steps, {"cwd"})
            /\ Gives(steps, "cwd", value["cwd"]) /\ Len(steps) = 1
            /\ \A m \in 1..Len(steps) : steps[m].do = "chdir" /\ m = 1 /\ steps[m].name = "cwd"
<1>1. /\ StepOK(Back) /\ Sets(Back) /\ Back.name = "cwd" /\ Back.to = value["cwd"]
      /\ Back.do = "chdir"
  BY ValueTypes, StepTypes DEF Back
<1>2. Listed(<<Back>>) /\ Len(<<Back>>) = 1 /\ <<Back>>[1] = Back
  BY Short
<1>. QED
  BY <1>1, <1>2 DEF StepsOK, Within, Touched, Gives, About

LEMMA GoBackRemove ==
  ASSUME WorldOK(World), NEW t \in Temps
  PROVE  LET steps == LeaveDir(t)
         IN /\ StepsOK(steps) /\ Within(steps, {"cwd"})
            /\ Gives(steps, "cwd", value["cwd"]) /\ Len(steps) = 2
            /\ steps[1].do = "chdir" /\ steps[1].name = "cwd"
            /\ steps[2] = RemovePath(t) /\ ~Sets(steps[2])
            /\ steps[2].do = "remove" /\ steps[2].to = t
<1>. DEFINE s == <<Back, RemovePath(t)>>
            b == RemovePath(t)
<1>1. /\ StepOK(Back) /\ Sets(Back) /\ Back.name = "cwd" /\ Back.to = value["cwd"]
      /\ Back.do = "chdir"
      /\ StepOK(b) /\ ~Sets(b) /\ b.do = "remove" /\ b.to = t
  BY ValueTypes, StepTypes DEF Back
<1>2. Listed(s) /\ Len(s) = 2 /\ s[1] = Back /\ s[2] = b
  BY Short
<1>3. LeaveDir(t) = s
  BY DEF LeaveDir
<1>. HIDE DEF s
<1>4. \A m \in 1..Len(s) : m = 1 \/ m = 2
  BY <1>2
<1>5. 1 \in 1..Len(s)
  BY <1>2
<1>6. StepsOK(s) /\ Within(s, {"cwd"}) /\ Gives(s, "cwd", value["cwd"])
  <2>. HIDE DEF b
  <2>. QED
    BY <1>1, <1>2, <1>4, <1>5 DEF StepsOK, Within, Touched, Gives, About
<1>. QED
  BY <1>1, <1>2, <1>3, <1>6

LEMMA EnterDir ==
  ASSUME WorldOK(World), NEW dir \in Dirs, working_dir(dir)
  PROVE  \E s, enter : Enters(s, enter)
<1>. DEFINE exit == <<Back>>
            enter == <<MakeDir(dir), ChangeDir(dir)>>
            s == Scope({"cwd"}, exit, None)
            w == Worlds(enter)[Len(enter)]
<1>1. With(s, enter)
  BY DEF working_dir, ChangeBack
<1>2. /\ DOMAIN s.saved = {"cwd"} /\ s.saved = [y \in DOMAIN s.saved |-> s.saved[y]]
      /\ \A y \in DOMAIN s.saved : s.saved[y] = Shown[y]
      /\ s.exit = exit /\ s.temp = None
  <2>. HIDE DEF exit
  <2>1. {"cwd"} \in SUBSET Restorable
    BY SettingNames
  <2>. QED
    BY <2>1, ScopeFacts
<1>3. /\ StepsOK(exit) /\ Within(exit, {"cwd"})
      /\ Gives(exit, "cwd", value["cwd"]) /\ Len(exit) = 1
      /\ \A m \in 1..Len(exit) : exit[m].do = "chdir" /\ m = 1 /\ exit[m].name = "cwd"
  BY GoBack
<1>4. /\ StepsOK(enter) /\ Within(enter, {"cwd"})
      /\ \A n \in 0..Len(enter) - 1 :
           ~Can(Worlds(enter)[n], enter[n + 1]) => value["cwd"] \notin dirs
      /\ \A m \in 1..Len(enter) :
           /\ enter[m].do # "remove" /\ ~About(enter[m], "color")
           /\ enter[m].do = "mkdir" => enter[m].to = dir
      /\ w.value["cwd"] = dir /\ dir \in w.dirs
  BY GoTo
<1>5. s.saved["cwd"] = value["cwd"] /\ "cwd" \notin Vars
  BY <1>2, SettingNames, ScopesAssumption DEF Shown, Others
<1>. HIDE DEF s, enter, exit
<1>6. ExitOK(s)
  BY <1>2, <1>3, <1>5, SettingNames DEF ExitOK
<1>7. FailOK(s)
  BY <1>2, <1>3 DEF FailOK, OneKind, About
<1>8. Leaves(s, w)
  BY <1>2, <1>3, <1>4, ScopesAssumption DEF Leaves
<1>9. EnterOK(s, enter)
  BY <1>2, <1>4, <1>5, <1>6, <1>7, <1>8 DEF EnterOK
<1>10. Enters(s, enter)
  BY <1>1, <1>2, <1>9 DEF Enters
<1>. QED
  BY <1>10

LEMMA EnterSameDir ==
  ASSUME WorldOK(World), working_dir_empty
  PROVE  \E s, enter : Enters(s, enter)
<1>. DEFINE exit == <<Back>>
            s == Scope({"cwd"}, exit, None)
            w == Worlds(exit)[Len(exit)]
<1>1. With(s, exit)
  BY DEF working_dir_empty, ChangeBack
<1>2. /\ DOMAIN s.saved = {"cwd"} /\ s.saved = [y \in DOMAIN s.saved |-> s.saved[y]]
      /\ \A y \in DOMAIN s.saved : s.saved[y] = Shown[y]
      /\ s.exit = exit /\ s.temp = None
  <2>. HIDE DEF exit
  <2>1. {"cwd"} \in SUBSET Restorable
    BY SettingNames
  <2>. QED
    BY <2>1, ScopeFacts
<1>3. /\ StepsOK(exit) /\ Within(exit, {"cwd"})
      /\ Gives(exit, "cwd", value["cwd"]) /\ Len(exit) = 1
      /\ \A m \in 1..Len(exit) : exit[m].do = "chdir" /\ m = 1 /\ exit[m].name = "cwd"
  BY GoBack
<1>4. s.saved["cwd"] = value["cwd"] /\ "cwd" \notin Vars /\ "cwd" \in Settings
  BY <1>2, SettingNames, ScopesAssumption DEF Shown, Others
<1>. HIDE DEF s, exit
<1>5. ExitOK(s)
  BY <1>2, <1>3, <1>4, SettingNames DEF ExitOK
<1>6. FailOK(s)
  BY <1>2, <1>3 DEF FailOK, OneKind, About
<1>7. w.value["cwd"] = value["cwd"]
  BY <1>3, <1>4, Given
<1>8. \A d : d \in w.dirs <=> d \in dirs
  BY <1>3, PathUntouched DEF Sets
<1>9. Leaves(s, w)
  BY <1>2, <1>3, <1>7, <1>8 DEF Leaves
<1>10. ASSUME NEW n \in 0..Len(exit) - 1, ~Can(Worlds(exit)[n], exit[n + 1])
       PROVE  value["cwd"] \notin dirs
  <2>1. n = 0 /\ 1 \in 1..Len(exit) /\ exit[1].do = "chdir"
    BY <1>3
  <2>2. Worlds(exit)[0] = World
    BY <1>3, WorldsExist
  <2>3. exit[1].to = value["cwd"]
    BY <1>3, <2>1 DEF Gives, About, Sets
  <2>. QED
    BY <1>10, <2>1, <2>2, <2>3 DEF Can, World
<1>11. EnterOK(s, exit)
  BY <1>2, <1>3, <1>4, <1>5, <1>6, <1>9, <1>10 DEF EnterOK, About
<1>12. Enters(s, exit)
  BY <1>1, <1>2, <1>11 DEF Enters
<1>. QED
  BY <1>12

LEMMA EnterTempDir ==
  ASSUME WorldOK(World), NEW t \in Temps, working_dir_temp(t)
  PROVE  \E s, enter : Enters(s, enter)
<1>. DEFINE exit == LeaveDir(t)
            enter == <<MakeDir(t), ChangeDir(t)>>
            s == Scope({"cwd"}, exit, t)
            w == Worlds(enter)[Len(enter)]
<1>1. With(s, enter) /\ NewName(t)
  BY DEF working_dir_temp
<1>2. /\ DOMAIN s.saved = {"cwd"} /\ s.saved = [y \in DOMAIN s.saved |-> s.saved[y]]
      /\ \A y \in DOMAIN s.saved : s.saved[y] = Shown[y]
      /\ s.exit = exit /\ s.temp = t
  BY SettingNames, ScopeFacts
<1>3. /\ StepsOK(exit) /\ Within(exit, {"cwd"})
      /\ Gives(exit, "cwd", value["cwd"]) /\ Len(exit) = 2
      /\ exit[1].do = "chdir" /\ exit[1].name = "cwd"
      /\ exit[2] = RemovePath(t) /\ ~Sets(exit[2])
      /\ exit[2].do = "remove" /\ exit[2].to = t
  BY GoBackRemove
<1>4. /\ StepsOK(enter) /\ Within(enter, {"cwd"})
      /\ \A n \in 0..Len(enter) - 1 :
           ~Can(Worlds(enter)[n], enter[n + 1]) => value["cwd"] \notin dirs
      /\ \A m \in 1..Len(enter) :
           /\ enter[m].do # "remove" /\ ~About(enter[m], "color")
           /\ enter[m].do = "mkdir" => enter[m].to = t
      /\ w.value["cwd"] = t /\ t \in w.dirs
  BY GoTo
<1>5. s.saved["cwd"] = value["cwd"] /\ "cwd" \notin Vars
  BY <1>2, SettingNames, ScopesAssumption DEF Shown, Others
<1>. HIDE DEF s, enter, exit
<1>6. \A m \in 1..Len(exit) : m = 1 \/ m = 2
  BY <1>3
<1>7. ExitOK(s)
  BY <1>2, <1>3, <1>5, SettingNames DEF ExitOK
<1>8. FailOK(s)
  <2>. HIDE DEF w
  <2>. QED
    BY <1>2, <1>3, <1>6 DEF FailOK, OneKind, About
<1>9. Leaves(s, w)
  BY <1>2, <1>3, <1>4, <1>6 DEF Leaves
<1>10. EnterOK(s, enter)
  BY <1>2, <1>4, <1>5, <1>7, <1>8, <1>9 DEF EnterOK
<1>11. Enters(s, enter)
  BY <1>1, <1>2, <1>10 DEF Enters
<1>. QED
  BY <1>11

LEMMA EnterTemp ==
  ASSUME WorldOK(World), NEW t \in Temps, temp(t)
  PROVE  \E s, enter : Enters(s, enter)
<1>. DEFINE a == RemovePath(t)
            b == MakeDir(t)
            s == Scope({}, <<a>>, t)
            w == Worlds(<<b>>)[Len(<<b>>)]
<1>1. With(s, <<b>>) /\ NewName(t)
  BY DEF temp
<1>2. /\ DOMAIN s.saved = {} /\ s.saved = [y \in DOMAIN s.saved |-> s.saved[y]]
      /\ s.exit = <<a>> /\ s.temp = t
  BY ScopeFacts
<1>3. /\ StepOK(a) /\ ~Sets(a) /\ a.to = t /\ a.do = "remove" /\ a = RemovePath(t)
      /\ StepOK(b) /\ ~Sets(b) /\ b.to = t /\ b.do = "mkdir"
  BY StepTypes
<1>. HIDE DEF s, a, b
<1>4. /\ Listed(<<a>>) /\ Len(<<a>>) = 1 /\ <<a>>[1] = a
      /\ Listed(<<b>>) /\ Len(<<b>>) = 1 /\ <<b>>[1] = b
  BY Short
<1>5. /\ StepsOK(<<a>>) /\ Within(<<a>>, {}) /\ StepsOK(<<b>>) /\ Within(<<b>>, {})
  BY <1>3, <1>4 DEF StepsOK, Within
<1>6. ExitOK(s)
  BY <1>2, <1>5 DEF ExitOK
<1>7. FailOK(s)
  BY <1>2, <1>3, <1>4 DEF FailOK, OneKind, About
<1>8. Worlds(<<b>>)[0] = World /\ w = Do(World, b)
  BY <1>4, WorldsExist
<1>9. w.value = value /\ w.dirs = dirs \cup {t}
  BY <1>3, <1>8 DEF Do, World
<1>10. Leaves(s, w)
  BY <1>2, <1>3, <1>4, <1>9 DEF Leaves
<1>11. \A n \in 0..Len(<<b>>) - 1 : Can(Worlds(<<b>>)[n], <<b>>[n + 1])
  BY <1>3, <1>4 DEF Can
<1>12. EnterOK(s, <<b>>)
  BY <1>2, <1>3, <1>4, <1>5, <1>6, <1>7, <1>10, <1>11 DEF EnterOK, About
<1>13. Enters(s, <<b>>)
  BY <1>1, <1>2, <1>12 DEF Enters
<1>. QED
  BY <1>13

\* The steps are about each setting of the set once.
Lists(steps, set) ==
  /\ Listed(steps)
  /\ \A m \in 1..Len(steps) : steps[m].name \in set
  /\ \A m, n \in 1..Len(steps) : steps[m].name = steps[n].name => m = n
  /\ \A x \in set : \E m \in 1..Len(steps) : steps[m].name = x

LEMMA FiniteVars == ASSUME NEW S \in SUBSET Vars PROVE IsFiniteSet(S)
  BY FS_Subset, ScopesAssumption

LEMMA EachDelete ==
  ASSUME NEW S \in SUBSET Vars
  PROVE  LET steps == Each(S, Delete)
         IN /\ Lists(steps, S)
            /\ \A m \in 1..Len(steps) : steps[m] = Delete(steps[m].name)
<1>. DEFINE s == SetToSeq(S)
            t == [n \in DOMAIN s |-> Delete(s[n])]
<1>1. /\ Listed(s) /\ DOMAIN s = 1..Len(s)
      /\ \A n \in 1..Len(s) : s[n] \in S
      /\ \A m, n \in 1..Len(s) : s[m] = s[n] => m = n
      /\ \A x \in S : \E n \in 1..Len(s) : s[n] = x
  BY FiniteVars, Listing
<1>2. Each(S, Delete) = t
  BY DEF Each
<1>. HIDE DEF s
<1>3. /\ t = [n \in 1..Len(s) |-> t[n]] /\ Len(s) \in Nat
      /\ \A n \in 1..Len(s) : t[n] = Delete(s[n])
  BY <1>1 DEF Listed
<1>. HIDE DEF t
<1>4. Listed(t) /\ Len(t) = Len(s)
  BY <1>3, MadeListed
<1>5. \A v : Delete(v).name = v
  BY DEF Delete
<1>6. Lists(t, S)
  BY <1>1, <1>3, <1>4, <1>5 DEF Lists
<1>. QED
  BY <1>2, <1>3, <1>4, <1>5, <1>6

LEMMA EachSet ==
  ASSUME NEW S \in SUBSET Vars
  PROVE  LET steps == Each(S, LAMBDA v : Assign(v, "scope"))
         IN /\ Lists(steps, S)
            /\ \A m \in 1..Len(steps) : steps[m] = Assign(steps[m].name, "scope")
<1>. DEFINE s == SetToSeq(S)
            t == [n \in DOMAIN s |-> Assign(s[n], "scope")]
<1>1. /\ Listed(s) /\ DOMAIN s = 1..Len(s)
      /\ \A n \in 1..Len(s) : s[n] \in S
      /\ \A m, n \in 1..Len(s) : s[m] = s[n] => m = n
      /\ \A x \in S : \E n \in 1..Len(s) : s[n] = x
  BY FiniteVars, Listing
<1>2. Each(S, LAMBDA v : Assign(v, "scope")) = t
  BY DEF Each
<1>. HIDE DEF s
<1>3. /\ t = [n \in 1..Len(s) |-> t[n]] /\ Len(s) \in Nat
      /\ \A n \in 1..Len(s) : t[n] = Assign(s[n], "scope")
  BY <1>1 DEF Listed
<1>. HIDE DEF t
<1>4. Listed(t) /\ Len(t) = Len(s)
  BY <1>3, MadeListed
<1>5. \A v : Assign(v, "scope").name = v
  BY DEF Assign
<1>6. Lists(t, S)
  BY <1>1, <1>3, <1>4, <1>5 DEF Lists
<1>7. \A m \in 1..Len(t) : t[m] = Assign(t[m].name, "scope")
  BY <1>3, <1>4, <1>5
<1>. QED
  BY <1>6, <1>7 DEF Each, t, s

LEMMA EachReset ==
  ASSUME NEW S \in SUBSET Vars
  PROVE  LET steps == Each(S, LAMBDA v : Assign(v, value[v]))
         IN /\ Lists(steps, S)
            /\ \A m \in 1..Len(steps) :
                 steps[m] = Assign(steps[m].name, value[steps[m].name])
<1>. DEFINE s == SetToSeq(S)
            t == [n \in DOMAIN s |-> Assign(s[n], value[s[n]])]
<1>1. /\ Listed(s) /\ DOMAIN s = 1..Len(s)
      /\ \A n \in 1..Len(s) : s[n] \in S
      /\ \A m, n \in 1..Len(s) : s[m] = s[n] => m = n
      /\ \A x \in S : \E n \in 1..Len(s) : s[n] = x
  BY FiniteVars, Listing
<1>2. Each(S, LAMBDA v : Assign(v, value[v])) = t
  BY DEF Each
<1>. HIDE DEF s
<1>3. /\ t = [n \in 1..Len(s) |-> t[n]] /\ Len(s) \in Nat
      /\ \A n \in 1..Len(s) : t[n] = Assign(s[n], value[s[n]])
  BY <1>1 DEF Listed
<1>. HIDE DEF t
<1>4. Listed(t) /\ Len(t) = Len(s)
  BY <1>3, MadeListed
<1>5. \A v : Assign(v, value[v]).name = v
  BY DEF Assign
<1>6. Lists(t, S)
  BY <1>1, <1>3, <1>4, <1>5 DEF Lists
<1>7. \A m \in 1..Len(t) : t[m] = Assign(t[m].name, value[t[m].name])
  BY <1>3, <1>4, <1>5
<1>. QED
  BY <1>6, <1>7 DEF Each, t, s

\* One list after the other.
LEMMA JoinLists ==
  ASSUME NEW a, NEW b, NEW S, NEW T, Lists(a, S), Lists(b, T), S \cap T = {}
  PROVE  /\ Lists(a \o b, S \cup T)
         /\ \A m \in 1..Len(a \o b) :
              \/ \E i \in 1..Len(a) : (a \o b)[m] = a[i]
              \/ \E i \in 1..Len(b) : (a \o b)[m] = b[i]
<1>. DEFINE c == a \o b
<1>1. /\ Listed(c) /\ Len(c) = Len(a) + Len(b) /\ Len(a) \in Nat /\ Len(b) \in Nat
      /\ \A n \in 1..Len(a) : c[n] = a[n]
      /\ \A n \in 1..Len(b) : c[Len(a) + n] = b[n]
  BY JoinListed DEF Lists, Listed
<1>. HIDE DEF c
<1>2. \A m \in 1..Len(c) : m \in 1..Len(a) \/ \E i \in 1..Len(b) : m = Len(a) + i
  <2>. SUFFICES ASSUME NEW m \in 1..Len(c), m \notin 1..Len(a)
                PROVE  \E i \in 1..Len(b) : m = Len(a) + i
    OBVIOUS
  <2>1. m - Len(a) \in 1..Len(b) /\ m = Len(a) + (m - Len(a))
    BY <1>1
  <2>. QED
    BY <2>1
<1>3. \A m \in 1..Len(c) : \/ \E i \in 1..Len(a) : m = i /\ c[m] = a[i]
                           \/ \E i \in 1..Len(b) : m = Len(a) + i /\ c[m] = b[i]
  BY <1>1, <1>2
<1>4. \A m \in 1..Len(c) : c[m].name \in S \cup T
  BY <1>3 DEF Lists
<1>5. ASSUME NEW m \in 1..Len(c), NEW n \in 1..Len(c), c[m].name = c[n].name
      PROVE  m = n
  <2>1. /\ \A i, j \in 1..Len(a) : a[i].name = a[j].name => i = j
        /\ \A i, j \in 1..Len(b) : b[i].name = b[j].name => i = j
        /\ \A i \in 1..Len(a) : \A j \in 1..Len(b) : a[i].name # b[j].name
    BY DEF Lists
  <2>2. CASE m \in 1..Len(a) /\ c[m] = a[m]
    BY <1>3, <1>5, <2>1, <2>2
  <2>3. ASSUME NEW i \in 1..Len(b), m = Len(a) + i, c[m] = b[i]
        PROVE  m = n
    <3>1. \A j \in 1..Len(a) : c[n] # a[j]
      BY <1>5, <2>1, <2>3
    <3>2. PICK j \in 1..Len(b) : n = Len(a) + j /\ c[n] = b[j]
      BY <1>3, <3>1
    <3>. QED
      BY <1>5, <2>1, <2>3, <3>2
  <2>. QED
    BY <1>3, <2>2, <2>3
<1>6. ASSUME NEW x \in S \cup T
      PROVE  \E m \in 1..Len(c) : c[m].name = x
  <2>1. CASE x \in S
    <3>1. PICK i \in 1..Len(a) : a[i].name = x
      BY <2>1 DEF Lists
    <3>. QED
      BY <1>1, <3>1
  <2>2. CASE x \in T
    <3>1. PICK i \in 1..Len(b) : b[i].name = x
      BY <2>2 DEF Lists
    <3>2. Len(a) + i \in 1..Len(c)
      BY <1>1
    <3>. QED
      BY <1>1, <3>1, <3>2
  <2>. QED
    BY <2>1, <2>2
<1>7. Lists(c, S \cup T)
  BY <1>1, <1>4, <1>5, <1>6 DEF Lists
<1>. QED
  BY <1>3, <1>7 DEF c

LEMMA ListGives ==
  ASSUME NEW steps, NEW set, Lists(steps, set), NEW x \in set, NEW v,
         \A m \in 1..Len(steps) :
           Sets(steps[m]) /\ (steps[m].name = x => steps[m].to = v)
  PROVE  Gives(steps, x, v)
BY DEF Lists, Gives, About

LEMMA EnvEnter ==
  ASSUME WorldOK(World), NEW names \in SUBSET Vars, NEW amend \in BOOLEAN
  PROVE  LET enter == (IF amend THEN <<>> ELSE Each(Present \ names, Delete))
                      \o Each(names, LAMBDA v : Assign(v, "scope"))
         IN /\ StepsOK(enter)
            /\ \A m \in 1..Len(enter) :
                 /\ enter[m].do \in {"assign", "del"}
                 /\ enter[m].name \in Present \cup names
            /\ \A n \in 0..Len(enter) - 1 : Can(Worlds(enter)[n], enter[n + 1])
            /\ \A v \in names : Gives(enter, v, "scope")
<1>. DEFINE P == IF amend THEN {} ELSE Present \ names
            a == IF amend THEN <<>> ELSE Each(Present \ names, Delete)
            b == Each(names, LAMBDA v : Assign(v, "scope"))
            t == a \o b
<1>1. /\ P \in SUBSET Vars /\ P \cap names = {} /\ P \cup names \subseteq Present \cup names
      /\ \A v \in P : value[v] # Absent
  BY DEF Present
<1>2. Lists(a, P) /\ \A m \in 1..Len(a) : a[m] = Delete(a[m].name)
  <2>1. CASE amend
    <3>1. Listed(<<>>) /\ Len(<<>>) = 0
      BY Short
    <3>. QED
      BY <2>1, <3>1 DEF Lists
  <2>2. CASE ~amend
    <3>1. Present \ names \in SUBSET Vars
      BY DEF Present
    <3>. QED
      BY <2>2, <3>1, EachDelete
  <2>. QED
    BY <2>1, <2>2
<1>3. Lists(b, names) /\ \A m \in 1..Len(b) : b[m] = Assign(b[m].name, "scope")
  BY EachSet
<1>. HIDE DEF a, b, P
<1>4. /\ Lists(t, P \cup names)
      /\ \A m \in 1..Len(t) : \/ \E i \in 1..Len(a) : t[m] = a[i]
                              \/ \E i \in 1..Len(b) : t[m] = b[i]
  BY <1>1, <1>2, <1>3, JoinLists
<1>. HIDE DEF t
<1>5. \A m \in 1..Len(t) :
         \/ t[m].name \in P /\ t[m] = Delete(t[m].name)
         \/ t[m].name \in names /\ t[m] = Assign(t[m].name, "scope")
  BY <1>2, <1>3, <1>4 DEF Lists
<1>6. /\ \A v \in names : v \in Settings /\ "scope" \in Values(v)
      /\ P \subseteq Settings
  BY <1>1, SettingTypes DEF VarValues
<1>7. \A m \in 1..Len(t) : /\ StepOK(t[m]) /\ t[m].do \in {"assign", "del"}
                           /\ Sets(t[m])
                           /\ t[m].name \in names => t[m].to = "scope"
                           /\ t[m].do = "del" => t[m].name \in P
  <2>. SUFFICES ASSUME NEW m \in 1..Len(t)
                PROVE  /\ StepOK(t[m]) /\ t[m].do \in {"assign", "del"}
                       /\ Sets(t[m])
                       /\ t[m].name \in names => t[m].to = "scope"
                       /\ t[m].do = "del" => t[m].name \in P
    OBVIOUS
  <2>1. CASE t[m].name \in P /\ t[m] = Delete(t[m].name)
    BY <1>1, <2>1, StepTypes
  <2>2. CASE t[m].name \in names /\ t[m] = Assign(t[m].name, "scope")
    BY <1>6, <2>2, StepTypes
  <2>. QED
    BY <1>5, <2>1, <2>2
<1>8. StepsOK(t) /\ Len(t) \in Nat
  BY <1>4, <1>7 DEF StepsOK, Lists, Listed
<1>9. \A m \in 1..Len(t) : t[m].name \in Present \cup names
  BY <1>1, <1>4 DEF Lists
<1>10. \A v \in names : Gives(t, v, "scope")
  BY <1>4, <1>7, ListGives
<1>11. ASSUME NEW n \in 0..Len(t) - 1
       PROVE  Can(Worlds(t)[n], t[n + 1])
  <2>1. n + 1 \in 1..Len(t) /\ n \in 0..Len(t) /\ \A m \in 1..n : m \in 1..Len(t) /\ m # n + 1
    BY <1>8
  <2>2. CASE t[n + 1].do = "del"
    <3>. DEFINE v == t[n + 1].name
    <3>1. v \in P /\ v \in Settings
      BY <1>6, <1>7, <2>1, <2>2
    <3>2. \A m \in 1..n : ~About(t[m], v)
      BY <1>4, <2>1 DEF Lists, About
    <3>3. Worlds(t)[n].value[v] = value[v]
      BY <1>8, <2>1, <3>1, <3>2, Untouched
    <3>. QED
      BY <1>1, <2>2, <3>1, <3>3 DEF Can
  <2>3. CASE t[n + 1].do = "assign"
    BY <2>3 DEF Can
  <2>. QED
    BY <1>7, <2>1, <2>2, <2>3
<1>. QED
  BY <1>7, <1>8, <1>9, <1>10, <1>11 DEF t, a, b

LEMMA EnvExit ==
  ASSUME WorldOK(World), NEW names \in SUBSET Vars
  PROVE  LET exit == Each(Present, LAMBDA v : Assign(v, value[v]))
                     \o Each(names \ Present, Delete)
         IN /\ StepsOK(exit) /\ Lists(exit, Present \cup names)
            /\ \A v \in Present \cup names : Gives(exit, v, value[v])
            /\ \A m \in 1..Len(exit) :
                 /\ exit[m].do \in {"assign", "del"}
                 /\ exit[m].do = "del" => exit[m].name \in names
<1>. DEFINE N == names \ Present
            a == Each(Present, LAMBDA v : Assign(v, value[v]))
            b == Each(N, Delete)
            t == a \o b
<1>1. /\ Present \in SUBSET Vars /\ N \in SUBSET Vars /\ Present \cap N = {}
      /\ Present \cup N = Present \cup names /\ N \subseteq names
      /\ \A v \in N : value[v] = Absent
  BY DEF Present
<1>. HIDE DEF N
<1>2. Lists(a, Present) /\ \A m \in 1..Len(a) : a[m] = Assign(a[m].name, value[a[m].name])
  BY <1>1, EachReset
<1>3. Lists(b, N) /\ \A m \in 1..Len(b) : b[m] = Delete(b[m].name)
  BY <1>1, EachDelete
<1>. HIDE DEF a, b
<1>4. /\ Lists(t, Present \cup N)
      /\ \A m \in 1..Len(t) : \/ \E i \in 1..Len(a) : t[m] = a[i]
                              \/ \E i \in 1..Len(b) : t[m] = b[i]
  BY <1>1, <1>2, <1>3, JoinLists
<1>. HIDE DEF t
<1>5. \A m \in 1..Len(t) :
         \/ t[m].name \in N /\ t[m] = Delete(t[m].name)
         \/ t[m].name \in Present /\ t[m] = Assign(t[m].name, value[t[m].name])
  BY <1>2, <1>3, <1>4 DEF Lists
<1>6. \A v \in Present : v \in Settings /\ value[v] \in Values(v)
  BY <1>1, SettingTypes, ValueTypes
<1>7. \A m \in 1..Len(t) : /\ StepOK(t[m]) /\ t[m].do \in {"assign", "del"}
                           /\ Sets(t[m]) /\ t[m].to = value[t[m].name]
                           /\ t[m].do = "del" => t[m].name \in names
  <2>. SUFFICES ASSUME NEW m \in 1..Len(t)
                PROVE  /\ StepOK(t[m]) /\ t[m].do \in {"assign", "del"}
                       /\ Sets(t[m]) /\ t[m].to = value[t[m].name]
                       /\ t[m].do = "del" => t[m].name \in names
    OBVIOUS
  <2>1. CASE t[m].name \in N /\ t[m] = Delete(t[m].name)
    BY <1>1, <2>1, StepTypes
  <2>2. CASE t[m].name \in Present /\ t[m] = Assign(t[m].name, value[t[m].name])
    BY <1>6, <2>2, StepTypes
  <2>. QED
    BY <1>5, <2>1, <2>2
<1>8. StepsOK(t) /\ Lists(t, Present \cup names)
  BY <1>1, <1>4, <1>7 DEF StepsOK, Lists
<1>9. \A v \in Present \cup names : Gives(t, v, value[v])
  BY <1>7, <1>8, ListGives
<1>. QED
  BY <1>7, <1>8, <1>9 DEF t, a, b, N

LEMMA EnterEnv ==
  ASSUME WorldOK(World), NEW names \in SUBSET Vars, NEW amend \in BOOLEAN,
         working_env(names, amend)
  PROVE  \E s, enter : Enters(s, enter)
<1>. DEFINE enter == (IF amend THEN <<>> ELSE Each(Present \ names, Delete))
                     \o Each(names, LAMBDA v : Assign(v, "scope"))
            exit == Each(Present, LAMBDA v : Assign(v, value[v]))
                    \o Each(names \ Present, Delete)
            set == Present \cup names
            s == Scope(set, exit, None)
            w == Worlds(enter)[Len(enter)]
<1>1. With(s, enter)
  BY DEF working_env
<1>2. /\ StepsOK(enter)
      /\ \A m \in 1..Len(enter) : /\ enter[m].do \in {"assign", "del"}
                                  /\ enter[m].name \in set
      /\ \A n \in 0..Len(enter) - 1 : Can(Worlds(enter)[n], enter[n + 1])
      /\ \A v \in names : Gives(enter, v, "scope")
  BY EnvEnter
<1>3. /\ StepsOK(exit) /\ Lists(exit, set)
      /\ \A v \in set : Gives(exit, v, value[v])
      /\ \A m \in 1..Len(exit) : /\ exit[m].do \in {"assign", "del"}
                                 /\ exit[m].do = "del" => exit[m].name \in names
  BY EnvExit
<1>. HIDE DEF enter, exit
<1>4. set \subseteq Vars /\ set \in SUBSET Restorable /\ Present \subseteq set
  BY SettingNames DEF Present
<1>5. /\ DOMAIN s.saved = set /\ s.saved = [y \in DOMAIN s.saved |-> s.saved[y]]
      /\ \A y \in DOMAIN s.saved : s.saved[y] = Shown[y]
      /\ s.exit = exit /\ s.temp = None
  BY <1>4, ScopeFacts
<1>6. \A k \in set : s.saved[k] = value[k] /\ k # "log" /\ k # "cwd" /\ k # "color"
  BY <1>4, <1>5, SettingNames, ScopesAssumption DEF Shown, Others
<1>. HIDE DEF s, set
<1>7. Within(enter, set) /\ Within(exit, set)
  BY <1>2, <1>3 DEF Within, Touched, Lists
<1>8. ExitOK(s)
  BY <1>3, <1>4, <1>5, <1>6, <1>7 DEF ExitOK
<1>9. Listed(exit) /\ \A m \in 1..Len(exit) : \A i \in 1..m - 1 : i \in 1..Len(exit) /\ i # m
  BY <1>3 DEF Lists, Listed
<1>10. \A m \in 1..Len(exit) : \A i \in 1..m - 1 : ~About(exit[i], exit[m].name)
  BY <1>3, <1>9 DEF Lists, About
<1>11. \A m \in 1..Len(exit) : exit[m].name # "color"
  BY <1>3, <1>6 DEF Lists
<1>12. FailOK(s)
  BY <1>3, <1>4, <1>5, <1>10, <1>11 DEF FailOK, OneKind, About
<1>13. Len(enter) \in 0..Len(enter)
  BY <1>2 DEF StepsOK, Listed
<1>14. w.value["cwd"] = value["cwd"]
  BY <1>2, <1>6, <1>13, SettingTypes, Untouched DEF About
<1>15. \A d : d \in w.dirs <=> d \in dirs
  BY <1>2, <1>13, PathUntouched DEF Sets
<1>16. \A v \in names : w.value[v] = "scope"
  BY <1>2, SettingTypes, Given
<1>17. Leaves(s, w)
  BY <1>3, <1>5, <1>14, <1>15, <1>16 DEF Leaves, Absent
<1>18. EnterOK(s, enter)
  BY <1>2, <1>4, <1>5, <1>6, <1>7, <1>8, <1>12, <1>17 DEF EnterOK, About
<1>19. Enters(s, enter)
  BY <1>1, <1>5, <1>18 DEF Enters
<1>. QED
  BY <1>19

\* Every way into a block.
LEMMA Entering ==
  ASSUME WorldOK(World),
         \/ \E dir \in Dirs : working_dir(dir)
         \/ working_dir_empty \/ working_dir_here
         \/ \E t \in Temps : working_dir_temp(t) \/ temp(t)
         \/ \E names \in SUBSET Vars, amend \in BOOLEAN : working_env(names, amend)
         \/ \E dir \in Dirs, amend \in BOOLEAN : working_module_path(dir, amend)
         \/ \E file \in Outputs \ {Console} : output_redirected(file)
         \/ console_color("red")
         \/ \E level \in Levels, output \in Outputs : logging_enabled(level, output)
  PROVE  \E s, enter : Enters(s, enter)
<1>1. CASE \E dir \in Dirs, amend \in BOOLEAN : working_module_path(dir, amend)
  <2>1. PICK dir \in Dirs, amend \in BOOLEAN : working_module_path(dir, amend)
    BY <1>1
  <2>. DEFINE x == <<dir>> \o IF amend THEN value["path"] ELSE <<>>
  <2>2. x \in Seq(Dirs)
    BY ValueTypes
  <2>3. With(Scope({"path"}, <<Assign("path", value["path"])>>, None), <<Assign("path", x)>>)
    BY <2>1 DEF working_module_path
  <2>. HIDE DEF x
  <2>. QED
    BY <2>2, <2>3, SettingTypes, EnterPathOrOutput
<1>2. CASE \E file \in Outputs \ {Console} : output_redirected(file)
  BY <1>2, SettingTypes, EnterPathOrOutput DEF output_redirected
<1>. QED
  BY <1>1, <1>2, EnterDir, EnterSameDir, EnterNothing, EnterTempDir, EnterTemp, EnterEnv,
     EnterColor, EnterLogging

-----------------------------------------------------------------------------
(* The inductive invariant                                                 *)

ScopesInv ==
  /\ Listed(scopes)
  /\ \A n \in 1..Len(scopes) : ExitOK(scopes[n]) /\ FailOK(scopes[n])

Saves(n, k) == k \in DOMAIN scopes[n].saved

\* A temporary directory is the current one only inside its working_dir, of which
\* n are entered; it and those to go back to exist.
OwnDir(d, n) ==
  /\ d \in dirs
  /\ d \in Temps => \E m \in 1..n : scopes[m].temp = d /\ Saves(m, "cwd")

CwdInv ==
  blame \cap {"strike", "remove", "chdir"} = {} =>
    /\ OwnDir(value["cwd"], Len(scopes))
    /\ \A n \in 1..Len(scopes) :
         Saves(n, "cwd") => OwnDir(scopes[n].saved["cwd"], n - 1)

\* A variable that block n deletes at its end will be there: the first block
\* inside it that restores the variable has found it set, or it is set now.
WillBeSet(n, v) ==
  \/ value[v] # Absent /\ \A m \in n + 1..Len(scopes) : ~Saves(m, v)
  \/ \E m \in n + 1..Len(scopes) :
       /\ Saves(m, v) /\ scopes[m].saved[v] # Absent
       /\ \A k \in n + 1..m - 1 : ~Saves(k, v)

Deletes(n) == {scopes[n].exit[m].name : m \in {i \in 1..Len(scopes[n].exit) :
                                                  scopes[n].exit[i].do = "del"}}

EnvInv ==
  blame \cap {"strike", "del"} = {} =>
    \A n \in 1..Len(scopes) : \A v \in Deletes(n) : WillBeSet(n, v)

\* A colored terminal is reset by some block.
ColorInv ==
  value["color"] # Plain =>
    \/ "strike" \in blame
    \/ \E n \in 1..Len(scopes) : Gives(scopes[n].exit, "color", Plain)

IInv == TypeOK /\ ScopesInv /\ CwdInv /\ EnvInv /\ ColorInv /\ FailuresHaveCause

-----------------------------------------------------------------------------
(* What an action has to keep                                              *)

\* TypeOK is of three parts: WorldOK of the settings and directories, and these.
CountsOK ==
  /\ failed \subseteq Restorable /\ failures \in Nat /\ leaked \subseteq Temps
  /\ blocks \in 0..MaxBlocks /\ changes \in 0..MaxChanges /\ strikes \in 0..MaxStrikes

OwnTemps ==
  \A m, n \in 1..Len(scopes) :
    scopes[m].temp # None /\ scopes[m].temp = scopes[n].temp => m = n

LEMMA WorldTypes ==
  TypeOK => WorldOK(World)
<1>. SUFFICES ASSUME TypeOK
              PROVE  WorldOK(World)
  OBVIOUS
<1>1. \A k \in Settings : value[k] \in Values(k)
  BY ScopesAssumption DEF TypeOK, Values, VarValues, Settings, Others
<1>. QED
  BY <1>1 DEF WorldOK, World, TypeOK

LEMMA ScopesDomain ==
  ASSUME ScopesInv
  PROVE  Len(scopes) \in Nat /\ DOMAIN scopes = 1..Len(scopes)
<1>1. Len(scopes) \in Nat /\ scopes = [n \in 1..Len(scopes) |-> scopes[n]]
  BY DEF ScopesInv, Listed
<1>. QED
  BY <1>1, Zenon

LEMMA TypesOf ==
  WorldOK(World) /\ ScopesInv /\ OwnTemps /\ CountsOK => TypeOK
<1>. SUFFICES ASSUME WorldOK(World), ScopesInv, OwnTemps, CountsOK
              PROVE  TypeOK
  OBVIOUS
<1>1. \A k \in Settings : value[k] \in Values(k)
  BY DEF WorldOK, World
<1>2. /\ Len(scopes) \in Nat /\ DOMAIN scopes = 1..Len(scopes)
  BY ScopesDomain
<1>3. \A n \in DOMAIN scopes :
        /\ DOMAIN scopes[n].saved \subseteq Restorable
        /\ scopes[n].temp # None =>
             \A k \in DOMAIN scopes : scopes[k].temp = scopes[n].temp => k = n
  BY <1>2 DEF ScopesInv, ExitOK, OwnTemps
<1>4. \A v \in Vars : value[v] \in {Absent, "start", "scope", "body"}
  BY <1>1 DEF Values, VarValues, Settings
<1>5. /\ value["cwd"] \in Dirs \cup Temps
      /\ value["path"] \in Seq(Dirs)
      /\ value["stdout"] \in Outputs /\ value["output"] \in Outputs
      /\ value["threshold"] \in Levels /\ value["color"] \in {Plain, "red"}
  BY <1>1, ScopesAssumption DEF Values, Settings, Others
<1>6. value = [k \in Settings |-> value[k]] /\ dirs \subseteq Dirs \cup Temps
  BY DEF WorldOK, World
<1>. QED
  BY <1>3, <1>4, <1>5, <1>6 DEF TypeOK, CountsOK

LEMMA TypeParts ==
  ASSUME TypeOK, ScopesInv
  PROVE  OwnTemps /\ CountsOK
<1>1. /\ Len(scopes) \in Nat /\ DOMAIN scopes = 1..Len(scopes)
  BY ScopesDomain
<1>. QED
  BY <1>1 DEF TypeOK, OwnTemps, CountsOK

\* The temporary paths of the blocks entered.
LEMMA Owner ==
  ASSUME ScopesInv
  PROVE  Owned = {scopes[n].temp : n \in 1..Len(scopes)} \ {None}
<1>1. DOMAIN scopes = 1..Len(scopes)
  BY ScopesDomain
<1>. QED
  BY <1>1 DEF Owned

LEMMA ScopesStay ==
  ScopesInv /\ UNCHANGED scopes => ScopesInv'
BY DEF ScopesInv, ExitOK, FailOK, LogOK, Gives, StepsOK, StepOK, About,
   Within, Sets, OneKind, Touched, Listed

LEMMA NoneLost ==
  ASSUME NEW steps, StepsOK(steps), WorldOK(World), NEW n \in 0..Len(steps),
         \A m \in 1..n : steps[m].do # "remove"
  PROVE  dirs \subseteq Worlds(steps)[n].dirs
<1>. DEFINE S == {m \in 0..n : dirs \subseteq Worlds(steps)[m].dirs}
<1>1. Len(steps) \in Nat /\ n \in Nat /\ n <= Len(steps)
  BY DEF StepsOK, Listed
<1>2. 0 \in S
  BY <1>1, WorldsExist DEF World
<1>3. ASSUME NEW m \in S, m < n
      PROVE  m + 1 \in S
  <2>1. /\ m \in 0..Len(steps) - 1 /\ m \in 0..Len(steps) /\ m + 1 \in 1..n
        /\ dirs \subseteq Worlds(steps)[m].dirs
    BY <1>1, <1>3
  <2>2. /\ Worlds(steps)[m + 1] = Do(Worlds(steps)[m], steps[m + 1])
        /\ Sets(steps[m + 1]) => Worlds(steps)[m + 1].dirs = Worlds(steps)[m].dirs
    BY <2>1, NextWorld
  <2>3. WorldOK(Worlds(steps)[m])
    BY <2>1, WorldsOK
  <2>4. steps[m + 1].do # "remove"
    BY <2>1
  <2>5. Worlds(steps)[m].dirs \subseteq Worlds(steps)[m + 1].dirs
    <3>1. CASE Sets(steps[m + 1])
      BY <2>2, <3>1
    <3>2. CASE steps[m + 1].do = "mkdir"
      <4>. DEFINE w == Worlds(steps)[m]
                  v == Worlds(steps)[m + 1]
      <4>1. v = [w EXCEPT !.dirs = @ \cup {steps[m + 1].to}]
        BY <2>2, <3>2 DEF Do
      <4>2. w = [value |-> w.value, dirs |-> w.dirs]
        BY <2>3 DEF WorldOK
      <4>. HIDE DEF w, v
      <4>3. v.dirs = w.dirs \cup {steps[m + 1].to}
        BY <4>1, <4>2
      <4>. QED
        BY <4>3 DEF w, v
    <3>. QED
      BY <2>4, <3>1, <3>2 DEF Sets
  <2>. QED
    BY <1>3, <2>1, <2>5
<1>4. S \in SUBSET (0..n)
  OBVIOUS
<1>5. S = 0..n
  <2>. HIDE DEF S
  <2>. QED
    BY <1>1, <1>2, <1>3, <1>4, Ascend
<1>6. n \in S
  BY <1>1, <1>5
<1>. QED
  BY <1>6

LEMMA ShownIs ==
  ASSUME NEW k \in Restorable \ {"log"}
  PROVE  Shown[k] = value[k] /\ Shown'[k] = value'[k]
BY DEF Shown

-----------------------------------------------------------------------------
(* A block is entered                                                      *)

\* What __enter__ comes to, and the new block.
LEMMA AfterEnter ==
  ASSUME WorldOK(World), ScopesInv, NEW s, NEW enter, EnterOK(s, enter), Execute(enter),
         scopes' = Append(scopes, s)
  PROVE  /\ WorldOK(World)'
         /\ Leaves(s, World')
         /\ dirs \subseteq dirs'
         /\ \A d \in Temps \ {s.temp} : d \in dirs' => d \in dirs
         /\ \A k \in Restorable \ DOMAIN s.saved : Shown'[k] = Shown[k]
         /\ \A v \in Vars \ DOMAIN s.saved : value'[v] = value[v]
         /\ \/ value'["color"] = value["color"]
            \/ Gives(s.exit, "color", Plain)
         /\ Listed(scopes') /\ Len(scopes) \in Nat /\ Len(scopes') = Len(scopes) + 1
         /\ scopes'[Len(scopes) + 1] = s
         /\ \A n \in 1..Len(scopes) : scopes'[n] = scopes[n]
<1>. DEFINE N == Len(enter)
<1>1. StepsOK(enter) /\ N \in 0..N /\ Reach(enter, N)
  BY DEF EnterOK, StepsOK, Listed, Execute
<1>2. /\ value' = Worlds(enter)[N].value /\ dirs' = Worlds(enter)[N].dirs
      /\ WorldOK(World)'
      /\ \A k \in Settings : (\A m \in 1..N : ~About(enter[m], k)) => value'[k] = value[k]
      /\ \A d : (\A m \in 1..N : Sets(enter[m]) \/ enter[m].to # d) =>
                  (d \in dirs' <=> d \in dirs)
  BY <1>1, Reached
<1>3. Leaves(s, World')
  <2>1. Leaves(s, Worlds(enter)[N])
    BY DEF EnterOK
  <2>. QED
    BY <1>2, <2>1 DEF Leaves, World
<1>4. dirs \subseteq dirs'
  BY <1>1, <1>2, NoneLost DEF EnterOK
<1>5. \A d \in Temps \ {s.temp} : d \in dirs' => d \in dirs
  <2>. SUFFICES ASSUME NEW d \in Temps \ {s.temp}
                PROVE  \A m \in 1..N : Sets(enter[m]) \/ enter[m].to # d
    BY <1>2
  <2>. QED
    BY ScopesAssumption DEF EnterOK, Sets
<1>6. DOMAIN s.saved \in SUBSET Restorable /\ Within(enter, DOMAIN s.saved)
  BY DEF EnterOK, ExitOK
<1>7. \A k \in Restorable \ DOMAIN s.saved : Shown'[k] = Shown[k]
  BY <1>1, <1>6, OthersKept
<1>8. \A v \in Vars \ DOMAIN s.saved : value'[v] = value[v]
  <2>. SUFFICES ASSUME NEW v \in Vars \ DOMAIN s.saved
                PROVE  value'[v] = value[v]
    OBVIOUS
  <2>1. v \in Restorable \ {"log"}
    BY SettingNames
  <2>. QED
    BY <1>7, <2>1, ShownIs
<1>9. \/ value'["color"] = value["color"]
      \/ Gives(s.exit, "color", Plain)
  <2>1. "color" \in Settings
    BY SettingNames DEF Others
  <2>. QED
    BY <1>2, <2>1 DEF EnterOK
<1>10. /\ Listed(scopes') /\ Len(scopes) \in Nat /\ Len(scopes') = Len(scopes) + 1
       /\ scopes'[Len(scopes) + 1] = s
       /\ \A n \in 1..Len(scopes) : scopes'[n] = scopes[n]
  BY AppendListed DEF ScopesInv, Listed
<1>. QED
  BY <1>2, <1>3, <1>4, <1>5, <1>7, <1>8, <1>9, <1>10

Entered(s, enter) ==
  /\ Enters(s, enter) /\ Execute(enter)
  /\ scopes' = Append(scopes, s)
  /\ UNCHANGED <<upset, failures, failed, leaked, blame, strikes>>

LEMMA EnterKeepsTypes ==
  ASSUME IInv, NEW s, NEW enter, Entered(s, enter)
  PROVE  TypeOK' /\ ScopesInv'
<1>. USE DEF IInv, Entered
<1>1. WorldOK(World) /\ ScopesInv /\ EnterOK(s, enter) /\ With(s, enter)
  BY WorldTypes DEF Enters
<1>2. /\ WorldOK(World)' /\ Listed(scopes')
      /\ Len(scopes) \in Nat /\ Len(scopes') = Len(scopes) + 1
      /\ scopes'[Len(scopes) + 1] = s
      /\ \A n \in 1..Len(scopes) : scopes'[n] = scopes[n]
  BY <1>1, AfterEnter
<1>3. /\ \A n \in 1..Len(scopes') : n = Len(scopes) + 1 \/ n \in 1..Len(scopes)
      /\ Len(scopes) + 1 \in 1..Len(scopes') /\ Len(scopes) + 1 \notin 1..Len(scopes)
  BY <1>2
<1>4. ScopesInv'
  <2>1. \A n \in 1..Len(scopes') : ExitOK(scopes'[n]) /\ FailOK(scopes'[n])
    BY <1>1, <1>2, <1>3 DEF ScopesInv, EnterOK
  <2>. QED
    BY <1>2, <2>1 DEF ScopesInv, ExitOK, FailOK, LogOK, Gives, StepsOK, StepOK, About,
       Within, Sets, OneKind, Touched, Listed
<1>5. OwnTemps'
  <2>1. OwnTemps
    BY <1>1, TypeParts
  <2>2. s.temp # None => \A n \in 1..Len(scopes) : scopes[n].temp # s.temp
    BY <1>1, Owner DEF Enters, NewName
  <2>. QED
    BY <1>2, <1>3, <2>1, <2>2 DEF OwnTemps
<1>6. CountsOK'
  <2>1. CountsOK
    BY <1>1, TypeParts
  <2>2. blocks < MaxBlocks /\ blocks' = blocks + 1 /\ changes' = changes
    BY <1>1 DEF With
  <2>3. blocks' \in 0..MaxBlocks
    BY <2>1, <2>2, ScopesAssumption DEF CountsOK
  <2>. QED
    BY <2>1, <2>2, <2>3 DEF CountsOK
<1>7. TypeOK'
  BY <1>2, <1>4, <1>5, <1>6, TypesOf, PTL
<1>. QED
  BY <1>4, <1>7

\* Blocks delete variables only, which are settings of theirs.
LEMMA DeletesVars ==
  ASSUME ScopesInv, NEW n \in 1..Len(scopes), NEW v \in Deletes(n)
  PROVE  v \in Vars /\ Saves(n, v)
<1>1. PICK m \in 1..Len(scopes[n].exit) : /\ scopes[n].exit[m].do = "del"
                                          /\ scopes[n].exit[m].name = v
  BY DEF Deletes
<1>2. ExitOK(scopes[n])
  BY DEF ScopesInv
<1>3. v \in Vars /\ v \in Touched(DOMAIN scopes[n].saved)
  BY <1>1, <1>2 DEF ExitOK, StepsOK, StepOK, Within, Sets
<1>. QED
  BY <1>3, ScopesAssumption DEF Touched, Saves, Others

LEMMA EnterKeepsCwd ==
  ASSUME IInv, NEW s, NEW enter, Entered(s, enter)
  PROVE  CwdInv'
<1>. USE DEF IInv, Entered
<1>. SUFFICES ASSUME blame \cap {"strike", "remove", "chdir"} = {}
              PROVE  /\ OwnDir(value["cwd"], Len(scopes))'
                     /\ \A n \in 1..Len(scopes') :
                          Saves(n, "cwd")' => OwnDir(scopes[n].saved["cwd"], n - 1)'
  BY DEF CwdInv
<1>1. WorldOK(World) /\ ScopesInv /\ EnterOK(s, enter)
  BY WorldTypes DEF Enters
<1>2. /\ Leaves(s, World') /\ dirs \subseteq dirs'
      /\ Len(scopes) \in Nat /\ Len(scopes') = Len(scopes) + 1
      /\ scopes'[Len(scopes) + 1] = s
      /\ \A n \in 1..Len(scopes) : scopes'[n] = scopes[n]
  BY <1>1, AfterEnter
<1>3. /\ \A n \in 1..Len(scopes') : n = Len(scopes) + 1 \/ n \in 1..Len(scopes)
      /\ Len(scopes) + 1 \in 1..Len(scopes') /\ (Len(scopes) + 1) - 1 = Len(scopes)
      /\ \A n \in 1..Len(scopes) : n \in 1..Len(scopes')
      /\ \A n \in 1..Len(scopes) : \A m \in 1..n - 1 : m \in 1..Len(scopes)
  BY <1>2
<1>4. /\ OwnDir(value["cwd"], Len(scopes))
      /\ \A n \in 1..Len(scopes) : Saves(n, "cwd") => OwnDir(scopes[n].saved["cwd"], n - 1)
  BY DEF CwdInv
<1>5. OwnDir(value["cwd"], Len(scopes))'
  <2>1. value'["cwd"] \in dirs'
    BY <1>2, <1>4 DEF OwnDir, Leaves, World
  <2>2. ASSUME value'["cwd"] \in Temps
        PROVE  \E m \in 1..Len(scopes') : scopes'[m].temp = value'["cwd"] /\ Saves(m, "cwd")'
    <3>1. CASE value'["cwd"] = value["cwd"]
      BY <1>2, <1>3, <1>4, <2>2, <3>1 DEF OwnDir, Saves
    <3>2. CASE value'["cwd"] = s.temp /\ "cwd" \in DOMAIN s.saved
      BY <1>2, <1>3, <3>2 DEF Saves
    <3>. QED
      BY <1>2, <2>2, <3>1, <3>2 DEF Leaves, World
  <2>. QED
    BY <2>1, <2>2 DEF OwnDir
<1>6. ASSUME NEW n \in 1..Len(scopes'), Saves(n, "cwd")'
      PROVE  OwnDir(scopes[n].saved["cwd"], n - 1)'
  <2>1. CASE n = Len(scopes) + 1
    <3>1. s.saved["cwd"] = value["cwd"]
      BY <1>1, <1>2, <1>6, <2>1, SettingNames, ShownIs DEF EnterOK, Saves
    <3>. QED
      BY <1>2, <1>3, <1>4, <2>1, <3>1 DEF OwnDir, Saves
  <2>2. CASE n \in 1..Len(scopes)
    <3>1. OwnDir(scopes[n].saved["cwd"], n - 1)
      BY <1>2, <1>4, <1>6, <2>2 DEF Saves
    <3>. QED
      BY <1>2, <1>3, <2>2, <3>1 DEF OwnDir, Saves
  <2>. QED
    BY <1>3, <2>1, <2>2
<1>. QED
  BY <1>5, <1>6

LEMMA EnterKeepsEnv ==
  ASSUME IInv, NEW s, NEW enter, Entered(s, enter)
  PROVE  EnvInv'
<1>. USE DEF IInv, Entered
<1>. SUFFICES ASSUME blame \cap {"strike", "del"} = {},
                     NEW n \in 1..Len(scopes'), NEW v \in Deletes(n)'
              PROVE  WillBeSet(n, v)'
  BY DEF EnvInv
<1>1. WorldOK(World) /\ ScopesInv /\ EnterOK(s, enter)
  BY WorldTypes DEF Enters
<1>2. /\ Leaves(s, World')
      /\ \A x \in Vars \ DOMAIN s.saved : value'[x] = value[x]
      /\ Len(scopes) \in Nat /\ Len(scopes') = Len(scopes) + 1
      /\ scopes'[Len(scopes) + 1] = s
      /\ \A i \in 1..Len(scopes) : scopes'[i] = scopes[i]
  BY <1>1, AfterEnter
<1>. DEFINE N == Len(scopes)
            M == Len(scopes')
<1>3. CASE n = N + 1
  <2>1. v \in {s.exit[m].name : m \in {i \in 1..Len(s.exit) : s.exit[i].do = "del"}}
    BY <1>2, <1>3 DEF Deletes
  <2>2. value'[v] # Absent
    BY <1>2, <2>1 DEF Leaves, World
  <2>3. \A m \in n + 1..M : FALSE
    BY <1>2, <1>3
  <2>. QED
    BY <2>2, <2>3 DEF WillBeSet
<1>4. CASE n \in 1..N
  <2>1. v \in Deletes(n)
    BY <1>2, <1>4 DEF Deletes
  <2>2. v \in Vars
    BY <1>1, <1>4, <2>1, DeletesVars
  <2>3. WillBeSet(n, v)
    BY <1>4, <2>1 DEF EnvInv
  <2>4. /\ \A m \in n + 1..M : m = N + 1 \/ m \in n + 1..N
        /\ \A m \in n + 1..N : m \in n + 1..M /\ m \in 1..N
        /\ N + 1 \in n + 1..M
        /\ \A m \in n + 1..N : \A k \in n + 1..m - 1 : k \in 1..N
        /\ \A k \in n + 1..(N + 1) - 1 : k \in n + 1..N /\ k \in 1..N
    BY <1>2, <1>4
  <2>5. CASE \E m \in n + 1..N : /\ Saves(m, v) /\ scopes[m].saved[v] # Absent
                                 /\ \A k \in n + 1..m - 1 : ~Saves(k, v)
    BY <1>2, <2>4, <2>5 DEF WillBeSet, Saves
  <2>6. CASE value[v] # Absent /\ \A m \in n + 1..N : ~Saves(m, v)
    <3>1. CASE v \in DOMAIN s.saved
      <4>1. s.saved[v] = value[v]
        BY <1>1, <2>2, <3>1, SettingNames, ShownIs DEF EnterOK
      <4>. QED
        BY <1>2, <2>4, <2>6, <3>1, <4>1 DEF WillBeSet, Saves
    <3>2. CASE v \notin DOMAIN s.saved
      BY <1>2, <2>2, <2>4, <2>6, <3>2 DEF WillBeSet, Saves
    <3>. QED
      BY <3>1, <3>2
  <2>. QED
    BY <2>3, <2>5, <2>6 DEF WillBeSet
<1>. QED
  BY <1>2, <1>3, <1>4

LEMMA EnterKeepsColor ==
  ASSUME IInv, NEW s, NEW enter, Entered(s, enter)
  PROVE  ColorInv'
<1>. USE DEF IInv, Entered
<1>1. WorldOK(World) /\ ScopesInv /\ EnterOK(s, enter)
  BY WorldTypes DEF Enters
<1>2. /\ value'["color"] = value["color"] \/ Gives(s.exit, "color", Plain)
      /\ Len(scopes) \in Nat /\ Len(scopes') = Len(scopes) + 1
      /\ scopes'[Len(scopes) + 1] = s
      /\ \A n \in 1..Len(scopes) : scopes'[n] = scopes[n]
  BY <1>1, AfterEnter
<1>3. /\ Len(scopes) + 1 \in 1..Len(scopes')
      /\ \A n \in 1..Len(scopes) : n \in 1..Len(scopes')
  BY <1>2
<1>4. CASE Gives(s.exit, "color", Plain)
  BY <1>2, <1>3, <1>4 DEF ColorInv, Gives, About, Sets, Plain
<1>5. CASE value'["color"] = value["color"]
  BY <1>2, <1>3, <1>5 DEF ColorInv, Gives, About, Sets, Plain
<1>. QED
  BY <1>2, <1>4, <1>5

LEMMA EnterHasNoCause ==
  ASSUME IInv, NEW s, NEW enter, Entered(s, enter)
  PROVE  FailuresHaveCause'
<1>. USE DEF IInv, Entered
<1>1. WorldOK(World) /\ ScopesInv /\ EnterOK(s, enter)
  BY WorldTypes DEF Enters
<1>2. /\ \A d \in Temps \ {s.temp} : d \in dirs' => d \in dirs
      /\ Len(scopes) \in Nat /\ Len(scopes') = Len(scopes) + 1
      /\ scopes'[Len(scopes) + 1] = s /\ Listed(scopes')
      /\ \A n \in 1..Len(scopes) : scopes'[n] = scopes[n]
  BY <1>1, AfterEnter
<1>3. /\ Len(scopes) + 1 \in 1..Len(scopes')
      /\ \A n \in 1..Len(scopes) : n \in 1..Len(scopes')
      /\ Len(scopes') # 0
  BY <1>2
<1>4. DOMAIN scopes' = 1..Len(scopes')
  <2>1. scopes' = [n \in 1..Len(scopes') |-> scopes'[n]]
    BY <1>2 DEF Listed
  <2>. QED
    BY <2>1, Zenon
<1>5. Owned' = {scopes'[n].temp : n \in 1..Len(scopes')} \ {None}
  BY <1>4 DEF Owned
<1>6. Owned \subseteq Owned' /\ (s.temp # None => s.temp \in Owned')
  BY <1>1, <1>2, <1>3, <1>5, Owner
<1>7. None \notin Temps
  BY ScopesAssumption DEF None
<1>8. dirs' \cap Temps \subseteq Owned' \cup leaked'
  BY <1>2, <1>6, <1>7 DEF FailuresHaveCause
<1>9. scopes' # <<>>
  BY <1>3
<1>. QED
  BY <1>8, <1>9 DEF FailuresHaveCause

LEMMA EnterImplements ==
  ASSUME IInv, NEW s, NEW enter, Entered(s, enter)
  PROVE  Abstract!Enter
<1>. USE DEF IInv, Entered
<1>1. WorldOK(World) /\ ScopesInv /\ EnterOK(s, enter)
  BY WorldTypes DEF Enters
<1>2. /\ \A k \in Restorable \ DOMAIN s.saved : Shown'[k] = Shown[k]
      /\ Len(scopes) \in Nat /\ Len(scopes') = Len(scopes) + 1
      /\ scopes'[Len(scopes) + 1] = s /\ Listed(scopes')
      /\ \A n \in 1..Len(scopes) : scopes'[n] = scopes[n]
  BY <1>1, AfterEnter
<1>. DEFINE stack == [n \in DOMAIN scopes |-> scopes[n].saved]
            next == [n \in DOMAIN scopes' |-> scopes'[n].saved]
            N == Len(scopes)
<1>3. DOMAIN scopes' = 1..N + 1
  <2>1. scopes' = [n \in 1..Len(scopes') |-> scopes'[n]]
    BY <1>2 DEF Listed
  <2>. QED
    BY <1>2, <2>1, Zenon
<1>4. DOMAIN scopes = 1..N
  BY <1>1, ScopesDomain
<1>5. /\ stack = [n \in 1..N |-> stack[n]] /\ \A n \in 1..N : stack[n] = scopes[n].saved
      /\ next = [n \in 1..N + 1 |-> next[n]]
      /\ \A n \in 1..N + 1 : next[n] = scopes'[n].saved
  BY <1>3, <1>4
<1>. HIDE DEF stack, next
<1>6. Listed(stack) /\ Len(stack) = N /\ Listed(next) /\ Len(next) = N + 1
  BY <1>2, <1>5, MadeListed
<1>7. /\ next[N + 1] = s.saved
      /\ \A n \in 1..N : next[n] = stack[n]
  BY <1>2, <1>5
<1>8. next = Append(stack, s.saved)
  <2>. DEFINE app == Append(stack, s.saved)
  <2>1. /\ Listed(app) /\ Len(app) = N + 1 /\ app[N + 1] = s.saved
        /\ \A n \in 1..N : app[n] = stack[n]
    BY <1>6, AppendListed
  <2>. HIDE DEF app
  <2>2. \A n \in 1..N + 1 : app[n] = next[n]
    BY <1>2, <1>7, <2>1
  <2>3. app = [n \in 1..N + 1 |-> app[n]]
    BY <2>1 DEF Listed
  <2>. QED
    BY <1>5, <2>2, <2>3 DEF app
<1>9. DOMAIN Shown = Restorable /\ DOMAIN s.saved \subseteq Restorable
  BY <1>1 DEF Shown, EnterOK, ExitOK
<1>10. next # <<>> /\ next[Len(next)] = s.saved
  BY <1>2, <1>6, <1>7
<1>11. \A k \in DOMAIN s.saved : s.saved[k] = Shown[k]
  BY <1>1 DEF EnterOK
<1>12. upset' = upset /\ failures' = failures
  OBVIOUS
<1>13. DOMAIN s.saved \in Kinds
  BY <1>1 DEF EnterOK, FailOK, OneKind, Kinds
<1>. QED
  BY <1>2, <1>8, <1>9, <1>10, <1>11, <1>12, <1>13 DEF Abstract!Enter, Abstract!Only, stack, next

-----------------------------------------------------------------------------
(* A block is not entered                                                  *)

NotEntered(s, enter) ==
  /\ Enters(s, enter) /\ Interrupted(enter)
  /\ Fails(s) /\ Left(s)
  /\ UNCHANGED scopes

\* Without a strike, __enter__ fails only where the current directory is gone.
LEMMA AfterHalfEnter ==
  ASSUME IInv, NEW s, NEW enter, NotEntered(s, enter)
  PROVE  /\ WorldOK(World)' /\ DOMAIN s.saved \subseteq Restorable
         /\ s.temp \in Temps \cup {None}
         /\ \A d \in Temps \ {s.temp} : d \in dirs' => d \in dirs
         /\ \A k \in Restorable \ DOMAIN s.saved : Shown'[k] = Shown[k]
         /\ \A v \in Vars \ DOMAIN s.saved : value'[v] = value[v]
         /\ \/ strikes' \in 0..MaxStrikes /\ blame' = blame \cup {"strike"}
            \/ /\ strikes' = strikes /\ blame' = blame
               /\ blame \cap {"strike", "remove", "chdir"} # {}
               /\ DOMAIN s.saved \subseteq {"cwd"}
               /\ value'["color"] = value["color"]
<1>. USE DEF IInv, NotEntered
<1>. DEFINE N == Len(enter)
<1>1. WorldOK(World) /\ ScopesInv /\ EnterOK(s, enter)
  BY WorldTypes DEF Enters
<1>2. StepsOK(enter) /\ N \in Nat
  BY <1>1 DEF EnterOK, StepsOK, Listed
<1>3. PICK n \in 0..N :
        /\ Reach(enter, n)
        /\ \/ /\ strikes < MaxStrikes
              /\ strikes' = strikes + 1
              /\ blame' = blame \cup {"strike"}
           \/ /\ n < N /\ ~Can(Worlds(enter)[n], enter[n + 1])
              /\ UNCHANGED <<strikes, blame>>
  BY DEF Interrupted
<1>4. /\ WorldOK(World)'
      /\ \A k \in Settings : (\A m \in 1..n : ~About(enter[m], k)) => value'[k] = value[k]
      /\ \A d : (\A m \in 1..n : Sets(enter[m]) \/ enter[m].to # d) =>
                  (d \in dirs' <=> d \in dirs)
  BY <1>1, <1>2, <1>3, Reached
<1>5. \A m \in 1..n : m \in 1..N
  BY <1>2
<1>6. \A d \in Temps \ {s.temp} : d \in dirs' => d \in dirs
  <2>. SUFFICES ASSUME NEW d \in Temps \ {s.temp}
                PROVE  \A m \in 1..n : Sets(enter[m]) \/ enter[m].to # d
    BY <1>4
  <2>. QED
    BY <1>1, <1>5, ScopesAssumption DEF EnterOK, Sets
<1>7. /\ DOMAIN s.saved \in SUBSET Restorable /\ Within(enter, DOMAIN s.saved)
      /\ s.temp \in Temps \cup {None}
  BY <1>1 DEF EnterOK, ExitOK
<1>8. \A k \in Restorable \ DOMAIN s.saved : Shown'[k] = Shown[k]
  BY <1>1, <1>2, <1>3, <1>7, OthersKept
<1>9. \A v \in Vars \ DOMAIN s.saved : value'[v] = value[v]
  <2>. SUFFICES ASSUME NEW v \in Vars \ DOMAIN s.saved
                PROVE  value'[v] = value[v]
    OBVIOUS
  <2>1. v \in Restorable \ {"log"}
    BY SettingNames
  <2>. QED
    BY <1>8, <2>1, ShownIs
<1>10. CASE strikes < MaxStrikes /\ strikes' = strikes + 1 /\ blame' = blame \cup {"strike"}
  <2>1. strikes \in 0..MaxStrikes
    BY DEF TypeOK
  <2>2. strikes' \in 0..MaxStrikes
    BY <1>10, <2>1, ScopesAssumption
  <2>. QED
    BY <1>4, <1>6, <1>7, <1>8, <1>9, <1>10, <2>2
<1>11. CASE /\ n < N /\ ~Can(Worlds(enter)[n], enter[n + 1])
            /\ UNCHANGED <<strikes, blame>>
  <2>1. n \in 0..N - 1
    BY <1>2, <1>11
  <2>2. /\ value["cwd"] \notin dirs /\ DOMAIN s.saved \subseteq {"cwd"}
        /\ \A m \in 1..N : ~About(enter[m], "color")
    BY <1>1, <1>11, <2>1 DEF EnterOK
  <2>3. value'["color"] = value["color"]
    BY <1>4, <1>5, <2>2, SettingNames DEF Others
  <2>4. blame \cap {"strike", "remove", "chdir"} # {}
    BY <2>2 DEF CwdInv, OwnDir
  <2>. QED
    BY <1>4, <1>6, <1>7, <1>8, <1>9, <1>11, <2>2, <2>3, <2>4
<1>. QED
  BY <1>3, <1>10, <1>11

LEMMA HalfEnterKeeps ==
  ASSUME IInv, NEW s, NEW enter, NotEntered(s, enter)
  PROVE  IInv'
<1>. USE DEF IInv, NotEntered, Fails
<1>. DEFINE Struck == strikes' \in 0..MaxStrikes /\ blame' = blame \cup {"strike"}
            Lost == /\ strikes' = strikes /\ blame' = blame
                    /\ blame \cap {"strike", "remove", "chdir"} # {}
                    /\ DOMAIN s.saved \subseteq {"cwd"}
                    /\ value'["color"] = value["color"]
<1>1. /\ WorldOK(World)' /\ DOMAIN s.saved \subseteq Restorable
      /\ s.temp \in Temps \cup {None}
      /\ \A d \in Temps \ {s.temp} : d \in dirs' => d \in dirs
      /\ \A v \in Vars \ DOMAIN s.saved : value'[v] = value[v]
      /\ Struck \/ Lost
  BY AfterHalfEnter
<1>2. ScopesInv'
  BY ScopesStay
<1>3. OwnTemps /\ CountsOK /\ ScopesInv
  BY TypeParts
<1>4. OwnTemps'
  BY <1>3 DEF OwnTemps
<1>5. CountsOK'
  <2>1. blocks < MaxBlocks /\ blocks' = blocks + 1 /\ changes' = changes
    BY DEF Enters, With
  <2>2. blocks' \in 0..MaxBlocks
    BY <1>3, <2>1, ScopesAssumption DEF CountsOK
  <2>3. leaked' \subseteq Temps
    BY <1>1, <1>3, ScopesAssumption DEF CountsOK, WorldOK, World, None
  <2>. QED
    BY <1>1, <1>3, <2>1, <2>2, <2>3 DEF CountsOK
<1>6. TypeOK'
  BY <1>1, <1>2, <1>4, <1>5, TypesOf, PTL
<1>7. "cwd" \notin Vars
  BY ScopesAssumption DEF Others
<1>8. CwdInv'
  <2>1. blame' \cap {"strike", "remove", "chdir"} # {}
    BY <1>1
  <2>. QED
    BY <2>1 DEF CwdInv
<1>9. EnvInv'
  <2>1. CASE Struck
    BY <2>1 DEF EnvInv
  <2>2. CASE Lost
    <3>. SUFFICES ASSUME blame \cap {"strike", "del"} = {},
                         NEW n \in 1..Len(scopes), NEW v \in Deletes(n)
                  PROVE  WillBeSet(n, v)'
      BY <2>2 DEF EnvInv, Deletes
    <3>1. v \in Vars
      BY DeletesVars
    <3>2. value'[v] = value[v]
      BY <1>1, <1>7, <2>2, <3>1
    <3>. QED
      BY <3>2 DEF EnvInv, WillBeSet, Saves
  <2>. QED
    BY <1>1, <2>1, <2>2
<1>10. ColorInv'
  BY <1>1 DEF ColorInv, Gives, About, Sets, Plain
<1>11. Owned' = Owned
  BY DEF Owned
<1>12. dirs' \cap Temps \subseteq Owned' \cup leaked'
  BY <1>1, <1>11 DEF FailuresHaveCause
<1>13. leaked' # {} => blame' # {}
  BY <1>1
<1>14. value'["color"] # Plain => scopes' # <<>> \/ "strike" \in blame'
  BY <1>1 DEF FailuresHaveCause
<1>15. "cwd" \in failed' => blame' \cap {"strike", "remove", "chdir"} # {}
  BY <1>1
<1>16. failed' \cap Vars # {} => blame' \cap {"strike", "del"} # {}
  BY <1>1, <1>7 DEF FailuresHaveCause
<1>17. /\ "stdout" \in failed' => blame' \cap {"strike", "stream"} # {}
       /\ failed' \cap {"log", "path"} # {} => "strike" \in blame'
  BY <1>1 DEF FailuresHaveCause
<1>18. upset' \subseteq failed' /\ blame' # {}
  BY <1>1 DEF FailuresHaveCause, Left
<1>19. FailuresHaveCause'
  BY <1>12, <1>13, <1>14, <1>15, <1>16, <1>17, <1>18 DEF FailuresHaveCause
<1>. QED
  BY <1>2, <1>6, <1>8, <1>9, <1>10, <1>19

LEMMA HalfEnterImplements ==
  ASSUME IInv, NEW s, NEW enter, NotEntered(s, enter)
  PROVE  Abstract!NotEntered
<1>. DEFINE own == DOMAIN s.saved
            given == [k \in own |-> Shown[k]]
<1>1. /\ scopes' = scopes /\ failures' = failures + 1
      /\ upset' = upset \cup {k \in own : Shown'[k] # s.saved[k]}
      /\ \A k \in Restorable \ own : Shown'[k] = Shown[k]
  BY AfterHalfEnter DEF NotEntered, Fails, Left
<1>2. /\ \A k \in own : s.saved[k] = Shown[k]
      /\ own \in Kinds
  BY DEF NotEntered, Enters, EnterOK, FailOK, OneKind, Kinds
<1>3. DOMAIN Shown = Restorable /\ DOMAIN given = own /\ \A k \in own : given[k] = Shown[k]
  BY DEF Shown
<1>. HIDE DEF given
<1>4. upset' = upset \cup {k \in own : Shown'[k] # given[k]}
  BY <1>1, <1>2, <1>3
<1>5. Abstract!Failed(given)
  BY <1>1, <1>3, <1>4 DEF Abstract!Failed, Abstract!Only
<1>. QED
  BY <1>1, <1>2, <1>5 DEF Abstract!NotEntered, given

\* A stream is not opened: nothing has changed when __enter__ raises.
LEMMA StreamKeeps ==
  ASSUME IInv, output_redirected_stream
  PROVE  IInv'
<1>. USE DEF IInv
<1>1. /\ value' = value /\ dirs' = dirs /\ scopes' = scopes /\ upset' = upset
      /\ changes' = changes /\ strikes' = strikes
      /\ blocks < MaxBlocks /\ blocks' = blocks + 1
      /\ failures' = failures + 1 /\ failed' = failed \cup {"stdout"}
      /\ leaked' = leaked \cup ({None} \cap dirs') /\ blame' = blame \cup {"stream"}
  BY DEF output_redirected_stream, Fails, Scope
<1>2. ScopesInv /\ OwnTemps /\ CountsOK /\ WorldOK(World)
  BY TypeParts, WorldTypes
<1>3. leaked' = leaked
  BY <1>1, <1>2, ScopesAssumption DEF WorldOK, World, None
<1>4. ScopesInv'
  BY <1>1, <1>2, ScopesStay
<1>5. OwnTemps' /\ WorldOK(World)'
  BY <1>1, <1>2 DEF OwnTemps, WorldOK, World
<1>6. "stdout" \in Restorable /\ "stdout" \notin Vars
  BY ScopesAssumption, SettingNames DEF Others
<1>7. CountsOK'
  BY <1>1, <1>2, <1>3, <1>6, ScopesAssumption DEF CountsOK
<1>8. TypeOK'
  BY <1>4, <1>5, <1>7, TypesOf, PTL
<1>9. CwdInv'
  BY <1>1 DEF CwdInv, OwnDir, Saves
<1>10. EnvInv'
  BY <1>1 DEF EnvInv, WillBeSet, Saves, Deletes
<1>11. ColorInv'
  BY <1>1 DEF ColorInv, Gives, About, Sets, Plain
<1>12. FailuresHaveCause'
  BY <1>1, <1>3, <1>6 DEF FailuresHaveCause, Owned
<1>. QED
  BY <1>4, <1>8, <1>9, <1>10, <1>11, <1>12

LEMMA StreamImplements ==
  ASSUME output_redirected_stream
  PROVE  Abstract!NotEntered
<1>. DEFINE given == [k \in {"stdout"} |-> Shown[k]]
<1>1. /\ scopes' = scopes /\ failures' = failures + 1 /\ upset' = upset
      /\ value' = value
  BY DEF output_redirected_stream, Fails
<1>2. Shown' = Shown
  BY <1>1 DEF Shown, Log
<1>3. DOMAIN given = {"stdout"} /\ given["stdout"] = Shown["stdout"]
  OBVIOUS
<1>. HIDE DEF given
<1>4. upset' = upset \cup {k \in DOMAIN given : Shown'[k] # given[k]}
  BY <1>1, <1>2, <1>3
<1>5. Abstract!Failed(given)
  BY <1>1, <1>2, <1>4 DEF Abstract!Failed, Abstract!Only
<1>. QED
  BY <1>1, <1>5 DEF Abstract!NotEntered, Kinds, given

-----------------------------------------------------------------------------
(* A block ends                                                            *)

Inmost == scopes[Len(scopes)]
Popped == scopes # <<>> /\ scopes' = Front(scopes)

LEMMA Pop ==
  ASSUME ScopesInv, Popped
  PROVE  /\ Len(scopes) \in Nat \ {0} /\ Len(scopes) \in 1..Len(scopes)
         /\ Last(scopes) = Inmost /\ ExitOK(Inmost) /\ FailOK(Inmost)
         /\ Listed(scopes') /\ Len(scopes') = Len(scopes) - 1
         /\ \A n \in 1..Len(scopes) - 1 : n \in 1..Len(scopes) /\ scopes'[n] = scopes[n]
         /\ \A n \in 1..Len(scopes) : n = Len(scopes) \/ n \in 1..Len(scopes) - 1
         /\ Len(scopes) \notin 1..Len(scopes) - 1
<1>1. /\ Listed(scopes') /\ Len(scopes) \in Nat \ {0}
      /\ Len(scopes') = Len(scopes) - 1
      /\ \A n \in 1..Len(scopes) - 1 : scopes'[n] = scopes[n]
      /\ Last(scopes) = scopes[Len(scopes)]
  BY FrontListed DEF ScopesInv, Popped
<1>2. /\ Len(scopes) \in 1..Len(scopes)
      /\ \A n \in 1..Len(scopes) - 1 : n \in 1..Len(scopes)
      /\ \A n \in 1..Len(scopes) : n = Len(scopes) \/ n \in 1..Len(scopes) - 1
      /\ Len(scopes) \notin 1..Len(scopes) - 1
  BY <1>1
<1>. QED
  BY <1>1, <1>2 DEF ScopesInv, Inmost

\* However far __exit__ comes.
LEMMA ExitReach ==
  ASSUME IInv, Popped, NEW n \in 0..Len(Inmost.exit), Reach(Inmost.exit, n)
  PROVE  /\ WorldOK(World)'
         /\ \A k \in Restorable \ DOMAIN Inmost.saved : Shown'[k] = Shown[k]
         /\ \A k \in Settings :
              (\A m \in 1..n : ~About(Inmost.exit[m], k)) => value'[k] = value[k]
         /\ \A d : d # Inmost.temp => (d \in dirs' <=> d \in dirs)
<1>. DEFINE steps == Inmost.exit
<1>1. WorldOK(World) /\ ExitOK(Inmost) /\ FailOK(Inmost)
  BY WorldTypes, Pop DEF IInv
<1>2. /\ StepsOK(steps) /\ DOMAIN Inmost.saved \in SUBSET Restorable
      /\ Within(steps, DOMAIN Inmost.saved)
  BY <1>1 DEF ExitOK
<1>3. /\ WorldOK(World)'
      /\ \A k \in Settings : (\A m \in 1..n : ~About(steps[m], k)) => value'[k] = value[k]
      /\ \A d : (\A m \in 1..n : Sets(steps[m]) \/ steps[m].to # d) =>
                  (d \in dirs' <=> d \in dirs)
  BY <1>1, <1>2, Reached
<1>4. \A k \in Restorable \ DOMAIN Inmost.saved : Shown'[k] = Shown[k]
  BY <1>1, <1>2, OthersKept
<1>5. \A m \in 1..n : m \in 1..Len(steps)
  BY <1>2 DEF StepsOK, Listed
<1>6. \A m \in 1..n : Sets(steps[m]) \/ steps[m].to = Inmost.temp
  BY <1>1, <1>5 DEF FailOK, Sets
<1>. QED
  BY <1>3, <1>4, <1>6

\* What a setting is after a block that has restored it, if it was one of its own.
GivenBack(k) == value'[k] = IF k \in DOMAIN Inmost.saved THEN Inmost.saved[k] ELSE value[k]

LEMMA AfterLeave ==
  ASSUME IInv, Popped, Execute(Inmost.exit)
  PROVE  /\ WorldOK(World)'
         /\ \A k \in Restorable \ DOMAIN Inmost.saved : Shown'[k] = Shown[k]
         /\ \A k \in DOMAIN Inmost.saved : Shown'[k] = Inmost.saved[k]
         /\ \A k \in Restorable \ {"log"} : GivenBack(k)
         /\ \A d : d # Inmost.temp => (d \in dirs' <=> d \in dirs)
         /\ Inmost.temp \in Temps => Inmost.temp \notin dirs'
         /\ \/ value'["color"] = Plain
            \/ /\ value'["color"] = value["color"]
               /\ ~Gives(Inmost.exit, "color", Plain)
<1>. DEFINE steps == Inmost.exit
            N == Len(steps)
<1>1. WorldOK(World) /\ ExitOK(Inmost) /\ FailOK(Inmost)
  BY WorldTypes, Pop DEF IInv
<1>2. StepsOK(steps) /\ N \in Nat /\ N \in 0..N /\ Reach(steps, N)
  BY <1>1 DEF ExitOK, StepsOK, Listed, Execute
<1>3. /\ WorldOK(World)'
      /\ \A k \in Restorable \ DOMAIN Inmost.saved : Shown'[k] = Shown[k]
      /\ \A k \in Settings : (\A m \in 1..N : ~About(steps[m], k)) => value'[k] = value[k]
      /\ \A d : d # Inmost.temp => (d \in dirs' <=> d \in dirs)
  BY <1>2, ExitReach
<1>4. \A k \in DOMAIN Inmost.saved : Shown'[k] = Inmost.saved[k]
  BY <1>1, Restores
<1>5. \A k \in Restorable \ {"log"} : GivenBack(k)
  BY <1>3, <1>4, ShownIs DEF GivenBack
<1>6. ASSUME Inmost.temp \in Temps
      PROVE  Inmost.temp \notin dirs'
  <2>1. N > 0 /\ steps[N] = RemovePath(Inmost.temp)
    BY <1>1, <1>6, ScopesAssumption DEF FailOK, None
  <2>2. N - 1 \in 0..N - 1 /\ N - 1 \in 0..N /\ (N - 1) + 1 = N
    BY <1>2, <2>1
  <2>3. WorldOK(Worlds(steps)[N - 1])
    BY <1>1, <1>2, <2>2, WorldsOK
  <2>4. Worlds(steps)[N] = Do(Worlds(steps)[N - 1], steps[N])
    BY <1>1, <1>2, <2>2, NextWorld
  <2>5. dirs' = Worlds(steps)[N].dirs
    BY <1>2 DEF Reach
  <2>. DEFINE w == Worlds(steps)[N - 1]
              v == Worlds(steps)[N]
  <2>6. w = [value |-> w.value, dirs |-> w.dirs]
    BY <2>3 DEF WorldOK
  <2>7. v = [w EXCEPT !.dirs = @ \ {Inmost.temp}]
    BY <2>1, <2>4 DEF Do, RemovePath
  <2>. HIDE DEF w, v
  <2>8. v.dirs = w.dirs \ {Inmost.temp}
    BY <2>6, <2>7
  <2>. QED
    BY <2>5, <2>8 DEF v
<1>7. \/ value'["color"] = Plain
      \/ /\ value'["color"] = value["color"]
         /\ ~Gives(steps, "color", Plain)
  <2>1. "color" \in Settings
    BY SettingNames DEF Others
  <2>2. CASE Gives(steps, "color", Plain)
    BY <1>1, <1>2, <2>1, <2>2, Given DEF Reach
  <2>3. CASE ~Gives(steps, "color", Plain)
    BY <1>1, <1>3, <2>1, <2>3 DEF FailOK, Gives
  <2>. QED
    BY <2>2, <2>3
<1>. QED
  BY <1>3, <1>4, <1>5, <1>6, <1>7

\* Without a strike, __exit__ fails where a directory is gone, or a variable.
LEMMA AfterHalfLeave ==
  ASSUME IInv, Popped, Interrupted(Inmost.exit)
  PROVE  /\ WorldOK(World)'
         /\ \A k \in Restorable \ DOMAIN Inmost.saved : Shown'[k] = Shown[k]
         /\ \A d : d # Inmost.temp => (d \in dirs' <=> d \in dirs)
         /\ \/ strikes' \in 0..MaxStrikes /\ blame' = blame \cup {"strike"}
            \/ /\ strikes' = strikes /\ blame' = blame
               /\ value'["color"] = value["color"]
               /\ ~Gives(Inmost.exit, "color", Plain)
               /\ \/ /\ DOMAIN Inmost.saved = {"cwd"}
                     /\ blame \cap {"strike", "remove", "chdir"} # {}
                  \/ /\ DOMAIN Inmost.saved \subseteq Vars
                     /\ blame \cap {"strike", "del"} # {}
<1>. DEFINE steps == Inmost.exit
            N == Len(steps)
<1>1. WorldOK(World) /\ ScopesInv /\ ExitOK(Inmost) /\ FailOK(Inmost)
  BY WorldTypes, Pop DEF IInv
<1>2. StepsOK(steps) /\ N \in Nat /\ Within(steps, DOMAIN Inmost.saved)
  BY <1>1 DEF ExitOK, StepsOK, Listed
<1>3. PICK n \in 0..N :
        /\ Reach(steps, n)
        /\ \/ /\ strikes < MaxStrikes
              /\ strikes' = strikes + 1
              /\ blame' = blame \cup {"strike"}
           \/ /\ n < N /\ ~Can(Worlds(steps)[n], steps[n + 1])
              /\ UNCHANGED <<strikes, blame>>
  BY DEF Interrupted
<1>4. /\ WorldOK(World)'
      /\ \A k \in Restorable \ DOMAIN Inmost.saved : Shown'[k] = Shown[k]
      /\ \A k \in Settings : (\A m \in 1..n : ~About(steps[m], k)) => value'[k] = value[k]
      /\ \A d : d # Inmost.temp => (d \in dirs' <=> d \in dirs)
  BY <1>3, ExitReach
<1>5. CASE strikes < MaxStrikes /\ strikes' = strikes + 1 /\ blame' = blame \cup {"strike"}
  <2>1. strikes \in 0..MaxStrikes
    BY DEF IInv, TypeOK
  <2>2. strikes' \in 0..MaxStrikes
    BY <1>5, <2>1, ScopesAssumption
  <2>. QED
    BY <1>4, <1>5, <2>2
<1>6. CASE /\ n < N /\ ~Can(Worlds(steps)[n], steps[n + 1])
           /\ UNCHANGED <<strikes, blame>>
  <2>. DEFINE step == steps[n + 1]
              w == Worlds(steps)[n]
  <2>1. /\ n \in 0..N /\ n \in Nat /\ n + 1 \in 1..N /\ (n + 1) - 1 = n
        /\ \A m \in 1..n : m \in 1..N
        /\ N = 1 => n = 0
    BY <1>2, <1>6
  <2>2. StepOK(step) /\ step.do # "mkdir"
    BY <1>1, <1>2, <2>1 DEF FailOK, StepsOK
  <2>3. step.do \in {"chdir", "del"}
    BY <1>6, <2>2 DEF Can
  <2>4. ~About(step, "color") /\ Sets(step) /\ step.name \in DOMAIN Inmost.saved
    BY <1>2, <2>1, <2>2, <2>3, ScopesAssumption DEF About, Sets, StepOK, Within, Touched, Others
  <2>5. \A m \in 1..N : ~About(steps[m], "color")
    <3>. SUFFICES ASSUME NEW m \in 1..N, About(steps[m], "color")
                  PROVE  FALSE
      OBVIOUS
    <3>1. N = 1
      BY <1>1 DEF FailOK
    <3>2. m = n + 1
      BY <2>1, <3>1
    <3>. QED
      BY <2>4, <3>2
  <2>6. ~Gives(steps, "color", Plain)
    BY <2>5 DEF Gives
  <2>7. value'["color"] = value["color"]
    BY <1>4, <2>1, <2>5, SettingNames DEF Others
  <2>8. CASE step.do = "chdir"
    <3>1. n = 0 /\ step.name = "cwd"
      BY <1>1, <2>1, <2>2, <2>8 DEF FailOK, StepOK
    <3>2. DOMAIN Inmost.saved = {"cwd"}
      BY <1>1, <2>4, <3>1, ScopesAssumption DEF FailOK, OneKind, Others
    <3>3. w = World
      BY <1>2, <3>1, WorldsExist
    <3>4. step.to = Inmost.saved["cwd"]
      BY <1>1, <2>1, <2>4, <3>1, <3>2 DEF ExitOK, Gives, About
    <3>5. ~({value["cwd"], Inmost.saved["cwd"]} \subseteq dirs)
      BY <1>6, <2>8, <3>3, <3>4 DEF Can, World
    <3>6. Len(scopes) \in 1..Len(scopes)
      BY <1>1, Pop
    <3>7. blame \cap {"strike", "remove", "chdir"} # {}
      BY <3>2, <3>5, <3>6 DEF IInv, CwdInv, OwnDir, Saves, Inmost
    <3>. QED
      BY <1>4, <1>6, <2>6, <2>7, <3>2, <3>7
  <2>9. CASE step.do = "del"
    <3>1. step.name \in Vars /\ step.name \in Settings
      BY <2>2, <2>4, <2>9 DEF StepOK
    <3>2. DOMAIN Inmost.saved \subseteq Vars
      BY <1>1, <2>4, <3>1, ScopesAssumption DEF FailOK, OneKind, Others
    <3>3. \A m \in 1..n : ~About(steps[m], step.name)
      BY <1>1, <2>1, <2>9 DEF FailOK
    <3>4. w.value[step.name] = value[step.name]
      BY <1>1, <1>2, <2>1, <3>1, <3>3, Untouched
    <3>5. value[step.name] = Absent
      BY <1>6, <2>9, <3>4 DEF Can
    <3>6. Len(scopes) \in 1..Len(scopes) /\ Len(scopes) \in Nat
      BY <1>1, Pop
    <3>7. step.name \in Deletes(Len(scopes))
      BY <2>1, <2>9 DEF Deletes, Inmost
    <3>8. ~WillBeSet(Len(scopes), step.name)
      BY <3>5, <3>6 DEF WillBeSet
    <3>9. blame \cap {"strike", "del"} # {}
      BY <3>6, <3>7, <3>8 DEF IInv, EnvInv
    <3>. QED
      BY <1>4, <1>6, <2>6, <2>7, <3>2, <3>9
  <2>. QED
    BY <2>3, <2>8, <2>9
<1>. QED
  BY <1>3, <1>5, <1>6

\* How __exit__ ends: with its settings restored, by a strike, or for want of a
\* directory or of a variable.
Done ==
  /\ UNCHANGED <<upset, failures, failed, leaked, blame, strikes>>
  /\ \A k \in DOMAIN Inmost.saved : Shown'[k] = Inmost.saved[k]
  /\ \A k \in Restorable \ {"log"} : GivenBack(k)
  /\ Inmost.temp \in Temps => Inmost.temp \notin dirs'
  /\ \/ value'["color"] = Plain
     \/ value'["color"] = value["color"] /\ ~Gives(Inmost.exit, "color", Plain)

Half == Fails(Inmost) /\ Left(Inmost)

Struck == Half /\ strikes' \in 0..MaxStrikes /\ blame' = blame \cup {"strike"}

Lost ==
  /\ Half /\ strikes' = strikes /\ blame' = blame
  /\ value'["color"] = value["color"] /\ ~Gives(Inmost.exit, "color", Plain)
  /\ \/ /\ DOMAIN Inmost.saved = {"cwd"}
        /\ blame \cap {"strike", "remove", "chdir"} # {}
     \/ /\ DOMAIN Inmost.saved \subseteq Vars
        /\ blame \cap {"strike", "del"} # {}

LEMMA AfterExit ==
  ASSUME IInv, Exit
  PROVE  /\ Popped /\ UNCHANGED <<blocks, changes>>
         /\ WorldOK(World)'
         /\ \A k \in Restorable \ DOMAIN Inmost.saved : Shown'[k] = Shown[k]
         /\ \A d : d # Inmost.temp => (d \in dirs' <=> d \in dirs)
         /\ Done \/ Struck \/ Lost
<1>1. Popped /\ UNCHANGED <<blocks, changes>>
  BY DEF Exit, Popped
<1>2. Last(scopes) = Inmost
  BY <1>1, Pop DEF IInv
<1>3. CASE Execute(Inmost.exit) /\ UNCHANGED <<failures, failed, leaked, blame, strikes>>
  <2>1. \A k \in DOMAIN Inmost.saved : Shown'[k] = Inmost.saved[k]
    BY <1>1, <1>3, AfterLeave
  <2>2. Left(Inmost)
    BY <1>2 DEF Exit
  <2>3. upset' = upset
    BY <2>1, <2>2 DEF Left
  <2>. QED
    BY <1>1, <1>3, <2>3, AfterLeave DEF Done
<1>4. CASE Interrupted(Inmost.exit) /\ Half
  BY <1>1, <1>4, AfterHalfLeave DEF Struck, Lost
<1>. QED
  BY <1>2, <1>3, <1>4 DEF Exit, Half

LEMMA ExitKeepsTypes ==
  ASSUME IInv, Exit
  PROVE  TypeOK' /\ ScopesInv'
<1>1. /\ Popped /\ UNCHANGED <<blocks, changes>> /\ WorldOK(World)'
      /\ Done \/ Struck \/ Lost
  BY AfterExit
<1>2. ScopesInv /\ OwnTemps /\ CountsOK
  BY TypeParts DEF IInv
<1>3. /\ Listed(scopes') /\ Len(scopes') = Len(scopes) - 1 /\ ExitOK(Inmost)
      /\ \A n \in 1..Len(scopes) - 1 : n \in 1..Len(scopes) /\ scopes'[n] = scopes[n]
  BY <1>1, <1>2, Pop
<1>4. ScopesInv'
  <2>1. \A n \in 1..Len(scopes') : ExitOK(scopes'[n]) /\ FailOK(scopes'[n])
    BY <1>2, <1>3 DEF ScopesInv
  <2>. QED
    BY <1>3, <2>1 DEF ScopesInv, ExitOK, FailOK, LogOK, Gives, StepsOK, StepOK, About,
       Within, Sets, OneKind, Touched, Listed
<1>5. OwnTemps'
  BY <1>2, <1>3 DEF OwnTemps
<1>6. CountsOK'
  <2>1. CASE Done
    BY <1>1, <1>2, <2>1 DEF CountsOK, Done
  <2>2. CASE Half /\ strikes' \in 0..MaxStrikes
    <3>1. leaked' \subseteq Temps
      BY <1>1, <1>2, <1>3, <2>2, ScopesAssumption
         DEF CountsOK, WorldOK, World, None, ExitOK, Half, Fails
    <3>2. failed' \subseteq Restorable /\ failures' \in Nat
      BY <1>2, <1>3, <2>2 DEF CountsOK, ExitOK, Half, Fails
    <3>. QED
      BY <1>1, <1>2, <2>2, <3>1, <3>2 DEF CountsOK
  <2>. QED
    BY <1>1, <1>2, <2>1, <2>2 DEF Struck, Lost, CountsOK
<1>7. TypeOK'
  BY <1>1, <1>4, <1>5, <1>6, TypesOf, PTL
<1>. QED
  BY <1>4, <1>7

LEMMA OwnDirKept ==
  ASSUME IInv, Popped, \A d : d # Inmost.temp => (d \in dirs' <=> d \in dirs),
         NEW d, NEW n \in 0..Len(scopes) - 1, OwnDir(d, n), d \in Dirs \cup Temps
  PROVE  d \in dirs' /\ (d \in Temps => \E m \in 1..n : scopes'[m].temp = d /\ Saves(m, "cwd")')
<1>1. /\ ExitOK(Inmost) /\ Len(scopes) \in Nat \ {0} /\ Len(scopes) \in 1..Len(scopes)
      /\ Len(scopes) \notin 1..Len(scopes) - 1
      /\ \A m \in 1..Len(scopes) - 1 : m \in 1..Len(scopes) /\ scopes'[m] = scopes[m]
  BY Pop DEF IInv
<1>2. \A m \in 1..n : m \in 1..Len(scopes) - 1
  BY <1>1
<1>3. OwnTemps
  BY TypeParts DEF IInv
<1>4. d # Inmost.temp
  <2>. SUFFICES ASSUME d = Inmost.temp
                PROVE  FALSE
    OBVIOUS
  <2>1. d \in Temps /\ d # None
    BY <1>1, ScopesAssumption DEF ExitOK, None
  <2>2. PICK m \in 1..n : scopes[m].temp = d
    BY <2>1 DEF OwnDir
  <2>3. m \in 1..Len(scopes) /\ m # Len(scopes)
    BY <1>1, <1>2
  <2>. QED
    BY <1>1, <1>3, <2>1, <2>2, <2>3 DEF OwnTemps, Inmost
<1>. QED
  BY <1>1, <1>2, <1>4 DEF OwnDir, Saves

LEMMA ExitKeepsCwd ==
  ASSUME IInv, Exit
  PROVE  CwdInv'
<1>. SUFFICES ASSUME blame' \cap {"strike", "remove", "chdir"} = {}
              PROVE  /\ OwnDir(value["cwd"], Len(scopes))'
                     /\ \A n \in 1..Len(scopes') :
                          Saves(n, "cwd")' => OwnDir(scopes[n].saved["cwd"], n - 1)'
  BY DEF CwdInv
<1>1. Popped
  BY AfterExit
<1>2. /\ Done \/ Struck \/ Lost
      /\ \A k \in Restorable \ DOMAIN Inmost.saved : Shown'[k] = Shown[k]
      /\ \A d : d # Inmost.temp => (d \in dirs' <=> d \in dirs)
      /\ WorldOK(World)'
  BY AfterExit
<1>3. ScopesInv /\ WorldOK(World)
  BY WorldTypes DEF IInv
<1>4. /\ Len(scopes) \in Nat \ {0} /\ Len(scopes) \in 1..Len(scopes)
      /\ Len(scopes) \notin 1..Len(scopes) - 1 /\ Len(scopes') = Len(scopes) - 1
      /\ \A m \in 1..Len(scopes) - 1 : m \in 1..Len(scopes) /\ scopes'[m] = scopes[m]
      /\ \A m \in 1..Len(scopes) : m = Len(scopes) \/ m \in 1..Len(scopes) - 1
  BY <1>1, <1>3, Pop
<1>5. /\ blame \cap {"strike", "remove", "chdir"} = {}
      /\ GivenBack("cwd")
  <2>1. CASE Done
    BY <2>1, SettingNames DEF Done
  <2>2. CASE Lost
    BY <1>2, <2>2, SettingNames, ScopesAssumption, ShownIs DEF Lost, GivenBack, Others
  <2>. QED
    BY <1>2, <2>1, <2>2 DEF Struck
<1>6. /\ OwnDir(value["cwd"], Len(scopes))
      /\ \A n \in 1..Len(scopes) : Saves(n, "cwd") => OwnDir(scopes[n].saved["cwd"], n - 1)
  BY <1>5 DEF IInv, CwdInv
<1>7. dirs \subseteq Dirs \cup Temps
  BY <1>3 DEF WorldOK, World
<1>8. ASSUME NEW d, NEW n \in 0..Len(scopes) - 1, OwnDir(d, n)
      PROVE  d \in dirs' /\ (d \in Temps => \E m \in 1..n : scopes'[m].temp = d /\ Saves(m, "cwd")')
  <2>1. d \in Dirs \cup Temps
    BY <1>7, <1>8 DEF OwnDir
  <2>2. \A x : x # Inmost.temp => (x \in dirs' <=> x \in dirs)
    BY <1>2
  <2>. QED
    BY <1>1, <1>8, <2>1, <2>2, OwnDirKept
<1>9. OwnDir(value'["cwd"], Len(scopes) - 1)
  <2>1. CASE Saves(Len(scopes), "cwd")
    BY <1>4, <1>5, <1>6, <2>1 DEF GivenBack, Saves, Inmost
  <2>2. CASE ~Saves(Len(scopes), "cwd")
    <3>1. value'["cwd"] = value["cwd"]
      BY <1>5, <2>2 DEF GivenBack, Saves, Inmost
    <3>. QED
      BY <1>4, <1>6, <2>2, <3>1 DEF OwnDir
  <2>. QED
    BY <2>1, <2>2
<1>10. OwnDir(value["cwd"], Len(scopes))'
  <2>1. Len(scopes) - 1 \in 0..Len(scopes) - 1
    BY <1>4
  <2>. QED
    BY <1>4, <1>8, <1>9, <2>1 DEF OwnDir
<1>11. ASSUME NEW n \in 1..Len(scopes'), Saves(n, "cwd")'
       PROVE  OwnDir(scopes[n].saved["cwd"], n - 1)'
  <2>1. n \in 1..Len(scopes) - 1 /\ n - 1 \in 0..Len(scopes) - 1
    BY <1>4
  <2>2. scopes'[n] = scopes[n] /\ n \in 1..Len(scopes)
    BY <1>4, <2>1
  <2>3. OwnDir(scopes[n].saved["cwd"], n - 1)
    BY <1>6, <1>11, <2>2 DEF Saves
  <2>. QED
    BY <1>8, <2>1, <2>2, <2>3 DEF OwnDir
<1>. QED
  BY <1>10, <1>11

LEMMA ExitKeepsEnv ==
  ASSUME IInv, Exit
  PROVE  EnvInv'
<1>. SUFFICES ASSUME blame' \cap {"strike", "del"} = {},
                     NEW n \in 1..Len(scopes'), NEW v \in Deletes(n)'
              PROVE  WillBeSet(n, v)'
  BY DEF EnvInv
<1>1. Popped
  BY AfterExit
<1>2. /\ Done \/ Struck \/ Lost
      /\ \A k \in Restorable \ DOMAIN Inmost.saved : Shown'[k] = Shown[k]
  BY AfterExit
<1>3. ScopesInv
  BY DEF IInv
<1>4. /\ Len(scopes) \in Nat \ {0} /\ Len(scopes') = Len(scopes) - 1
      /\ \A m \in 1..Len(scopes) - 1 : m \in 1..Len(scopes) /\ scopes'[m] = scopes[m]
  BY <1>1, <1>3, Pop
<1>. DEFINE N == Len(scopes)
<1>5. N \in Nat \ {0} /\ n \in 1..N - 1
  BY <1>4
<1>. HIDE DEF N
<1>6. /\ n \in 1..N
      /\ \A m \in n + 1..N : m = N \/ m \in n + 1..N - 1
      /\ \A m \in n + 1..N - 1 : m \in n + 1..N /\ m \in 1..N - 1
      /\ \A m \in n + 1..N - 1 : \A k \in n + 1..m - 1 : k \in 1..N - 1
      /\ N \in n + 1..N
  BY <1>5
<1>. USE DEF N
<1>7. v \in Deletes(n)
  BY <1>4, <1>5 DEF Deletes
<1>8. v \in Vars
  BY <1>3, <1>6, <1>7, DeletesVars
<1>9. blame \cap {"strike", "del"} = {} /\ GivenBack(v)
  <2>1. v \in Restorable \ {"log"} /\ v # "cwd"
    BY <1>8, SettingNames, ScopesAssumption DEF Others
  <2>2. CASE Done
    BY <2>1, <2>2 DEF Done
  <2>3. CASE Lost
    BY <1>2, <2>1, <2>3, ShownIs DEF Lost, GivenBack
  <2>. QED
    BY <1>2, <2>2, <2>3 DEF Struck
<1>10. WillBeSet(n, v)
  BY <1>6, <1>7, <1>9 DEF IInv, EnvInv
<1>11. CASE value[v] # Absent /\ \A m \in n + 1..N : ~Saves(m, v)
  <2>1. value'[v] = value[v]
    BY <1>6, <1>9, <1>11 DEF GivenBack, Saves, Inmost
  <2>. QED
    BY <1>4, <1>6, <1>5, <1>11, <2>1 DEF WillBeSet, Saves
<1>12. CASE \E m \in n + 1..N : /\ Saves(m, v) /\ scopes[m].saved[v] # Absent
                                /\ \A k \in n + 1..m - 1 : ~Saves(k, v)
  <2>1. PICK m \in n + 1..N : /\ Saves(m, v) /\ scopes[m].saved[v] # Absent
                              /\ \A k \in n + 1..m - 1 : ~Saves(k, v)
    BY <1>12
  <2>2. CASE m = N
    <3>1. value'[v] # Absent
      BY <1>9, <2>1, <2>2 DEF GivenBack, Saves, Inmost
    <3>2. \A k \in n + 1..N - 1 : ~Saves(k, v) /\ scopes'[k] = scopes[k]
      BY <1>4, <1>6, <1>5, <2>1, <2>2
    <3>. QED
      BY <1>4, <3>1, <3>2 DEF WillBeSet, Saves
  <2>3. CASE m \in n + 1..N - 1
    BY <1>4, <1>6, <1>5, <2>1, <2>3 DEF WillBeSet, Saves
  <2>. QED
    BY <1>6, <2>1, <2>2, <2>3
<1>. QED
  BY <1>10, <1>11, <1>12 DEF WillBeSet

LEMMA ExitKeepsColor ==
  ASSUME IInv, Exit
  PROVE  ColorInv'
<1>1. Popped /\ ScopesInv
  BY AfterExit DEF IInv
<1>2. Done \/ Struck \/ Lost
  BY AfterExit
<1>3. /\ Len(scopes') = Len(scopes) - 1
      /\ \A m \in 1..Len(scopes) - 1 : m \in 1..Len(scopes) /\ scopes'[m] = scopes[m]
      /\ \A m \in 1..Len(scopes) : m = Len(scopes) \/ m \in 1..Len(scopes) - 1
  BY <1>1, Pop
<1>4. CASE value'["color"] = Plain \/ Struck
  BY <1>4 DEF ColorInv, Struck
<1>5. CASE /\ value'["color"] = value["color"] /\ blame' = blame
           /\ ~Gives(Inmost.exit, "color", Plain)
  <2>. SUFFICES ASSUME value'["color"] # Plain, "strike" \notin blame'
                PROVE  \E n \in 1..Len(scopes') : Gives(scopes'[n].exit, "color", Plain)
    BY DEF ColorInv, Gives, About, Sets, Plain
  <2>1. PICK n \in 1..Len(scopes) : Gives(scopes[n].exit, "color", Plain)
    BY <1>5 DEF IInv, ColorInv
  <2>2. n \in 1..Len(scopes) - 1
    BY <1>3, <1>5, <2>1 DEF Inmost
  <2>. QED
    BY <1>3, <2>1, <2>2
<1>. QED
  BY <1>2, <1>4, <1>5 DEF Done, Lost

LEMMA ExitHasCause ==
  ASSUME IInv, Exit
  PROVE  FailuresHaveCause'
<1>1. Popped /\ ScopesInv
  BY AfterExit DEF IInv
<1>2. /\ Done \/ Struck \/ Lost
      /\ \A d : d # Inmost.temp => (d \in dirs' <=> d \in dirs)
  BY AfterExit
<1>3. /\ Listed(scopes') /\ Len(scopes') = Len(scopes) - 1 /\ Len(scopes) \in Nat
      /\ \A m \in 1..Len(scopes) - 1 : m \in 1..Len(scopes) /\ scopes'[m] = scopes[m]
      /\ \A m \in 1..Len(scopes) : m = Len(scopes) \/ m \in 1..Len(scopes) - 1
  BY <1>1, Pop
<1>4. DOMAIN scopes' = 1..Len(scopes')
  <2>1. scopes' = [n \in 1..Len(scopes') |-> scopes'[n]]
    BY <1>3 DEF Listed
  <2>. QED
    BY <2>1, Zenon
<1>5. Owned' = {scopes'[n].temp : n \in 1..Len(scopes')} \ {None}
  BY <1>4 DEF Owned
<1>6. Owned \ {Inmost.temp} \subseteq Owned'
  BY <1>1, <1>3, <1>5, Owner DEF Inmost
<1>7. "cwd" \notin Vars /\ "cwd" \in Restorable
  BY ScopesAssumption, SettingNames DEF Others
<1>8. FailuresHaveCause
  BY DEF IInv
<1>9. dirs' \cap Temps \subseteq Owned' \cup leaked'
  BY <1>2, <1>6, <1>8 DEF FailuresHaveCause, Done, Struck, Lost, Half, Fails
<1>10. leaked' # {} => blame' # {}
  BY <1>2, <1>8 DEF FailuresHaveCause, Done, Struck, Lost
<1>11. value'["color"] # Plain => scopes' # <<>> \/ "strike" \in blame'
  <2>. SUFFICES ASSUME value'["color"] # Plain, "strike" \notin blame'
                PROVE  scopes' # <<>>
    OBVIOUS
  <2>1. ColorInv'
    BY ExitKeepsColor
  <2>2. \E n \in 1..Len(scopes') : TRUE
    BY <2>1 DEF ColorInv
  <2>. QED
    BY <2>2
<1>12. "cwd" \in failed' => blame' \cap {"strike", "remove", "chdir"} # {}
  BY <1>2, <1>7, <1>8 DEF FailuresHaveCause, Done, Struck, Lost, Half, Fails
<1>13. failed' \cap Vars # {} => blame' \cap {"strike", "del"} # {}
  BY <1>2, <1>7, <1>8 DEF FailuresHaveCause, Done, Struck, Lost, Half, Fails
<1>14. "stdout" \in failed' => blame' \cap {"strike", "stream"} # {}
  BY <1>2, <1>8, ScopesAssumption
     DEF FailuresHaveCause, Done, Struck, Lost, Half, Fails, Others
<1>15. failed' \cap {"log", "path"} # {} => "strike" \in blame'
  BY <1>2, <1>8, ScopesAssumption
     DEF FailuresHaveCause, Done, Struck, Lost, Half, Fails, Others
<1>16. upset' \subseteq failed' /\ (failures' > 0 => blame' # {})
  BY <1>2, <1>8 DEF FailuresHaveCause, Done, Struck, Lost, Half, Fails, Left
<1>. QED
  BY <1>9, <1>10, <1>11, <1>12, <1>13, <1>14, <1>15, <1>16 DEF FailuresHaveCause

LEMMA ExitImplements ==
  ASSUME IInv, Exit
  PROVE  Abstract!Leave \/ Abstract!NotLeft
<1>1. Popped /\ ScopesInv
  BY AfterExit DEF IInv
<1>2. /\ Done \/ Struck \/ Lost
      /\ \A k \in Restorable \ DOMAIN Inmost.saved : Shown'[k] = Shown[k]
  BY AfterExit
<1>3. /\ Listed(scopes') /\ Len(scopes') = Len(scopes) - 1
      /\ Len(scopes) \in Nat \ {0} /\ Len(scopes) \in 1..Len(scopes)
      /\ \A m \in 1..Len(scopes) - 1 : m \in 1..Len(scopes) /\ scopes'[m] = scopes[m]
  BY <1>1, Pop
<1>. DEFINE stack == [n \in DOMAIN scopes |-> scopes[n].saved]
            next == [n \in DOMAIN scopes' |-> scopes'[n].saved]
            N == Len(scopes)
<1>4. DOMAIN scopes' = 1..N - 1
  <2>1. scopes' = [n \in 1..Len(scopes') |-> scopes'[n]]
    BY <1>3 DEF Listed
  <2>. QED
    BY <1>3, <2>1, Zenon
<1>5. DOMAIN scopes = 1..N
  BY <1>1, ScopesDomain
<1>6. /\ stack = [n \in 1..N |-> stack[n]] /\ \A n \in 1..N : stack[n] = scopes[n].saved
      /\ next = [n \in 1..N - 1 |-> next[n]]
      /\ \A n \in 1..N - 1 : next[n] = scopes'[n].saved
  BY <1>4, <1>5
<1>. HIDE DEF stack, next
<1>7. Listed(stack) /\ Len(stack) = N /\ stack # <<>>
  BY <1>3, <1>6, MadeListed
<1>8. \A n \in 1..N - 1 : next[n] = stack[n]
  BY <1>3, <1>6
<1>9. next = SubSeq(stack, 1, Len(stack) - 1)
  <2>. DEFINE front == Front(stack)
  <2>1. /\ Listed(front) /\ Len(front) = N - 1
        /\ \A n \in 1..N - 1 : front[n] = stack[n]
    BY <1>7, FrontListed
  <2>2. front = SubSeq(stack, 1, Len(stack) - 1)
    BY DEF Front
  <2>. HIDE DEF front
  <2>3. front = [n \in 1..N - 1 |-> front[n]]
    BY <2>1 DEF Listed
  <2>4. front = next
    BY <1>6, <1>8, <2>1, <2>3
  <2>. QED
    BY <2>2, <2>4
<1>10. DOMAIN Shown = Restorable
  BY DEF Shown
<1>11. stack[Len(stack)] = Inmost.saved
  BY <1>3, <1>6, <1>7 DEF Inmost
<1>12. CASE Done
  <2>1. Abstract!Leave
    BY <1>2, <1>7, <1>9, <1>10, <1>11, <1>12
       DEF Abstract!Leave, Abstract!Only, Done, stack, next
  <2>. QED
    BY <2>1
<1>13. CASE Half
  <2>1. /\ failures' = failures + 1
        /\ upset' = upset \cup {k \in DOMAIN Inmost.saved : Shown'[k] # Inmost.saved[k]}
    BY <1>13 DEF Half, Fails, Left
  <2>2. Abstract!Failed(Inmost.saved)
    BY <1>2, <1>10, <2>1 DEF Abstract!Failed, Abstract!Only
  <2>3. Abstract!NotLeft
    BY <1>7, <1>9, <1>11, <2>2 DEF Abstract!NotLeft, stack, next
  <2>. QED
    BY <2>3
<1>. QED
  BY <1>2, <1>12, <1>13 DEF Struck, Lost

-----------------------------------------------------------------------------
(* The body changes a setting                                              *)

LEMMA BodyKeeps ==
  ASSUME IInv, NEW why,
         changes < MaxChanges, changes' = changes + 1, blame' = blame \cup why,
         UNCHANGED <<scopes, upset, failures, failed, leaked, blocks, strikes>>,
         WorldOK(World)', dirs' \subseteq dirs, value'["color"] = value["color"],
         \/ why \cap {"remove", "chdir"} # {}
         \/ dirs' = dirs /\ (value'["cwd"] = value["cwd"] \/ value'["cwd"] \in dirs \ Temps),
         \/ "del" \in why
         \/ \A v \in Vars : value'[v] = value[v] \/ value'[v] # Absent
  PROVE  IInv'
<1>. USE DEF IInv
<1>1. ScopesInv'
  BY ScopesStay
<1>2. OwnTemps /\ CountsOK
  BY TypeParts
<1>3. OwnTemps'
  BY <1>2 DEF OwnTemps
<1>4. CountsOK'
  <2>1. changes' \in 0..MaxChanges
    BY <1>2, ScopesAssumption DEF CountsOK
  <2>. QED
    BY <1>2, <2>1 DEF CountsOK
<1>5. TypeOK'
  BY <1>1, <1>3, <1>4, TypesOf, PTL
<1>6. CwdInv'
  BY DEF CwdInv, OwnDir, Saves
<1>7. EnvInv'
  <2>. SUFFICES ASSUME blame' \cap {"strike", "del"} = {},
                       NEW n \in 1..Len(scopes), NEW v \in Deletes(n)
                PROVE  WillBeSet(n, v)'
    BY DEF EnvInv, Deletes
  <2>1. v \in Vars
    BY DeletesVars
  <2>2. value'[v] = value[v] \/ value'[v] # Absent
    BY <2>1
  <2>. QED
    BY <2>2 DEF EnvInv, WillBeSet, Saves
<1>8. ColorInv'
  BY DEF ColorInv, Gives, About, Sets, Plain
<1>9. FailuresHaveCause'
  <2>1. Owned' = Owned
    BY DEF Owned
  <2>. QED
    BY <2>1 DEF FailuresHaveCause
<1>. QED
  BY <1>1, <1>5, <1>6, <1>7, <1>8, <1>9

\* A change that is one step.
LEMMA OneStep ==
  ASSUME IInv, NEW step, StepOK(step), step.do # "mkdir", ~About(step, "color"), NEW why,
         Body(<<step>>, why)
  PROVE  /\ WorldOK(World)' /\ dirs' \subseteq dirs /\ value'["color"] = value["color"]
         /\ Can(World, step)
         /\ Sets(step) => dirs' = dirs /\ value'[step.name] = step.to
         /\ \A k \in Settings : ~About(step, k) => value'[k] = value[k]
<1>. DEFINE steps == <<step>>
<1>1. Listed(steps) /\ Len(steps) = 1 /\ steps[1] = step
  BY Short
<1>2. StepsOK(steps)
  <2>. HIDE DEF steps
  <2>. QED
    BY <1>1 DEF StepsOK
<1>3. WorldOK(World)
  BY WorldTypes DEF IInv
<1>4. Execute(steps)
  BY DEF Body
<1>. HIDE DEF steps
<1>5. /\ Worlds(steps)[0] = World
      /\ Worlds(steps)[1] = Do(World, step)
      /\ 1 \in 1..Len(steps) /\ 1 - 1 = 0 /\ 1 \in 0..Len(steps)
  BY <1>1, WorldsExist
<1>6. /\ Can(World, step)
      /\ value' = Do(World, step).value /\ dirs' = Do(World, step).dirs
  BY <1>1, <1>4, <1>5 DEF Execute, Reach
<1>7. /\ WorldOK(Do(World, step))
      /\ Sets(step) => /\ Do(World, step).dirs = World.dirs
                       /\ Do(World, step).value[step.name] = step.to
      /\ \A k \in Settings :
           ~About(step, k) => Do(World, step).value[k] = World.value[k]
      /\ \A d : Sets(step) \/ step.to # d =>
                  (d \in Do(World, step).dirs <=> d \in World.dirs)
  BY <1>3, DoKeeps
<1>8. World.dirs = dirs /\ World.value = value
  BY DEF World
<1>9. WorldOK(World)'
  BY <1>6, <1>7 DEF WorldOK, World
<1>10. Sets(step) => dirs' = dirs /\ value'[step.name] = step.to
  BY <1>6, <1>7, <1>8
<1>11. \A k \in Settings : ~About(step, k) => value'[k] = value[k]
  BY <1>6, <1>7, <1>8
<1>12. dirs' \subseteq dirs
  <2>1. CASE Sets(step)
    BY <1>10, <2>1
  <2>2. CASE step.do = "remove"
    <3>1. Do(World, step) = [World EXCEPT !.dirs = @ \ {step.to}]
      BY <2>2 DEF Do
    <3>2. Do(World, step).dirs = dirs \ {step.to}
      BY <3>1 DEF World
    <3>. QED
      BY <1>6, <3>2
  <2>. QED
    BY <2>1, <2>2 DEF Sets
<1>13. value'["color"] = value["color"]
  BY <1>11, SettingNames DEF Others
<1>. QED
  BY <1>6, <1>9, <1>10, <1>11, <1>12, <1>13

\* Logging is disabled or enabled.
LEMMA LoggingChange ==
  ASSUME IInv, NEW steps, Listed(steps), Body(steps, {}),
         \A m \in 1..Len(steps) :
           /\ StepOK(steps[m]) /\ steps[m].do = "assign"
           /\ steps[m].name \in {"threshold", "output"}
  PROVE  /\ WorldOK(World)' /\ dirs' = dirs
         /\ \A k \in Settings \ {"threshold", "output"} : value'[k] = value[k]
         /\ \A k \in Restorable \ {"log"} : Shown'[k] = Shown[k]
<1>1. WorldOK(World)
  BY WorldTypes DEF IInv
<1>2. StepsOK(steps) /\ Within(steps, {"log"})
  BY DEF StepsOK, Within, Touched
<1>3. Len(steps) \in 0..Len(steps) /\ Reach(steps, Len(steps))
  BY DEF Body, Execute, Listed
<1>4. /\ WorldOK(World)'
      /\ \A k \in Settings : (\A m \in 1..Len(steps) : ~About(steps[m], k)) => value'[k] = value[k]
      /\ \A d : (\A m \in 1..Len(steps) : Sets(steps[m]) \/ steps[m].to # d) =>
                  (d \in dirs' <=> d \in dirs)
  BY <1>1, <1>2, <1>3, Reached
<1>5. dirs' = dirs
  <2>1. \A d : d \in dirs' <=> d \in dirs
    BY <1>4 DEF Sets
  <2>. QED
    BY <2>1
<1>6. \A k \in Settings \ {"threshold", "output"} : value'[k] = value[k]
  BY <1>4 DEF About
<1>7. \A k \in Restorable \ {"log"} : Shown'[k] = Shown[k]
  BY <1>1, <1>2, <1>3, SettingNames, OthersKept
<1>. QED
  BY <1>4, <1>5, <1>6, <1>7

LEMMA LoggingLists ==
  ASSUME NEW level \in Levels, NEW output \in Outputs
  PROVE  /\ LET steps == enable_logging(level, output)
            IN /\ Listed(steps)
               /\ \A m \in 1..Len(steps) :
                    /\ StepOK(steps[m]) /\ steps[m].do = "assign"
                    /\ steps[m].name \in {"threshold", "output"}
         /\ LET steps == disable_logging
            IN /\ Listed(steps)
               /\ \A m \in 1..Len(steps) :
                    /\ StepOK(steps[m]) /\ steps[m].do = "assign"
                    /\ steps[m].name \in {"threshold", "output"}
<1>. DEFINE Fine(step) == /\ StepOK(step) /\ step.do = "assign"
                          /\ step.name \in {"threshold", "output"}
            a == Assign("threshold", level)
            b == Assign("output", output)
            c == Assign("threshold", "disabled")
<1>1. Fine(a) /\ Fine(b) /\ Fine(c)
  BY StepTypes, SettingTypes, ScopesAssumption
<1>. DEFINE on == <<a, b>>
            off == <<c>>
<1>2. enable_logging(level, output) = on /\ disable_logging = off
  BY DEF enable_logging, disable_logging
<1>. HIDE DEF Fine, a, b, c
<1>3. /\ Listed(on) /\ Len(on) = 2 /\ on[1] = a /\ on[2] = b
      /\ Listed(off) /\ Len(off) = 1 /\ off[1] = c
  BY Short
<1>. HIDE DEF on, off
<1>4. /\ \A m \in 1..Len(on) : Fine(on[m])
      /\ \A m \in 1..Len(off) : Fine(off[m])
  <2>1. \A m \in 1..2 : m = 1 \/ m = 2
    OBVIOUS
  <2>2. \A m \in 1..1 : m = 1
    OBVIOUS
  <2>. QED
    BY <1>1, <1>3, <2>1, <2>2
<1>. QED
  BY <1>2, <1>3, <1>4 DEF Fine

LEMMA ChangeKeeps ==
  ASSUME IInv, Change
  PROVE  /\ IInv'
         /\ UNCHANGED <<scopes, upset, failures>>
         /\ \E k \in Restorable : \A j \in Restorable \ {k} : Shown'[j] = Shown[j]
<1>. DEFINE Goal == /\ IInv'
                    /\ UNCHANGED <<scopes, upset, failures>>
                    /\ \E k \in Restorable : \A j \in Restorable \ {k} : Shown'[j] = Shown[j]
<1>. HIDE DEF Goal
<1>1. dirs \subseteq Dirs \cup Temps
  BY WorldTypes DEF IInv, WorldOK, World
<1>2. ASSUME NEW dir \in dirs,
             Body(<<ChangeDir(dir)>>, IF dir \in Temps THEN {"chdir"} ELSE {})
      PROVE  Goal
  <2>. DEFINE step == ChangeDir(dir)
              why == IF dir \in Temps THEN {"chdir"} ELSE {}
  <2>1. /\ StepOK(step) /\ Sets(step) /\ step.name = "cwd" /\ step.to = dir
        /\ step.do = "chdir"
    BY <1>1, StepTypes
  <2>2. Body(<<step>>, why)
    BY <1>2
  <2>. HIDE DEF step, why
  <2>3. /\ WorldOK(World)' /\ dirs' = dirs /\ value'["color"] = value["color"]
        /\ value'["cwd"] = dir
        /\ \A k \in Settings \ {"cwd"} : value'[k] = value[k]
    BY <2>1, <2>2, OneStep DEF About
  <2>4. \A v \in Vars : value'[v] = value[v]
    BY <2>3, ScopesAssumption DEF Settings, Others
  <2>5. /\ changes < MaxChanges /\ changes' = changes + 1 /\ blame' = blame \cup why
        /\ UNCHANGED <<scopes, upset, failures, failed, leaked, blocks, strikes>>
    BY <2>2 DEF Body
  <2>6. why \cap {"remove", "chdir"} # {} \/ value'["cwd"] \in dirs \ Temps
    BY <2>3 DEF why
  <2>7. IInv'
    BY <2>3, <2>4, <2>5, <2>6, BodyKeeps
  <2>8. \A j \in Restorable \ {"cwd"} : Shown'[j] = Shown[j]
    BY <2>3, SettingNames DEF Shown, Log, Others
  <2>. QED
    BY <2>5, <2>7, <2>8, SettingNames DEF Goal
<1>3. ASSUME NEW dir \in dirs, Body(<<RemovePath(dir)>>, {"remove"})
      PROVE  Goal
  <2>. DEFINE step == RemovePath(dir)
              why == {"remove"}
  <2>1. StepOK(step) /\ ~Sets(step) /\ step.do = "remove"
    BY <1>1, StepTypes
  <2>2. Body(<<step>>, why)
    BY <1>3
  <2>. HIDE DEF step
  <2>3. /\ WorldOK(World)' /\ dirs' \subseteq dirs /\ value'["color"] = value["color"]
        /\ \A k \in Settings : value'[k] = value[k]
    BY <2>1, <2>2, OneStep DEF About
  <2>4. \A v \in Vars : value'[v] = value[v]
    BY <2>3, SettingNames
  <2>5. /\ changes < MaxChanges /\ changes' = changes + 1 /\ blame' = blame \cup why
        /\ UNCHANGED <<scopes, upset, failures, failed, leaked, blocks, strikes>>
    BY <2>2 DEF Body
  <2>6. why \cap {"remove", "chdir"} # {}
    OBVIOUS
  <2>. HIDE DEF why
  <2>7. IInv'
    BY <2>3, <2>4, <2>5, <2>6, BodyKeeps
  <2>8. \A j \in Restorable \ {"cwd"} : Shown'[j] = Shown[j]
    BY <2>3, SettingNames DEF Shown, Log, Others
  <2>. QED
    BY <2>5, <2>7, <2>8, SettingNames DEF Goal
<1>4. ASSUME NEW v \in Vars, NEW step, NEW why, Body(<<step>>, why),
             StepOK(step), Sets(step), step.name = v, step.do # "mkdir",
             "del" \in why \/ step.to # Absent
      PROVE  Goal
  <2>1. ~About(step, "color") /\ v \in Settings /\ v \in Restorable \ {"log"} /\ v # "cwd"
    BY <1>4, ScopesAssumption, SettingNames DEF About, Others
  <2>2. /\ WorldOK(World)' /\ dirs' = dirs /\ value'["color"] = value["color"]
        /\ value'[v] = step.to
        /\ \A k \in Settings \ {v} : value'[k] = value[k]
    BY <1>4, <2>1, OneStep DEF About
  <2>3. "del" \in why \/ \A x \in Vars : value'[x] = value[x] \/ value'[x] # Absent
    BY <1>4, <2>2, SettingNames
  <2>4. value'["cwd"] = value["cwd"]
    BY <2>1, <2>2, SettingNames DEF Others
  <2>5. /\ changes < MaxChanges /\ changes' = changes + 1 /\ blame' = blame \cup why
        /\ UNCHANGED <<scopes, upset, failures, failed, leaked, blocks, strikes>>
    BY <1>4 DEF Body
  <2>6. IInv'
    BY <2>2, <2>3, <2>4, <2>5, BodyKeeps
  <2>7. \A j \in Restorable \ {v} : Shown'[j] = Shown[j]
    BY <1>4, <2>2, SettingNames, ScopesAssumption DEF Shown, Log, Others
  <2>. QED
    BY <2>1, <2>5, <2>6, <2>7 DEF Goal
<1>5. ASSUME NEW steps, Listed(steps), Body(steps, {}),
             \A m \in 1..Len(steps) :
               /\ StepOK(steps[m]) /\ steps[m].do = "assign"
               /\ steps[m].name \in {"threshold", "output"}
      PROVE  Goal
  <2>1. /\ WorldOK(World)' /\ dirs' = dirs
        /\ \A k \in Settings \ {"threshold", "output"} : value'[k] = value[k]
        /\ \A k \in Restorable \ {"log"} : Shown'[k] = Shown[k]
    BY <1>5, LoggingChange
  <2>2. /\ value'["color"] = value["color"] /\ value'["cwd"] = value["cwd"]
        /\ \A v \in Vars : value'[v] = value[v]
    BY <2>1, SettingNames, ScopesAssumption DEF Others
  <2>3. /\ changes < MaxChanges /\ changes' = changes + 1 /\ blame' = blame \cup {}
        /\ UNCHANGED <<scopes, upset, failures, failed, leaked, blocks, strikes>>
    BY <1>5 DEF Body
  <2>4. IInv'
    BY <2>1, <2>2, <2>3, BodyKeeps
  <2>. QED
    BY <2>1, <2>3, <2>4, SettingNames DEF Goal
<1>6. ASSUME NEW v \in Vars, Body(<<Assign(v, "body")>>, {})
      PROVE  Goal
  <2>. DEFINE step == Assign(v, "body")
  <2>1. /\ StepOK(step) /\ Sets(step) /\ step.name = v /\ step.do = "assign"
        /\ step.to = "body"
    BY StepTypes, SettingTypes DEF VarValues
  <2>2. Body(<<step>>, {})
    BY <1>6
  <2>. HIDE DEF step
  <2>. QED
    BY <1>4, <2>1, <2>2 DEF Absent
<1>7. ASSUME NEW v \in Vars, Body(<<Delete(v)>>, {"del"})
      PROVE  Goal
  <2>. DEFINE step == Delete(v)
              why == {"del"}
  <2>1. /\ StepOK(step) /\ Sets(step) /\ step.name = v /\ step.do = "del"
    BY StepTypes
  <2>2. Body(<<step>>, why) /\ "del" \in why
    BY <1>7
  <2>. HIDE DEF step, why
  <2>. QED
    BY <1>4, <2>1, <2>2
<1>8. ASSUME Body(disable_logging, {})
      PROVE  Goal
  <2>1. PICK level \in Levels : TRUE
    BY ScopesAssumption
  <2>2. PICK output \in Outputs : TRUE
    BY DEF Outputs
  <2>. DEFINE steps == disable_logging
  <2>3. /\ Listed(steps)
        /\ \A m \in 1..Len(steps) :
             /\ StepOK(steps[m]) /\ steps[m].do = "assign"
             /\ steps[m].name \in {"threshold", "output"}
    BY LoggingLists
  <2>. HIDE DEF steps
  <2>. QED
    BY <1>5, <1>8, <2>3 DEF steps
<1>9. ASSUME NEW level \in Levels, NEW output \in Outputs,
             Body(enable_logging(level, output), {})
      PROVE  Goal
  <2>. DEFINE steps == enable_logging(level, output)
  <2>1. /\ Listed(steps)
        /\ \A m \in 1..Len(steps) :
             /\ StepOK(steps[m]) /\ steps[m].do = "assign"
             /\ steps[m].name \in {"threshold", "output"}
    BY LoggingLists
  <2>2. Body(steps, {})
    BY <1>9
  <2>. HIDE DEF steps
  <2>. QED
    BY <1>5, <2>1, <2>2
<1>10. Goal
  BY <1>2, <1>3, <1>6, <1>7, <1>8, <1>9 DEF Change
<1>. QED
  BY <1>10 DEF Goal

-----------------------------------------------------------------------------
(* Every step                                                              *)

LEMMA EntryKeeps ==
  ASSUME IInv, NEW s, NEW enter, Enters(s, enter)
  PROVE  IInv' /\ (Abstract!Enter \/ Abstract!NotEntered)
<1>1. CASE Entered(s, enter)
  <2>1. TypeOK' /\ ScopesInv'
    BY <1>1, EnterKeepsTypes
  <2>2. CwdInv' /\ EnvInv' /\ ColorInv'
    BY <1>1, EnterKeepsCwd, EnterKeepsEnv, EnterKeepsColor
  <2>3. FailuresHaveCause'
    BY <1>1, EnterHasNoCause
  <2>4. Abstract!Enter
    BY <1>1, EnterImplements
  <2>. QED
    BY <2>1, <2>2, <2>3, <2>4 DEF IInv
<1>2. CASE NotEntered(s, enter)
  BY <1>2, HalfEnterKeeps, HalfEnterImplements
<1>. QED
  BY <1>1, <1>2 DEF Enters, With, Entered, NotEntered

\* A step keeps the invariant, and is one of Scoped or leaves its state alone.
LEMMA StepKeeps ==
  ASSUME IInv, [Next]_vars
  PROVE  /\ IInv'
         /\ \/ Abstract!Next
            \/ UNCHANGED <<Shown, [n \in DOMAIN scopes |-> scopes[n].saved], upset, failures>>
<1>1. CASE \E s, enter : Enters(s, enter)
  BY <1>1, EntryKeeps DEF Abstract!Next
<1>2. CASE Exit
  <2>1. IInv'
    BY <1>2, ExitKeepsTypes, ExitKeepsCwd, ExitKeepsEnv, ExitKeepsColor, ExitHasCause DEF IInv
  <2>2. Abstract!Next
    BY <1>2, ExitImplements DEF Abstract!Next
  <2>. QED
    BY <2>1, <2>2
<1>3. CASE Change
  <2>1. /\ IInv' /\ UNCHANGED <<scopes, upset, failures>>
        /\ \E k \in Restorable : \A j \in Restorable \ {k} : Shown'[j] = Shown[j]
    BY <1>3, ChangeKeeps
  <2>2. DOMAIN Shown = Restorable
    BY DEF Shown
  <2>3. Abstract!Change
    BY <2>1, <2>2 DEF Abstract!Change, Abstract!Only
  <2>. QED
    BY <2>1, <2>3 DEF Abstract!Next
<1>4. CASE UNCHANGED vars
  <2>1. /\ value' = value /\ dirs' = dirs /\ scopes' = scopes /\ upset' = upset
        /\ failures' = failures /\ failed' = failed
        /\ leaked' = leaked /\ blame' = blame /\ blocks' = blocks
        /\ changes' = changes /\ strikes' = strikes
    BY <1>4 DEF vars
  <2>2. ScopesInv /\ OwnTemps /\ CountsOK /\ WorldOK(World)
    BY TypeParts, WorldTypes DEF IInv
  <2>3. ScopesInv'
    BY <2>1, <2>2, ScopesStay
  <2>4. OwnTemps' /\ CountsOK' /\ WorldOK(World)'
    BY <2>1, <2>2 DEF OwnTemps, CountsOK, WorldOK, World
  <2>5. TypeOK'
    BY <2>3, <2>4, TypesOf, PTL
  <2>6. CwdInv'
    BY <2>1 DEF IInv, CwdInv, OwnDir, Saves
  <2>7. EnvInv'
    BY <2>1 DEF IInv, EnvInv, WillBeSet, Saves, Deletes
  <2>8. ColorInv'
    BY <2>1 DEF IInv, ColorInv, Gives, About, Sets, Plain
  <2>9. FailuresHaveCause'
    BY <2>1 DEF IInv, FailuresHaveCause, Owned
  <2>10. Shown' = Shown
    BY <2>1 DEF Shown, Log
  <2>. QED
    BY <2>1, <2>3, <2>5, <2>6, <2>7, <2>8, <2>9, <2>10 DEF IInv
<1>5. CASE output_redirected_stream
  BY <1>5, StreamKeeps, StreamImplements DEF Abstract!Next
<1>6. WorldOK(World)
  BY WorldTypes DEF IInv
<1>. QED
  BY <1>1, <1>2, <1>3, <1>4, <1>5, <1>6, Entering DEF Next, Ended

LEMMA InitHolds ==
  ASSUME Init
  PROVE  IInv /\ Abstract!Init
<1>1. PICK level \in Levels :
        value = [k \in Settings |->
                   IF k \in Others THEN Start(level)[k]
                   ELSE IF k \in Inherited THEN "start" ELSE Absent]
  BY DEF Init
<1>2. PICK some \in SUBSET (Dirs \ {"home"}) : dirs = {"home"} \cup some
  BY DEF Init
<1>3. /\ scopes = <<>> /\ upset = {} /\ leaked = {} /\ blame = {}
      /\ failures = 0 /\ failed = {}
      /\ blocks = 0 /\ changes = 0 /\ strikes = 0
  BY DEF Init
<1>4. /\ value["cwd"] = "home" /\ value["path"] = <<>> /\ value["stdout"] = Console
      /\ value["threshold"] = level /\ value["output"] = Console
      /\ value["color"] = Plain
      /\ \A v \in Vars : value[v] \in {Absent, "start"}
  BY <1>1, SettingNames, ScopesAssumption DEF Start, Others
<1>5. Listed(scopes) /\ Len(scopes) = 0 /\ \A n \in 1..Len(scopes) : FALSE
  <2>1. Listed(<<>>) /\ Len(<<>>) = 0
    BY Short
  <2>. QED
    BY <1>3, <2>1
<1>6. ScopesInv /\ OwnTemps
  BY <1>5 DEF ScopesInv, OwnTemps
<1>7. CountsOK
  BY <1>3, ScopesAssumption DEF CountsOK
<1>8. WorldOK(World)
  <2>1. \A k \in Settings : value[k] \in Values(k)
    <3>1. <<>> \in Seq(Dirs)
      OBVIOUS
    <3>. DEFINE p == value["path"]
    <3>2. p \in Seq(Dirs)
      BY <1>4, <3>1
    <3>. HIDE DEF p
    <3>3. /\ value["cwd"] \in Values("cwd") /\ p \in Values("path")
          /\ value["stdout"] \in Values("stdout") /\ value["output"] \in Values("output")
          /\ value["threshold"] \in Values("threshold")
          /\ value["color"] \in Values("color")
      BY <1>1, <1>4, <3>2, SettingTypes, ScopesAssumption DEF Outputs
    <3>4. \A v \in Vars : value[v] \in Values(v)
      BY <1>4, SettingTypes DEF VarValues
    <3>. QED
      BY <3>3, <3>4 DEF Settings, Others, p
  <2>2. value = [k \in Settings |-> value[k]]
    BY <1>1
  <2>3. dirs \subseteq Dirs \cup Temps
    BY <1>2, ScopesAssumption
  <2>. QED
    BY <2>1, <2>2, <2>3 DEF WorldOK, World
<1>9. TypeOK
  BY <1>6, <1>7, <1>8, TypesOf
<1>10. CwdInv /\ EnvInv /\ ColorInv
  BY <1>2, <1>4, <1>5, ScopesAssumption DEF CwdInv, OwnDir, EnvInv, ColorInv
<1>11. FailuresHaveCause
  BY <1>2, <1>3, <1>4, ScopesAssumption DEF FailuresHaveCause
<1>12. [n \in DOMAIN scopes |-> scopes[n].saved] = <<>>
  BY <1>3
<1>. QED
  BY <1>3, <1>6, <1>9, <1>10, <1>11, <1>12 DEF IInv, Abstract!Init

-----------------------------------------------------------------------------
(* Theorems                                                                *)

\* Whatever is nested, changed and interrupted: each block entered can restore
\* what it has saved, its directories are there unless one was removed or a
\* temporary one used as another block's, and so is what working_env deletes
\* (main.py:172-188, 204-223, 336-368, 421-463, 820-842, 1426-1450).
THEOREM Invariance ==
  Spec => []IInv
<1>1. Init => IInv
  BY InitHolds
<1>2. IInv /\ [Next]_vars => IInv'
  BY StepKeeps
<1>. QED
  BY <1>1, <1>2, PTL DEF Spec

\* Settings, directories and counters have values of their types, and no two
\* blocks have made the same temporary path.
THEOREM TypeCorrect ==
  Spec => []TypeOK
<1>1. IInv => TypeOK
  BY DEF IInv
<1>. QED
  BY <1>1, Invariance, PTL

\* No temporary path outlives its block, no color the blocks, a setting is other
\* than before a block only where the block failed, and no block fails unless
\* something that can make it so has happened
\* (main.py:172-188, 204-223, 336-368, 437-443, 1426-1450).
THEOREM FailuresAreCaused ==
  Spec => []FailuresHaveCause
<1>1. IInv => FailuresHaveCause
  BY DEF IInv
<1>. QED
  BY <1>1, Invariance, PTL

\* The blocks implement Scoped: each gives back its settings, or fails and is
\* counted, with those it has not given back known to be upset, and changes no others (main.py:204-223, 336-368, 421-463, 820-842).
THEOREM Refinement ==
  Spec => ImplementsScoped
<1>1. Init => Abstract!Init
  BY InitHolds
<1>2. IInv /\ [Next]_vars =>
        [Abstract!Next]_<<Shown, [n \in DOMAIN scopes |-> scopes[n].saved], upset, failures>>
  BY StepKeeps
<1>. QED
  BY <1>1, <1>2, Invariance, PTL DEF Spec, ImplementsScoped, Abstract!Spec

=============================================================================
