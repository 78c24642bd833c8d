-------------------------- MODULE KdbxMerge_proofs --------------------------
(***************************************************************************)
(* Proofs about KdbxMerge, for every set of devices, groups and entries,   *)
(* every first database and every bound.                                   *)
(***************************************************************************)
EXTENDS KdbxMerge, FiniteSetTheorems, SequenceTheorems, WellFoundedInduction, TLAPS

-----------------------------------------------------------------------------
(* Numbers and loops.                                                       *)

(* A set of numbers has a least one.                                        *)
LEMMA LeastNatural ==
  ASSUME NEW S \in SUBSET Nat, S # {}
  PROVE  \E k \in S : \A j \in S : k <= j
<1>1. PICK k \in S : \A j \in S : ~(<<j, k>> \in OpToRel(<, Nat))
  BY NatLessThanWellFounded, WFMin
<1>2. \A j \in S : ~(j < k)
  BY <1>1 DEF OpToRel
<1> QED BY <1>2

(* Induction up to a bound, about a set.                                    *)
LEMMA UpTo ==
  ASSUME NEW G, NEW m \in Nat, 0 \in G,
         \A n \in 0 .. m : n \in G /\ n < m => n + 1 \in G
  PROVE  \A n \in 0 .. m : n \in G
<1> DEFINE Bad == {n \in 0 .. m : n \notin G}
<1>1. SUFFICES ASSUME Bad # {} PROVE FALSE
  OBVIOUS
<1>2. \E k \in Bad : \A j \in Bad : k <= j
  <2>1. Bad \in SUBSET Nat
    OBVIOUS
  <2> HIDE DEF Bad
  <2> QED BY <1>1, <2>1, LeastNatural
<1>3. PICK k \in Bad : \A j \in Bad : k <= j
  BY <1>2
<1>4. k # 0
  OBVIOUS
<1>5. k - 1 \in 0 .. m /\ k - 1 < m /\ k - 1 \in G
  BY <1>3, <1>4
<1> QED BY <1>5

(* The states of a loop of k rounds, of which F[n] is the n-th.             *)
LoopOf(f, k, S, base, F) ==
  /\ f \in [0 .. k -> S]
  /\ f[0] = base
  /\ \A n \in 1 .. k : f[n] = F[n][f[n - 1]]

LEMMA LoopExists ==
  ASSUME NEW N \in Nat, NEW S, NEW base \in S, NEW F \in [1 .. N -> [S -> S]]
  PROVE  \E f : LoopOf(f, N, S, base, F)
<1> DEFINE Loop(f, k) == LoopOf(f, k, S, base, F)
           Good == {k \in 0 .. N : \E f : Loop(f, k)}
<1>1. 0 \in Good
  <2>1. Loop([n \in 0 .. 0 |-> base], 0)
    BY DEF LoopOf
  <2> HIDE DEF Loop
  <2> QED BY <2>1
<1>2. ASSUME NEW k \in 0 .. N, k \in Good, k < N PROVE k + 1 \in Good
  <2>1. PICK f : Loop(f, k)
    BY <1>2
  <2>a. /\ f \in [0 .. k -> S] /\ f[0] = base
        /\ \A n \in 1 .. k : f[n] = F[n][f[n - 1]]
    BY <2>1 DEF LoopOf
  <2> DEFINE h == [n \in 0 .. k + 1 |-> IF n = k + 1 THEN F[k + 1][f[k]] ELSE f[n]]
  <2>2. f[k] \in S /\ k + 1 \in 1 .. N
    BY <2>a, <1>2
  <2>3. F[k + 1][f[k]] \in S
    BY <2>2
  <2>4. h \in [0 .. k + 1 -> S]
    BY <2>a, <2>3
  <2>5. h[0] = base
    BY <2>a
  <2>6. ASSUME NEW n \in 1 .. k + 1 PROVE h[n] = F[n][h[n - 1]]
    <3>1. CASE n = k + 1
      BY <3>1
    <3>2. CASE n \in 1 .. k
      <4>1. h[n] = f[n] /\ h[n - 1] = f[n - 1]
        BY <3>2
      <4> QED BY <2>a, <3>2, <4>1
    <3> QED BY <3>1, <3>2
  <2>7. Loop(h, k + 1)
    <3> HIDE DEF h
    <3> QED BY <2>4, <2>5, <2>6 DEF LoopOf
  <2> HIDE DEF Loop
  <2> QED BY <2>2, <2>7
<1>3. N \in Good
  <2> HIDE DEF Good
  <2>1. \A n \in 0 .. N : n \in Good /\ n < N => n + 1 \in Good
    BY <1>2
  <2>2. \A n \in 0 .. N : n \in Good
    BY <1>1, <2>1, UpTo
  <2>3. N \in 0 .. N
    OBVIOUS
  <2> QED BY <2>2, <2>3
<1> QED BY <1>3

(* What every round keeps holds after all of them.                          *)
LEMMA LoopKeeps ==
  ASSUME NEW N \in Nat, NEW S, NEW f, f[0] \in S,
         \A n \in 1 .. N : f[n - 1] \in S => f[n] \in S
  PROVE  \A n \in 0 .. N : f[n] \in S
<1> DEFINE G == {n \in 0 .. N : f[n] \in S}
<1>1. 0 \in G
  OBVIOUS
<1>2. ASSUME NEW n \in 0 .. N, n \in G, n < N PROVE n + 1 \in G
  <2>1. n + 1 \in 1 .. N /\ (n + 1) - 1 = n
    BY <1>2
  <2>2. f[n + 1] \in S
    BY <1>2, <2>1
  <2> QED BY <2>1, <2>2
<1>3. \A n \in 0 .. N : n \in G
  <2> HIDE DEF G
  <2>1. \A n \in 0 .. N : n \in G /\ n < N => n + 1 \in G
    BY <1>2
  <2> QED BY <1>1, <2>1, UpTo
<1> QED BY <1>3

-----------------------------------------------------------------------------
(* Sequences.                                                               *)

(* The items of a longer sequence.                                          *)
LEMMA AppendSet ==
  ASSUME NEW T, NEW s \in Seq(T), NEW x \in T
  PROVE  /\ Append(s, x) \in Seq(T) /\ Len(Append(s, x)) = Len(s) + 1
         /\ ToSet(Append(s, x)) = ToSet(s) \cup {x}
         /\ IsInjective(s) /\ x \notin ToSet(s) => IsInjective(Append(s, x))
<1> DEFINE t == Append(s, x)
<1>1. /\ t \in Seq(T) /\ DOMAIN t = 1 .. Len(s) + 1 /\ DOMAIN s = 1 .. Len(s) /\ Len(s) \in Nat
      /\ Len(t) = Len(s) + 1
      /\ \A i \in 1 .. Len(s) : t[i] = s[i]
      /\ t[Len(s) + 1] = x
  OBVIOUS
<1> HIDE DEF t
<1>2. \A i : i \in 1 .. Len(s) + 1 <=> i \in 1 .. Len(s) \/ i = Len(s) + 1
  BY <1>1
<1>3. ToSet(t) = ToSet(s) \cup {x}
  BY <1>1, <1>2 DEF ToSet
<1>4. IsInjective(s) /\ x \notin ToSet(s) => IsInjective(t)
  BY <1>1, <1>2 DEF IsInjective, ToSet
<1> QED BY <1>1, <1>3, <1>4 DEF t

LEMMA InsertSet ==
  ASSUME NEW T, NEW s \in Seq(T), NEW x \in T, NEW k \in 1 .. Len(s) + 1
  PROVE  /\ InsertAt(s, k, x) \in Seq(T) /\ Len(InsertAt(s, k, x)) = Len(s) + 1
         /\ ToSet(InsertAt(s, k, x)) = ToSet(s) \cup {x}
         /\ IsInjective(s) /\ x \notin ToSet(s) => IsInjective(InsertAt(s, k, x))
<1> DEFINE t == InsertAt(s, k, x)
           n == Len(s)
<1>1. n \in Nat /\ k \in Nat /\ 1 <= k /\ k <= n + 1
  OBVIOUS
<1>2. /\ t \in Seq(T) /\ Len(t) = n + 1
      /\ \A i \in 1 .. n + 1 : t[i] = IF i < k THEN s[i] ELSE IF i = k THEN x ELSE s[i - 1]
  <2> DEFINE u == SubSeq(s, 1, k - 1)
             v == SubSeq(s, k, n)
             w == u \o <<x>>
  <2>1. u \in Seq(T) /\ Len(u) = k - 1 /\ \A i \in 1 .. k - 1 : u[i] = s[i]
    BY <1>1
  <2>2. v \in Seq(T) /\ Len(v) = n - k + 1 /\ \A i \in 1 .. n - k + 1 : v[i] = s[k + i - 1]
    BY <1>1
  <2>3. t = w \o v
    BY DEF InsertAt
  <2> HIDE DEF u, v, t, n
  <2>4. w \in Seq(T) /\ Len(w) = k /\ (\A i \in 1 .. k - 1 : w[i] = s[i]) /\ w[k] = x
    BY <1>1, <2>1
  <2> HIDE DEF w
  <2>5. t \in Seq(T) /\ Len(t) = n + 1
    <3>1. t \in Seq(T) /\ Len(t) = Len(w) + Len(v)
      BY <2>2, <2>3, <2>4, ConcatProperties
    <3> QED BY <1>1, <2>2, <2>4, <3>1
  <2>6. ASSUME NEW i \in 1 .. n + 1
        PROVE  t[i] = IF i < k THEN s[i] ELSE IF i = k THEN x ELSE s[i - 1]
    <3>1. CASE i <= k
      <4>1. t[i] = w[i]
        BY <1>1, <2>2, <2>3, <2>4, <3>1
      <4> QED BY <1>1, <2>4, <3>1, <4>1
    <3>2. CASE i > k
      <4>1. t[i] = v[i - k] /\ i - k \in 1 .. n - k + 1
        BY <1>1, <2>2, <2>3, <2>4, <3>2
      <4>2. k + (i - k) - 1 = i - 1
        BY <1>1
      <4>3. v[i - k] = s[k + (i - k) - 1]
        BY <2>2, <4>1
      <4> QED BY <1>1, <3>2, <4>1, <4>2, <4>3
    <3> QED BY <1>1, <3>1, <3>2
  <2> QED BY <2>5, <2>6
<1>3. DOMAIN t = 1 .. n + 1 /\ DOMAIN s = 1 .. n
  BY <1>2
<1> HIDE DEF t, n
<1>4. ToSet(t) = ToSet(s) \cup {x}
  <2>1. ASSUME NEW i \in 1 .. n + 1 PROVE t[i] \in ToSet(s) \cup {x}
    <3>1. CASE i < k
      <4>1. i \in 1 .. n /\ t[i] = s[i]
        BY <1>1, <1>2, <3>1
      <4> QED BY <1>3, <4>1 DEF ToSet
    <3>2. CASE i = k
      BY <1>1, <1>2, <3>2
    <3>3. CASE i > k
      <4>1. i - 1 \in 1 .. n /\ t[i] = s[i - 1]
        BY <1>1, <1>2, <3>3
      <4> QED BY <1>3, <4>1 DEF ToSet
    <3> QED BY <1>1, <3>1, <3>2, <3>3
  <2>2. ASSUME NEW i \in 1 .. n PROVE s[i] \in ToSet(t)
    <3>1. CASE i < k
      <4>1. i \in 1 .. n + 1 /\ t[i] = s[i]
        BY <1>1, <1>2, <3>1
      <4> QED BY <1>3, <4>1 DEF ToSet
    <3>2. CASE i >= k
      <4>1. i + 1 \in 1 .. n + 1 /\ t[i + 1] = s[i]
        BY <1>1, <1>2, <3>2
      <4> QED BY <1>3, <4>1 DEF ToSet
    <3> QED BY <1>1, <3>1, <3>2
  <2>3. x \in ToSet(t)
    BY <1>1, <1>2, <1>3 DEF ToSet
  <2> QED BY <1>3, <2>1, <2>2, <2>3 DEF ToSet
<1>5. ASSUME IsInjective(s), x \notin ToSet(s) PROVE IsInjective(t)
  <2>1. \A i, j \in 1 .. n : s[i] = s[j] => i = j
    BY <1>3, <1>5 DEF IsInjective
  <2>2. \A i \in 1 .. n : s[i] # x
    BY <1>3, <1>5 DEF ToSet
  <2>3. ASSUME NEW i \in 1 .. n + 1, NEW j \in 1 .. n + 1, t[i] = t[j] PROVE i = j
    BY <1>1, <1>2, <2>1, <2>2, <2>3
  <2> QED BY <1>3, <2>3 DEF IsInjective
<1> QED BY <1>2, <1>4, <1>5 DEF t, n

LEMMA RemoveSet ==
  ASSUME NEW T, NEW s \in Seq(T), NEW k \in 1 .. Len(s)
  PROVE  /\ RemoveAt(s, k) \in Seq(T) /\ Len(RemoveAt(s, k)) = Len(s) - 1
         /\ ToSet(RemoveAt(s, k)) = {s[i] : i \in (1 .. Len(s)) \ {k}}
<1> DEFINE t == RemoveAt(s, k)
           n == Len(s)
<1>1. n \in Nat /\ k \in Nat /\ 1 <= k /\ k <= n
  OBVIOUS
<1>2. /\ t \in Seq(T) /\ Len(t) = n - 1
      /\ \A i \in 1 .. n - 1 : t[i] = IF i < k THEN s[i] ELSE s[i + 1]
  <2> DEFINE u == SubSeq(s, 1, k - 1)
             v == SubSeq(s, k + 1, n)
  <2>1. u \in Seq(T) /\ Len(u) = k - 1 /\ \A i \in 1 .. k - 1 : u[i] = s[i]
    BY <1>1
  <2>2. v \in Seq(T) /\ Len(v) = n - k /\ \A i \in 1 .. n - k : v[i] = s[k + i]
    BY <1>1
  <2>3. t = u \o v
    BY DEF RemoveAt
  <2> HIDE DEF u, v, t, n
  <2>4. t \in Seq(T) /\ Len(t) = n - 1
    <3>1. t \in Seq(T) /\ Len(t) = Len(u) + Len(v)
      BY <2>1, <2>2, <2>3, ConcatProperties
    <3> QED BY <1>1, <2>1, <2>2, <3>1
  <2>5. ASSUME NEW i \in 1 .. n - 1 PROVE t[i] = IF i < k THEN s[i] ELSE s[i + 1]
    <3>1. CASE i < k
      BY <1>1, <2>1, <2>2, <2>3, <3>1
    <3>2. CASE i >= k
      <4>1. t[i] = v[i - (k - 1)] /\ i - (k - 1) \in 1 .. n - k
        BY <1>1, <2>1, <2>2, <2>3, <3>2
      <4>2. k + (i - (k - 1)) = i + 1
        BY <1>1
      <4>3. v[i - (k - 1)] = s[k + (i - (k - 1))]
        BY <2>2, <4>1
      <4> QED BY <1>1, <3>2, <4>1, <4>2, <4>3
    <3> QED BY <1>1, <3>1, <3>2
  <2> QED BY <2>4, <2>5
<1>3. DOMAIN t = 1 .. n - 1
  BY <1>2
<1> HIDE DEF t, n
<1>4. ASSUME NEW i \in 1 .. n - 1 PROVE t[i] \in {s[j] : j \in (1 .. n) \ {k}}
  <2>1. CASE i < k
    <3>1. i \in (1 .. n) \ {k} /\ t[i] = s[i]
      BY <1>1, <1>2, <2>1
    <3> QED BY <3>1
  <2>2. CASE i >= k
    <3>1. i + 1 \in (1 .. n) \ {k} /\ t[i] = s[i + 1]
      BY <1>1, <1>2, <2>2
    <3> QED BY <3>1
  <2> QED BY <1>1, <2>1, <2>2
<1>5. ASSUME NEW j \in (1 .. n) \ {k} PROVE s[j] \in ToSet(t)
  <2>1. CASE j < k
    <3>1. j \in 1 .. n - 1 /\ t[j] = s[j]
      BY <1>1, <1>2, <2>1
    <3> QED BY <1>3, <3>1 DEF ToSet
  <2>2. CASE j > k
    <3>1. j - 1 \in 1 .. n - 1 /\ t[j - 1] = s[j]
      BY <1>1, <1>2, <2>2
    <3> QED BY <1>3, <3>1 DEF ToSet
  <2> QED BY <1>1, <2>1, <2>2
<1>6. ToSet(t) = {s[i] : i \in (1 .. n) \ {k}}
  BY <1>3, <1>4, <1>5 DEF ToSet
<1> QED BY <1>2, <1>6 DEF t, n

LEMMA ConcatSet ==
  ASSUME NEW T, NEW s \in Seq(T), NEW t \in Seq(T)
  PROVE  s \o t \in Seq(T) /\ ToSet(s \o t) = ToSet(s) \cup ToSet(t)
<1> DEFINE u == s \o t
<1>1. /\ u \in Seq(T) /\ Len(u) = Len(s) + Len(t) /\ Len(s) \in Nat /\ Len(t) \in Nat
      /\ DOMAIN u = 1 .. Len(u) /\ DOMAIN s = 1 .. Len(s) /\ DOMAIN t = 1 .. Len(t)
      /\ \A i \in 1 .. Len(u) : u[i] = IF i <= Len(s) THEN s[i] ELSE t[i - Len(s)]
  OBVIOUS
<1> HIDE DEF u
<1>2. ASSUME NEW i \in 1 .. Len(u) PROVE u[i] \in ToSet(s) \cup ToSet(t)
  <2>1. CASE i <= Len(s)
    BY <1>1, <2>1 DEF ToSet
  <2>2. CASE i > Len(s)
    <3>1. i - Len(s) \in 1 .. Len(t) /\ u[i] = t[i - Len(s)]
      BY <1>1, <2>2
    <3> QED BY <1>1, <3>1 DEF ToSet
  <2> QED BY <1>1, <2>1, <2>2
<1>3. ASSUME NEW i \in 1 .. Len(s) PROVE s[i] \in ToSet(u)
  BY <1>1 DEF ToSet
<1>4. ASSUME NEW i \in 1 .. Len(t) PROVE t[i] \in ToSet(u)
  <2>1. Len(s) + i \in 1 .. Len(u) /\ u[Len(s) + i] = t[i]
    BY <1>1
  <2> QED BY <1>1, <2>1 DEF ToSet
<1>5. ToSet(u) = ToSet(s) \cup ToSet(t)
  BY <1>1, <1>2, <1>3, <1>4 DEF ToSet
<1> QED BY <1>1, <1>5 DEF u

LEMMA HeadTailSet ==
  ASSUME NEW T, NEW s \in Seq(T), s # <<>>
  PROVE  /\ Head(s) \in T /\ Tail(s) \in Seq(T) /\ Len(Tail(s)) = Len(s) - 1 /\ Len(s) \in Nat \ {0}
         /\ ToSet(s) = {Head(s)} \cup ToSet(Tail(s))
<1> DEFINE t == Tail(s)
<1>1. /\ Len(s) \in Nat \ {0} /\ DOMAIN s = 1 .. Len(s) /\ Head(s) = s[1] /\ s[1] \in T
      /\ t \in Seq(T) /\ Len(t) = Len(s) - 1 /\ DOMAIN t = 1 .. Len(s) - 1
      /\ \A i \in 1 .. Len(s) - 1 : t[i] = s[i + 1]
  BY EmptySeq
<1> HIDE DEF t
<1>2. ASSUME NEW i \in 1 .. Len(s) PROVE s[i] \in {Head(s)} \cup ToSet(t)
  <2>1. CASE i # 1
    <3>1. i - 1 \in 1 .. Len(s) - 1 /\ t[i - 1] = s[i]
      BY <1>1, <2>1
    <3> QED BY <1>1, <3>1 DEF ToSet
  <2> QED BY <1>1, <2>1
<1>3. ASSUME NEW i \in 1 .. Len(s) - 1 PROVE t[i] \in ToSet(s)
  <2>1. i + 1 \in 1 .. Len(s)
    BY <1>1
  <2> QED BY <1>1, <2>1 DEF ToSet
<1>4. ToSet(s) = {Head(s)} \cup ToSet(t)
  <2>1. ToSet(s) \subseteq {Head(s)} \cup ToSet(t)
    BY <1>1, <1>2 DEF ToSet
  <2>2. ToSet(t) \subseteq ToSet(s)
    BY <1>1, <1>3 DEF ToSet
  <2>3. Head(s) \in ToSet(s)
    <3>1. 1 \in 1 .. Len(s)
      BY <1>1
    <3> QED BY <1>1, <3>1 DEF ToSet
  <2> QED BY <2>1, <2>2, <2>3
<1> QED BY <1>1, <1>4 DEF t

LEMMA EmptySet ==
  /\ ToSet(<<>>) = {} /\ IsInjective(<<>>)
  /\ \A T : <<>> \in Seq(T)
<1>1. DOMAIN <<>> = {}
  OBVIOUS
<1> QED BY <1>1 DEF ToSet, IsInjective

(* The loop of Only.                                                        *)
OnlyStates(f, T, s, S) ==
  /\ f \in [0 .. Len(s) -> Seq(T)]
  /\ Only(s, S) = f[Len(s)]
  /\ f[0] = <<>>
  /\ \A n \in 1 .. Len(s) : f[n] = IF s[n] \in S THEN Append(f[n - 1], s[n]) ELSE f[n - 1]

LEMMA OnlyLoop ==
  ASSUME NEW T, NEW s \in Seq(T), NEW S
  PROVE  \E f : OnlyStates(f, T, s, S)
<1> DEFINE N == Len(s)
           Q == Seq(T)
           base == <<>>
           Op(n, t) == IF s[n] \in S THEN Append(t, s[n]) ELSE t
           F == [n \in 1 .. N |-> [t \in Q |-> Op(n, t)]]
           Fits(f) == f = [n \in 0 .. N |-> IF n = 0 THEN base ELSE Op(n, f[n - 1])]
           h == CHOOSE f : Fits(f)
<1>1. N \in Nat
  OBVIOUS
<1>2. base \in Q
  OBVIOUS
<1>3. ASSUME NEW n \in 1 .. N, NEW t \in Q PROVE Op(n, t) \in Q
  <2>1. s[n] \in T
    OBVIOUS
  <2>2. Append(t, s[n]) \in Seq(T)
    BY <2>1
  <2> QED BY <2>2
<1>4. Only(s, S) = h[N]
  BY DEF Only
<1>5. (\E f : Fits(f)) => Fits(h)
  <2> HIDE DEF Fits
  <2> QED OBVIOUS
<1> HIDE DEF h, Op, Q, base, N
<1>6. F \in [1 .. N -> [Q -> Q]]
  BY <1>3
<1>7. PICK g : LoopOf(g, N, Q, base, F)
  <2> HIDE DEF F
  <2> QED BY <1>1, <1>2, <1>6, LoopExists
<1>7a. /\ g \in [0 .. N -> Q] /\ g[0] = base
      /\ \A n \in 1 .. N : g[n] = F[n][g[n - 1]]
  BY <1>7 DEF LoopOf
<1>8. ASSUME NEW n \in 0 .. N PROVE g[n] = IF n = 0 THEN base ELSE Op(n, g[n - 1])
  <2>1. CASE n = 0
    BY <1>7a, <2>1
  <2>2. CASE n # 0
    <3>1. n \in 1 .. N /\ n - 1 \in 0 .. N
      BY <1>1, <2>2
    <3>2. g[n - 1] \in Q /\ g[n] = F[n][g[n - 1]]
      BY <1>7a, <3>1
    <3> QED BY <2>2, <3>1, <3>2
  <2> QED BY <2>1, <2>2
<1>9. Fits(g)
  <2>1. g = [n \in 0 .. N |-> g[n]]
    BY <1>7a
  <2> QED BY <1>8, <2>1
<1>10. Fits(h)
  BY <1>5, <1>9
<1>11. /\ h = [n \in 0 .. N |-> h[n]]
       /\ \A n \in 0 .. N : h[n] = IF n = 0 THEN base ELSE Op(n, h[n - 1])
  BY <1>10
<1>12. h[0] = base /\ \A n \in 1 .. N : h[n] = Op(n, h[n - 1])
  <2>1. 0 \in 0 .. N
    BY <1>1
  <2>2. \A n \in 1 .. N : n \in 0 .. N /\ n # 0
    BY <1>1
  <2> QED BY <1>11, <2>1, <2>2
<1>13. ASSUME NEW n \in 1 .. N, h[n - 1] \in Q PROVE h[n] \in Q
  BY <1>3, <1>12, <1>13
<1>14. \A n \in 0 .. N : h[n] \in Q
  BY <1>1, <1>2, <1>12, <1>13, LoopKeeps
<1>15. h \in [0 .. N -> Q]
  BY <1>11, <1>14
<1>16. OnlyStates(h, T, s, S)
  BY <1>4, <1>12, <1>15 DEF N, Q, base, Op, OnlyStates
<1> QED BY <1>16

(* What Only takes are the items of the set.                                *)
LEMMA OnlyIs ==
  ASSUME NEW T, NEW s \in Seq(T), NEW S
  PROVE  /\ Only(s, S) \in Seq(T)
         /\ ToSet(Only(s, S)) = ToSet(s) \cap S
         /\ IsInjective(s) => IsInjective(Only(s, S))
<1> DEFINE N == Len(s)
<1>0. PICK f : OnlyStates(f, T, s, S)
  BY OnlyLoop
<1>1. /\ f \in [0 .. N -> Seq(T)]
      /\ Only(s, S) = f[N]
      /\ f[0] = <<>>
      /\ \A n \in 1 .. N : f[n] = IF s[n] \in S THEN Append(f[n - 1], s[n]) ELSE f[n - 1]
  BY <1>0 DEF OnlyStates
<1>2. N \in Nat /\ DOMAIN s = 1 .. N /\ \A n \in 1 .. N : s[n] \in T
  OBVIOUS
<1> DEFINE Up(n) == {s[i] : i \in 1 .. n}
           G == {n \in 0 .. N : /\ ToSet(f[n]) = Up(n) \cap S
                                /\ IsInjective(s) => IsInjective(f[n])}
<1>3. 0 \in G
  <2>1. DOMAIN f[0] = {} /\ ToSet(f[0]) = {}
    BY <1>1 DEF ToSet
  <2>2. Up(0) = {}
    OBVIOUS
  <2>3. IsInjective(f[0])
    BY <2>1 DEF IsInjective
  <2> QED BY <1>2, <2>1, <2>2, <2>3
<1>4. ASSUME NEW n \in 0 .. N, n \in G, n < N PROVE n + 1 \in G
  <2>1. n + 1 \in 1 .. N /\ (n + 1) - 1 = n
    BY <1>2, <1>4
  <2>2. Up(n + 1) = Up(n) \cup {s[n + 1]}
    <3>1. \A i : i \in 1 .. n + 1 <=> i \in 1 .. n \/ i = n + 1
      OBVIOUS
    <3> QED BY <3>1
  <2>3. f[n] \in Seq(T) /\ s[n + 1] \in T
    BY <1>1, <1>2, <2>1
  <2>4. CASE s[n + 1] \in S
    <3>1. f[n + 1] = Append(f[n], s[n + 1])
      BY <1>1, <2>1, <2>4
    <3>2. /\ ToSet(f[n + 1]) = ToSet(f[n]) \cup {s[n + 1]}
          /\ IsInjective(f[n]) /\ s[n + 1] \notin ToSet(f[n]) => IsInjective(f[n + 1])
      BY <2>3, <3>1, AppendSet
    <3>3. IsInjective(s) => s[n + 1] \notin Up(n)
      BY <1>2, <2>1 DEF IsInjective
    <3> HIDE DEF Up
    <3> QED BY <1>4, <2>1, <2>2, <2>4, <3>2, <3>3
  <2>5. CASE s[n + 1] \notin S
    <3>1. f[n + 1] = f[n]
      BY <1>1, <2>1, <2>5
    <3> HIDE DEF Up
    <3> QED BY <1>4, <2>1, <2>2, <2>5, <3>1
  <2> QED BY <2>4, <2>5
<1>5. \A n \in 0 .. N : n \in G
  <2>1. \A n \in 0 .. N : n \in G /\ n < N => n + 1 \in G
    BY <1>4
  <2> HIDE DEF G, N
  <2> QED BY <1>2, <1>3, <2>1, UpTo
<1>6. N \in G
  BY <1>2, <1>5
<1>7. Up(N) = ToSet(s)
  BY <1>2 DEF ToSet
<1>8. f[N] \in Seq(T)
  BY <1>1, <1>2
<1> HIDE DEF Up
<1> QED BY <1>1, <1>6, <1>7, <1>8

-----------------------------------------------------------------------------
(* The tree.                                                                *)

(* The rounds of Closure.                                                   *)
ClosureStates(f, next, S) ==
  /\ f \in [0 .. Cardinality(Groups) -> (SUBSET Groups)]
  /\ Closure(next, S) = f[Cardinality(Groups)]
  /\ f[0] = S
  /\ \A n \in 1 .. Cardinality(Groups) : f[n] = f[n - 1] \cup UNION {next[g] : g \in f[n - 1]}

LEMMA ClosureLoop ==
  ASSUME NEW next \in [Groups -> SUBSET Groups], NEW S \in SUBSET Groups
  PROVE  \E f : ClosureStates(f, next, S)
<1> DEFINE N == Cardinality(Groups)
           Q == (SUBSET Groups)
           base == S
           Op(n, t) == t \cup UNION {next[g] : g \in t}
           F == [n \in 1 .. N |-> [t \in Q |-> Op(n, t)]]
           Fits(f) == f = [n \in 0 .. N |-> IF n = 0 THEN base ELSE Op(n, f[n - 1])]
           h == CHOOSE f : Fits(f)
<1>1. N \in Nat
  BY GroupAssumption, FS_CardinalityType
<1>2. base \in Q
  OBVIOUS
<1>3. ASSUME NEW n \in 1 .. N, NEW t \in Q PROVE Op(n, t) \in Q
  <2>1. \A g \in t : next[g] \in SUBSET Groups
    OBVIOUS
  <2> QED BY <2>1
<1>4. Closure(next, S) = h[N]
  BY DEF Closure
<1>5. (\E f : Fits(f)) => Fits(h)
  <2> HIDE DEF Fits
  <2> QED OBVIOUS
<1> HIDE DEF h, Op, Q, base, N
<1>6. F \in [1 .. N -> [Q -> Q]]
  BY <1>3
<1>7. PICK g : LoopOf(g, N, Q, base, F)
  <2> HIDE DEF F
  <2> QED BY <1>1, <1>2, <1>6, LoopExists
<1>7a. /\ g \in [0 .. N -> Q] /\ g[0] = base
      /\ \A n \in 1 .. N : g[n] = F[n][g[n - 1]]
  BY <1>7 DEF LoopOf
<1>8. ASSUME NEW n \in 0 .. N PROVE g[n] = IF n = 0 THEN base ELSE Op(n, g[n - 1])
  <2>1. CASE n = 0
    BY <1>7a, <2>1
  <2>2. CASE n # 0
    <3>1. n \in 1 .. N /\ n - 1 \in 0 .. N
      BY <1>1, <2>2
    <3>2. g[n - 1] \in Q /\ g[n] = F[n][g[n - 1]]
      BY <1>7a, <3>1
    <3> QED BY <2>2, <3>1, <3>2
  <2> QED BY <2>1, <2>2
<1>9. Fits(g)
  <2>1. g = [n \in 0 .. N |-> g[n]]
    BY <1>7a
  <2> QED BY <1>8, <2>1
<1>10. Fits(h)
  BY <1>5, <1>9
<1>11. /\ h = [n \in 0 .. N |-> h[n]]
       /\ \A n \in 0 .. N : h[n] = IF n = 0 THEN base ELSE Op(n, h[n - 1])
  BY <1>10
<1>12. h[0] = base /\ \A n \in 1 .. N : h[n] = Op(n, h[n - 1])
  <2>1. 0 \in 0 .. N
    BY <1>1
  <2>2. \A n \in 1 .. N : n \in 0 .. N /\ n # 0
    BY <1>1
  <2> QED BY <1>11, <2>1, <2>2
<1>13. ASSUME NEW n \in 1 .. N, h[n - 1] \in Q PROVE h[n] \in Q
  BY <1>3, <1>12, <1>13
<1>14. \A n \in 0 .. N : h[n] \in Q
  BY <1>1, <1>2, <1>12, <1>13, LoopKeeps
<1>15. h \in [0 .. N -> Q]
  BY <1>11, <1>14
<1>16. ClosureStates(h, next, S)
  BY <1>4, <1>12, <1>15 DEF N, Q, base, Op, ClosureStates
<1> QED BY <1>16

Closed(next, T) == \A g \in T : next[g] \subseteq T

(* A closure is the least set that holds what it starts from and what its   *)
(* members hold.                                                            *)
LEMMA ClosureIs ==
  ASSUME NEW next \in [Groups -> SUBSET Groups], NEW S \in SUBSET Groups
  PROVE  /\ Closure(next, S) \in SUBSET Groups
         /\ S \subseteq Closure(next, S)
         /\ Closed(next, Closure(next, S))
         /\ \A T \in SUBSET Groups : S \subseteq T /\ Closed(next, T) => Closure(next, S) \subseteq T
<1> DEFINE N == Cardinality(Groups)
<1>0. PICK f : ClosureStates(f, next, S)
  BY ClosureLoop
<1>1. /\ f \in [0 .. N -> SUBSET Groups]
      /\ Closure(next, S) = f[N]
      /\ f[0] = S
      /\ \A n \in 1 .. N : f[n] = f[n - 1] \cup UNION {next[g] : g \in f[n - 1]}
  BY <1>0 DEF ClosureStates
<1>2. N \in Nat
  BY GroupAssumption, FS_CardinalityType
<1> HIDE DEF N
<1>3. \A n \in 0 .. N : n < N => f[n + 1] = f[n] \cup UNION {next[g] : g \in f[n]}
  <2>1. \A n \in 0 .. N : n < N => n + 1 \in 1 .. N /\ (n + 1) - 1 = n
    BY <1>2
  <2> QED BY <1>1, <2>1
<1>4. S \subseteq f[N]
  <2> DEFINE G == {n \in 0 .. N : S \subseteq f[n]}
  <2>1. 0 \in G
    BY <1>1, <1>2
  <2>2. \A n \in 0 .. N : n \in G /\ n < N => n + 1 \in G
    BY <1>2, <1>3
  <2> HIDE DEF G
  <2>3. \A n \in 0 .. N : n \in G
    BY <1>2, <2>1, <2>2, UpTo
  <2>4. N \in 0 .. N
    BY <1>2
  <2> QED BY <2>3, <2>4 DEF G
<1>5. ASSUME NEW T \in SUBSET Groups, S \subseteq T, Closed(next, T) PROVE f[N] \subseteq T
  <2> DEFINE G == {n \in 0 .. N : f[n] \subseteq T}
  <2>1. 0 \in G
    BY <1>1, <1>2, <1>5
  <2>2. ASSUME NEW n \in 0 .. N, n \in G, n < N PROVE n + 1 \in G
    <3>1. f[n + 1] = f[n] \cup UNION {next[g] : g \in f[n]} /\ f[n] \subseteq T
      BY <1>3, <2>2
    <3>2. \A g \in f[n] : next[g] \subseteq T
      BY <1>5, <3>1 DEF Closed
    <3>3. f[n + 1] \subseteq T
      BY <3>1, <3>2
    <3> QED BY <1>2, <2>2, <3>3
  <2>3. \A n \in 0 .. N : n \in G /\ n < N => n + 1 \in G
    BY <2>2
  <2> HIDE DEF G
  <2>4. \A n \in 0 .. N : n \in G
    BY <1>2, <2>1, <2>3, UpTo
  <2>5. N \in 0 .. N
    BY <1>2
  <2> QED BY <2>4, <2>5 DEF G
<1>6. Closed(next, f[N])
  <2> DEFINE G == {n \in 0 .. N : Closed(next, f[n]) \/ Cardinality(f[n]) >= n}
  <2>0. \A n \in 0 .. N : IsFiniteSet(f[n]) /\ Cardinality(f[n]) \in Nat
    BY <1>1, GroupAssumption, FS_Subset, FS_CardinalityType
  <2>1. 0 \in G
    BY <1>2, <2>0
  <2>2. ASSUME NEW n \in 0 .. N, n \in G, n < N PROVE n + 1 \in G
    <3>1. f[n + 1] = f[n] \cup UNION {next[g] : g \in f[n]} /\ n + 1 \in 0 .. N
      BY <1>2, <1>3, <2>2
    <3>2. CASE Closed(next, f[n])
      <4>1. f[n + 1] = f[n]
        BY <3>1, <3>2 DEF Closed
      <4> QED BY <3>1, <3>2, <4>1
    <3>3. CASE ~Closed(next, f[n])
      <4>1. f[n + 1] # f[n] /\ f[n] \subseteq f[n + 1]
        BY <3>1, <3>3 DEF Closed
      <4>2. Cardinality(f[n]) < Cardinality(f[n + 1])
        <5>1. /\ IsFiniteSet(f[n + 1]) /\ f[n] \in SUBSET f[n + 1]
              /\ Cardinality(f[n]) \in Nat /\ Cardinality(f[n + 1]) \in Nat
          BY <2>0, <3>1, <4>1
        <5>2. /\ Cardinality(f[n]) <= Cardinality(f[n + 1])
              /\ Cardinality(f[n]) = Cardinality(f[n + 1]) => f[n] = f[n + 1]
          BY <5>1, FS_Subset
        <5> QED BY <4>1, <5>1, <5>2
      <4>3. Cardinality(f[n + 1]) >= n + 1
        <5>1. Cardinality(f[n]) >= n
          BY <2>2, <3>3
        <5>2. Cardinality(f[n]) \in Nat /\ Cardinality(f[n + 1]) \in Nat /\ n \in Nat
          <6>1. n \in 0 .. N /\ n + 1 \in 0 .. N
            BY <3>1
          <6>2. n \in Nat
            BY <1>2
          <6> QED BY <2>0, <6>1, <6>2
        <5> QED BY <4>2, <5>1, <5>2
      <4> QED BY <3>1, <4>3
    <3> QED BY <3>2, <3>3
  <2>3. \A n \in 0 .. N : n \in G /\ n < N => n + 1 \in G
    BY <2>2
  <2> HIDE DEF G
  <2>4. \A n \in 0 .. N : n \in G
    BY <1>2, <2>1, <2>3, UpTo
  <2>5. N \in 0 .. N
    BY <1>2
  <2>6. Closed(next, f[N]) \/ Cardinality(f[N]) >= N
    BY <2>4, <2>5 DEF G
  <2>7. ASSUME Cardinality(f[N]) >= N PROVE f[N] = Groups
    <3>1. f[N] \in SUBSET Groups
      BY <1>1, <2>5
    <3>2. Cardinality(f[N]) <= N /\ (Cardinality(f[N]) = N => f[N] = Groups)
      BY <2>0, <2>5, <3>1, GroupAssumption, FS_Subset DEF N
    <3> QED BY <1>2, <2>0, <2>5, <2>7, <3>2
  <2>8. Closed(next, Groups)
    BY DEF Closed
  <2> QED BY <2>6, <2>7, <2>8
<1>7. f[N] \in SUBSET Groups
  BY <1>1, <1>2
<1> QED BY <1>1, <1>4, <1>5, <1>6, <1>7

-----------------------------------------------------------------------------
(* Collections.                                                             *)

(* A set of numbers that are no more than ten has a greatest one.           *)
LEMMA GreatestNatural ==
  ASSUME NEW S \in SUBSET (0 .. 10), S # {}
  PROVE  \E k \in S : \A j \in S : j <= k
<1> DEFINE R == {10 - k : k \in S}
<1>1. R \in SUBSET Nat /\ R # {}
  <2>1. \A k \in S : k \in 0 .. 10
    OBVIOUS
  <2>2. \A k \in S : 10 - k \in Nat
    BY <2>1
  <2>3. PICK k : k \in S
    OBVIOUS
  <2> QED BY <2>2, <2>3
<1>2. PICK r \in R : \A j \in R : r <= j
  <2> HIDE DEF R
  <2> QED BY <1>1, LeastNatural
<1>3. PICK k \in S : r = 10 - k
  BY <1>2
<1>4. ASSUME NEW j \in S PROVE j <= k
  <2>1. 10 - j \in R
    OBVIOUS
  <2>2. 10 - k <= 10 - j
    BY <1>2, <1>3, <2>1
  <2> QED BY <2>2
<1> QED BY <1>3, <1>4

(* The best of a list of places, and the first of the best, exist.          *)
LEMMA FirstBest ==
  ASSUME NEW N \in Nat \ {0}, NEW f \in [1 .. N -> 0 .. 10]
  PROVE  \E k \in 1 .. N : \A j \in 1 .. N : f[k] > f[j] \/ (f[k] = f[j] /\ k <= j)
<1> DEFINE S == {f[k] : k \in 1 .. N}
<1>1. S \in SUBSET (0 .. 10) /\ S # {}
  <2>1. 1 \in 1 .. N
    OBVIOUS
  <2> QED BY <2>1
<1>2. PICK b \in S : \A j \in S : j <= b
  <2> HIDE DEF S
  <2> QED BY <1>1, GreatestNatural
<1> DEFINE K == {k \in 1 .. N : f[k] = b}
<1>3. K \in SUBSET Nat /\ K # {}
  BY <1>2
<1>4. PICK k \in K : \A j \in K : k <= j
  <2> HIDE DEF K
  <2> QED BY <1>3, LeastNatural
<1>5. ASSUME NEW j \in 1 .. N PROVE f[k] > f[j] \/ (f[k] = f[j] /\ k <= j)
  <2>1. f[j] <= b /\ f[k] = b /\ f[j] \in Nat /\ b \in Nat
    <3>1. f[j] \in S /\ f[j] \in 0 .. 10 /\ b \in 0 .. 10
      BY <1>1
    <3> QED BY <1>2, <1>4, <3>1
  <2>2. CASE f[j] = b
    <3>1. j \in K
      BY <2>2
    <3> QED BY <1>4, <2>1, <2>2, <3>1
  <2>3. CASE f[j] # b
    BY <2>1, <2>3
  <2> QED BY <2>2, <2>3
<1>6. k \in 1 .. N
  BY <1>4
<1> QED BY <1>5, <1>6

(* The place found for an item is one of the list, or the end.              *)
LEMMA InsertPlace ==
  ASSUME NEW T, NEW dst \in Seq(T), NEW src, NEW i
  PROVE  FindInsertIx(dst, src, i) \in 1 .. Len(dst) + 1
<1> DEFINE At(s, k) == IF k \in 1..Len(s) THEN s[k] ELSE None
           Match(a, b, end) == IF a = None /\ b = None THEN end ELSE IF a = b THEN 5 ELSE 0
           Score(k) == Match(At(src, i - 1), At(dst, k - 1), 1) + Match(At(src, i + 1), At(dst, k), 2)
           N == Len(dst) + 1
           f == [k \in 1 .. N |-> Score(k)]
<1>1. N \in Nat \ {0}
  OBVIOUS
<1>2. f \in [1 .. N -> 0 .. 10]
  <2>1. \A a, b : Match(a, b, 1) \in {0, 1, 5}
    OBVIOUS
  <2>2. \A a, b : Match(a, b, 2) \in {0, 2, 5}
    OBVIOUS
  <2> HIDE DEF Match, At, N
  <2>3. \A k : Score(k) \in 0 .. 10
    <3>1. TAKE k
    <3>2. /\ Match(At(src, i - 1), At(dst, k - 1), 1) \in {0, 1, 5}
          /\ Match(At(src, i + 1), At(dst, k), 2) \in {0, 2, 5}
      BY <2>1, <2>2
    <3> QED BY <3>2
  <2> HIDE DEF Score
  <2> QED BY <2>3
<1>3. \E k \in 1 .. N : \A j \in 1 .. N : f[k] > f[j] \/ (f[k] = f[j] /\ k <= j)
  <2> HIDE DEF f, N
  <2> QED BY <1>1, <1>2, FirstBest
<1>4. FindInsertIx(dst, src, i) =
        CHOOSE k \in 1 .. N : \A j \in 1 .. N : Score(k) > Score(j) \/ (Score(k) = Score(j) /\ k <= j)
  BY DEF FindInsertIx
<1>5. \E k \in 1 .. N : \A j \in 1 .. N : Score(k) > Score(j) \/ (Score(k) = Score(j) /\ k <= j)
  <2> HIDE DEF Score
  <2> QED BY <1>3
<1> HIDE DEF Score, N, f
<1>6. FindInsertIx(dst, src, i) \in 1 .. N
  BY <1>4, <1>5
<1> QED BY <1>6 DEF N

(* The rounds of MergeCollection.                                           *)
CollectionStates(f, T, x, mine, theirs) ==
  /\ f \in [0 .. Len(theirs) -> Seq(T)]
  /\ MergeCollection(x, mine, theirs) = f[Len(theirs)]
  /\ f[0] = Only(mine, {o \in Objects : Stays(x, o)})
  /\ \A n \in 1 .. Len(theirs) : f[n] = IF Comes(x, theirs[n]) THEN InsertAt(f[n - 1], FindInsertIx(f[n - 1], theirs, n), theirs[n]) ELSE f[n - 1]

LEMMA CollectionLoop ==
  ASSUME NEW T \in SUBSET Objects, NEW x, NEW mine \in Seq(T), NEW theirs \in Seq(T)
  PROVE  \E f : CollectionStates(f, T, x, mine, theirs)
<1> DEFINE N == Len(theirs)
           Q == Seq(T)
           base == Only(mine, {o \in Objects : Stays(x, o)})
           Op(n, t) == IF Comes(x, theirs[n]) THEN InsertAt(t, FindInsertIx(t, theirs, n), theirs[n]) ELSE t
           F == [n \in 1 .. N |-> [t \in Q |-> Op(n, t)]]
           Fits(f) == f = [n \in 0 .. N |-> IF n = 0 THEN base ELSE Op(n, f[n - 1])]
           h == CHOOSE f : Fits(f)
<1>1. N \in Nat
  OBVIOUS
<1>2. base \in Q
  BY OnlyIs
<1>3. ASSUME NEW n \in 1 .. N, NEW t \in Q PROVE Op(n, t) \in Q
  <2>1. theirs[n] \in T
    OBVIOUS
  <2>2. FindInsertIx(t, theirs, n) \in 1 .. Len(t) + 1
    BY InsertPlace
  <2>3. InsertAt(t, FindInsertIx(t, theirs, n), theirs[n]) \in Seq(T)
    BY <2>1, <2>2, InsertSet
  <2> QED BY <2>3
<1>4. MergeCollection(x, mine, theirs) = h[N]
  BY DEF MergeCollection
<1>5. (\E f : Fits(f)) => Fits(h)
  <2> HIDE DEF Fits
  <2> QED OBVIOUS
<1> HIDE DEF h, Op, Q, base, N
<1>6. F \in [1 .. N -> [Q -> Q]]
  BY <1>3
<1>7. PICK g : LoopOf(g, N, Q, base, F)
  <2> HIDE DEF F
  <2> QED BY <1>1, <1>2, <1>6, LoopExists
<1>7a. /\ g \in [0 .. N -> Q] /\ g[0] = base
      /\ \A n \in 1 .. N : g[n] = F[n][g[n - 1]]
  BY <1>7 DEF LoopOf
<1>8. ASSUME NEW n \in 0 .. N PROVE g[n] = IF n = 0 THEN base ELSE Op(n, g[n - 1])
  <2>1. CASE n = 0
    BY <1>7a, <2>1
  <2>2. CASE n # 0
    <3>1. n \in 1 .. N /\ n - 1 \in 0 .. N
      BY <1>1, <2>2
    <3>2. g[n - 1] \in Q /\ g[n] = F[n][g[n - 1]]
      BY <1>7a, <3>1
    <3> QED BY <2>2, <3>1, <3>2
  <2> QED BY <2>1, <2>2
<1>9. Fits(g)
  <2>1. g = [n \in 0 .. N |-> g[n]]
    BY <1>7a
  <2> QED BY <1>8, <2>1
<1>10. Fits(h)
  BY <1>5, <1>9
<1>11. /\ h = [n \in 0 .. N |-> h[n]]
       /\ \A n \in 0 .. N : h[n] = IF n = 0 THEN base ELSE Op(n, h[n - 1])
  BY <1>10
<1>12. h[0] = base /\ \A n \in 1 .. N : h[n] = Op(n, h[n - 1])
  <2>1. 0 \in 0 .. N
    BY <1>1
  <2>2. \A n \in 1 .. N : n \in 0 .. N /\ n # 0
    BY <1>1
  <2> QED BY <1>11, <2>1, <2>2
<1>13. ASSUME NEW n \in 1 .. N, h[n - 1] \in Q PROVE h[n] \in Q
  BY <1>3, <1>12, <1>13
<1>14. \A n \in 0 .. N : h[n] \in Q
  BY <1>1, <1>2, <1>12, <1>13, LoopKeeps
<1>15. h \in [0 .. N -> Q]
  BY <1>11, <1>14
<1>16. CollectionStates(h, T, x, mine, theirs)
  BY <1>4, <1>12, <1>15 DEF N, Q, base, Op, CollectionStates
<1> QED BY <1>16

(* The collection of a group after its merge: what stays and what comes, and *)
(* each once if no item does both.                                          *)
LEMMA MergeCollectionIs ==
  ASSUME NEW T \in SUBSET Objects, NEW x, NEW mine \in Seq(T), NEW theirs \in Seq(T)
  PROVE  /\ MergeCollection(x, mine, theirs) \in Seq(T)
         /\ ToSet(MergeCollection(x, mine, theirs)) =
               {o \in ToSet(mine) : Stays(x, o)} \cup {o \in ToSet(theirs) : Comes(x, o)}
         /\ /\ IsInjective(mine) /\ IsInjective(theirs)
            /\ \A o \in ToSet(mine) \cap ToSet(theirs) : ~(Stays(x, o) /\ Comes(x, o))
            => IsInjective(MergeCollection(x, mine, theirs))
<1> DEFINE N == Len(theirs)
           start == Only(mine, {o \in Objects : Stays(x, o)})
           New(n) == {theirs[j] : j \in {i \in 1 .. n : Comes(x, theirs[i])}}
           Once == /\ IsInjective(mine) /\ IsInjective(theirs)
                   /\ \A o \in ToSet(mine) \cap ToSet(theirs) : ~(Stays(x, o) /\ Comes(x, o))
<1>0. PICK f : CollectionStates(f, T, x, mine, theirs)
  BY CollectionLoop
<1>1. /\ f \in [0 .. N -> Seq(T)]
      /\ MergeCollection(x, mine, theirs) = f[N]
      /\ f[0] = start
      /\ \A n \in 1 .. N : f[n] = IF Comes(x, theirs[n])
                                  THEN InsertAt(f[n - 1], FindInsertIx(f[n - 1], theirs, n), theirs[n])
                                  ELSE f[n - 1]
  BY <1>0 DEF CollectionStates
<1>2. /\ start \in Seq(T) /\ ToSet(start) = {o \in ToSet(mine) : Stays(x, o)}
      /\ IsInjective(mine) => IsInjective(start)
  <2>1. ToSet(mine) \subseteq Objects
    BY DEF ToSet
  <2>2. ToSet(start) = ToSet(mine) \cap {o \in Objects : Stays(x, o)}
    BY OnlyIs
  <2>3. start \in Seq(T) /\ (IsInjective(mine) => IsInjective(start))
    BY OnlyIs
  <2> QED BY <2>1, <2>2, <2>3
<1>3. N \in Nat /\ DOMAIN theirs = 1 .. N /\ \A n \in 1 .. N : theirs[n] \in T
  OBVIOUS
<1> HIDE DEF N, start, New
<1> DEFINE G == {n \in 0 .. N : /\ ToSet(f[n]) = ToSet(start) \cup New(n)
                                /\ Once => IsInjective(f[n])}
<1>4. 0 \in G
  <2>1. New(0) = {}
    BY DEF New
  <2> QED BY <1>1, <1>2, <1>3, <2>1
<1>5. ASSUME NEW n \in 0 .. N, n \in G, n < N PROVE n + 1 \in G
  <2>1. n + 1 \in 1 .. N /\ (n + 1) - 1 = n /\ n + 1 \in 0 .. N
    BY <1>3, <1>5
  <2>2. f[n + 1] = IF Comes(x, theirs[n + 1])
                   THEN InsertAt(f[n], FindInsertIx(f[n], theirs, n + 1), theirs[n + 1])
                   ELSE f[n]
    BY <1>1, <2>1
  <2>3. f[n] \in Seq(T) /\ theirs[n + 1] \in T
    BY <1>1, <1>3, <2>1
  <2>4. New(n + 1) = IF Comes(x, theirs[n + 1]) THEN New(n) \cup {theirs[n + 1]} ELSE New(n)
    <3>1. \A i : i \in 1 .. n + 1 <=> i \in 1 .. n \/ i = n + 1
      BY <1>3
    <3> QED BY <3>1 DEF New
  <2>5. CASE Comes(x, theirs[n + 1])
    <3>1. FindInsertIx(f[n], theirs, n + 1) \in 1 .. Len(f[n]) + 1
      BY <2>3, InsertPlace
    <3>2. /\ ToSet(f[n + 1]) = ToSet(f[n]) \cup {theirs[n + 1]}
          /\ IsInjective(f[n]) /\ theirs[n + 1] \notin ToSet(f[n]) => IsInjective(f[n + 1])
      BY <2>2, <2>3, <2>5, <3>1, InsertSet
    <3>3. ASSUME Once PROVE theirs[n + 1] \notin ToSet(f[n])
      <4>1. theirs[n + 1] \in ToSet(theirs)
        BY <1>3, <2>1 DEF ToSet
      <4>2. theirs[n + 1] \notin ToSet(start)
        BY <1>2, <2>5, <3>3, <4>1
      <4>3. theirs[n + 1] \notin New(n)
        <5>1. ASSUME NEW i \in 1 .. n, theirs[i] = theirs[n + 1] PROVE FALSE
          <6>1. i \in 1 .. N /\ i # n + 1
            BY <1>3, <2>1
          <6> QED BY <1>3, <2>1, <3>3, <5>1, <6>1 DEF IsInjective
        <5> QED BY <5>1 DEF New
      <4> QED BY <1>5, <4>2, <4>3
    <3> QED BY <1>5, <2>1, <2>4, <2>5, <3>2, <3>3
  <2>6. CASE ~Comes(x, theirs[n + 1])
    <3>1. f[n + 1] = f[n] /\ New(n + 1) = New(n)
      BY <2>2, <2>4, <2>6
    <3> QED BY <1>5, <2>1, <3>1
  <2> QED BY <2>5, <2>6
<1>6. \A n \in 0 .. N : n \in G /\ n < N => n + 1 \in G
  BY <1>5
<1>7. N \in G
  <2> HIDE DEF G
  <2>1. \A n \in 0 .. N : n \in G
    BY <1>3, <1>4, <1>6, UpTo
  <2>2. N \in 0 .. N
    BY <1>3
  <2> QED BY <2>1, <2>2
<1>8. ToSet(f[N]) = ToSet(start) \cup New(N) /\ (Once => IsInjective(f[N])) /\ f[N] \in Seq(T)
  BY <1>1, <1>7
<1>9. New(N) = {o \in ToSet(theirs) : Comes(x, o)}
  BY <1>3 DEF New, ToSet
<1> QED BY <1>1, <1>2, <1>8, <1>9

-----------------------------------------------------------------------------
(* History.                                                                 *)

Times(s) == {v.at : v \in ToSet(s)}

(* The rank of a version in a sorted history is a place of it, or its end.  *)
LEMMA RankIs ==
  ASSUME NEW N \in Nat, NEW R \in SUBSET (1 .. N)
  PROVE  1 + Cardinality(R) \in 1 .. N + 1
<1>1. IsFiniteSet(1 .. N) /\ Cardinality(1 .. N) = N
  <2>1. Cardinality(1 .. N) = IF 1 > N THEN 0 ELSE N - 1 + 1
    BY FS_Interval
  <2>2. IsFiniteSet(1 .. N)
    BY FS_Interval
  <2> QED BY <2>1, <2>2
<1>2. Cardinality(R) <= Cardinality(1 .. N) /\ IsFiniteSet(R)
  BY <1>1, FS_Subset
<1>3. Cardinality(R) \in Nat
  BY <1>2, FS_CardinalityType
<1> QED BY <1>1, <1>2, <1>3

(* The rounds of Sorted.                                                    *)
SortedStates(f, T, s) ==
  /\ f \in [0 .. Len(s) -> Seq(T)]
  /\ Sorted(s) = f[Len(s)]
  /\ f[0] = <<>>
  /\ \A n \in 1 .. Len(s) : f[n] = InsertAt(f[n - 1], 1 + Cardinality({j \in 1 .. Len(f[n - 1]) : f[n - 1][j].at <= s[n].at}), s[n])

LEMMA SortedLoop ==
  ASSUME NEW T, NEW s \in Seq(T)
  PROVE  \E f : SortedStates(f, T, s)
<1> DEFINE N == Len(s)
           Q == Seq(T)
           base == <<>>
           Op(n, t) == InsertAt(t, 1 + Cardinality({j \in 1 .. Len(t) : t[j].at <= s[n].at}), s[n])
           F == [n \in 1 .. N |-> [t \in Q |-> Op(n, t)]]
           Fits(f) == f = [n \in 0 .. N |-> IF n = 0 THEN base ELSE Op(n, f[n - 1])]
           h == CHOOSE f : Fits(f)
<1>1. N \in Nat
  OBVIOUS
<1>2. base \in Q
  OBVIOUS
<1>3. ASSUME NEW n \in 1 .. N, NEW t \in Q PROVE Op(n, t) \in Q
  <2>1. s[n] \in T /\ Len(t) \in Nat
    OBVIOUS
  <2>2. {j \in 1 .. Len(t) : t[j].at <= s[n].at} \in SUBSET (1 .. Len(t))
    OBVIOUS
  <2>3. 1 + Cardinality({j \in 1 .. Len(t) : t[j].at <= s[n].at}) \in 1 .. Len(t) + 1
    BY <2>1, <2>2, RankIs
  <2> QED BY <2>1, <2>3, InsertSet
<1>4. Sorted(s) = h[N]
  BY DEF Sorted
<1>5. (\E f : Fits(f)) => Fits(h)
  <2> HIDE DEF Fits
  <2> QED OBVIOUS
<1> HIDE DEF h, Op, Q, base, N
<1>6. F \in [1 .. N -> [Q -> Q]]
  BY <1>3
<1>7. PICK g : LoopOf(g, N, Q, base, F)
  <2> HIDE DEF F
  <2> QED BY <1>1, <1>2, <1>6, LoopExists
<1>7a. /\ g \in [0 .. N -> Q] /\ g[0] = base
      /\ \A n \in 1 .. N : g[n] = F[n][g[n - 1]]
  BY <1>7 DEF LoopOf
<1>8. ASSUME NEW n \in 0 .. N PROVE g[n] = IF n = 0 THEN base ELSE Op(n, g[n - 1])
  <2>1. CASE n = 0
    BY <1>7a, <2>1
  <2>2. CASE n # 0
    <3>1. n \in 1 .. N /\ n - 1 \in 0 .. N
      BY <1>1, <2>2
    <3>2. g[n - 1] \in Q /\ g[n] = F[n][g[n - 1]]
      BY <1>7a, <3>1
    <3> QED BY <2>2, <3>1, <3>2
  <2> QED BY <2>1, <2>2
<1>9. Fits(g)
  <2>1. g = [n \in 0 .. N |-> g[n]]
    BY <1>7a
  <2> QED BY <1>8, <2>1
<1>10. Fits(h)
  BY <1>5, <1>9
<1>11. /\ h = [n \in 0 .. N |-> h[n]]
       /\ \A n \in 0 .. N : h[n] = IF n = 0 THEN base ELSE Op(n, h[n - 1])
  BY <1>10
<1>12. h[0] = base /\ \A n \in 1 .. N : h[n] = Op(n, h[n - 1])
  <2>1. 0 \in 0 .. N
    BY <1>1
  <2>2. \A n \in 1 .. N : n \in 0 .. N /\ n # 0
    BY <1>1
  <2> QED BY <1>11, <2>1, <2>2
<1>13. ASSUME NEW n \in 1 .. N, h[n - 1] \in Q PROVE h[n] \in Q
  BY <1>3, <1>12, <1>13
<1>14. \A n \in 0 .. N : h[n] \in Q
  BY <1>1, <1>2, <1>12, <1>13, LoopKeeps
<1>15. h \in [0 .. N -> Q]
  BY <1>11, <1>14
<1>16. SortedStates(h, T, s)
  BY <1>4, <1>12, <1>15 DEF N, Q, base, Op, SortedStates
<1> QED BY <1>16

(* Sorting keeps the versions.                                              *)
LEMMA SortedIs ==
  ASSUME NEW T, NEW s \in Seq(T)
  PROVE  Sorted(s) \in Seq(T) /\ ToSet(Sorted(s)) = ToSet(s)
<1> DEFINE N == Len(s)
           Rank(t, v) == 1 + Cardinality({j \in 1 .. Len(t) : t[j].at <= v.at})
           Up(n) == {s[i] : i \in 1 .. n}
<1>0. PICK f : SortedStates(f, T, s)
  BY SortedLoop
<1>1. /\ f \in [0 .. N -> Seq(T)]
      /\ Sorted(s) = f[N]
      /\ f[0] = <<>>
      /\ \A n \in 1 .. N : f[n] = InsertAt(f[n - 1], Rank(f[n - 1], s[n]), s[n])
  BY <1>0 DEF SortedStates
<1>2. N \in Nat /\ DOMAIN s = 1 .. N /\ \A n \in 1 .. N : s[n] \in T
  OBVIOUS
<1>3. ASSUME NEW t \in Seq(T), NEW v PROVE Rank(t, v) \in 1 .. Len(t) + 1
  BY RankIs
<1> HIDE DEF N, Rank
<1> DEFINE G == {n \in 0 .. N : ToSet(f[n]) = Up(n)}
<1>4. 0 \in G
  <2>1. Up(0) = {}
    OBVIOUS
  <2> QED BY <1>1, <1>2, <2>1, EmptySet
<1>5. ASSUME NEW n \in 0 .. N, n \in G, n < N PROVE n + 1 \in G
  <2>1. n + 1 \in 1 .. N /\ (n + 1) - 1 = n /\ n + 1 \in 0 .. N
    BY <1>2, <1>5
  <2>2. f[n + 1] = InsertAt(f[n], Rank(f[n], s[n + 1]), s[n + 1])
    BY <1>1, <2>1
  <2>3. f[n] \in Seq(T) /\ s[n + 1] \in T
    BY <1>1, <1>2, <2>1
  <2>4. Rank(f[n], s[n + 1]) \in 1 .. Len(f[n]) + 1
    BY <1>3, <2>3
  <2>5. ToSet(f[n + 1]) = ToSet(f[n]) \cup {s[n + 1]}
    BY <2>2, <2>3, <2>4, InsertSet
  <2>6. Up(n + 1) = Up(n) \cup {s[n + 1]}
    <3>1. \A i : i \in 1 .. n + 1 <=> i \in 1 .. n \/ i = n + 1
      BY <1>2
    <3> QED BY <3>1
  <2> QED BY <1>5, <2>1, <2>5, <2>6
<1>6. N \in G
  <2> HIDE DEF G
  <2>1. \A n \in 0 .. N : n \in G
    BY <1>2, <1>4, <1>5, UpTo
  <2>2. N \in 0 .. N
    BY <1>2
  <2> QED BY <2>1, <2>2
<1>7. ToSet(f[N]) = ToSet(s) /\ f[N] \in Seq(T)
  BY <1>1, <1>2, <1>6 DEF ToSet
<1> QED BY <1>1, <1>7

(* The version that goes is no later than any other.                        *)
LEMMA RemoveOldestIs ==
  ASSUME NEW h \in Seq(Stamp), h # <<>>
  PROVE  \E k \in 1 .. Len(h) : /\ RemoveOldest(h) = RemoveAt(h, k)
                                /\ \A j \in 1 .. Len(h) : h[k].at <= h[j].at
<1> DEFINE N == Len(h)
           Oldest(i) == \A j \in 1 .. N : h[i].at < h[j].at \/ (h[i].at = h[j].at /\ i <= j)
           S == {h[i].at : i \in 1 .. N}
<1>1. N \in Nat \ {0} /\ \A i \in 1 .. N : h[i].at \in Nat
  <2>1. N \in Nat \ {0}
    BY EmptySeq
  <2>2. \A i \in 1 .. N : h[i] \in Stamp
    OBVIOUS
  <2>3. \A i \in 1 .. N : h[i].at \in Time
    BY <2>2 DEF Stamp
  <2> QED BY <2>1, <2>3, BoundAssumption DEF Time
<1> HIDE DEF N
<1>2. S \in SUBSET Nat /\ S # {}
  <2>1. 1 \in 1 .. N
    BY <1>1
  <2> QED BY <1>1, <2>1
<1>3. PICK b \in S : \A j \in S : b <= j
  <2> HIDE DEF S
  <2> QED BY <1>2, LeastNatural
<1> DEFINE K == {k \in 1 .. N : h[k].at = b}
<1>4. K \in SUBSET Nat /\ K # {}
  BY <1>3
<1>5. PICK k \in K : \A j \in K : k <= j
  <2> HIDE DEF K
  <2> QED BY <1>4, LeastNatural
<1>6. ASSUME NEW j \in 1 .. N PROVE h[k].at < h[j].at \/ (h[k].at = h[j].at /\ k <= j)
  <2>1. b <= h[j].at /\ h[k].at = b /\ h[j].at \in Nat /\ b \in Nat
    BY <1>1, <1>2, <1>3, <1>5
  <2>2. CASE h[j].at = b
    <3>1. j \in K
      BY <2>2
    <3> QED BY <1>5, <2>1, <2>2, <3>1
  <2>3. CASE h[j].at # b
    BY <2>1, <2>3
  <2> QED BY <2>2, <2>3
<1>7. \E i \in 1 .. N : Oldest(i)
  <2>1. k \in 1 .. N
    BY <1>5
  <2> QED BY <1>6, <2>1
<1>8. RemoveOldest(h) = RemoveAt(h, CHOOSE i \in 1 .. N : Oldest(i))
  BY DEF RemoveOldest, N
<1> DEFINE c == CHOOSE i \in 1 .. N : Oldest(i)
<1>9. c \in 1 .. N /\ Oldest(c)
  <2> HIDE DEF Oldest
  <2> QED BY <1>7
<1> HIDE DEF c
<1>10. \A j \in 1 .. N : h[c].at <= h[j].at
  BY <1>1, <1>9
<1> QED BY <1>8, <1>9, <1>10 DEF N, c

LEMMA RemoveOldestKeeps ==
  ASSUME NEW h \in Seq(Stamp), h # <<>>
  PROVE  /\ RemoveOldest(h) \in Seq(Stamp) /\ Len(RemoveOldest(h)) = Len(h) - 1
         /\ ToSet(RemoveOldest(h)) \subseteq ToSet(h)
         /\ \A v \in ToSet(h) : \/ v \in ToSet(RemoveOldest(h))
                                \/ \A w \in ToSet(RemoveOldest(h)) : v.at <= w.at
<1>1. PICK k \in 1 .. Len(h) : /\ RemoveOldest(h) = RemoveAt(h, k)
                               /\ \A j \in 1 .. Len(h) : h[k].at <= h[j].at
  BY RemoveOldestIs
<1> DEFINE r == RemoveOldest(h)
<1>2. /\ r \in Seq(Stamp) /\ Len(r) = Len(h) - 1
      /\ ToSet(r) = {h[i] : i \in (1 .. Len(h)) \ {k}}
  <2>1. /\ RemoveAt(h, k) \in Seq(Stamp) /\ Len(RemoveAt(h, k)) = Len(h) - 1
        /\ ToSet(RemoveAt(h, k)) = {h[i] : i \in (1 .. Len(h)) \ {k}}
    BY <1>1, RemoveSet
  <2>2. r = RemoveAt(h, k)
    BY <1>1
  <2> HIDE DEF r
  <2> QED BY <2>1, <2>2
<1>3. ToSet(h) = {h[i] : i \in 1 .. Len(h)}
  BY DEF ToSet
<1> HIDE DEF r
<1>4. ASSUME NEW v \in ToSet(h) PROVE v \in ToSet(r) \/ \A w \in ToSet(r) : v.at <= w.at
  <2>1. PICK i \in 1 .. Len(h) : v = h[i]
    BY <1>3
  <2>2. CASE i = k
    BY <1>1, <1>2, <2>1, <2>2
  <2>3. CASE i # k
    BY <1>2, <2>1, <2>3
  <2> QED BY <2>2, <2>3
<1> QED BY <1>2, <1>3, <1>4 DEF r

(* The rounds of MaintainHistory: each leaves one version less.             *)
MaintainStates(f, h) ==
  /\ f \in [0 .. Len(h) -> Seq(Stamp)]
  /\ \A max : MaintainHistory(h, max) = IF Len(h) <= max THEN h ELSE f[Len(h) - max]
  /\ f[0] = h
  /\ \A n \in 1 .. Len(h) : f[n] = RemoveOldest(f[n - 1])
  /\ \A n \in 0 .. Len(h) : Len(f[n]) = Len(h) - n

LEMMA MaintainLoop ==
  ASSUME NEW h \in Seq(Stamp)
  PROVE  \E f : MaintainStates(f, h)
<1> DEFINE N == Len(h)
           Q == Seq(Stamp)
           Op(t) == IF t = <<>> THEN <<>> ELSE RemoveOldest(t)
           F == [n \in 1 .. N |-> [t \in Q |-> Op(t)]]
           Fits(f) == f = [n \in 0 .. N |-> IF n = 0 THEN h ELSE RemoveOldest(f[n - 1])]
           left == CHOOSE f : Fits(f)
<1>1. N \in Nat /\ h \in Q /\ <<>> \in Q
  OBVIOUS
<1>2. ASSUME NEW t \in Q, t # <<>>
      PROVE  RemoveOldest(t) \in Q /\ Len(RemoveOldest(t)) = Len(t) - 1
  BY <1>2, RemoveOldestKeeps
<1>3. ASSUME NEW t \in Q PROVE Op(t) \in Q
  BY <1>1, <1>2
<1>4. \A max : MaintainHistory(h, max) = IF N <= max THEN h ELSE left[N - max]
  BY DEF MaintainHistory
<1>5. (\E f : Fits(f)) => Fits(left)
  <2> HIDE DEF Fits
  <2> QED OBVIOUS
<1>6. \A t \in Q : Len(t) \in Nat /\ (Len(t) = 0 <=> t = <<>>)
  BY EmptySeq
<1>7. Len(h) = N
  OBVIOUS
<1> HIDE DEF left, Q, N
<1>8. F \in [1 .. N -> [Q -> Q]]
  <2> HIDE DEF Op
  <2> QED BY <1>3
<1>9. PICK g : LoopOf(g, N, Q, h, F)
  <2> HIDE DEF F
  <2> QED BY <1>1, <1>8, LoopExists
<1>10. /\ g \in [0 .. N -> Q] /\ g[0] = h
       /\ \A n \in 1 .. N : g[n] = F[n][g[n - 1]]
  BY <1>9 DEF LoopOf
<1>11. \A n \in 0 .. N : Len(g[n]) = N - n
  <2> DEFINE G == {n \in 0 .. N : Len(g[n]) = N - n}
  <2>1. 0 \in G
    BY <1>1, <1>7, <1>10
  <2>2. ASSUME NEW n \in 0 .. N, n \in G, n < N PROVE n + 1 \in G
    <3>1. n + 1 \in 1 .. N /\ (n + 1) - 1 = n /\ n + 1 \in 0 .. N
      BY <1>1, <2>2
    <3>2. g[n] \in Q /\ Len(g[n]) = N - n /\ g[n] # <<>>
      <4>1. g[n] \in Q /\ Len(g[n]) = N - n /\ N - n # 0
        BY <1>1, <1>10, <2>2
      <4> QED BY <1>6, <4>1
    <3>3. g[n + 1] = Op(g[n])
      BY <1>10, <3>1, <3>2
    <3>4. Len(g[n + 1]) = N - (n + 1)
      BY <1>1, <1>2, <3>2, <3>3
    <3> QED BY <3>1, <3>4
  <2> HIDE DEF G
  <2>3. \A n \in 0 .. N : n \in G
    BY <1>1, <2>1, <2>2, UpTo
  <2> QED BY <2>3 DEF G
<1>12. ASSUME NEW n \in 0 .. N PROVE g[n] = IF n = 0 THEN h ELSE RemoveOldest(g[n - 1])
  <2>1. CASE n = 0
    BY <1>10, <2>1
  <2>2. CASE n # 0
    <3>1. n \in 1 .. N /\ n - 1 \in 0 .. N /\ N - (n - 1) # 0
      BY <1>1, <2>2
    <3>2. g[n - 1] \in Q /\ g[n] = F[n][g[n - 1]] /\ Len(g[n - 1]) # 0
      BY <1>10, <1>11, <3>1
    <3>3. g[n - 1] # <<>>
      BY <1>6, <3>2
    <3> QED BY <2>2, <3>1, <3>2, <3>3
  <2> QED BY <2>1, <2>2
<1>13. Fits(left)
  <2>1. g = [n \in 0 .. N |-> g[n]]
    BY <1>10
  <2>2. Fits(g)
    BY <1>12, <2>1
  <2> QED BY <1>5, <2>2
<1>14. /\ left = [n \in 0 .. N |-> left[n]]
       /\ \A n \in 0 .. N : left[n] = IF n = 0 THEN h ELSE RemoveOldest(left[n - 1])
  BY <1>13
<1>15. left[0] = h /\ \A n \in 1 .. N : left[n] = RemoveOldest(left[n - 1])
  <2>1. 0 \in 0 .. N /\ \A n \in 1 .. N : n \in 0 .. N /\ n # 0
    BY <1>1
  <2> QED BY <1>14, <2>1
<1>16. \A n \in 0 .. N : left[n] \in Q /\ Len(left[n]) = N - n
  <2> DEFINE G == {n \in 0 .. N : left[n] \in Q /\ Len(left[n]) = N - n}
  <2>1. 0 \in G
    BY <1>1, <1>7, <1>15
  <2>2. ASSUME NEW n \in 0 .. N, n \in G, n < N PROVE n + 1 \in G
    <3>1. n + 1 \in 1 .. N /\ (n + 1) - 1 = n /\ n + 1 \in 0 .. N
      BY <1>1, <2>2
    <3>2. left[n] \in Q /\ Len(left[n]) = N - n /\ left[n] # <<>>
      <4>1. left[n] \in Q /\ Len(left[n]) = N - n /\ N - n # 0
        BY <1>1, <2>2
      <4> QED BY <1>6, <4>1
    <3>3. left[n + 1] = RemoveOldest(left[n])
      BY <1>15, <3>1
    <3>4. left[n + 1] \in Q /\ Len(left[n + 1]) = N - (n + 1)
      BY <1>1, <1>2, <3>2, <3>3
    <3> QED BY <3>1, <3>4
  <2> HIDE DEF G
  <2>3. \A n \in 0 .. N : n \in G
    BY <1>1, <2>1, <2>2, UpTo
  <2> QED BY <2>3 DEF G
<1>17. left \in [0 .. N -> Q]
  BY <1>14, <1>16
<1>18. MaintainStates(left, h)
  BY <1>4, <1>15, <1>16, <1>17 DEF N, Q, MaintainStates
<1> QED BY <1>18

(* A history that is cut to its maximum loses none but its oldest versions. *)
LEMMA MaintainHistoryIs ==
  ASSUME NEW h \in Seq(Stamp), NEW max \in Nat
  PROVE  /\ MaintainHistory(h, max) \in Seq(Stamp)
         /\ ToSet(MaintainHistory(h, max)) \subseteq ToSet(h)
         /\ \A v \in ToSet(h) :
               \/ v \in ToSet(MaintainHistory(h, max))
               \/ /\ Len(MaintainHistory(h, max)) = max
                  /\ \A w \in ToSet(MaintainHistory(h, max)) : v.at <= w.at
<1> DEFINE N == Len(h)
<1>0. PICK f : MaintainStates(f, h)
  BY MaintainLoop
<1>1. /\ f \in [0 .. N -> Seq(Stamp)]
      /\ MaintainHistory(h, max) = IF N <= max THEN h ELSE f[N - max]
      /\ f[0] = h
      /\ \A n \in 1 .. N : f[n] = RemoveOldest(f[n - 1])
      /\ \A n \in 0 .. N : Len(f[n]) = N - n
  BY <1>0 DEF MaintainStates
<1>2. N \in Nat
  OBVIOUS
<1> HIDE DEF N
<1> DEFINE Cut(t) == /\ ToSet(t) \subseteq ToSet(h)
                     /\ \A v \in ToSet(h) : v \in ToSet(t) \/ \A w \in ToSet(t) : v.at <= w.at
           G == {n \in 0 .. N : Cut(f[n])}
<1>3. 0 \in G
  BY <1>1, <1>2
<1>4. ASSUME NEW n \in 0 .. N, n \in G, n < N PROVE n + 1 \in G
  <2>1. n + 1 \in 1 .. N /\ (n + 1) - 1 = n /\ n + 1 \in 0 .. N /\ N - n \in Nat \ {0}
    BY <1>2, <1>4
  <2>2. f[n] \in Seq(Stamp) /\ Len(f[n]) # 0
    BY <1>1, <2>1
  <2>3. f[n] # <<>>
    BY <2>2, EmptySeq
  <2>4. f[n + 1] = RemoveOldest(f[n])
    BY <1>1, <2>1
  <2>5. /\ ToSet(f[n + 1]) \subseteq ToSet(f[n])
        /\ \A v \in ToSet(f[n]) : v \in ToSet(f[n + 1]) \/ \A w \in ToSet(f[n + 1]) : v.at <= w.at
    BY <2>2, <2>3, <2>4, RemoveOldestKeeps
  <2>6. Cut(f[n])
    BY <1>4
  <2>7. Cut(f[n + 1])
    BY <2>5, <2>6
  <2> QED BY <2>1, <2>7
<1>5. ASSUME NEW n \in 0 .. N PROVE Cut(f[n])
  <2> HIDE DEF G
  <2>1. \A n1 \in 0 .. N : n1 \in G
    BY <1>2, <1>3, <1>4, UpTo
  <2>2. n \in G
    BY <2>1
  <2> QED BY <2>2 DEF G
<1>6. CASE N <= max
  BY <1>1, <1>6
<1>7. CASE N > max
  <2>1. N - max \in 0 .. N /\ N - (N - max) = max
    BY <1>2, <1>7
  <2>2. MaintainHistory(h, max) = f[N - max] /\ Len(f[N - max]) = max
    BY <1>1, <1>2, <1>7, <2>1
  <2>3. Cut(f[N - max]) /\ f[N - max] \in Seq(Stamp)
    BY <1>1, <1>5, <2>1
  <2> QED BY <2>2, <2>3
<1> QED BY <1>2, <1>6, <1>7

(* What the rounds of mergeHistory() work on.                               *)
Rounds == [mine : Seq(Stamp), theirs : Seq(Stamp), out : Seq(Stamp)]

Versions(s) == ToSet(s.mine) \cup ToSet(s.theirs) \cup ToSet(s.out)

(* What a round takes from the one history, from the other, and gives out.  *)
HistoryRound(s, t, added) ==
  /\ t \in Rounds
  /\ Versions(t) \subseteq Versions(s)
  /\ Times(s.out) \subseteq Times(t.out)
  /\ Times(s.theirs) \subseteq Times(t.theirs) \cup Times(t.out)
  /\ Times(s.mine) \cap added \subseteq Times(t.mine) \cup Times(t.out)
  /\ \/ s.mine = <<>> /\ s.theirs = <<>> /\ t = s
     \/ Len(t.mine) + Len(t.theirs) < Len(s.mine) + Len(s.theirs)

(* The times of a history are those of its first version and of the rest.   *)
LEMMA HeadTimes ==
  ASSUME NEW h \in Seq(Stamp), h # <<>>
  PROVE  /\ Head(h) \in Stamp /\ Head(h).at \in Nat /\ Tail(h) \in Seq(Stamp)
         /\ Len(Tail(h)) = Len(h) - 1 /\ Len(h) \in Nat \ {0}
         /\ ToSet(h) = {Head(h)} \cup ToSet(Tail(h))
         /\ Times(h) = {Head(h).at} \cup Times(Tail(h))
<1>1. /\ Head(h) \in Stamp /\ Tail(h) \in Seq(Stamp)
      /\ Len(Tail(h)) = Len(h) - 1 /\ Len(h) \in Nat \ {0}
      /\ ToSet(h) = {Head(h)} \cup ToSet(Tail(h))
  BY HeadTailSet
<1>2. Head(h).at \in Nat
  BY <1>1, BoundAssumption DEF Stamp, Time
<1>3. Times(h) = {Head(h).at} \cup Times(Tail(h))
  BY <1>1 DEF Times
<1> QED BY <1>1, <1>2, <1>3

LEMMA AppendTimes ==
  ASSUME NEW h \in Seq(Stamp), NEW v \in Stamp
  PROVE  /\ Append(h, v) \in Seq(Stamp) /\ ToSet(Append(h, v)) = ToSet(h) \cup {v}
         /\ Times(Append(h, v)) = Times(h) \cup {v.at}
<1>1. Append(h, v) \in Seq(Stamp) /\ ToSet(Append(h, v)) = ToSet(h) \cup {v}
  BY AppendSet
<1>2. Times(Append(h, v)) = Times(h) \cup {v.at}
  BY <1>1 DEF Times
<1> QED BY <1>1, <1>2

LEMMA HistoryStepIs ==
  ASSUME NEW s \in Rounds, NEW added, NEW theirTime
  PROVE  HistoryRound(s, HistoryStep(s, added, theirTime), added)
<1> DEFINE t == HistoryStep(s, added, theirTime)
           me == Head(s.mine)
           it == Head(s.theirs)
<1>1. s.mine \in Seq(Stamp) /\ s.theirs \in Seq(Stamp) /\ s.out \in Seq(Stamp)
  BY DEF Rounds
<1>2. Len(s.mine) \in Nat /\ Len(s.theirs) \in Nat
  BY <1>1
<1>3. ASSUME s.mine # <<>>
      PROVE  /\ me \in Stamp /\ me.at \in Nat /\ Tail(s.mine) \in Seq(Stamp)
             /\ Len(Tail(s.mine)) = Len(s.mine) - 1 /\ Len(s.mine) \in Nat \ {0}
             /\ ToSet(s.mine) = {me} \cup ToSet(Tail(s.mine))
             /\ Times(s.mine) = {me.at} \cup Times(Tail(s.mine))
             /\ Append(s.out, me) \in Seq(Stamp) /\ ToSet(Append(s.out, me)) = ToSet(s.out) \cup {me}
             /\ Times(Append(s.out, me)) = Times(s.out) \cup {me.at}
  BY <1>1, <1>3, HeadTimes, AppendTimes
<1>4. ASSUME s.theirs # <<>>
      PROVE  /\ it \in Stamp /\ it.at \in Nat /\ Tail(s.theirs) \in Seq(Stamp)
             /\ Len(Tail(s.theirs)) = Len(s.theirs) - 1 /\ Len(s.theirs) \in Nat \ {0}
             /\ ToSet(s.theirs) = {it} \cup ToSet(Tail(s.theirs))
             /\ Times(s.theirs) = {it.at} \cup Times(Tail(s.theirs))
             /\ Append(s.out, it) \in Seq(Stamp) /\ ToSet(Append(s.out, it)) = ToSet(s.out) \cup {it}
             /\ Times(Append(s.out, it)) = Times(s.out) \cup {it.at}
  BY <1>1, <1>4, HeadTimes, AppendTimes
<1>5. s = [mine |-> s.mine, theirs |-> s.theirs, out |-> s.out]
  BY DEF Rounds
<1> HIDE DEF me, it
<1> DEFINE A == s.mine # <<>> /\ s.theirs # <<>> /\ me.at = it.at
           B == s.theirs # <<>> /\ (s.mine = <<>> \/ me.at > it.at)
           C == s.mine # <<>> /\ (s.theirs = <<>> \/ me.at < it.at)
<1>6. t = CASE A -> [mine |-> Tail(s.mine), theirs |-> Tail(s.theirs), out |-> Append(s.out, me)]
            [] B -> [s EXCEPT !.theirs = Tail(@), !.out = Append(@, it)]
            [] C -> [s EXCEPT !.mine = Tail(@),
                              !.out = IF me.at \in added \/ me.at > theirTime THEN Append(@, me) ELSE @]
            [] OTHER -> s
  BY DEF HistoryStep, me, it
<1>6a. (A => ~B /\ ~C) /\ (B => ~A /\ ~C) /\ (C => ~A /\ ~B)
  BY <1>3, <1>4
<1> SUFFICES HistoryRound(s, t, added)
  OBVIOUS
<1> HIDE DEF t
<1>7. CASE A
  <2>1. t = [mine |-> Tail(s.mine), theirs |-> Tail(s.theirs), out |-> Append(s.out, me)]
    <3> HIDE DEF A, B, C
    <3> QED BY <1>6, <1>6a, <1>7
  <2>2. t \in Rounds
    BY <1>3, <1>4, <1>7, <2>1 DEF Rounds
  <2>3. Versions(t) \subseteq Versions(s)
    BY <1>3, <1>4, <1>7, <2>1 DEF Versions
  <2>4. /\ Times(s.out) \subseteq Times(t.out)
        /\ Times(s.theirs) \subseteq Times(t.theirs) \cup Times(t.out)
        /\ Times(s.mine) \cap added \subseteq Times(t.mine) \cup Times(t.out)
    BY <1>3, <1>4, <1>7, <2>1
  <2>5. Len(t.mine) + Len(t.theirs) < Len(s.mine) + Len(s.theirs)
    <3>1. t.mine = Tail(s.mine) /\ t.theirs = Tail(s.theirs)
      BY <2>1
    <3>2. Len(Tail(s.mine)) = Len(s.mine) - 1 /\ Len(Tail(s.theirs)) = Len(s.theirs) - 1
      BY <1>3, <1>4, <1>7
    <3>3. Len(t.mine) = Len(s.mine) - 1 /\ Len(t.theirs) = Len(s.theirs) - 1
      BY <3>1, <3>2
    <3> DEFINE a == Len(s.mine)
               b == Len(s.theirs)
    <3>4. a \in Nat /\ b \in Nat
      BY <1>2
    <3> HIDE DEF A, B, C
    <3> SUFFICES Len(t.mine) + Len(t.theirs) < a + b
      OBVIOUS
    <3>5. Len(t.mine) = a - 1 /\ Len(t.theirs) = b - 1
      BY <3>3
    <3> HIDE DEF a, b
    <3> QED BY <3>4, <3>5
  <2> QED BY <2>2, <2>3, <2>4, <2>5 DEF HistoryRound
<1>8. CASE B
  <2>1. t = [mine |-> s.mine, theirs |-> Tail(s.theirs), out |-> Append(s.out, it)]
    <3>1. t = [s EXCEPT !.theirs = Tail(@), !.out = Append(@, it)]
      <4> HIDE DEF A, B, C
      <4> QED BY <1>6, <1>6a, <1>8
    <3> QED BY <1>5, <3>1
  <2>2. t \in Rounds
    BY <1>1, <1>4, <1>8, <2>1 DEF Rounds
  <2>3. Versions(t) \subseteq Versions(s)
    BY <1>4, <1>8, <2>1 DEF Versions
  <2>4. /\ Times(s.out) \subseteq Times(t.out)
        /\ Times(s.theirs) \subseteq Times(t.theirs) \cup Times(t.out)
        /\ Times(s.mine) \cap added \subseteq Times(t.mine) \cup Times(t.out)
    BY <1>4, <1>8, <2>1
  <2>5. Len(t.mine) + Len(t.theirs) < Len(s.mine) + Len(s.theirs)
    <3>1. t.mine = s.mine /\ t.theirs = Tail(s.theirs)
      BY <2>1
    <3>2. Len(Tail(s.theirs)) = Len(s.theirs) - 1
      BY <1>4, <1>8
    <3>3. Len(t.mine) = Len(s.mine) /\ Len(t.theirs) = Len(s.theirs) - 1
      BY <3>1, <3>2
    <3> DEFINE a == Len(s.mine)
               b == Len(s.theirs)
    <3>4. a \in Nat /\ b \in Nat
      BY <1>2
    <3> HIDE DEF A, B, C
    <3> SUFFICES Len(t.mine) + Len(t.theirs) < a + b
      OBVIOUS
    <3>5. Len(t.mine) = a /\ Len(t.theirs) = b - 1
      BY <3>3
    <3> HIDE DEF a, b
    <3> QED BY <3>4, <3>5
  <2> QED BY <2>2, <2>3, <2>4, <2>5 DEF HistoryRound
<1>9. CASE C
  <2>1. t = [mine |-> Tail(s.mine), theirs |-> s.theirs,
             out |-> IF me.at \in added \/ me.at > theirTime THEN Append(s.out, me) ELSE s.out]
    <3>1. t = [s EXCEPT !.mine = Tail(@),
                        !.out = IF me.at \in added \/ me.at > theirTime THEN Append(@, me) ELSE @]
      <4> HIDE DEF A, B, C
      <4> QED BY <1>6, <1>6a, <1>9
    <3> QED BY <1>5, <3>1
  <2>2. t \in Rounds
    BY <1>1, <1>3, <1>9, <2>1 DEF Rounds
  <2>3. Versions(t) \subseteq Versions(s)
    BY <1>3, <1>9, <2>1 DEF Versions
  <2>4. /\ Times(s.out) \subseteq Times(t.out)
        /\ Times(s.theirs) \subseteq Times(t.theirs) \cup Times(t.out)
        /\ Times(s.mine) \cap added \subseteq Times(t.mine) \cup Times(t.out)
    BY <1>3, <1>9, <2>1
  <2>5. Len(t.mine) + Len(t.theirs) < Len(s.mine) + Len(s.theirs)
    <3>1. t.mine = Tail(s.mine) /\ t.theirs = s.theirs
      BY <2>1
    <3>2. Len(Tail(s.mine)) = Len(s.mine) - 1
      BY <1>3, <1>9
    <3>3. Len(t.mine) = Len(s.mine) - 1 /\ Len(t.theirs) = Len(s.theirs)
      BY <3>1, <3>2
    <3> DEFINE a == Len(s.mine)
               b == Len(s.theirs)
    <3>4. a \in Nat /\ b \in Nat
      BY <1>2
    <3> HIDE DEF A, B, C
    <3> SUFFICES Len(t.mine) + Len(t.theirs) < a + b
      OBVIOUS
    <3>5. Len(t.mine) = a - 1 /\ Len(t.theirs) = b
      BY <3>3
    <3> HIDE DEF a, b
    <3> QED BY <3>4, <3>5
  <2> QED BY <2>2, <2>3, <2>4, <2>5 DEF HistoryRound
<1>10. CASE ~A /\ ~B /\ ~C
  <2>1. t = s
    <3> HIDE DEF A, B, C
    <3> QED BY <1>6, <1>10
  <2>2. s.mine = <<>> /\ s.theirs = <<>>
    BY <1>3, <1>4, <1>10
  <2> QED BY <2>1, <2>2 DEF HistoryRound, Versions
<1> HIDE DEF A, B, C
<1> QED BY <1>7, <1>8, <1>9, <1>10

(* The rounds of MergeHistory.                                              *)
HistoryStates(f, mine, theirs, added, theirTime) ==
  /\ f \in [0 .. Len(mine) + Len(theirs) -> Rounds]
  /\ MergeHistory(mine, theirs, added, theirTime) = f[Len(mine) + Len(theirs)].out
  /\ f[0] = [mine |-> mine, theirs |-> theirs, out |-> <<>>]
  /\ \A n \in 1 .. Len(mine) + Len(theirs) : f[n] = HistoryStep(f[n - 1], added, theirTime)

LEMMA HistoryLoop ==
  ASSUME NEW mine \in Seq(Stamp), NEW theirs \in Seq(Stamp), NEW added, NEW theirTime
  PROVE  \E f : HistoryStates(f, mine, theirs, added, theirTime)
<1> DEFINE N == Len(mine) + Len(theirs)
           Q == Rounds
           base == [mine |-> mine, theirs |-> theirs, out |-> <<>>]
           Op(n, t) == HistoryStep(t, added, theirTime)
           F == [n \in 1 .. N |-> [t \in Q |-> Op(n, t)]]
           Fits(f) == f = [n \in 0 .. N |-> IF n = 0 THEN base ELSE Op(n, f[n - 1])]
           h == CHOOSE f : Fits(f)
<1>1. N \in Nat
  OBVIOUS
<1>2. base \in Q
  BY DEF Rounds
<1>3. ASSUME NEW n \in 1 .. N, NEW t \in Q PROVE Op(n, t) \in Q
  BY HistoryStepIs DEF HistoryRound
<1>4. MergeHistory(mine, theirs, added, theirTime) = h[N].out
  BY DEF MergeHistory
<1>5. (\E f : Fits(f)) => Fits(h)
  <2> HIDE DEF Fits
  <2> QED OBVIOUS
<1> HIDE DEF h, Op, Q, base, N
<1>6. F \in [1 .. N -> [Q -> Q]]
  BY <1>3
<1>7. PICK g : LoopOf(g, N, Q, base, F)
  <2> HIDE DEF F
  <2> QED BY <1>1, <1>2, <1>6, LoopExists
<1>7a. /\ g \in [0 .. N -> Q] /\ g[0] = base
      /\ \A n \in 1 .. N : g[n] = F[n][g[n - 1]]
  BY <1>7 DEF LoopOf
<1>8. ASSUME NEW n \in 0 .. N PROVE g[n] = IF n = 0 THEN base ELSE Op(n, g[n - 1])
  <2>1. CASE n = 0
    BY <1>7a, <2>1
  <2>2. CASE n # 0
    <3>1. n \in 1 .. N /\ n - 1 \in 0 .. N
      BY <1>1, <2>2
    <3>2. g[n - 1] \in Q /\ g[n] = F[n][g[n - 1]]
      BY <1>7a, <3>1
    <3> QED BY <2>2, <3>1, <3>2
  <2> QED BY <2>1, <2>2
<1>9. Fits(g)
  <2>1. g = [n \in 0 .. N |-> g[n]]
    BY <1>7a
  <2> QED BY <1>8, <2>1
<1>10. Fits(h)
  BY <1>5, <1>9
<1>11. /\ h = [n \in 0 .. N |-> h[n]]
       /\ \A n \in 0 .. N : h[n] = IF n = 0 THEN base ELSE Op(n, h[n - 1])
  BY <1>10
<1>12. h[0] = base /\ \A n \in 1 .. N : h[n] = Op(n, h[n - 1])
  <2>1. 0 \in 0 .. N
    BY <1>1
  <2>2. \A n \in 1 .. N : n \in 0 .. N /\ n # 0
    BY <1>1
  <2> QED BY <1>11, <2>1, <2>2
<1>13. ASSUME NEW n \in 1 .. N, h[n - 1] \in Q PROVE h[n] \in Q
  BY <1>3, <1>12, <1>13
<1>14. \A n \in 0 .. N : h[n] \in Q
  BY <1>1, <1>2, <1>12, <1>13, LoopKeeps
<1>15. h \in [0 .. N -> Q]
  BY <1>11, <1>14
<1>16. HistoryStates(h, mine, theirs, added, theirTime)
  BY <1>4, <1>12, <1>15 DEF N, Q, base, Op, HistoryStates
<1> QED BY <1>16

(* A merged history has versions of the two only, all times of the other    *)
(* side, and those of this side that were added here.                       *)
LEMMA MergeHistoryIs ==
  ASSUME NEW mine \in Seq(Stamp), NEW theirs \in Seq(Stamp), NEW added, NEW theirTime
  PROVE  LET out == MergeHistory(mine, theirs, added, theirTime) IN
         /\ out \in Seq(Stamp)
         /\ ToSet(out) \subseteq ToSet(mine) \cup ToSet(theirs)
         /\ Times(theirs) \subseteq Times(out)
         /\ Times(mine) \cap added \subseteq Times(out)
<1> DEFINE N == Len(mine) + Len(theirs)
<1>0. PICK f : HistoryStates(f, mine, theirs, added, theirTime)
  BY HistoryLoop
<1>1. /\ f \in [0 .. N -> Rounds]
      /\ MergeHistory(mine, theirs, added, theirTime) = f[N].out
      /\ f[0] = [mine |-> mine, theirs |-> theirs, out |-> <<>>]
      /\ \A n \in 1 .. N : f[n] = HistoryStep(f[n - 1], added, theirTime)
  BY <1>0 DEF HistoryStates
<1>2. N \in Nat /\ f[0].mine = mine /\ f[0].theirs = theirs /\ f[0].out = <<>>
  BY <1>1
<1>3. Len(f[0].mine) + Len(f[0].theirs) <= N - 0
  <2>1. Len(f[0].mine) + Len(f[0].theirs) = N
    BY <1>2
  <2> HIDE DEF N
  <2> QED BY <1>2, <2>1
<1> HIDE DEF N
<1> DEFINE Good(s) == /\ Versions(s) \subseteq ToSet(mine) \cup ToSet(theirs)
                      /\ Times(theirs) \subseteq Times(s.theirs) \cup Times(s.out)
                      /\ Times(mine) \cap added \subseteq Times(s.mine) \cup Times(s.out)
           G == {n \in 0 .. N : Good(f[n]) /\ Len(f[n].mine) + Len(f[n].theirs) <= N - n}
<1>4. 0 \in G
  <2>1. Good(f[0])
    BY <1>2, EmptySet DEF Versions
  <2> HIDE DEF Good
  <2>2. 0 \in 0 .. N
    BY <1>2
  <2> QED BY <1>3, <2>1, <2>2
<1>5. ASSUME NEW n \in 0 .. N, n \in G, n < N PROVE n + 1 \in G
  <2>1. n + 1 \in 1 .. N /\ (n + 1) - 1 = n /\ n + 1 \in 0 .. N
    BY <1>2, <1>5
  <2> DEFINE s == f[n]
             t == f[n + 1]
  <2>2. s \in Rounds /\ t = HistoryStep(s, added, theirTime)
    BY <1>1, <2>1
  <2>3. HistoryRound(s, t, added)
    BY <2>2, HistoryStepIs
  <2>4. Good(s) /\ Len(s.mine) + Len(s.theirs) <= N - n
    BY <1>5
  <2> HIDE DEF s, t
  <2>5. Good(t)
    BY <2>3, <2>4 DEF HistoryRound
  <2>6. Len(t.mine) + Len(t.theirs) <= N - (n + 1)
    <3>1. /\ s.mine \in Seq(Stamp) /\ s.theirs \in Seq(Stamp)
          /\ t.mine \in Seq(Stamp) /\ t.theirs \in Seq(Stamp)
      BY <2>2, <2>3 DEF HistoryRound, Rounds
    <3>2. /\ Len(s.mine) \in Nat /\ Len(s.theirs) \in Nat
          /\ Len(t.mine) \in Nat /\ Len(t.theirs) \in Nat
      BY <3>1
    <3>3. CASE s.mine = <<>> /\ s.theirs = <<>> /\ t = s
      <4>1. Len(t.mine) = 0 /\ Len(t.theirs) = 0
        BY <3>3
      <4> QED BY <1>2, <2>1, <4>1
    <3>4. CASE Len(t.mine) + Len(t.theirs) < Len(s.mine) + Len(s.theirs)
      <4> DEFINE a == Len(s.mine) + Len(s.theirs)
                 b == Len(t.mine) + Len(t.theirs)
      <4>1. a \in Nat /\ b \in Nat /\ b < a
        <5>1. \A i, j \in Nat : i + j \in Nat
          OBVIOUS
        <5>2. b < a
          BY <3>4
        <5> QED BY ONLY <3>2, <5>1, <5>2
      <4>2. a <= N - n
        BY <2>4
      <4>3. n \in Nat /\ N \in Nat
        BY <1>2
      <4> SUFFICES b <= N - (n + 1)
        OBVIOUS
      <4> HIDE DEF Good, G, a, b
      <4> QED BY <4>1, <4>2, <4>3
    <3> QED BY <2>3, <3>3, <3>4 DEF HistoryRound
  <2> HIDE DEF Good
  <2> QED BY <2>1, <2>5, <2>6 DEF t
<1>6. Good(f[N]) /\ Len(f[N].mine) + Len(f[N].theirs) <= N - N /\ f[N] \in Rounds
  <2> HIDE DEF G
  <2>1. \A n \in 0 .. N : n \in G
    BY <1>2, <1>4, <1>5, UpTo
  <2>2. N \in 0 .. N
    BY <1>2
  <2>3. f[N] \in Rounds
    BY <1>1, <2>2
  <2> QED BY <2>1, <2>2, <2>3 DEF G
<1> DEFINE r == f[N]
<1>7. r.mine \in Seq(Stamp) /\ r.theirs \in Seq(Stamp) /\ r.out \in Seq(Stamp)
  BY <1>6 DEF Rounds
<1>9. r.mine = <<>> /\ r.theirs = <<>>
  <2>1. Len(r.mine) = 0 /\ Len(r.theirs) = 0
    <3>1. Len(r.mine) + Len(r.theirs) <= N - N
      BY <1>6
    <3> DEFINE a == Len(r.mine)
               b == Len(r.theirs)
    <3>2. a \in Nat /\ b \in Nat
      BY <1>7
    <3>3. a + b <= N - N
      BY <3>1
    <3> SUFFICES a = 0 /\ b = 0
      OBVIOUS
    <3>4. N \in Nat
      BY <1>2
    <3> HIDE DEF a, b, r, Good, G
    <3> QED BY <3>2, <3>3, <3>4
  <2> QED BY <1>7, <2>1, EmptySeq
<1>10. Times(<<>>) = {}
  BY EmptySet DEF Times
<1> QED BY <1>1, <1>6, <1>7, <1>9, <1>10 DEF Versions

-----------------------------------------------------------------------------
(* What a database lists.                                                   *)

(* What a group holds, by kind.                                             *)
LEMMA HeldIs ==
  ASSUME NEW m \in Db, NEW g \in Groups
  PROVE  /\ m.groups[g] \in Seq(Groups) /\ m.entries[g] \in Seq(Entries)
         /\ ToSet(m.groups[g]) \in SUBSET Groups /\ ToSet(m.entries[g]) \in SUBSET Entries
         /\ Held(m, g) \in SUBSET Objects
         /\ Held(m, g) \cap Groups = ToSet(m.groups[g])
         /\ Held(m, g) \cap Entries = ToSet(m.entries[g])
<1>1. m.groups[g] \in Seq(Groups) /\ m.entries[g] \in Seq(Entries)
  BY DEF Db
<1>2. \A T : \A s \in Seq(T) : ToSet(s) \in SUBSET T
  BY DEF ToSet
<1>3. ToSet(m.groups[g]) \in SUBSET Groups /\ ToSet(m.entries[g]) \in SUBSET Entries
  BY <1>1, <1>2
<1> QED BY <1>1, <1>3, GroupAssumption DEF Held, Objects

ClosedIn(m, T) == \A g \in T : Held(m, g) \cap Groups \subseteq T

(* What is reached is the least set that is closed in the tree.             *)
LEMMA ReachedIs ==
  ASSUME NEW m \in Db, NEW S \in SUBSET Groups
  PROVE  /\ Reached(m, S) \in SUBSET Groups
         /\ S \subseteq Reached(m, S)
         /\ ClosedIn(m, Reached(m, S))
         /\ \A T \in SUBSET Groups : S \subseteq T /\ ClosedIn(m, T) => Reached(m, S) \subseteq T
<1> DEFINE next == [g \in Groups |-> ToSet(m.groups[g])]
<1>1. next \in [Groups -> SUBSET Groups] /\ \A g \in Groups : next[g] = Held(m, g) \cap Groups
  BY HeldIs
<1>2. Reached(m, S) = Closure(next, S)
  BY DEF Reached
<1> HIDE DEF next
<1>3. /\ Closure(next, S) \in SUBSET Groups
      /\ S \subseteq Closure(next, S)
      /\ Closed(next, Closure(next, S))
      /\ \A T \in SUBSET Groups : S \subseteq T /\ Closed(next, T) => Closure(next, S) \subseteq T
  BY <1>1, ClosureIs
<1>4. \A T \in SUBSET Groups : Closed(next, T) <=> ClosedIn(m, T)
  BY <1>1 DEF Closed, ClosedIn
<1> QED BY <1>2, <1>3, <1>4

(* Two trees of the same groups reach the same.                             *)
LEMMA SameReached ==
  ASSUME NEW m \in Db, NEW n \in Db, NEW S \in SUBSET Groups,
         \A g \in Groups : Held(n, g) \cap Groups = Held(m, g) \cap Groups
  PROVE  Reached(n, S) = Reached(m, S)
<1>1. \A g \in Groups : ToSet(n.groups[g]) = ToSet(m.groups[g])
  BY HeldIs
<1>2. [g \in Groups |-> ToSet(n.groups[g])] = [g \in Groups |-> ToSet(m.groups[g])]
  BY <1>1
<1> QED BY <1>2 DEF Reached

LEMMA BelowIs ==
  ASSUME NEW m \in Db, NEW S \in SUBSET Objects
  PROVE  /\ Below(m, S) \in SUBSET Objects
         /\ S \cap Groups \subseteq Reached(m, S \cap Groups)
         /\ \A o : o \in Below(m, S) <=> \E g \in Reached(m, S \cap Groups) : o \in Held(m, g)
         /\ Reached(m, S \cap Groups) \subseteq S \cup Below(m, S)
<1> DEFINE R == Reached(m, S \cap Groups)
<1>1. /\ R \in SUBSET Groups /\ S \cap Groups \subseteq R /\ ClosedIn(m, R)
      /\ \A T \in SUBSET Groups : S \cap Groups \subseteq T /\ ClosedIn(m, T) => R \subseteq T
  BY ReachedIs
<1>2. \A o : o \in Below(m, S) <=> \E g \in R : o \in Held(m, g)
  BY DEF Below
<1>3. \A g \in R : Held(m, g) \in SUBSET Objects
  BY <1>1, HeldIs
<1> HIDE DEF R
<1> DEFINE T == (S \cup Below(m, S)) \cap R
<1>4. T \in SUBSET Groups /\ S \cap Groups \subseteq T
  BY <1>1
<1>5. ClosedIn(m, T)
  BY <1>1, <1>2 DEF ClosedIn
<1>6. R \subseteq T
  BY <1>1, <1>4, <1>5
<1> QED BY <1>1, <1>2, <1>3, <1>6 DEF R

(* The objects of a database are the root and what reached groups hold.     *)
LEMMA PresentIs ==
  ASSUME NEW m \in Db
  PROVE  /\ Present(m) \in SUBSET Objects /\ Root \in Present(m)
         /\ Present(m) \cap Groups = Reached(m, {Root})
         /\ \A o : o \in Present(m) <=> o = Root \/ \E g \in Reached(m, {Root}) : o \in Held(m, g)
<1>1. {Root} \in SUBSET Objects /\ {Root} \cap Groups = {Root} /\ Root \in Objects
  BY GroupAssumption DEF Objects
<1>2. /\ Below(m, {Root}) \in SUBSET Objects
      /\ {Root} \subseteq Reached(m, {Root})
      /\ \A o : o \in Below(m, {Root}) <=> \E g \in Reached(m, {Root}) : o \in Held(m, g)
      /\ Reached(m, {Root}) \subseteq {Root} \cup Below(m, {Root})
  <2> DEFINE S == {Root}
  <2>1. S \in SUBSET Objects /\ S \cap Groups = S
    BY <1>1
  <2> HIDE DEF S
  <2>2. /\ Below(m, S) \in SUBSET Objects
        /\ S \cap Groups \subseteq Reached(m, S \cap Groups)
        /\ \A o : o \in Below(m, S) <=> \E g \in Reached(m, S \cap Groups) : o \in Held(m, g)
        /\ Reached(m, S \cap Groups) \subseteq S \cup Below(m, S)
    BY <2>1, BelowIs
  <2> QED BY <2>1, <2>2 DEF S
<1>3. {Root} \in SUBSET Groups
  BY GroupAssumption
<1>4. Reached(m, {Root}) \in SUBSET Groups /\ ClosedIn(m, Reached(m, {Root}))
  BY <1>3, ReachedIs
<1>5. Present(m) = {Root} \cup Below(m, {Root})
  BY DEF Present
<1>6. Present(m) \cap Groups \subseteq Reached(m, {Root})
  BY <1>2, <1>4, <1>5 DEF ClosedIn
<1> QED BY <1>1, <1>2, <1>4, <1>5, <1>6

(* A set that holds the root and is closed holds all groups of the tree.    *)
LEMMA PresentLeast ==
  ASSUME NEW m \in Db, NEW T \in SUBSET Groups, Root \in T, ClosedIn(m, T)
  PROVE  Present(m) \cap Groups \subseteq T
<1>1. {Root} \in SUBSET Groups
  BY GroupAssumption
<1>2. Reached(m, {Root}) \subseteq T
  BY <1>1, ReachedIs
<1> QED BY <1>2, PresentIs

(* Without garbage: a copy as the merge, the edits and the file keep it.    *)
Good(m) ==
  /\ m \in Db /\ Root \notin m.dead
  /\ \A g \in Groups : Root \notin Held(m, g)
  /\ \A g \in Groups \ Present(m) : Held(m, g) = {}
  /\ \A e \in Entries : ToSet(m.hist[e]) \subseteq m.pool
  /\ \A e \in Entries \ Present(m) : ToSet(m.hist[e]) = {}
  /\ \A e \in Present(m) \cap Entries : m.rev[e] \in m.pool

(* In a good copy all that is listed is in the tree, and no attachment of a *)
(* revision is missing.                                                     *)
LEMMA GoodIs ==
  ASSUME NEW m, Good(m)
  PROVE  /\ \A g \in Groups : \A o \in Held(m, g) : g \in Present(m) /\ o \in Present(m)
         /\ Revisions(m) \subseteq m.pool
<1>1. m \in Db
  BY DEF Good
<1>2. Present(m) \cap Groups = Reached(m, {Root})
  BY <1>1, PresentIs
<1>3. \A o : o \in Present(m) <=> o = Root \/ \E g \in Reached(m, {Root}) : o \in Held(m, g)
  BY <1>1, PresentIs
<1>4. ASSUME NEW g \in Groups, NEW o \in Held(m, g) PROVE g \in Present(m) /\ o \in Present(m)
  <2>1. g \in Present(m)
    BY DEF Good
  <2> QED BY <1>2, <1>3, <2>1
<1>5. Revisions(m) \subseteq m.pool
  BY DEF Good, Revisions
<1> QED BY <1>4, <1>5

(* What Compact does: the objects of the tree keep what they have.          *)
CompactFields(m, n) ==
  /\ n \in Db
  /\ n.dead = m.dead /\ n.pool = m.pool /\ n.name = m.name /\ n.max = m.max
  /\ \A g \in Groups : /\ n.groups[g] = IF g \in Present(m) THEN m.groups[g] ELSE <<>>
                       /\ n.entries[g] = IF g \in Present(m) THEN m.entries[g] ELSE <<>>
  /\ \A o \in Objects : /\ n.loc[o] = IF o \in Present(m) THEN m.loc[o] ELSE 0
                        /\ n.rev[o] = IF o \in Present(m) THEN m.rev[o] ELSE Origin
  /\ \A e \in Entries : n.hist[e] = IF e \in Present(m) THEN m.hist[e] ELSE <<>>

LEMMA CompactIs ==
  ASSUME NEW m \in Db
  PROVE  /\ CompactFields(m, Compact(m))
         /\ \A g \in Groups : Held(Compact(m), g) = IF g \in Present(m) THEN Held(m, g) ELSE {}
         /\ Reached(Compact(m), {Root}) = Reached(m, {Root})
         /\ Present(Compact(m)) = Present(m)
<1> DEFINE n == Compact(m)
           here == Present(m)
           Reset(f, zero) == [o \in DOMAIN f |-> IF o \in here THEN f[o] ELSE zero]
<1>1. n = [m EXCEPT !.groups = Reset(@, <<>>), !.entries = Reset(@, <<>>),
                    !.loc = Reset(@, 0), !.rev = Reset(@, Origin), !.hist = Reset(@, <<>>)]
  BY DEF Compact
<1>2. /\ m.groups \in [Groups -> Seq(Groups)] /\ m.entries \in [Groups -> Seq(Entries)]
      /\ m.loc \in [Objects -> Time] /\ m.rev \in [Objects -> Stamp]
      /\ m.hist \in [Entries -> Seq(Stamp)] /\ m.dead \in SUBSET Objects /\ m.pool \in SUBSET Stamp
      /\ m.name \in Stamp /\ m.max \in HistoryMax
  BY DEF Db
<1>3. 0 \in Time /\ Origin \in Stamp
  BY BoundAssumption DEF Time, Stamp, Origin
<1>4. /\ Reset(m.groups, <<>>) \in [Groups -> Seq(Groups)]
      /\ Reset(m.entries, <<>>) \in [Groups -> Seq(Entries)]
      /\ Reset(m.loc, 0) \in [Objects -> Time] /\ Reset(m.rev, Origin) \in [Objects -> Stamp]
      /\ Reset(m.hist, <<>>) \in [Entries -> Seq(Stamp)]
  <2> HIDE DEF here
  <2>1. <<>> \in Seq(Groups) /\ <<>> \in Seq(Entries) /\ <<>> \in Seq(Stamp)
    OBVIOUS
  <2> QED BY <1>2, <1>3, <2>1
<1>5. /\ n.groups = Reset(m.groups, <<>>) /\ n.entries = Reset(m.entries, <<>>)
      /\ n.loc = Reset(m.loc, 0) /\ n.rev = Reset(m.rev, Origin) /\ n.hist = Reset(m.hist, <<>>)
      /\ n.dead = m.dead /\ n.pool = m.pool /\ n.name = m.name /\ n.max = m.max
      /\ n \in Db
  <2> HIDE DEF n, Reset
  <2> QED BY <1>1, <1>2, <1>4 DEF Db
<1> HIDE DEF n
<1>6. CompactFields(m, n)
  <2>1. /\ \A g \in Groups : /\ n.groups[g] = IF g \in Present(m) THEN m.groups[g] ELSE <<>>
                             /\ n.entries[g] = IF g \in Present(m) THEN m.entries[g] ELSE <<>>
        /\ \A o \in Objects : /\ n.loc[o] = IF o \in Present(m) THEN m.loc[o] ELSE 0
                              /\ n.rev[o] = IF o \in Present(m) THEN m.rev[o] ELSE Origin
        /\ \A e \in Entries : n.hist[e] = IF e \in Present(m) THEN m.hist[e] ELSE <<>>
    BY <1>2, <1>5
  <2> QED BY <1>5, <2>1 DEF CompactFields
<1>7. ASSUME NEW g \in Groups PROVE Held(n, g) = IF g \in Present(m) THEN Held(m, g) ELSE {}
  BY <1>6, EmptySet DEF Held, CompactFields
<1>8. Reached(n, {Root}) = Reached(m, {Root})
  <2>1. {Root} \in SUBSET Groups
    BY GroupAssumption
  <2> DEFINE P == Reached(n, {Root})
             Q == Reached(m, {Root})
  <2>2. /\ P \in SUBSET Groups /\ {Root} \subseteq P /\ ClosedIn(n, P)
        /\ \A T \in SUBSET Groups : {Root} \subseteq T /\ ClosedIn(n, T) => P \subseteq T
    BY <1>5, <2>1, ReachedIs
  <2>3. /\ Q \in SUBSET Groups /\ {Root} \subseteq Q /\ ClosedIn(m, Q)
        /\ \A T \in SUBSET Groups : {Root} \subseteq T /\ ClosedIn(m, T) => Q \subseteq T
    BY <2>1, ReachedIs
  <2>4. Q = Present(m) \cap Groups
    BY PresentIs
  <2> HIDE DEF P, Q
  <2>5. ClosedIn(n, Q)
    BY <1>7, <2>3 DEF ClosedIn
  <2>6. P \subseteq Q
    BY <2>2, <2>3, <2>5
  <2>7. ClosedIn(m, P)
    BY <1>7, <2>2, <2>4, <2>6 DEF ClosedIn
  <2>8. P = Q
    BY <2>2, <2>3, <2>6, <2>7
  <2> QED BY <2>8 DEF P, Q
<1>9. Present(n) = Present(m)
  <2>1. \A o : o \in Present(m) <=> o = Root \/ \E g \in Reached(m, {Root}) : o \in Held(m, g)
    BY PresentIs
  <2>2. \A o : o \in Present(n) <=> o = Root \/ \E g \in Reached(n, {Root}) : o \in Held(n, g)
    BY <1>5, PresentIs
  <2>3. \A g \in Reached(m, {Root}) : Held(n, g) = Held(m, g)
    BY <1>7, PresentIs
  <2>4. \A o : o \in Present(n) <=> o \in Present(m)
    BY <1>8, <2>1, <2>2, <2>3
  <2> QED BY <2>4
<1> QED BY <1>6, <1>7, <1>8, <1>9 DEF n

(* Cleanup cuts the histories and drops unused attachments.                 *)
CleanupFields(m, n) ==
  /\ n \in Db
  /\ n.groups = m.groups /\ n.entries = m.entries /\ n.loc = m.loc /\ n.rev = m.rev
  /\ n.dead = m.dead /\ n.name = m.name /\ n.max = m.max
  /\ \A e \in Entries : n.hist[e] = MaintainHistory(m.hist[e], m.max)
  /\ n.pool = m.pool \cap Revisions(n)

LEMMA CleanupIs ==
  ASSUME NEW m \in Db
  PROVE  /\ CleanupFields(m, Cleanup(m))
         /\ \A g \in Groups : Held(Cleanup(m), g) = Held(m, g)
         /\ \A S : Reached(Cleanup(m), S) = Reached(m, S)
         /\ Present(Cleanup(m)) = Present(m)
<1> DEFINE k == [m EXCEPT !.hist = [e \in Entries |-> MaintainHistory(@[e], m.max)]]
           n == [k EXCEPT !.pool = @ \cap Revisions(k)]
<1>1. Cleanup(m) = n
  BY DEF Cleanup
<1>2. /\ m.hist \in [Entries -> Seq(Stamp)] /\ m.max \in Nat
  BY BoundAssumption DEF Db
<1>3. \A e \in Entries : MaintainHistory(m.hist[e], m.max) \in Seq(Stamp)
  BY <1>2, MaintainHistoryIs
<1>4. k \in Db
  BY <1>3 DEF Db
<1>5. /\ k.groups = m.groups /\ k.entries = m.entries /\ k.loc = m.loc /\ k.rev = m.rev
      /\ k.dead = m.dead /\ k.name = m.name /\ k.max = m.max /\ k.pool = m.pool
      /\ \A e \in Entries : k.hist[e] = MaintainHistory(m.hist[e], m.max)
  BY DEF Db
<1> HIDE DEF k
<1>6. /\ n.groups = k.groups /\ n.entries = k.entries /\ n.loc = k.loc /\ n.rev = k.rev
      /\ n.dead = k.dead /\ n.name = k.name /\ n.max = k.max /\ n.hist = k.hist
      /\ n.pool = k.pool \cap Revisions(k) /\ n \in Db
  BY <1>4 DEF Db
<1> HIDE DEF n
<1>7. \A g : Held(n, g) = Held(m, g) /\ Held(k, g) = Held(m, g)
  BY <1>5, <1>6 DEF Held
<1>8. \A S : Reached(n, S) = Reached(m, S) /\ Reached(k, S) = Reached(m, S)
  BY <1>5, <1>6 DEF Reached
<1>9. Present(n) = Present(m) /\ Present(k) = Present(m)
  BY <1>7, <1>8 DEF Present, Below
<1>10. Revisions(n) = Revisions(k)
  BY <1>6, <1>9 DEF Revisions
<1>11. CleanupFields(m, n)
  BY <1>5, <1>6, <1>10 DEF CleanupFields
<1> QED BY <1>1, <1>7, <1>8, <1>9, <1>11

-----------------------------------------------------------------------------
(* The edits keep a good copy good.                                         *)

LEMMA DbTypes ==
  ASSUME NEW m \in Db
  PROVE  /\ m.groups \in [Groups -> Seq(Groups)] /\ m.entries \in [Groups -> Seq(Entries)]
         /\ m.loc \in [Objects -> Time] /\ m.rev \in [Objects -> Stamp]
         /\ m.hist \in [Entries -> Seq(Stamp)] /\ m.dead \in SUBSET Objects
         /\ m.pool \in SUBSET Stamp /\ m.name \in Stamp /\ m.max \in HistoryMax /\ m.max \in Nat
BY BoundAssumption DEF Db

(* An edit that leaves the tree alone.                                      *)
LEMMA GoodRest ==
  ASSUME NEW m, Good(m), NEW n \in Db,
         n.groups = m.groups, n.entries = m.entries, n.dead = m.dead,
         \A e \in Entries : ToSet(n.hist[e]) \subseteq n.pool,
         \A e \in Entries \ Present(m) : ToSet(n.hist[e]) = {},
         \A e \in Present(m) \cap Entries : n.rev[e] \in n.pool
  PROVE  Good(n)
<1>1. \A g : Held(n, g) = Held(m, g)
  BY DEF Held
<1>2. \A S : Reached(n, S) = Reached(m, S)
  BY DEF Reached
<1>3. Present(n) = Present(m)
  <2>1. Below(n, {Root}) = Below(m, {Root})
    BY ONLY <1>1, <1>2 DEF Below
  <2> QED BY <2>1 DEF Present
<1> QED BY <1>1, <1>3 DEF Good

(* An edit that puts an object into a group, out of the one it was in.      *)
LEMMA GoodTree ==
  ASSUME NEW m, Good(m), NEW n \in Db, n.dead = m.dead, n.hist = m.hist, m.pool \subseteq n.pool,
         NEW o \in Objects \ {Root}, NEW to \in Present(m) \cap Groups,
         \A g \in Groups : Held(n, g) \subseteq Held(m, g) \cup {o},
         \A g \in Groups \ {to} : Held(n, g) \subseteq Held(m, g),
         \A g \in Groups : Held(m, g) \subseteq Held(n, g) \cup {o},
         o \in Held(n, to),
         Reached(m, {Root}) \subseteq Reached(n, {Root}),
         \A e \in (Present(m) \cup {o}) \cap Entries : n.rev[e] \in n.pool
  PROVE  Good(n)
<1>1. /\ Root \notin m.dead /\ \A g \in Groups : Root \notin Held(m, g)
      /\ \A g \in Groups \ Present(m) : Held(m, g) = {}
      /\ m \in Db
      /\ \A e \in Entries : ToSet(m.hist[e]) \subseteq m.pool
      /\ \A e \in Entries \ Present(m) : ToSet(m.hist[e]) = {}
  BY DEF Good
<1>2. /\ Present(m) \cap Groups = Reached(m, {Root}) /\ Present(n) \cap Groups = Reached(n, {Root})
      /\ \A p : p \in Present(m) <=> p = Root \/ \E g \in Reached(m, {Root}) : p \in Held(m, g)
      /\ \A p : p \in Present(n) <=> p = Root \/ \E g \in Reached(n, {Root}) : p \in Held(n, g)
  BY <1>1, PresentIs
<1>3. \A g \in Groups \ Present(n) : Held(n, g) = {}
  BY <1>1, <1>2
<1>4. \A g \in Groups : Root \notin Held(n, g)
  BY <1>1
<1>5. ASSUME NEW e \in Present(n) \cap Entries PROVE e \in Present(m) \cup {o}
  <2>1. e # Root
    BY GroupAssumption
  <2>2. PICK g \in Groups : e \in Held(n, g)
    BY <1>2, <2>1
  <2>3. e \in Held(m, g) => e \in Present(m)
    BY GoodIs
  <2> QED BY <2>2, <2>3
<1>6. ASSUME NEW p \in Present(m) PROVE p \in Present(n)
  <2>1. o \in Present(n)
    BY <1>2
  <2>2. CASE p = Root
    BY <1>2, <2>2
  <2>3. CASE p # Root
    <3>1. PICK g \in Reached(m, {Root}) : p \in Held(m, g)
      BY <1>2, <2>3
    <3>2. g \in Groups /\ g \in Reached(n, {Root})
      BY <1>2
    <3>3. p \in Held(n, g) \/ p = o
      BY <3>1, <3>2
    <3> QED BY <1>2, <2>1, <3>2, <3>3
  <2> QED BY <2>2, <2>3
<1>7. /\ \A e \in Entries : ToSet(n.hist[e]) \subseteq n.pool
      /\ \A e \in Entries \ Present(n) : ToSet(n.hist[e]) = {}
  BY <1>1, <1>6
<1> QED BY <1>1, <1>3, <1>4, <1>5, <1>7 DEF Good

LEMMA EditEntryGood ==
  ASSUME NEW m, Good(m), NEW e \in Present(m) \cap Entries, NEW v \in Stamp
  PROVE  Good([m EXCEPT !.hist[e] = MaintainHistory(Append(@, m.rev[e]), m.max),
                        !.rev[e] = v, !.pool = @ \cup {v}])
<1> DEFINE h == MaintainHistory(Append(m.hist[e], m.rev[e]), m.max)
           n == [m EXCEPT !.hist[e] = MaintainHistory(Append(@, m.rev[e]), m.max),
                          !.rev[e] = v, !.pool = @ \cup {v}]
<1>1. /\ m \in Db /\ \A f \in Entries : ToSet(m.hist[f]) \subseteq m.pool
      /\ \A f \in Present(m) \cap Entries : m.rev[f] \in m.pool
  BY DEF Good
<1>2. /\ m.hist \in [Entries -> Seq(Stamp)] /\ m.rev \in [Objects -> Stamp] /\ e \in Objects
      /\ m.max \in Nat
  BY <1>1, DbTypes DEF Objects
<1>3. Append(m.hist[e], m.rev[e]) \in Seq(Stamp)
      /\ ToSet(Append(m.hist[e], m.rev[e])) = ToSet(m.hist[e]) \cup {m.rev[e]}
  BY <1>2, AppendSet
<1>4. h \in Seq(Stamp) /\ ToSet(h) \subseteq ToSet(m.hist[e]) \cup {m.rev[e]}
  BY <1>2, <1>3, MaintainHistoryIs
<1>5. n = [m EXCEPT !.hist = [@ EXCEPT ![e] = h], !.rev = [@ EXCEPT ![e] = v],
                    !.pool = @ \cup {v}]
  BY <1>1 DEF Db
<1> HIDE DEF h, n
<1>6. /\ n \in Db /\ n.groups = m.groups /\ n.entries = m.entries /\ n.dead = m.dead
      /\ n.pool = m.pool \cup {v} /\ n.rev = [m.rev EXCEPT ![e] = v]
      /\ n.hist = [m.hist EXCEPT ![e] = h]
  BY <1>1, <1>2, <1>4, <1>5 DEF Db
<1>7. \A f \in Entries : ToSet(n.hist[f]) \subseteq n.pool
  BY <1>1, <1>2, <1>4, <1>6
<1>8. \A f \in Present(m) \cap Entries : n.rev[f] \in n.pool
  BY <1>1, <1>2, <1>6 DEF Objects
<1>9. \A f \in Entries \ Present(m) : ToSet(n.hist[f]) = {}
  BY <1>2, <1>6 DEF Good
<1>10. Good(n)
  BY <1>6, <1>7, <1>8, <1>9, GoodRest
<1> QED BY <1>10 DEF n

LEMMA EditGroupGood ==
  ASSUME NEW m, Good(m), NEW g \in Groups, NEW v \in Stamp
  PROVE  Good([m EXCEPT !.rev[g] = v])
<1> DEFINE n == [m EXCEPT !.rev[g] = v]
<1>1. /\ m \in Db /\ \A f \in Entries : ToSet(m.hist[f]) \subseteq m.pool
      /\ \A f \in Present(m) \cap Entries : m.rev[f] \in m.pool
  BY DEF Good
<1>2. m.rev \in [Objects -> Stamp] /\ g \in Objects /\ g \notin Entries
  BY <1>1, DbTypes, GroupAssumption DEF Objects
<1>3. /\ n \in Db /\ n.groups = m.groups /\ n.entries = m.entries /\ n.dead = m.dead
      /\ n.pool = m.pool /\ n.rev = [m.rev EXCEPT ![g] = v] /\ n.hist = m.hist
  BY <1>1, <1>2 DEF Db
<1> HIDE DEF n
<1>4. \A f \in Present(m) \cap Entries : n.rev[f] \in n.pool
  BY <1>1, <1>2, <1>3 DEF Objects
<1>5. \A f \in Entries \ Present(m) : ToSet(n.hist[f]) = {}
  BY <1>3 DEF Good
<1>6. Good(n)
  BY <1>1, <1>3, <1>4, <1>5, GoodRest
<1> QED BY <1>6 DEF n

LEMMA EditSettingsGood ==
  ASSUME NEW m, Good(m), NEW k \in HistoryMax, NEW v \in Stamp
  PROVE  Good([m EXCEPT !.max = k, !.name = v,
                        !.hist = [e \in Entries |-> MaintainHistory(@[e], k)]])
<1> DEFINE n == [m EXCEPT !.max = k, !.name = v,
                          !.hist = [e \in Entries |-> MaintainHistory(@[e], k)]]
<1>1. /\ m \in Db /\ \A f \in Entries : ToSet(m.hist[f]) \subseteq m.pool
      /\ \A f \in Present(m) \cap Entries : m.rev[f] \in m.pool
  BY DEF Good
<1>2. m.hist \in [Entries -> Seq(Stamp)] /\ k \in Nat
  BY <1>1, DbTypes, BoundAssumption
<1>3. \A e \in Entries : /\ MaintainHistory(m.hist[e], k) \in Seq(Stamp)
                         /\ ToSet(MaintainHistory(m.hist[e], k)) \subseteq ToSet(m.hist[e])
  BY <1>2, MaintainHistoryIs
<1>4. /\ n \in Db /\ n.groups = m.groups /\ n.entries = m.entries /\ n.dead = m.dead
      /\ n.pool = m.pool /\ n.rev = m.rev
      /\ \A e \in Entries : n.hist[e] = MaintainHistory(m.hist[e], k)
  BY <1>1, <1>3 DEF Db
<1> HIDE DEF n
<1>5. \A f \in Entries : ToSet(n.hist[f]) \subseteq n.pool
  BY <1>1, <1>3, <1>4
<1>6. \A f \in Entries \ Present(m) : ToSet(n.hist[f]) = {}
  BY <1>3, <1>4 DEF Good
<1>7. Good(n)
  BY <1>1, <1>4, <1>5, <1>6, GoodRest
<1> QED BY <1>7 DEF n

LEMMA CreateEntryGood ==
  ASSUME NEW m, Good(m), NEW e \in Entries, NEW g \in Present(m) \cap Groups,
         NEW v \in Stamp, NEW t \in Time
  PROVE  Good([m EXCEPT !.entries[g] = Append(@, e), !.rev[e] = v, !.loc[e] = t,
                        !.pool = @ \cup {v}])
<1> DEFINE n == [m EXCEPT !.entries[g] = Append(@, e), !.rev[e] = v, !.loc[e] = t,
                          !.pool = @ \cup {v}]
           es == Append(m.entries[g], e)
<1>1. /\ m \in Db /\ \A f \in Entries : ToSet(m.hist[f]) \subseteq m.pool
      /\ \A f \in Present(m) \cap Entries : m.rev[f] \in m.pool
  BY DEF Good
<1>2. /\ m.entries \in [Groups -> Seq(Entries)] /\ m.rev \in [Objects -> Stamp]
      /\ m.loc \in [Objects -> Time] /\ e \in Objects /\ e # Root
  BY <1>1, DbTypes, GroupAssumption DEF Objects
<1>3. es \in Seq(Entries) /\ ToSet(es) = ToSet(m.entries[g]) \cup {e}
  BY <1>2, AppendSet
<1>4. n = [m EXCEPT !.entries = [@ EXCEPT ![g] = es], !.rev = [@ EXCEPT ![e] = v],
                    !.loc = [@ EXCEPT ![e] = t], !.pool = @ \cup {v}]
  BY <1>1 DEF Db
<1> HIDE DEF n, es
<1>5. /\ n \in Db /\ n.groups = m.groups /\ n.dead = m.dead /\ n.hist = m.hist
      /\ n.entries = [m.entries EXCEPT ![g] = es] /\ n.rev = [m.rev EXCEPT ![e] = v]
      /\ n.pool = m.pool \cup {v}
  BY <1>1, <1>2, <1>3, <1>4 DEF Db
<1>6. /\ \A h \in Groups : Held(n, h) \subseteq Held(m, h) \cup {e}
      /\ \A h \in Groups \ {g} : Held(n, h) \subseteq Held(m, h)
      /\ \A h \in Groups : Held(m, h) \subseteq Held(n, h) \cup {e}
      /\ e \in Held(n, g)
  BY <1>2, <1>3, <1>5 DEF Held
<1>7. Reached(n, {Root}) = Reached(m, {Root})
  BY <1>5 DEF Reached
<1>8. \A f \in (Present(m) \cup {e}) \cap Entries : n.rev[f] \in n.pool
  BY <1>1, <1>2, <1>5 DEF Objects
<1>9. Good(n)
  BY <1>2, <1>5, <1>6, <1>7, <1>8, GoodTree
<1> QED BY <1>9 DEF n

LEMMA CreateGroupGood ==
  ASSUME NEW m, Good(m), NEW g \in Groups \ {Root}, NEW p \in Present(m) \cap Groups,
         NEW v \in Stamp, NEW t \in Time
  PROVE  Good([m EXCEPT !.groups[p] = Append(@, g), !.rev[g] = v, !.loc[g] = t])
<1> DEFINE n == [m EXCEPT !.groups[p] = Append(@, g), !.rev[g] = v, !.loc[g] = t]
           gs == Append(m.groups[p], g)
<1>1. /\ m \in Db /\ \A f \in Entries : ToSet(m.hist[f]) \subseteq m.pool
      /\ \A f \in Present(m) \cap Entries : m.rev[f] \in m.pool
  BY DEF Good
<1>2. /\ m.groups \in [Groups -> Seq(Groups)] /\ m.rev \in [Objects -> Stamp]
      /\ m.loc \in [Objects -> Time] /\ g \in Objects \ {Root} /\ g \notin Entries
  BY <1>1, DbTypes, GroupAssumption DEF Objects
<1>3. gs \in Seq(Groups) /\ ToSet(gs) = ToSet(m.groups[p]) \cup {g}
  BY <1>2, AppendSet
<1>4. n = [m EXCEPT !.groups = [@ EXCEPT ![p] = gs], !.rev = [@ EXCEPT ![g] = v],
                    !.loc = [@ EXCEPT ![g] = t]]
  BY <1>1 DEF Db
<1> HIDE DEF n, gs
<1>5. /\ n \in Db /\ n.entries = m.entries /\ n.dead = m.dead /\ n.hist = m.hist
      /\ n.groups = [m.groups EXCEPT ![p] = gs] /\ n.rev = [m.rev EXCEPT ![g] = v]
      /\ n.pool = m.pool
  BY <1>1, <1>2, <1>3, <1>4 DEF Db
<1>6. /\ \A h \in Groups : Held(n, h) \subseteq Held(m, h) \cup {g}
      /\ \A h \in Groups \ {p} : Held(n, h) \subseteq Held(m, h)
      /\ \A h \in Groups : Held(m, h) \subseteq Held(n, h)
      /\ g \in Held(n, p)
  BY <1>2, <1>3, <1>5 DEF Held
<1>7. Reached(m, {Root}) \subseteq Reached(n, {Root})
  <2>1. {Root} \in SUBSET Groups
    BY GroupAssumption
  <2> DEFINE T == Reached(n, {Root})
  <2>2. T \in SUBSET Groups /\ {Root} \subseteq T /\ ClosedIn(n, T)
    BY <1>5, <2>1, ReachedIs
  <2> HIDE DEF T
  <2>3. ClosedIn(m, T)
    BY <1>6, <2>2 DEF ClosedIn
  <2>4. Reached(m, {Root}) \subseteq T
    BY <1>1, <2>1, <2>2, <2>3, ReachedIs
  <2> QED BY <2>4 DEF T
<1>8. \A f \in (Present(m) \cup {g}) \cap Entries : n.rev[f] \in n.pool
  BY <1>1, <1>2, <1>5 DEF Objects
<1>9. Good(n)
  BY <1>2, <1>5, <1>6, <1>7, <1>8, GoodTree
<1> QED BY <1>9 DEF n

(* What a move does to the tree.                                            *)
MovedFields(m, n, o, to) ==
  /\ n \in Db /\ n.rev = m.rev /\ n.hist = m.hist /\ n.dead = m.dead /\ n.pool = m.pool
  /\ \A g \in Groups : /\ Held(n, g) \subseteq Held(m, g) \cup {o}
                       /\ g # to => Held(n, g) \subseteq Held(m, g)
                       /\ Held(m, g) \subseteq Held(n, g) \cup {o}
  /\ o \in Held(n, to)

LEMMA MovedIs ==
  ASSUME NEW m \in Db, NEW o \in Objects, NEW to \in Groups, NEW t \in Time
  PROVE  MovedFields(m, Moved(m, o, to, t), o, to)
<1> DEFINE Others == Objects \ {o}
           n == Moved(m, o, to, t)
<1>1. /\ m.groups \in [Groups -> Seq(Groups)] /\ m.entries \in [Groups -> Seq(Entries)]
      /\ m.loc \in [Objects -> Time]
  BY DbTypes
<1>2. \A g \in Groups : /\ Only(m.groups[g], Others) \in Seq(Groups)
                        /\ ToSet(Only(m.groups[g], Others)) = ToSet(m.groups[g]) \ {o}
  <2>1. \A g \in Groups : /\ Only(m.groups[g], Others) \in Seq(Groups)
                          /\ ToSet(Only(m.groups[g], Others)) = ToSet(m.groups[g]) \cap Others
    BY <1>1, OnlyIs
  <2>2. \A g \in Groups : ToSet(m.groups[g]) \subseteq Objects
    BY HeldIs DEF Objects
  <2> QED BY <2>1, <2>2
<1>3. \A g \in Groups : /\ Only(m.entries[g], Others) \in Seq(Entries)
                        /\ ToSet(Only(m.entries[g], Others)) = ToSet(m.entries[g]) \ {o}
  <2>1. \A g \in Groups : /\ Only(m.entries[g], Others) \in Seq(Entries)
                          /\ ToSet(Only(m.entries[g], Others)) = ToSet(m.entries[g]) \cap Others
    BY <1>1, OnlyIs
  <2>2. \A g \in Groups : ToSet(m.entries[g]) \subseteq Objects
    BY HeldIs DEF Objects
  <2> QED BY <2>1, <2>2
<1> HIDE DEF Others
<1>4. CASE o \in Groups
  <2> DEFINE gs == Append(Only(m.groups[to], Others), o)
             G == [g \in Groups |-> LET rest == Only(m.groups[g], Others)
                                    IN  IF g = to THEN Append(rest, o) ELSE rest]
  <2>1. n = [m EXCEPT !.groups = G, !.loc[o] = t]
    BY <1>4 DEF Moved, Others
  <2>2. gs \in Seq(Groups) /\ ToSet(gs) = (ToSet(m.groups[to]) \ {o}) \cup {o}
    <3>1. /\ Only(m.groups[to], Others) \in Seq(Groups)
          /\ ToSet(Only(m.groups[to], Others)) = ToSet(m.groups[to]) \ {o}
      BY <1>2
    <3>2. ToSet(gs) = ToSet(Only(m.groups[to], Others)) \cup {o} /\ gs \in Seq(Groups)
      BY <1>4, <3>1, AppendSet
    <3> QED BY <3>1, <3>2
  <2>3. /\ G \in [Groups -> Seq(Groups)]
        /\ \A g \in Groups : G[g] = IF g = to THEN gs ELSE Only(m.groups[g], Others)
    <3>1. G = [g \in Groups |-> IF g = to THEN gs ELSE Only(m.groups[g], Others)]
      OBVIOUS
    <3> HIDE DEF gs, G
    <3> QED BY <1>2, <2>2, <3>1
  <2>4. n = [m EXCEPT !.groups = G, !.loc = [@ EXCEPT ![o] = t]]
    <3> HIDE DEF n, G, gs
    <3> QED BY <2>1 DEF Db
  <2> HIDE DEF G, gs, n
  <2>5. /\ n \in Db /\ n.rev = m.rev /\ n.hist = m.hist /\ n.dead = m.dead /\ n.pool = m.pool
        /\ n.groups = G /\ n.entries = m.entries
    BY <1>1, <2>3, <2>4 DEF Db
  <2>6. \A g \in Groups : ToSet(n.groups[g]) = IF g = to THEN ToSet(m.groups[g]) \cup {o}
                                               ELSE ToSet(m.groups[g]) \ {o}
    BY <1>2, <2>2, <2>3, <2>5
  <2>7. MovedFields(m, n, o, to)
    BY <2>5, <2>6 DEF MovedFields, Held
  <2> QED BY <2>7 DEF n
<1>5. CASE o \notin Groups
  <2> DEFINE gs == Append(Only(m.entries[to], Others), o)
             G == [g \in Groups |-> LET rest == Only(m.entries[g], Others)
                                    IN  IF g = to THEN Append(rest, o) ELSE rest]
  <2>0. o \in Entries
    BY <1>5 DEF Objects
  <2>1. n = [m EXCEPT !.entries = G, !.loc[o] = t]
    BY <1>5 DEF Moved, Others
  <2>2. gs \in Seq(Entries) /\ ToSet(gs) = (ToSet(m.entries[to]) \ {o}) \cup {o}
    BY <1>3, <2>0, AppendSet
  <2>3. /\ G \in [Groups -> Seq(Entries)]
        /\ \A g \in Groups : G[g] = IF g = to THEN gs ELSE Only(m.entries[g], Others)
    <3>1. G = [g \in Groups |-> IF g = to THEN gs ELSE Only(m.entries[g], Others)]
      OBVIOUS
    <3> HIDE DEF gs, G
    <3> QED BY <1>3, <2>2, <3>1
  <2>4. n = [m EXCEPT !.entries = G, !.loc = [@ EXCEPT ![o] = t]]
    <3> HIDE DEF n, G, gs
    <3> QED BY <2>1 DEF Db
  <2> HIDE DEF G, gs, n
  <2>5. /\ n \in Db /\ n.rev = m.rev /\ n.hist = m.hist /\ n.dead = m.dead /\ n.pool = m.pool
        /\ n.entries = G /\ n.groups = m.groups
    BY <1>1, <2>3, <2>4 DEF Db
  <2>6. \A g \in Groups : ToSet(n.entries[g]) = IF g = to THEN ToSet(m.entries[g]) \cup {o}
                                                ELSE ToSet(m.entries[g]) \ {o}
    BY <1>3, <2>2, <2>3, <2>5
  <2>7. MovedFields(m, n, o, to)
    BY <2>5, <2>6 DEF MovedFields, Held
  <2> QED BY <2>7 DEF n
<1> QED BY <1>4, <1>5

(* A move into a group of the tree, never below itself, keeps all that is   *)
(* reached reached.                                                         *)
LEMMA MovedGood ==
  ASSUME NEW m, Good(m), NEW o \in Present(m) \ {Root}, NEW to \in Present(m) \cap Groups,
         to \notin {o} \cup Below(m, {o}), NEW t \in Time
  PROVE  Good(Moved(m, o, to, t))
<1> DEFINE n == Moved(m, o, to, t)
<1>1. /\ m \in Db /\ \A f \in Entries : ToSet(m.hist[f]) \subseteq m.pool
      /\ \A f \in Present(m) \cap Entries : m.rev[f] \in m.pool
  BY DEF Good
<1>2. o \in Objects \ {Root} /\ {o} \in SUBSET Objects /\ {Root} \in SUBSET Groups
  BY <1>1, PresentIs, GroupAssumption
<1>3. MovedFields(m, n, o, to)
  BY <1>1, <1>2, MovedIs
<1> HIDE DEF n
<1>4. /\ n \in Db /\ n.rev = m.rev /\ n.hist = m.hist /\ n.dead = m.dead /\ n.pool = m.pool
      /\ \A g \in Groups : Held(n, g) \subseteq Held(m, g) \cup {o}
      /\ \A g \in Groups \ {to} : Held(n, g) \subseteq Held(m, g)
      /\ \A g \in Groups : Held(m, g) \subseteq Held(n, g) \cup {o}
      /\ o \in Held(n, to)
  BY <1>3 DEF MovedFields
<1> DEFINE T == Reached(n, {Root})
           P == Reached(m, {Root})
           B == Reached(m, {o} \cap Groups)
<1>5. T \in SUBSET Groups /\ Root \in T /\ ClosedIn(n, T)
  BY <1>2, <1>4, ReachedIs
<1>6. /\ P \in SUBSET Groups /\ to \in P
      /\ \A S \in SUBSET Groups : Root \in S /\ ClosedIn(m, S) => P \subseteq S
  BY <1>1, <1>2, ReachedIs, PresentIs
<1>7. /\ B \in SUBSET Groups /\ {o} \cap Groups \subseteq B /\ ClosedIn(m, B)
      /\ B \subseteq {o} \cup Below(m, {o})
  BY <1>1, <1>2, ReachedIs, BelowIs
<1> HIDE DEF T, P, B
<1>8. to \in T
  <2> DEFINE U == T \cup B
  <2>1. ClosedIn(m, U)
    <3>1. ASSUME NEW g \in U, NEW c \in Held(m, g) \cap Groups PROVE c \in U
      <4>1. CASE g \in B
        BY <1>7, <3>1, <4>1 DEF ClosedIn
      <4>2. CASE g \in T /\ c = o
        BY <1>7, <3>1, <4>2
      <4>3. CASE g \in T /\ c # o
        <5>1. c \in Held(n, g)
          BY <1>4, <1>5, <3>1, <4>3
        <5> QED BY <1>5, <3>1, <4>3, <5>1 DEF ClosedIn
      <4> QED BY <3>1, <4>1, <4>2, <4>3
    <3> QED BY <3>1 DEF ClosedIn
  <2>2. U \in SUBSET Groups /\ Root \in U
    BY <1>5, <1>7
  <2> HIDE DEF U
  <2>3. to \in U
    BY <1>6, <2>1, <2>2
  <2> QED BY <1>7, <2>3 DEF U
<1>9. ClosedIn(m, T)
  <2>1. ASSUME NEW g \in T, NEW c \in Held(m, g) \cap Groups PROVE c \in T
    <3>1. CASE c = o
      BY <1>4, <1>5, <1>8, <2>1, <3>1 DEF ClosedIn
    <3>2. CASE c # o
      <4>1. c \in Held(n, g)
        BY <1>4, <1>5, <2>1, <3>2
      <4> QED BY <1>5, <2>1, <4>1 DEF ClosedIn
    <3> QED BY <3>1, <3>2
  <2> QED BY <2>1 DEF ClosedIn
<1>10. P \subseteq T
  BY <1>5, <1>6, <1>9
<1>11. \A f \in (Present(m) \cup {o}) \cap Entries : n.rev[f] \in n.pool
  BY <1>1, <1>4
<1>12. Good(n)
  BY <1>2, <1>4, <1>10, <1>11, GoodTree DEF P, T
<1> QED BY <1>12 DEF n

(* A copy without the garbage of a tree of which it has all attachments.    *)
LEMMA CompactGood ==
  ASSUME NEW m \in Db, Root \notin m.dead, \A g \in Groups : Root \notin Held(m, g),
         \A e \in Present(m) \cap Entries : ToSet(m.hist[e]) \subseteq m.pool,
         \A e \in Present(m) \cap Entries : m.rev[e] \in m.pool
  PROVE  Good(Compact(m)) /\ Present(Compact(m)) = Present(m)
<1> DEFINE n == Compact(m)
<1>1. /\ CompactFields(m, n)
      /\ \A g \in Groups : Held(n, g) = IF g \in Present(m) THEN Held(m, g) ELSE {}
      /\ Present(n) = Present(m)
  BY CompactIs
<1> HIDE DEF n
<1>2. /\ n \in Db /\ n.dead = m.dead /\ n.pool = m.pool
      /\ \A e \in Entries : n.hist[e] = IF e \in Present(m) THEN m.hist[e] ELSE <<>>
      /\ \A o \in Objects : n.rev[o] = IF o \in Present(m) THEN m.rev[o] ELSE Origin
  BY <1>1 DEF CompactFields
<1>3. \A e \in Entries : ToSet(n.hist[e]) \subseteq n.pool
  BY <1>2, EmptySet
<1>4. \A e \in Present(n) \cap Entries : n.rev[e] \in n.pool
  BY <1>1, <1>2 DEF Objects
<1>5. \A e \in Entries \ Present(n) : ToSet(n.hist[e]) = {}
  BY <1>1, <1>2, EmptySet
<1>6. Good(n)
  BY <1>1, <1>2, <1>3, <1>4, <1>5 DEF Good
<1> QED BY <1>1, <1>6 DEF n

(* The removal of unused attachments takes none in use.                     *)
LEMMA UnusedGood ==
  ASSUME NEW m, Good(m), NEW n \in Db, n.groups = m.groups, n.entries = m.entries,
         n.dead = m.dead, n.rev = m.rev,
         \A e \in Entries : ToSet(n.hist[e]) \subseteq ToSet(m.hist[e]),
         n.pool = m.pool \cap Revisions(n)
  PROVE  Good(n) /\ Present(n) = Present(m)
<1>1. Present(n) = Present(m)
  <2>1. \A g : Held(n, g) = Held(m, g)
    BY DEF Held
  <2>2. \A S : Reached(n, S) = Reached(m, S)
    BY DEF Reached
  <2> QED BY <2>1, <2>2 DEF Present, Below
<1>2. ASSUME NEW e \in Entries PROVE ToSet(n.hist[e]) \subseteq n.pool
  <2>1. ToSet(n.hist[e]) \subseteq m.pool
    BY DEF Good
  <2>2. CASE e \in Present(n)
    BY <2>1, <2>2 DEF Revisions
  <2>3. CASE e \notin Present(n)
    <3>1. ToSet(m.hist[e]) = {}
      BY <1>1, <2>3 DEF Good
    <3> QED BY <3>1
  <2> QED BY <2>2, <2>3
<1>3. \A e \in Present(m) \cap Entries : n.rev[e] \in n.pool
  BY <1>1 DEF Good, Revisions
<1>4. \A e \in Entries \ Present(m) : ToSet(n.hist[e]) = {}
  BY DEF Good
<1>5. Good(n)
  BY <1>2, <1>3, <1>4, GoodRest
<1> QED BY <1>1, <1>5

(* A removal for good leaves a tombstone of all below, but none of the root. *)
LEMMA DeletedGood ==
  ASSUME NEW m, Good(m), NEW o \in Present(m) \ {Root}
  PROVE  Good(Deleted(m, o))
<1> DEFINE below == {o} \cup Below(m, {o})
           Others == Objects \ {o}
           GS == [g \in Groups |-> Only(m.groups[g], Others)]
           ES == [g \in Groups |-> Only(m.entries[g], Others)]
           k == [m EXCEPT !.groups = GS, !.entries = ES, !.dead = @ \cup below]
           n == Compact(k)
           r == [n EXCEPT !.pool = @ \cap Revisions(n)]
<1>1. Deleted(m, o) = r
  BY DEF Deleted
<1>2. /\ m \in Db /\ Root \notin m.dead /\ \A g \in Groups : Root \notin Held(m, g)
      /\ \A f \in Entries : ToSet(m.hist[f]) \subseteq m.pool
      /\ \A f \in Present(m) \cap Entries : m.rev[f] \in m.pool
  BY DEF Good
<1>3. /\ m.groups \in [Groups -> Seq(Groups)] /\ m.entries \in [Groups -> Seq(Entries)]
      /\ m.dead \in SUBSET Objects
  BY <1>2, DbTypes
<1>4. below \in SUBSET Objects /\ Root \notin below
  <2>1. {o} \in SUBSET Objects
    BY <1>2, PresentIs
  <2>2. /\ Below(m, {o}) \in SUBSET Objects
        /\ \A p : p \in Below(m, {o}) <=> \E g \in Reached(m, {o} \cap Groups) : p \in Held(m, g)
    BY <1>2, <2>1, BelowIs
  <2>3. Reached(m, {o} \cap Groups) \in SUBSET Groups
    BY <1>2, ReachedIs
  <2> QED BY <1>2, <2>1, <2>2, <2>3
<1> HIDE DEF below, Others
<1>5. \A g \in Groups : /\ Only(m.groups[g], Others) \in Seq(Groups)
                        /\ ToSet(Only(m.groups[g], Others)) \subseteq ToSet(m.groups[g])
                        /\ Only(m.entries[g], Others) \in Seq(Entries)
                        /\ ToSet(Only(m.entries[g], Others)) \subseteq ToSet(m.entries[g])
  <2>1. \A g \in Groups : /\ Only(m.groups[g], Others) \in Seq(Groups)
                          /\ ToSet(Only(m.groups[g], Others)) = ToSet(m.groups[g]) \cap Others
    BY <1>3, OnlyIs
  <2>2. \A g \in Groups : /\ Only(m.entries[g], Others) \in Seq(Entries)
                          /\ ToSet(Only(m.entries[g], Others)) = ToSet(m.entries[g]) \cap Others
    BY <1>3, OnlyIs
  <2> QED BY <2>1, <2>2
<1>6. /\ k \in Db /\ k.groups = GS /\ k.entries = ES /\ k.dead = m.dead \cup below
      /\ k.hist = m.hist /\ k.pool = m.pool /\ k.rev = m.rev
  <2>1. GS \in [Groups -> Seq(Groups)] /\ ES \in [Groups -> Seq(Entries)]
    BY <1>5
  <2> HIDE DEF GS, ES
  <2> QED BY <1>2, <1>3, <1>4, <2>1 DEF Db
<1> HIDE DEF k
<1>7. \A g \in Groups : Held(k, g) \subseteq Held(m, g)
  BY <1>5, <1>6 DEF Held
<1>8. \A e \in Present(k) \cap Entries : e \in Present(m)
  <2>1. ASSUME NEW e \in Present(k) \cap Entries PROVE e \in Present(m)
    <3>1. e # Root
      BY GroupAssumption
    <3>2. PICK g \in Reached(k, {Root}) : e \in Held(k, g)
      BY <1>6, <3>1, PresentIs
    <3>3. g \in Groups
      BY <1>6, PresentIs
    <3> QED BY <1>7, <3>2, <3>3, GoodIs
  <2> QED BY <2>1
<1>9. Good(n)
  BY <1>2, <1>4, <1>6, <1>7, <1>8, CompactGood
<1> HIDE DEF n
<1>10. n \in Db
  BY <1>9 DEF Good
<1>11. /\ r \in Db /\ r.groups = n.groups /\ r.entries = n.entries /\ r.dead = n.dead
       /\ r.rev = n.rev /\ r.hist = n.hist /\ r.pool = n.pool \cap Revisions(n)
  BY <1>10 DEF Db
<1> HIDE DEF r
<1>12. Revisions(r) = Revisions(n)
  <2>1. \A g : Held(r, g) = Held(n, g)
    BY <1>11 DEF Held
  <2>2. \A S : Reached(r, S) = Reached(n, S)
    BY <1>11 DEF Reached
  <2>3. Below(r, {Root}) = Below(n, {Root})
    BY ONLY <2>1, <2>2 DEF Below
  <2>4. Present(r) = Present(n)
    BY <2>3 DEF Present
  <2> QED BY <1>11, <2>4 DEF Revisions
<1>13. Good(r)
  BY <1>9, <1>11, <1>12, UnusedGood
<1> QED BY <1>1, <1>13

-----------------------------------------------------------------------------
(* One object of a merge.                                                   *)

WalkState == [m : Db, theirs : Db, own : SUBSET Objects, all : SUBSET Objects,
              added : [Entries -> SUBSET Time], todo : Seq(Objects)]

LEMMA WalkTypes ==
  ASSUME NEW x \in WalkState
  PROVE  /\ x.m \in Db /\ x.theirs \in Db /\ x.own \in SUBSET Objects /\ x.all \in SUBSET Objects
         /\ x.added \in [Entries -> SUBSET Time] /\ x.todo \in Seq(Objects)
BY DEF WalkState

(* What no visit changes.                                                   *)
SameSides(x, y) ==
  /\ y.theirs = x.theirs /\ y.own = x.own /\ y.all = x.all
  /\ y.m.dead = x.m.dead /\ y.m.pool = x.m.pool /\ y.m.max = x.m.max

SameLists(m, n) == n.groups = m.groups /\ n.entries = m.entries

(* The times and the revision of an object after copyFrom(), if the other   *)
(* side's is later.                                                         *)
Later(x, o) == Earlier(x.m.rev[o], x.theirs.rev[o])

LocOf(x, o, p) == IF p = o /\ Later(x, o) THEN x.theirs.loc[o] ELSE x.m.loc[p]

RevOf(x, o, p) == IF p = o /\ Later(x, o) THEN x.theirs.rev[o] ELSE x.m.rev[p]

Copied(x, y, o) ==
  /\ y \in WalkState /\ SameSides(x, y) /\ SameLists(x.m, y.m) /\ y.m.hist = x.m.hist
  /\ y.todo = x.todo /\ y.added = x.added
  /\ \A p \in Objects : y.m.loc[p] = LocOf(x, o, p) /\ y.m.rev[p] = RevOf(x, o, p)

LEMMA CopyIs ==
  ASSUME NEW x \in WalkState, NEW o \in Objects
  PROVE  Copied(x, IF Later(x, o) THEN CopyFrom(x, o) ELSE x, o)
<1>1. /\ x.m \in Db /\ x.theirs \in Db
  BY WalkTypes
<1>2. /\ x.m.loc \in [Objects -> Time] /\ x.m.rev \in [Objects -> Stamp]
      /\ x.theirs.loc[o] \in Time /\ x.theirs.rev[o] \in Stamp
  BY <1>1, DbTypes
<1>3. CASE Later(x, o)
  <2> DEFINE y == CopyFrom(x, o)
             L == [x.m.loc EXCEPT ![o] = x.theirs.loc[o]]
             R == [x.m.rev EXCEPT ![o] = x.theirs.rev[o]]
             n == [x.m EXCEPT !.rev = R, !.loc = L]
  <2>1. y = [x EXCEPT !.m = n]
    BY DEF CopyFrom, WalkState, Db
  <2>2. L \in [Objects -> Time] /\ R \in [Objects -> Stamp]
    BY <1>2
  <2>3. \A p \in Objects : L[p] = LocOf(x, o, p) /\ R[p] = RevOf(x, o, p)
    BY <1>2, <1>3 DEF LocOf, RevOf
  <2> HIDE DEF L, R, y
  <2>4. /\ n \in Db /\ n.loc = L /\ n.rev = R /\ n.groups = x.m.groups /\ n.entries = x.m.entries
        /\ n.hist = x.m.hist /\ n.dead = x.m.dead /\ n.pool = x.m.pool /\ n.max = x.m.max
    BY <1>1, <2>2 DEF Db
  <2> HIDE DEF n
  <2>5. /\ y \in WalkState /\ y.m = n /\ y.theirs = x.theirs /\ y.own = x.own /\ y.all = x.all
        /\ y.todo = x.todo /\ y.added = x.added
    BY <2>1, <2>4 DEF WalkState
  <2>6. Copied(x, y, o)
    BY <2>3, <2>4, <2>5 DEF Copied, SameSides, SameLists
  <2> QED BY <1>3, <2>6 DEF y
<1>4. CASE ~Later(x, o)
  <2>1. Copied(x, x, o)
    BY <1>4 DEF Copied, SameSides, SameLists, LocOf, RevOf
  <2> QED BY <1>4, <2>1
<1> QED BY <1>3, <1>4

Created(x, y, S) ==
  /\ y \in WalkState /\ SameSides(x, y) /\ SameLists(x.m, y.m) /\ y.m.hist = x.m.hist
  /\ y.todo = x.todo /\ y.added = x.added
  /\ \A p \in Objects : /\ y.m.loc[p] = IF p \in S \ x.own THEN x.theirs.loc[p] ELSE x.m.loc[p]
                        /\ y.m.rev[p] = IF p \in S \ x.own THEN x.theirs.rev[p] ELSE x.m.rev[p]

LEMMA CreateRemoteIs ==
  ASSUME NEW x \in WalkState, NEW items
  PROVE  Created(x, CreateRemote(x, items), ToSet(items))
<1> DEFINE new == ToSet(items) \ x.own
           y == CreateRemote(x, items)
           L == [p \in Objects |-> IF p \in new THEN x.theirs.loc[p] ELSE x.m.loc[p]]
           R == [p \in Objects |-> IF p \in new THEN x.theirs.rev[p] ELSE x.m.rev[p]]
           n == [x.m EXCEPT !.loc = L, !.rev = R]
<1>1. x.m \in Db /\ x.theirs \in Db
  BY WalkTypes
<1>2. /\ x.m.loc \in [Objects -> Time] /\ x.m.rev \in [Objects -> Stamp]
      /\ x.theirs.loc \in [Objects -> Time] /\ x.theirs.rev \in [Objects -> Stamp]
  BY <1>1, DbTypes
<1>3. y = [x EXCEPT !.m = n]
  BY DEF CreateRemote, WalkState, Db
<1>4. L \in [Objects -> Time] /\ R \in [Objects -> Stamp]
  <2> HIDE DEF new
  <2> QED BY <1>2
<1>5. \A p \in Objects : /\ L[p] = IF p \in ToSet(items) \ x.own THEN x.theirs.loc[p] ELSE x.m.loc[p]
                         /\ R[p] = IF p \in ToSet(items) \ x.own THEN x.theirs.rev[p] ELSE x.m.rev[p]
  OBVIOUS
<1> HIDE DEF L, R, y
<1>6. /\ n \in Db /\ n.loc = L /\ n.rev = R /\ n.groups = x.m.groups /\ n.entries = x.m.entries
      /\ n.hist = x.m.hist /\ n.dead = x.m.dead /\ n.pool = x.m.pool /\ n.max = x.m.max
  BY <1>1, <1>4 DEF Db
<1> HIDE DEF n
<1>7. /\ y \in WalkState /\ y.m = n /\ y.theirs = x.theirs /\ y.own = x.own /\ y.all = x.all
      /\ y.todo = x.todo /\ y.added = x.added
  BY <1>3, <1>6 DEF WalkState
<1>8. Created(x, y, ToSet(items))
  BY <1>5, <1>6, <1>7 DEF Created, SameSides, SameLists
<1> QED BY <1>8 DEF y

(* Which objects of a group stay, and which come, by the times that they    *)
(* have when the group is merged.                                           *)
StaysIn(x, g, o) == o \notin x.m.dead /\ (o \in x.all => x.theirs.loc[o] <= LocOf(x, g, o))

ComesIn(x, g, o) == o \notin x.m.dead /\ (o \in x.own => x.theirs.loc[o] > LocOf(x, g, o))

OnceIn(m, g) == IsInjective(m.groups[g]) /\ IsInjective(m.entries[g])

(* A visit of a group.                                                      *)
GroupVisited(x, y, g) ==
  /\ y \in WalkState /\ SameSides(x, y) /\ y.m.hist = x.m.hist /\ y.added = x.added
  /\ \A h \in Groups \ {g} : y.m.groups[h] = x.m.groups[h] /\ y.m.entries[h] = x.m.entries[h]
  /\ Held(y.m, g) = {o \in Held(x.m, g) : StaysIn(x, g, o)}
                    \cup {o \in Held(x.theirs, g) : ComesIn(x, g, o)}
  /\ \A o \in Objects :
        /\ y.m.loc[o] = IF o \in Held(y.m, g) \ x.own THEN x.theirs.loc[o] ELSE LocOf(x, g, o)
        /\ y.m.rev[o] = IF o \in Held(y.m, g) \ x.own THEN x.theirs.rev[o] ELSE RevOf(x, g, o)
  /\ y.todo = y.m.groups[g] \o y.m.entries[g] \o Tail(x.todo)
  /\ /\ OnceIn(x.m, g) /\ OnceIn(x.theirs, g)
     /\ \A o \in Held(x.m, g) \cap Held(x.theirs, g) : ~(StaysIn(x, g, o) /\ ComesIn(x, g, o))
     => OnceIn(y.m, g)

LEMMA MergeGroupIs ==
  ASSUME NEW z \in WalkState, NEW g \in Groups, NEW x \in WalkState,
         z = [x EXCEPT !.todo = Tail(@)]
  PROVE  GroupVisited(x, MergeGroup(z, g), g)
<1> DEFINE x1 == IF Later(z, g) THEN CopyFrom(z, g) ELSE z
           gs == MergeCollection(x1, x1.m.groups[g], x1.theirs.groups[g])
           es == MergeCollection(x1, x1.m.entries[g], x1.theirs.entries[g])
           x2 == [x1 EXCEPT !.m.groups[g] = gs, !.m.entries[g] = es, !.todo = gs \o es \o @]
           y == CreateRemote(x2, gs \o es)
           stay == {o \in Held(x.m, g) : StaysIn(x, g, o)}
           come == {o \in Held(x.theirs, g) : ComesIn(x, g, o)}
<1>1. MergeGroup(z, g) = y
  BY DEF MergeGroup, Later
<1>2. /\ g \in Objects /\ Groups \in SUBSET Objects /\ Entries \in SUBSET Objects
      /\ Groups \cap Entries = {}
  BY GroupAssumption DEF Objects
<1>3. Copied(z, x1, g)
  BY <1>2, CopyIs
<1>4. /\ z.m = x.m /\ z.theirs = x.theirs /\ z.own = x.own /\ z.all = x.all
      /\ z.added = x.added /\ z.todo = Tail(x.todo)
  BY DEF WalkState
<1> HIDE DEF x1
<1>5. /\ x1 \in WalkState /\ SameSides(x, x1) /\ SameLists(x.m, x1.m) /\ x1.m.hist = x.m.hist
      /\ x1.todo = Tail(x.todo) /\ x1.added = x.added
      /\ \A p \in Objects : x1.m.loc[p] = LocOf(x, g, p) /\ x1.m.rev[p] = RevOf(x, g, p)
  BY <1>3, <1>4 DEF Copied, SameSides, SameLists, LocOf, RevOf, Later
<1>6. /\ x.m \in Db /\ x.theirs \in Db /\ x1.m \in Db
  BY <1>5, WalkTypes
<1>7. /\ x1.m.groups[g] = x.m.groups[g] /\ x1.m.entries[g] = x.m.entries[g]
      /\ x1.theirs = x.theirs
      /\ x1.m.groups[g] \in Seq(Groups) /\ x1.theirs.groups[g] \in Seq(Groups)
      /\ x1.m.entries[g] \in Seq(Entries) /\ x1.theirs.entries[g] \in Seq(Entries)
  <2>1. x1.theirs = x.theirs /\ x1.m.groups[g] = x.m.groups[g] /\ x1.m.entries[g] = x.m.entries[g]
    BY <1>5 DEF SameSides, SameLists
  <2> QED BY <1>6, <2>1, HeldIs
<1>8. \A o \in Objects : (Stays(x1, o) <=> StaysIn(x, g, o)) /\ (Comes(x1, o) <=> ComesIn(x, g, o))
  BY <1>5 DEF Stays, Comes, StaysIn, ComesIn, SameSides
<1>9. /\ gs \in Seq(Groups)
      /\ ToSet(gs) = {o \in ToSet(x.m.groups[g]) : Stays(x1, o)}
                     \cup {o \in ToSet(x.theirs.groups[g]) : Comes(x1, o)}
      /\ /\ IsInjective(x.m.groups[g]) /\ IsInjective(x.theirs.groups[g])
         /\ \A o \in ToSet(x.m.groups[g]) \cap ToSet(x.theirs.groups[g]) : ~(Stays(x1, o) /\ Comes(x1, o))
         => IsInjective(gs)
  <2>1. \A a, b \in Seq(Groups) :
           /\ MergeCollection(x1, a, b) \in Seq(Groups)
           /\ ToSet(MergeCollection(x1, a, b)) =
                 {o \in ToSet(a) : Stays(x1, o)} \cup {o \in ToSet(b) : Comes(x1, o)}
           /\ /\ IsInjective(a) /\ IsInjective(b)
              /\ \A o \in ToSet(a) \cap ToSet(b) : ~(Stays(x1, o) /\ Comes(x1, o))
              => IsInjective(MergeCollection(x1, a, b))
    BY <1>2, MergeCollectionIs
  <2>2. gs = MergeCollection(x1, x.m.groups[g], x.theirs.groups[g])
        /\ es = MergeCollection(x1, x.m.entries[g], x.theirs.entries[g])
    BY <1>7
  <2>3. x.m.groups[g] \in Seq(Groups) /\ x.theirs.groups[g] \in Seq(Groups)
    BY <1>7
  <2> HIDE DEF gs, es
  <2> QED BY <2>1, <2>2, <2>3
<1>10. /\ es \in Seq(Entries)
       /\ ToSet(es) = {o \in ToSet(x.m.entries[g]) : Stays(x1, o)}
                      \cup {o \in ToSet(x.theirs.entries[g]) : Comes(x1, o)}
       /\ /\ IsInjective(x.m.entries[g]) /\ IsInjective(x.theirs.entries[g])
          /\ \A o \in ToSet(x.m.entries[g]) \cap ToSet(x.theirs.entries[g]) : ~(Stays(x1, o) /\ Comes(x1, o))
          => IsInjective(es)
  <2>1. \A a, b \in Seq(Entries) :
           /\ MergeCollection(x1, a, b) \in Seq(Entries)
           /\ ToSet(MergeCollection(x1, a, b)) =
                 {o \in ToSet(a) : Stays(x1, o)} \cup {o \in ToSet(b) : Comes(x1, o)}
           /\ /\ IsInjective(a) /\ IsInjective(b)
              /\ \A o \in ToSet(a) \cap ToSet(b) : ~(Stays(x1, o) /\ Comes(x1, o))
              => IsInjective(MergeCollection(x1, a, b))
    BY <1>2, MergeCollectionIs
  <2>2. gs = MergeCollection(x1, x.m.groups[g], x.theirs.groups[g])
        /\ es = MergeCollection(x1, x.m.entries[g], x.theirs.entries[g])
    BY <1>7
  <2>3. x.m.entries[g] \in Seq(Entries) /\ x.theirs.entries[g] \in Seq(Entries)
    BY <1>7
  <2> HIDE DEF gs, es
  <2> QED BY <2>1, <2>2, <2>3
<1> HIDE DEF gs, es
<1>11. /\ Held(x.m, g) \in SUBSET Objects /\ Held(x.theirs, g) \in SUBSET Objects
       /\ ToSet(x.m.groups[g]) \subseteq Groups /\ ToSet(x.theirs.groups[g]) \subseteq Groups
       /\ ToSet(x.m.entries[g]) \subseteq Entries /\ ToSet(x.theirs.entries[g]) \subseteq Entries
  BY <1>6, HeldIs
<1>12. ToSet(gs) \cup ToSet(es) = stay \cup come
  BY <1>2, <1>8, <1>9, <1>10, <1>11 DEF Held
<1> DEFINE n2 == [x1.m EXCEPT !.groups = [@ EXCEPT ![g] = gs], !.entries = [@ EXCEPT ![g] = es]]
<1>13. x2 = [x1 EXCEPT !.m = n2, !.todo = gs \o es \o @]
  BY <1>5 DEF WalkState, Db
<1> HIDE DEF x2
<1>14. /\ n2 \in Db /\ n2.groups = [x1.m.groups EXCEPT ![g] = gs]
       /\ n2.entries = [x1.m.entries EXCEPT ![g] = es]
       /\ n2.loc = x1.m.loc /\ n2.rev = x1.m.rev /\ n2.hist = x1.m.hist /\ n2.dead = x1.m.dead
       /\ n2.pool = x1.m.pool /\ n2.max = x1.m.max
  BY <1>6, <1>9, <1>10 DEF Db
<1> HIDE DEF n2
<1>15. /\ gs \o es \o Tail(x.todo) \in Seq(Objects) /\ ToSet(gs \o es) = stay \cup come
  <2>1. gs \in Seq(Objects) /\ es \in Seq(Objects) /\ Tail(x.todo) \in Seq(Objects)
    <3>1. gs \in Seq(Objects) /\ es \in Seq(Objects)
      BY <1>2, <1>9, <1>10
    <3>2. Tail(x.todo) \in Seq(Objects)
      BY <1>5, WalkTypes
    <3> QED BY <3>1, <3>2
  <2>2. gs \o es \in Seq(Objects) /\ ToSet(gs \o es) = ToSet(gs) \cup ToSet(es)
    BY <2>1, ConcatSet
  <2> QED BY <1>12, <2>1, <2>2, ConcatSet
<1>16. /\ x2 \in WalkState /\ x2.m = n2 /\ x2.theirs = x.theirs /\ x2.own = x.own /\ x2.all = x.all
       /\ x2.added = x.added /\ x2.todo = gs \o es \o Tail(x.todo)
  BY <1>5, <1>13, <1>14, <1>15 DEF WalkState, SameSides
<1>17. Created(x2, y, stay \cup come)
  BY <1>15, <1>16, CreateRemoteIs
<1> HIDE DEF y, stay, come
<1>18. /\ y \in WalkState /\ SameSides(x2, y) /\ SameLists(n2, y.m) /\ y.m.hist = x.m.hist
       /\ y.added = x.added /\ y.todo = gs \o es \o Tail(x.todo)
  BY <1>5, <1>14, <1>16, <1>17 DEF Created
<1>19. /\ x1.m.groups \in [Groups -> Seq(Groups)] /\ x1.m.entries \in [Groups -> Seq(Entries)]
  BY <1>6, DbTypes
<1>20. /\ y.m.groups[g] = gs /\ y.m.entries[g] = es
       /\ \A h \in Groups \ {g} : y.m.groups[h] = x.m.groups[h] /\ y.m.entries[h] = x.m.entries[h]
  BY <1>5, <1>14, <1>18, <1>19 DEF SameLists
<1>21. Held(y.m, g) = stay \cup come
  BY <1>12, <1>20 DEF Held
<1>22. \A o \in Objects :
        /\ y.m.loc[o] = IF o \in Held(y.m, g) \ x.own THEN x.theirs.loc[o] ELSE LocOf(x, g, o)
        /\ y.m.rev[o] = IF o \in Held(y.m, g) \ x.own THEN x.theirs.rev[o] ELSE RevOf(x, g, o)
  BY <1>5, <1>14, <1>16, <1>17, <1>21 DEF Created
<1>23. ASSUME OnceIn(x.m, g), OnceIn(x.theirs, g),
              \A o \in Held(x.m, g) \cap Held(x.theirs, g) : ~(StaysIn(x, g, o) /\ ComesIn(x, g, o))
       PROVE  OnceIn(y.m, g)
  <2>1. \A o \in Held(x.m, g) \cap Held(x.theirs, g) : ~(Stays(x1, o) /\ Comes(x1, o))
    BY <1>8, <1>11, <1>23
  <2> QED BY <1>9, <1>10, <1>20, <1>23, <2>1 DEF OnceIn, Held
<1>24. SameSides(x, y)
  BY <1>5, <1>14, <1>16, <1>18 DEF SameSides
<1>25. GroupVisited(x, y, g)
  BY <1>18, <1>20, <1>21, <1>22, <1>23, <1>24 DEF GroupVisited, stay, come
<1> QED BY <1>1, <1>25

(* A visit of an entry: the histories are merged, and the revision of this  *)
(* side, if the other one's is later, goes to the history.                  *)
EntryVisited(x, y, e) ==
  /\ y \in WalkState /\ SameSides(x, y) /\ SameLists(x.m, y.m) /\ y.todo = Tail(x.todo)
  /\ \A p \in Objects : y.m.loc[p] = LocOf(x, e, p) /\ y.m.rev[p] = RevOf(x, e, p)
  /\ \A f \in Entries \ {e} : y.m.hist[f] = x.m.hist[f] /\ y.added[f] = x.added[f]
  /\ x.added[e] \subseteq y.added[e]
  /\ Later(x, e) => x.m.rev[e].at \in y.added[e] \cap Times(y.m.hist[e])
  /\ Times(x.theirs.hist[e]) \subseteq Times(y.m.hist[e])
  /\ Times(x.m.hist[e]) \cap y.added[e] \subseteq Times(y.m.hist[e])
  /\ Earlier(x.theirs.rev[e], x.m.rev[e]) /\ x.theirs.rev[e].at \notin Times(x.m.hist[e])
        => x.theirs.rev[e].at \in Times(y.m.hist[e])
  /\ ToSet(y.m.hist[e]) \subseteq ToSet(x.m.hist[e]) \cup ToSet(x.theirs.hist[e])
                                  \cup (IF Later(x, e) THEN {x.m.rev[e]} ELSE {})
                                  \cup {x.theirs.rev[e]}

LEMMA MergeEntryIs ==
  ASSUME NEW z \in WalkState, NEW e \in Entries, NEW x \in WalkState,
         z = [x EXCEPT !.todo = Tail(@)]
  PROVE  EntryVisited(x, MergeEntry(z, e), e)
<1> DEFINE older == Later(z, e)
           known == \E i \in 1 .. Len(z.m.hist[e]) : z.m.hist[e][i].at = z.theirs.rev[e].at
           c == IF older THEN CopyFrom(z, e) ELSE z
           y == IF older THEN [CopyFrom(z, e) EXCEPT !.added[e] = @ \cup {z.m.rev[e].at}] ELSE z
           myHist == IF older THEN Append(z.m.hist[e], z.m.rev[e]) ELSE z.m.hist[e]
           itsHist == IF Earlier(z.theirs.rev[e], z.m.rev[e]) /\ ~known
                      THEN Append(z.theirs.hist[e], z.theirs.rev[e]) ELSE z.theirs.hist[e]
           out == MergeHistory(Sorted(myHist), Sorted(itsHist), y.added[e], z.theirs.rev[e].at)
           r == [y EXCEPT !.m.hist[e] = out]
<1>1. MergeEntry(z, e) = r
  BY DEF MergeEntry, Later
<1>2. e \in Objects
  BY DEF Objects
<1>3. Copied(z, c, e)
  BY <1>2, CopyIs
<1>4. /\ z.m = x.m /\ z.theirs = x.theirs /\ z.own = x.own /\ z.all = x.all
      /\ z.added = x.added /\ z.todo = Tail(x.todo) /\ older = Later(x, e)
  BY DEF WalkState, Later
<1>5. /\ x.m \in Db /\ x.theirs \in Db /\ x.added \in [Entries -> SUBSET Time]
  BY WalkTypes
<1>6. /\ x.m.hist[e] \in Seq(Stamp) /\ x.m.rev[e] \in Stamp
      /\ x.theirs.hist[e] \in Seq(Stamp) /\ x.theirs.rev[e] \in Stamp
  BY <1>2, <1>5, DbTypes
<1>7. x.m.rev[e].at \in Time
  BY <1>6 DEF Stamp
<1>8. y = IF older THEN [c EXCEPT !.added = [c.added EXCEPT ![e] = c.added[e] \cup {x.m.rev[e].at}]]
                    ELSE c
  <2>1. c \in WalkState
    BY <1>3 DEF Copied
  <2>2. CASE older
    <3>1. y = [c EXCEPT !.added[e] = @ \cup {x.m.rev[e].at}]
      BY <1>4, <2>2
    <3> HIDE DEF y, c
    <3> QED BY <2>1, <2>2, <3>1 DEF WalkState
  <2>3. CASE ~older
    BY <2>3
  <2> QED BY <2>2, <2>3
<1> HIDE DEF c
<1>9. /\ c \in WalkState /\ SameSides(x, c) /\ SameLists(x.m, c.m) /\ c.m.hist = x.m.hist
      /\ c.todo = Tail(x.todo) /\ c.added = x.added
      /\ \A p \in Objects : c.m.loc[p] = LocOf(x, e, p) /\ c.m.rev[p] = RevOf(x, e, p)
  BY <1>3, <1>4 DEF Copied, SameSides, SameLists, LocOf, RevOf, Later
<1> DEFINE add == IF older THEN [x.added EXCEPT ![e] = @ \cup {x.m.rev[e].at}] ELSE x.added
<1>10. /\ add \in [Entries -> SUBSET Time]
       /\ \A f \in Entries \ {e} : add[f] = x.added[f]
       /\ x.added[e] \subseteq add[e] /\ (older => x.m.rev[e].at \in add[e])
  <2> HIDE DEF older
  <2>1. CASE older
    BY <1>5, <1>7, <2>1
  <2>2. CASE ~older
    BY <1>5, <2>2
  <2> QED BY <2>1, <2>2
<1> HIDE DEF y
<1>11. /\ y \in WalkState /\ y.m = c.m /\ y.theirs = c.theirs /\ y.own = c.own /\ y.all = c.all
       /\ y.todo = c.todo /\ y.added = add
  <2> HIDE DEF older
  <2>1. CASE older
    <3>1. add = [x.added EXCEPT ![e] = @ \cup {x.m.rev[e].at}]
      BY <2>1
    <3> HIDE DEF add
    <3> QED BY <1>8, <1>9, <1>10, <2>1, <3>1 DEF WalkState
  <2>2. CASE ~older
    BY <1>8, <1>9, <2>2
  <2> QED BY <2>1, <2>2
<1> HIDE DEF add
<1>12. /\ myHist \in Seq(Stamp)
       /\ ToSet(myHist) = ToSet(x.m.hist[e]) \cup (IF older THEN {x.m.rev[e]} ELSE {})
       /\ Times(myHist) = Times(x.m.hist[e]) \cup (IF older THEN {x.m.rev[e].at} ELSE {})
  BY <1>4, <1>6, AppendTimes
<1> DEFINE takes == Earlier(x.theirs.rev[e], x.m.rev[e]) /\ ~known
<1>13. /\ itsHist \in Seq(Stamp)
       /\ ToSet(itsHist) = ToSet(x.theirs.hist[e]) \cup (IF takes THEN {x.theirs.rev[e]} ELSE {})
       /\ Times(itsHist) = Times(x.theirs.hist[e]) \cup (IF takes THEN {x.theirs.rev[e].at} ELSE {})
  <2>1. itsHist = IF takes THEN Append(x.theirs.hist[e], x.theirs.rev[e]) ELSE x.theirs.hist[e]
    BY <1>4
  <2> HIDE DEF itsHist, takes
  <2> QED BY <1>6, <2>1, AppendTimes
<1>14. known <=> x.theirs.rev[e].at \in Times(x.m.hist[e])
  <2>1. DOMAIN x.m.hist[e] = 1 .. Len(x.m.hist[e])
    BY <1>6
  <2> QED BY <1>4, <2>1 DEF Times, ToSet
<1> HIDE DEF myHist, itsHist, known
<1>15. /\ Sorted(myHist) \in Seq(Stamp) /\ ToSet(Sorted(myHist)) = ToSet(myHist)
       /\ Sorted(itsHist) \in Seq(Stamp) /\ ToSet(Sorted(itsHist)) = ToSet(itsHist)
  BY <1>12, <1>13, SortedIs
<1>16. Times(Sorted(myHist)) = Times(myHist) /\ Times(Sorted(itsHist)) = Times(itsHist)
  BY <1>15 DEF Times
<1>17. /\ out \in Seq(Stamp)
       /\ ToSet(out) \subseteq ToSet(myHist) \cup ToSet(itsHist)
       /\ Times(itsHist) \subseteq Times(out)
       /\ Times(myHist) \cap add[e] \subseteq Times(out)
  <2> DEFINE a == Sorted(myHist)
             b == Sorted(itsHist)
  <2>1. a \in Seq(Stamp) /\ b \in Seq(Stamp)
    BY <1>15
  <2>2. out = MergeHistory(a, b, y.added[e], z.theirs.rev[e].at)
    OBVIOUS
  <2> HIDE DEF out, a, b
  <2>3. /\ out \in Seq(Stamp)
        /\ ToSet(out) \subseteq ToSet(a) \cup ToSet(b)
        /\ Times(b) \subseteq Times(out)
        /\ Times(a) \cap y.added[e] \subseteq Times(out)
    BY <2>1, <2>2, MergeHistoryIs
  <2> QED BY <1>11, <1>15, <1>16, <2>3 DEF a, b
<1> HIDE DEF out
<1> DEFINE n == [c.m EXCEPT !.hist = [@ EXCEPT ![e] = out]]
<1>18. r = [y EXCEPT !.m = n]
  BY <1>9, <1>11 DEF WalkState, Db
<1>19. /\ c.m \in Db /\ c.m.hist \in [Entries -> Seq(Stamp)]
  BY <1>9, WalkTypes, DbTypes
<1>20. /\ n \in Db /\ n.hist = [c.m.hist EXCEPT ![e] = out] /\ n.groups = c.m.groups
       /\ n.entries = c.m.entries /\ n.loc = c.m.loc /\ n.rev = c.m.rev
       /\ n.dead = c.m.dead /\ n.pool = c.m.pool /\ n.max = c.m.max
  BY <1>17, <1>19 DEF Db
<1> HIDE DEF n, r
<1>21. /\ r \in WalkState /\ r.m = n /\ r.theirs = c.theirs /\ r.own = c.own /\ r.all = c.all
       /\ r.todo = c.todo /\ r.added = add
  BY <1>11, <1>18, <1>20 DEF WalkState
<1>22. /\ SameSides(x, r) /\ SameLists(x.m, r.m) /\ r.todo = Tail(x.todo)
       /\ \A p \in Objects : r.m.loc[p] = LocOf(x, e, p) /\ r.m.rev[p] = RevOf(x, e, p)
  BY <1>9, <1>20, <1>21 DEF SameSides, SameLists
<1>23. r.m.hist[e] = out /\ \A f \in Entries \ {e} : r.m.hist[f] = x.m.hist[f]
  BY <1>9, <1>19, <1>20, <1>21
<1>24. Later(x, e) => x.m.rev[e].at \in r.added[e] \cap Times(r.m.hist[e])
  BY <1>4, <1>10, <1>12, <1>17, <1>21, <1>23
<1>25. Earlier(x.theirs.rev[e], x.m.rev[e]) /\ x.theirs.rev[e].at \notin Times(x.m.hist[e])
          => x.theirs.rev[e].at \in Times(r.m.hist[e])
  BY <1>13, <1>14, <1>17, <1>23
<1>26. /\ Times(x.theirs.hist[e]) \subseteq Times(r.m.hist[e])
       /\ Times(x.m.hist[e]) \cap r.added[e] \subseteq Times(r.m.hist[e])
  BY <1>12, <1>13, <1>17, <1>21, <1>23
<1>27. ToSet(r.m.hist[e]) \subseteq ToSet(x.m.hist[e]) \cup ToSet(x.theirs.hist[e])
                                  \cup (IF Later(x, e) THEN {x.m.rev[e]} ELSE {})
                                  \cup {x.theirs.rev[e]}
  BY <1>4, <1>12, <1>13, <1>17, <1>23
<1>28. EntryVisited(x, r, e)
  BY <1>10, <1>21, <1>22, <1>23, <1>24, <1>25, <1>26, <1>27 DEF EntryVisited
<1> QED BY <1>1, <1>28

(* A visit of an object that the other side does not know.                  *)
Passed(x, y) ==
  /\ y \in WalkState /\ SameSides(x, y) /\ y.m = x.m /\ y.added = x.added /\ y.todo = Tail(x.todo)

(* A visit is one of the three.                                             *)
LEMMA VisitIs ==
  ASSUME NEW x \in WalkState, x.todo # <<>>
  PROVE  /\ Head(x.todo) \in Objects /\ Visit(x) \in WalkState
         /\ \/ Head(x.todo) \notin x.all /\ Passed(x, Visit(x))
            \/ Head(x.todo) \in x.all \cap Groups /\ GroupVisited(x, Visit(x), Head(x.todo))
            \/ Head(x.todo) \in x.all \cap Entries /\ EntryVisited(x, Visit(x), Head(x.todo))
<1> DEFINE o == Head(x.todo)
           z == [x EXCEPT !.todo = Tail(@)]
           y == IF o \notin x.all THEN z ELSE IF o \in Groups THEN MergeGroup(z, o) ELSE MergeEntry(z, o)
<1>1. o \in Objects /\ Tail(x.todo) \in Seq(Objects)
  BY WalkTypes, HeadTailSet
<1>2. /\ z \in WalkState /\ z.m = x.m /\ z.theirs = x.theirs /\ z.own = x.own /\ z.all = x.all
      /\ z.added = x.added /\ z.todo = Tail(x.todo)
  BY <1>1 DEF WalkState
<1>3. Visit(x) = y
  BY DEF Visit
<1>4. CASE o \notin x.all
  <2>1. y = z
    BY <1>4
  <2>2. Passed(x, z)
    BY <1>2 DEF Passed, SameSides
  <2> QED BY <1>1, <1>2, <1>3, <1>4, <2>1, <2>2
<1>5. CASE o \in x.all /\ o \in Groups
  <2>1. GroupVisited(x, MergeGroup(z, o), o)
    BY <1>2, <1>5, MergeGroupIs
  <2>2. y = MergeGroup(z, o)
    BY <1>5
  <2> HIDE DEF y, z, o
  <2>3. y \in WalkState
    BY <2>1, <2>2 DEF GroupVisited
  <2> QED BY <1>1, <1>3, <1>5, <2>1, <2>2, <2>3 DEF o
<1>6. CASE o \in x.all /\ o \notin Groups
  <2>0. o \in Entries
    BY <1>1, <1>6 DEF Objects
  <2>1. EntryVisited(x, MergeEntry(z, o), o)
    BY <1>2, <2>0, MergeEntryIs
  <2>2. y = MergeEntry(z, o)
    BY <1>6
  <2> HIDE DEF y, z, o
  <2>3. y \in WalkState
    BY <2>1, <2>2 DEF EntryVisited
  <2> QED BY <1>1, <1>3, <1>6, <2>0, <2>1, <2>2, <2>3 DEF o
<1> QED BY <1>4, <1>5, <1>6

-----------------------------------------------------------------------------
(* The walk.                                                                *)

(* Where it starts.                                                         *)
Start(mine, theirs) ==
  [m      |-> MergeMeta([mine EXCEPT !.dead = @ \cup theirs.dead, !.pool = @ \cup theirs.pool], theirs),
   theirs |-> theirs,
   own    |-> Present(mine),
   all    |-> Present(theirs),
   added  |-> [e \in Entries |-> {}],
   todo   |-> <<Root>>]

StartFields(x, mine, theirs) ==
  /\ x \in WalkState
  /\ SameLists(mine, x.m) /\ x.m.loc = mine.loc /\ x.m.rev = mine.rev /\ x.m.hist = mine.hist
  /\ x.m.dead = mine.dead \cup theirs.dead /\ x.m.pool = mine.pool \cup theirs.pool
  /\ x.m.max = theirs.max
  /\ x.theirs = theirs /\ x.own = Present(mine) /\ x.all = Present(theirs)
  /\ x.added = [e \in Entries |-> {}] /\ x.todo = <<Root>>

LEMMA StartIs ==
  ASSUME NEW mine \in Db, NEW theirs \in Db
  PROVE  StartFields(Start(mine, theirs), mine, theirs)
<1> DEFINE k == [mine EXCEPT !.dead = @ \cup theirs.dead, !.pool = @ \cup theirs.pool]
           nm == IF Earlier(k.name, theirs.name) THEN theirs.name ELSE k.name
           n == [k EXCEPT !.name = nm, !.max = theirs.max]
           x == Start(mine, theirs)
<1>1. /\ theirs.name \in Stamp /\ theirs.max \in HistoryMax /\ theirs.dead \in SUBSET Objects
      /\ theirs.pool \in SUBSET Stamp
  BY DbTypes
<1>2. /\ k \in Db /\ SameLists(mine, k) /\ k.loc = mine.loc /\ k.rev = mine.rev /\ k.hist = mine.hist
      /\ k.dead = mine.dead \cup theirs.dead /\ k.pool = mine.pool \cup theirs.pool
  BY <1>1 DEF Db, SameLists
<1>3. MergeMeta(k, theirs) = n
  BY DEF MergeMeta
<1> HIDE DEF k
<1>4. nm \in Stamp
  <2>1. k.name \in Stamp
    BY <1>2, DbTypes
  <2> QED BY <1>1, <2>1
<1> HIDE DEF nm
<1>5. /\ n \in Db /\ n.groups = k.groups /\ n.entries = k.entries /\ n.loc = k.loc /\ n.rev = k.rev
      /\ n.hist = k.hist /\ n.dead = k.dead /\ n.pool = k.pool /\ n.max = theirs.max
  BY <1>1, <1>2, <1>4 DEF Db
<1> HIDE DEF n
<1>6. x = [m |-> n, theirs |-> theirs, own |-> Present(mine), all |-> Present(theirs),
           added |-> [e \in Entries |-> {}], todo |-> <<Root>>]
  BY <1>3 DEF Start, k
<1>7. /\ Present(mine) \in SUBSET Objects /\ Present(theirs) \in SUBSET Objects /\ Root \in Objects
  BY PresentIs, GroupAssumption DEF Objects
<1>8. <<Root>> \in Seq(Objects) /\ [e \in Entries |-> {}] \in [Entries -> SUBSET Time]
  BY <1>7
<1> HIDE DEF x
<1>9. x \in WalkState
  BY <1>5, <1>6, <1>7, <1>8 DEF WalkState
<1>10. StartFields(x, mine, theirs)
  BY <1>2, <1>5, <1>6, <1>9 DEF StartFields, SameLists
<1> QED BY <1>10 DEF x

(* The rounds of Merging.                                                   *)
WalkStates(f, mine, theirs) ==
  /\ f \in [0 .. MaxVisits -> WalkState]
  /\ Merging(mine, theirs) = f[MaxVisits]
  /\ f[0] = Start(mine, theirs)
  /\ \A n \in 1 .. MaxVisits : f[n] = IF f[n - 1].todo = <<>> THEN f[n - 1] ELSE Visit(f[n - 1])

LEMMA WalkLoop ==
  ASSUME NEW mine \in Db, NEW theirs \in Db
  PROVE  \E f : WalkStates(f, mine, theirs)
<1> DEFINE N == MaxVisits
           Q == WalkState
           base == Start(mine, theirs)
           Op(n, t) == IF t.todo = <<>> THEN t ELSE Visit(t)
           F == [n \in 1 .. N |-> [t \in Q |-> Op(n, t)]]
           Fits(f) == f = [n \in 0 .. N |-> IF n = 0 THEN base ELSE Op(n, f[n - 1])]
           h == CHOOSE f : Fits(f)
<1>1. N \in Nat
  BY BoundAssumption
<1>2. base \in Q
  BY StartIs DEF StartFields
<1>3. ASSUME NEW n \in 1 .. N, NEW t \in Q PROVE Op(n, t) \in Q
  BY VisitIs
<1>4. Merging(mine, theirs) = h[N]
  BY DEF Merging, Start
<1>5. (\E f : Fits(f)) => Fits(h)
  <2> HIDE DEF Fits
  <2> QED OBVIOUS
<1> HIDE DEF h, Op, Q, base, N
<1>6. F \in [1 .. N -> [Q -> Q]]
  BY <1>3
<1>7. PICK g : LoopOf(g, N, Q, base, F)
  <2> HIDE DEF F
  <2> QED BY <1>1, <1>2, <1>6, LoopExists
<1>7a. /\ g \in [0 .. N -> Q] /\ g[0] = base
      /\ \A n \in 1 .. N : g[n] = F[n][g[n - 1]]
  BY <1>7 DEF LoopOf
<1>8. ASSUME NEW n \in 0 .. N PROVE g[n] = IF n = 0 THEN base ELSE Op(n, g[n - 1])
  <2>1. CASE n = 0
    BY <1>7a, <2>1
  <2>2. CASE n # 0
    <3>1. n \in 1 .. N /\ n - 1 \in 0 .. N
      BY <1>1, <2>2
    <3>2. g[n - 1] \in Q /\ g[n] = F[n][g[n - 1]]
      BY <1>7a, <3>1
    <3> QED BY <2>2, <3>1, <3>2
  <2> QED BY <2>1, <2>2
<1>9. Fits(g)
  <2>1. g = [n \in 0 .. N |-> g[n]]
    BY <1>7a
  <2> QED BY <1>8, <2>1
<1>10. Fits(h)
  BY <1>5, <1>9
<1>11. /\ h = [n \in 0 .. N |-> h[n]]
       /\ \A n \in 0 .. N : h[n] = IF n = 0 THEN base ELSE Op(n, h[n - 1])
  BY <1>10
<1>12. h[0] = base /\ \A n \in 1 .. N : h[n] = Op(n, h[n - 1])
  <2>1. 0 \in 0 .. N
    BY <1>1
  <2>2. \A n \in 1 .. N : n \in 0 .. N /\ n # 0
    BY <1>1
  <2> QED BY <1>11, <2>1, <2>2
<1>13. ASSUME NEW n \in 1 .. N, h[n - 1] \in Q PROVE h[n] \in Q
  BY <1>3, <1>12, <1>13
<1>14. \A n \in 0 .. N : h[n] \in Q
  BY <1>1, <1>2, <1>12, <1>13, LoopKeeps
<1>15. h \in [0 .. N -> Q]
  BY <1>11, <1>14
<1>16. WalkStates(h, mine, theirs)
  BY <1>4, <1>12, <1>15 DEF N, Q, base, Op, WalkStates
<1> QED BY <1>16

(* What the start has and every visit keeps, the merge ends with.           *)
LEMMA WalkKeeps ==
  ASSUME NEW mine \in Db, NEW theirs \in Db, NEW S,
         Start(mine, theirs) \in S,
         \A x \in S : x \in WalkState /\ x.todo # <<>> => Visit(x) \in S
  PROVE  Merging(mine, theirs) \in S /\ Merging(mine, theirs) \in WalkState
<1>0. PICK f : WalkStates(f, mine, theirs)
  BY WalkLoop
<1>1. /\ f \in [0 .. MaxVisits -> WalkState]
      /\ Merging(mine, theirs) = f[MaxVisits]
      /\ f[0] = Start(mine, theirs)
      /\ \A n \in 1 .. MaxVisits : f[n] = IF f[n - 1].todo = <<>> THEN f[n - 1] ELSE Visit(f[n - 1])
  BY <1>0 DEF WalkStates
<1>2. MaxVisits \in Nat
  BY BoundAssumption
<1>3. ASSUME NEW n \in 1 .. MaxVisits, f[n - 1] \in S PROVE f[n] \in S
  <2>1. n - 1 \in 0 .. MaxVisits
    BY <1>2
  <2>2. f[n - 1] \in WalkState
    BY <1>1, <2>1
  <2> QED BY <1>1, <1>3, <2>2
<1>4. f[0] \in S
  BY <1>1
<1>5. \A n \in 0 .. MaxVisits : f[n] \in S
  BY <1>2, <1>3, <1>4, LoopKeeps
<1>6. MaxVisits \in 0 .. MaxVisits
  BY <1>2
<1> QED BY <1>1, <1>5, <1>6

-----------------------------------------------------------------------------
(* What holds all along a walk.  V are the objects merged so far.           *)

Fixed(x, mine, theirs) ==
  /\ x \in WalkState /\ x.theirs = theirs /\ x.own = Present(mine) /\ x.all = Present(theirs)
  /\ x.m.dead = mine.dead \cup theirs.dead /\ x.m.pool = mine.pool \cup theirs.pool
  /\ x.m.max = theirs.max

Seen(x, V) == V \cup ToSet(x.todo)

Newest(mine, theirs, o) == IF Earlier(mine.rev[o], theirs.rev[o]) THEN theirs.rev[o] ELSE mine.rev[o]

NewestLoc(mine, theirs, o) == IF Earlier(mine.rev[o], theirs.rev[o]) THEN theirs.loc[o] ELSE mine.loc[o]

(* The objects of this side have the later of the two revisions once they   *)
(* are merged, and their own until then.                                    *)
Stamps(x, V, mine, theirs) ==
  \A o \in x.own :
     /\ o \notin V => x.m.rev[o] = mine.rev[o] /\ x.m.loc[o] = mine.loc[o]
     /\ o \in V => /\ x.m.rev[o] = Newest(mine, theirs, o)
                   /\ x.m.loc[o] = NewestLoc(mine, theirs, o)

(* What a merged group lists is not dead, will be merged, is where the      *)
(* other side has it if that is later, and has its stamps if it is new.     *)
ListedIn(x, V, theirs, g, o) ==
  /\ o \notin x.m.dead /\ o # Root /\ o \in x.own \cup x.all
  /\ o \in x.all => o \in Seen(x, V) /\ (theirs.loc[o] <= x.m.loc[o] \/ o \in Held(theirs, g))
  /\ o \notin x.own => x.m.rev[o] = theirs.rev[o] /\ x.m.loc[o] = theirs.loc[o]

Lists(x, V, mine, theirs) ==
  /\ V \in SUBSET x.all /\ Root \in Seen(x, V)
  /\ \A g \in Groups \ V : x.m.groups[g] = mine.groups[g] /\ x.m.entries[g] = mine.entries[g]
  /\ \A g \in V \cap Groups : \A o \in Held(x.m, g) : ListedIn(x, V, theirs, g, o)

LEMMA StartTodo ==
  ASSUME NEW mine \in Db, NEW theirs \in Db, NEW x, StartFields(x, mine, theirs)
  PROVE  /\ Fixed(x, mine, theirs) /\ Seen(x, {}) = {Root}
         /\ Stamps(x, {}, mine, theirs) /\ Lists(x, {}, mine, theirs)
<1>1. ToSet(<<Root>>) = {Root}
  BY DEF ToSet
<1>2. Fixed(x, mine, theirs) /\ Seen(x, {}) = {Root}
  BY <1>1 DEF Fixed, StartFields, Seen
<1>3. Stamps(x, {}, mine, theirs)
  BY DEF Stamps, StartFields
<1>4. Lists(x, {}, mine, theirs)
  BY <1>2 DEF Lists, StartFields, SameLists
<1> QED BY <1>2, <1>3, <1>4

(* What is to do after a visit.                                             *)
LEMMA TodoIs ==
  ASSUME NEW x \in WalkState, x.todo # <<>>, NEW y \in WalkState
  PROVE  /\ Head(x.todo) \in Objects
         /\ ToSet(x.todo) = {Head(x.todo)} \cup ToSet(Tail(x.todo))
         /\ \A g \in Groups : GroupVisited(x, y, g) =>
               ToSet(y.todo) = Held(y.m, g) \cup ToSet(Tail(x.todo))
<1>1. x.todo \in Seq(Objects) /\ y.m \in Db
  BY WalkTypes
<1>2. /\ Head(x.todo) \in Objects /\ Tail(x.todo) \in Seq(Objects)
      /\ ToSet(x.todo) = {Head(x.todo)} \cup ToSet(Tail(x.todo))
  BY <1>1, HeadTailSet
<1>3. ASSUME NEW g \in Groups, GroupVisited(x, y, g)
      PROVE  ToSet(y.todo) = Held(y.m, g) \cup ToSet(Tail(x.todo))
  <2> DEFINE gs == y.m.groups[g]
             es == y.m.entries[g]
             t == Tail(x.todo)
  <2>1. gs \in Seq(Objects) /\ es \in Seq(Objects)
    <3>1. gs \in Seq(Groups) /\ es \in Seq(Entries)
      BY <1>1, HeldIs
    <3> QED BY <3>1 DEF Objects
  <2>2. t \in Seq(Objects) /\ y.todo = gs \o es \o t
    BY <1>2, <1>3 DEF GroupVisited
  <2>3. Held(y.m, g) = ToSet(gs) \cup ToSet(es)
    BY DEF Held
  <2> HIDE DEF gs, es, t
  <2> DEFINE u == gs \o es
  <2>4. u \in Seq(Objects) /\ ToSet(u) = ToSet(gs) \cup ToSet(es)
    BY <2>1, ConcatSet
  <2>5. y.todo = u \o t
    BY <2>2
  <2> HIDE DEF u
  <2>6. ToSet(u \o t) = ToSet(u) \cup ToSet(t)
    BY <2>2, <2>4, ConcatSet
  <2> QED BY <2>3, <2>4, <2>5, <2>6 DEF t
<1> QED BY <1>2, <1>3

(* A visit, in whatever it is, keeps the stamps of this side right.         *)
LEMMA StampsStep ==
  ASSUME NEW mine \in Db, NEW theirs \in Db, NEW x, NEW y, NEW V,
         Fixed(x, mine, theirs), SameSides(x, y), Stamps(x, V, mine, theirs),
         NEW o \in Objects,
         \A p \in x.own : y.m.loc[p] = LocOf(x, o, p) /\ y.m.rev[p] = RevOf(x, o, p)
  PROVE  Stamps(y, V \cup {o}, mine, theirs)
<1>1. x.own \in SUBSET Objects /\ x.theirs = theirs /\ y.own = x.own
  BY WalkTypes DEF Fixed, SameSides
<1>2. \A p \in Objects : /\ mine.rev[p] \in Stamp /\ theirs.rev[p] \in Stamp
  BY DbTypes
<1>3. \A p \in Objects : /\ mine.rev[p].at \in Nat /\ theirs.rev[p].at \in Nat
  BY <1>2, BoundAssumption DEF Stamp, Time
<1>4. ASSUME NEW p \in x.own, p # o
      PROVE  y.m.loc[p] = x.m.loc[p] /\ y.m.rev[p] = x.m.rev[p]
  BY <1>4 DEF LocOf, RevOf
<1>5. ASSUME o \in x.own
      PROVE  y.m.rev[o] = Newest(mine, theirs, o) /\ y.m.loc[o] = NewestLoc(mine, theirs, o)
  <2>1. /\ y.m.loc[o] = IF Earlier(x.m.rev[o], theirs.rev[o]) THEN theirs.loc[o] ELSE x.m.loc[o]
        /\ y.m.rev[o] = IF Earlier(x.m.rev[o], theirs.rev[o]) THEN theirs.rev[o] ELSE x.m.rev[o]
    BY <1>1, <1>5 DEF LocOf, RevOf, Later
  <2>2. CASE o \notin V
    BY <1>5, <2>1, <2>2 DEF Stamps, Newest, NewestLoc
  <2>3. CASE o \in V
    <3>1. x.m.rev[o] = Newest(mine, theirs, o) /\ x.m.loc[o] = NewestLoc(mine, theirs, o)
      BY <1>5, <2>3 DEF Stamps
    <3>2. ~Earlier(Newest(mine, theirs, o), theirs.rev[o])
      BY <1>3 DEF Newest, Earlier
    <3> QED BY <2>1, <3>1, <3>2
  <2> QED BY <2>2, <2>3
<1> QED BY <1>1, <1>4, <1>5 DEF Stamps

(* What is merged after the next visit.                                     *)
After(x, V) == IF Head(x.todo) \in x.all THEN V \cup {Head(x.todo)} ELSE V

(* A merged group never loses an object.                                    *)
Gains(x, y, V) == \A p \in V \cap Groups : Held(x.m, p) \subseteq Held(y.m, p)

(* What is met: by way of the lists of merged groups only.                  *)
Met(x, V) ==
  /\ \A o \in Seen(x, V) \ {Root} : \E p \in V \cap Groups : o \in Held(x.m, p)
  /\ \A T \in SUBSET Groups :
        Root \in T /\ (\A p \in V \cap T : Held(x.m, p) \cap Groups \subseteq T)
           => Seen(x, V) \cap Groups \subseteq T

(* The times of a listed object only come nearer to those of the other side. *)
LEMMA ListedStep ==
  ASSUME NEW x \in WalkState, NEW y \in WalkState, NEW V, NEW W, SameSides(x, y),
         NEW o \in Objects, NEW g, ListedIn(x, V, x.theirs, g, o),
         o \in x.all => o \in Seen(y, W),
         \/ y.m.loc[o] = x.m.loc[o] /\ y.m.rev[o] = x.m.rev[o]
         \/ y.m.loc[o] = x.theirs.loc[o] /\ y.m.rev[o] = x.theirs.rev[o]
  PROVE  ListedIn(y, W, x.theirs, g, o)
<1>1. x.theirs.loc[o] <= x.theirs.loc[o]
  <2>1. x.theirs.loc[o] \in Nat
    BY WalkTypes, DbTypes, BoundAssumption DEF Time
  <2> QED BY <2>1
<1> QED BY <1>1 DEF ListedIn, SameSides

(* What is to do and merged after a visit.                                  *)
LEMMA SeenStep ==
  ASSUME NEW x \in WalkState, x.todo # <<>>, NEW V \in SUBSET x.all
  PROVE  /\ Visit(x) \in WalkState /\ SameSides(x, Visit(x)) /\ After(x, V) \in SUBSET x.all
         /\ Head(x.todo) \in Seen(x, V)
         /\ Seen(x, V) \cap x.all \subseteq Seen(Visit(x), After(x, V))
         /\ \/ Seen(Visit(x), After(x, V)) \subseteq Seen(x, V)
            \/ /\ Head(x.todo) \in x.all \cap Groups
               /\ Seen(Visit(x), After(x, V)) = Seen(x, V) \cup Held(Visit(x).m, Head(x.todo))
<1> DEFINE o == Head(x.todo)
           y == Visit(x)
<1>1. /\ y \in WalkState
      /\ \/ o \notin x.all /\ Passed(x, y)
         \/ o \in x.all \cap Groups /\ GroupVisited(x, y, o)
         \/ o \in x.all \cap Entries /\ EntryVisited(x, y, o)
  BY VisitIs
<1>2. /\ ToSet(x.todo) = {o} \cup ToSet(Tail(x.todo))
      /\ o \in Groups /\ GroupVisited(x, y, o)
            => ToSet(y.todo) = Held(y.m, o) \cup ToSet(Tail(x.todo))
  BY <1>1, TodoIs
<1> HIDE DEF y, o
<1>3. CASE o \notin x.all /\ Passed(x, y)
  BY <1>1, <1>2, <1>3 DEF Passed, Seen, After, o, y
<1>4. CASE o \in x.all \cap Groups /\ GroupVisited(x, y, o)
  BY <1>1, <1>2, <1>4 DEF GroupVisited, Seen, After, o, y
<1>5. CASE o \in x.all \cap Entries /\ EntryVisited(x, y, o)
  BY <1>1, <1>2, <1>5 DEF EntryVisited, Seen, After, o, y
<1> QED BY <1>1, <1>3, <1>4, <1>5

(* No visit takes an object from a merged group, and what a visit leaves in *)
(* the group is as ListedIn says.                                           *)
LEMMA GroupStep ==
  ASSUME NEW mine, Good(mine), NEW theirs, Good(theirs), NEW x, NEW y, NEW V, NEW W, NEW g,
         Fixed(x, mine, theirs), Lists(x, V, mine, theirs), GroupVisited(x, y, g),
         g \in Groups, Held(y.m, g) \subseteq Seen(y, W)
  PROVE  /\ g \in V => Held(x.m, g) \subseteq Held(y.m, g)
         /\ \A o \in Held(y.m, g) : ListedIn(y, W, theirs, g, o)
<1>1. /\ x \in WalkState /\ y \in WalkState /\ SameSides(x, y) /\ x.theirs = theirs
      /\ x.own = Present(mine) /\ x.all = Present(theirs) /\ x.m \in Db /\ y.m \in Db
  BY WalkTypes DEF Fixed, GroupVisited
<1>2. /\ mine \in Db /\ theirs \in Db
      /\ Root \notin Held(mine, g) /\ Root \notin Held(theirs, g)
      /\ Held(mine, g) \subseteq x.own /\ Held(theirs, g) \subseteq x.all
  BY <1>1, GoodIs DEF Good
<1>3. \A o \in Objects : x.m.loc[o] \in Nat /\ theirs.loc[o] \in Nat
  BY <1>1, <1>2, DbTypes, BoundAssumption DEF Time
<1>4. Held(x.m, g) \subseteq Objects /\ Held(y.m, g) \subseteq Objects
  BY <1>1, HeldIs DEF GroupVisited
<1>5. Held(y.m, g) = {o \in Held(x.m, g) : StaysIn(x, g, o)}
                    \cup {o \in Held(theirs, g) : ComesIn(x, g, o)}
  BY <1>1 DEF GroupVisited
<1>6. \A o \in Objects :
        /\ y.m.loc[o] = IF o \in Held(y.m, g) \ x.own THEN theirs.loc[o] ELSE LocOf(x, g, o)
        /\ y.m.rev[o] = IF o \in Held(y.m, g) \ x.own THEN theirs.rev[o] ELSE RevOf(x, g, o)
        /\ LocOf(x, g, o) = x.m.loc[o] \/ LocOf(x, g, o) = theirs.loc[o]
  BY <1>1 DEF GroupVisited, LocOf
<1>7. ASSUME g \in V, NEW o \in Held(x.m, g) PROVE o \in Held(y.m, g)
  <2>1. ListedIn(x, V, theirs, g, o) /\ o \in Objects
    BY <1>1, <1>4, <1>7 DEF Lists
  <2>2. CASE o \in Held(theirs, g) /\ theirs.loc[o] > LocOf(x, g, o)
    BY <1>1, <1>5, <2>1, <2>2 DEF ComesIn, ListedIn
  <2>3. CASE ~(o \in Held(theirs, g) /\ theirs.loc[o] > LocOf(x, g, o))
    <3>1. o \in x.all => theirs.loc[o] <= LocOf(x, g, o)
      BY <1>3, <1>6, <2>1, <2>3 DEF ListedIn
    <3>2. StaysIn(x, g, o)
      BY <1>1, <2>1, <3>1 DEF StaysIn, ListedIn
    <3> QED BY <1>5, <1>7, <3>2
  <2> QED BY <2>2, <2>3
<1>8. ASSUME NEW o \in Held(y.m, g) PROVE ListedIn(y, W, theirs, g, o)
  <2>1. o \in Objects /\ o \in Seen(y, W)
    BY <1>4
  <2>2. o \notin x.m.dead
    BY <1>5 DEF StaysIn, ComesIn
  <2>3. o # Root /\ o \in x.own \cup x.all
    <3>1. o \in Held(mine, g) \/ o \in Held(theirs, g) \/ (g \in V /\ o \in Held(x.m, g))
      BY <1>5 DEF Lists, Held
    <3> QED BY <1>1, <1>2, <3>1 DEF Lists, ListedIn
  <2>4. theirs.loc[o] <= y.m.loc[o] \/ o \in Held(theirs, g) \/ o \notin x.all
    <3>1. CASE o \notin x.own
      BY <1>3, <1>6, <2>1, <3>1
    <3>2. CASE o \in x.own
      <4>1. y.m.loc[o] = LocOf(x, g, o)
        BY <1>6, <2>1, <3>2
      <4> QED BY <1>1, <1>5, <4>1 DEF StaysIn
    <3> QED BY <3>1, <3>2
  <2>5. o \notin x.own => y.m.rev[o] = theirs.rev[o] /\ y.m.loc[o] = theirs.loc[o]
    BY <1>6, <2>1
  <2> QED BY <1>1, <2>1, <2>2, <2>3, <2>4, <2>5 DEF ListedIn, SameSides
<1> QED BY <1>7, <1>8

(* The lists, the stamps and what is met after a visit.                     *)
LEMMA WalkStep ==
  ASSUME NEW mine, Good(mine), NEW theirs, Good(theirs), NEW x, NEW V, x.todo # <<>>,
         Fixed(x, mine, theirs), Stamps(x, V, mine, theirs), Lists(x, V, mine, theirs)
  PROVE  /\ Fixed(Visit(x), mine, theirs) /\ Stamps(Visit(x), After(x, V), mine, theirs)
         /\ Lists(Visit(x), After(x, V), mine, theirs) /\ Gains(x, Visit(x), V)
<1> DEFINE o == Head(x.todo)
           y == Visit(x)
           W == After(x, V)
<1>1. /\ x \in WalkState /\ x.theirs = theirs /\ x.own = Present(mine) /\ x.all = Present(theirs)
      /\ x.own \in SUBSET Objects /\ V \in SUBSET x.all /\ mine \in Db /\ theirs \in Db
  BY WalkTypes DEF Fixed, Lists, Good
<1>2. /\ y \in WalkState /\ SameSides(x, y) /\ W \in SUBSET x.all
      /\ o \in Seen(x, V) /\ Seen(x, V) \cap x.all \subseteq Seen(y, W)
  BY <1>1, SeenStep
<1>3. /\ o \in Objects
      /\ \/ o \notin x.all /\ Passed(x, y)
         \/ o \in x.all \cap Groups /\ GroupVisited(x, y, o)
         \/ o \in x.all \cap Entries /\ EntryVisited(x, y, o)
  BY <1>1, VisitIs
<1>4. Root \in Seen(y, W)
  BY <1>1, <1>2, PresentIs DEF Lists
<1>5. Fixed(y, mine, theirs)
  BY <1>1, <1>2 DEF Fixed, SameSides
<1>6. W = IF o \in x.all THEN V \cup {o} ELSE V
  BY DEF After
<1> HIDE DEF o, y, W
<1>7. \A h \in Groups : Held(x.m, h) \in SUBSET Objects
  BY <1>1, WalkTypes, HeldIs
<1>8. ASSUME \A h \in Groups : y.m.groups[h] = x.m.groups[h] /\ y.m.entries[h] = x.m.entries[h],
             \A p \in Objects : \/ y.m.loc[p] = x.m.loc[p] /\ y.m.rev[p] = x.m.rev[p]
                                \/ y.m.loc[p] = theirs.loc[p] /\ y.m.rev[p] = theirs.rev[p],
             V \cap Groups = W \cap Groups, V \subseteq W
      PROVE  Lists(y, W, mine, theirs) /\ Gains(x, y, V)
  <2>1. \A h \in Groups : Held(y.m, h) = Held(x.m, h)
    BY <1>8 DEF Held
  <2>2. ASSUME NEW h \in W \cap Groups, NEW p \in Held(y.m, h) PROVE ListedIn(y, W, theirs, h, p)
    <3>1. p \in Objects /\ ListedIn(x, V, theirs, h, p)
      BY <1>7, <1>8, <2>1, <2>2 DEF Lists
    <3>2. p \in x.all => p \in Seen(y, W)
      BY <1>2, <3>1 DEF ListedIn
    <3> QED BY <1>1, <1>2, <1>8, <3>1, <3>2, ListedStep
  <2>3. \A h \in Groups \ W : y.m.groups[h] = mine.groups[h] /\ y.m.entries[h] = mine.entries[h]
    BY <1>8 DEF Lists
  <2> QED BY <1>2, <1>4, <2>1, <2>2, <2>3 DEF Lists, Gains, SameSides
<1>9. CASE o \notin x.all /\ Passed(x, y)
  <2>1. W = V /\ y.m = x.m
    BY <1>6, <1>9 DEF Passed
  <2>2. Lists(y, W, mine, theirs) /\ Gains(x, y, V)
    BY <1>8, <2>1
  <2>3. Stamps(y, W, mine, theirs)
    BY <1>2, <2>1 DEF Stamps, SameSides
  <2> QED BY <1>5, <2>2, <2>3 DEF y, W
<1>10. CASE o \in x.all \cap Entries /\ EntryVisited(x, y, o)
  <2>1. W = V \cup {o} /\ W \cap Groups = V \cap Groups
    BY <1>6, <1>10, GroupAssumption
  <2>2. /\ SameLists(x.m, y.m)
        /\ \A p \in Objects : y.m.loc[p] = LocOf(x, o, p) /\ y.m.rev[p] = RevOf(x, o, p)
    BY <1>10 DEF EntryVisited
  <2>3. Stamps(y, W, mine, theirs)
    BY <1>1, <1>2, <1>3, <2>1, <2>2, StampsStep
  <2>4. Lists(y, W, mine, theirs) /\ Gains(x, y, V)
    BY <1>1, <1>8, <2>1, <2>2 DEF SameLists, LocOf, RevOf
  <2> QED BY <1>5, <2>3, <2>4 DEF y, W
<1>11. CASE o \in x.all \cap Groups /\ GroupVisited(x, y, o)
  <2>1. W = V \cup {o} /\ o \in Groups
    BY <1>6, <1>11
  <2>2. /\ \A h \in Groups \ {o} : y.m.groups[h] = x.m.groups[h] /\ y.m.entries[h] = x.m.entries[h]
        /\ \A p \in Objects :
             /\ y.m.loc[p] = IF p \in Held(y.m, o) \ x.own THEN theirs.loc[p] ELSE LocOf(x, o, p)
             /\ y.m.rev[p] = IF p \in Held(y.m, o) \ x.own THEN theirs.rev[p] ELSE RevOf(x, o, p)
    BY <1>1, <1>11 DEF GroupVisited
  <2>3. Stamps(y, W, mine, theirs)
    <3>1. \A p \in x.own : y.m.loc[p] = LocOf(x, o, p) /\ y.m.rev[p] = RevOf(x, o, p)
      BY <1>1, <2>2
    <3> QED BY <1>1, <1>2, <1>3, <2>1, <3>1, StampsStep
  <2>4. \A p \in Objects : \/ y.m.loc[p] = x.m.loc[p] /\ y.m.rev[p] = x.m.rev[p]
                           \/ y.m.loc[p] = theirs.loc[p] /\ y.m.rev[p] = theirs.rev[p]
    BY <1>1, <2>2 DEF LocOf, RevOf
  <2>5. Held(y.m, o) \subseteq Seen(y, W)
    <3>1. ToSet(y.todo) = Held(y.m, o) \cup ToSet(Tail(x.todo))
      BY <1>1, <1>2, <1>11, TodoIs
    <3> QED BY <3>1 DEF Seen
  <2>6. /\ o \in V => Held(x.m, o) \subseteq Held(y.m, o)
        /\ \A p \in Held(y.m, o) : ListedIn(y, W, theirs, o, p)
    BY <1>11, <2>1, <2>5, GroupStep
  <2>7. \A h \in Groups \ {o} : Held(y.m, h) = Held(x.m, h)
    BY <2>2 DEF Held
  <2>8. Gains(x, y, V)
    BY <2>6, <2>7 DEF Gains
  <2>9. ASSUME NEW h \in W \cap Groups, NEW p \in Held(y.m, h) PROVE ListedIn(y, W, theirs, h, p)
    <3>1. CASE h = o
      BY <2>6, <2>9, <3>1
    <3>2. CASE h # o
      <4>1. p \in Objects /\ ListedIn(x, V, theirs, h, p)
        BY <1>7, <2>1, <2>7, <2>9, <3>2 DEF Lists
      <4>2. p \in x.all => p \in Seen(y, W)
        BY <1>2, <4>1 DEF ListedIn
      <4> QED BY <1>1, <1>2, <2>4, <4>1, <4>2, ListedStep
    <3> QED BY <3>1, <3>2
  <2>10. \A h \in Groups \ W : y.m.groups[h] = mine.groups[h] /\ y.m.entries[h] = mine.entries[h]
    BY <2>1, <2>2 DEF Lists
  <2>11. Lists(y, W, mine, theirs)
    BY <1>2, <1>4, <2>9, <2>10 DEF Lists, SameSides
  <2> QED BY <1>5, <2>3, <2>8, <2>11 DEF y, W
<1> QED BY <1>3, <1>9, <1>10, <1>11

LEMMA MetStep ==
  ASSUME NEW x \in WalkState, NEW V \in SUBSET x.all, x.todo # <<>>, Met(x, V), Gains(x, Visit(x), V)
  PROVE  Met(Visit(x), After(x, V))
<1> DEFINE o == Head(x.todo)
           y == Visit(x)
           W == After(x, V)
<1>1. /\ y \in WalkState /\ o \in Seen(x, V)
      /\ \/ Seen(y, W) \subseteq Seen(x, V)
         \/ o \in x.all \cap Groups /\ Seen(y, W) = Seen(x, V) \cup Held(y.m, o)
  BY SeenStep
<1>2. V \subseteq W /\ (o \in x.all => o \in W)
  BY DEF After
<1> HIDE DEF o, y, W
<1>3. ASSUME NEW p \in Seen(y, W) \ {Root} PROVE \E g \in W \cap Groups : p \in Held(y.m, g)
  <2>1. CASE p \in Seen(x, V)
    <3>1. PICK g \in V \cap Groups : p \in Held(x.m, g)
      BY <1>3, <2>1 DEF Met
    <3> QED BY <1>2, <3>1 DEF Gains, y
  <2>2. CASE p \notin Seen(x, V)
    BY <1>1, <1>2, <1>3, <2>2
  <2> QED BY <2>1, <2>2
<1>4. ASSUME NEW T \in SUBSET Groups, Root \in T, \A p \in W \cap T : Held(y.m, p) \cap Groups \subseteq T
      PROVE  Seen(y, W) \cap Groups \subseteq T
  <2>1. \A p \in V \cap T : Held(x.m, p) \cap Groups \subseteq T
    BY <1>2, <1>4 DEF Gains, y
  <2>2. Seen(x, V) \cap Groups \subseteq T
    BY <1>4, <2>1 DEF Met
  <2> QED BY <1>1, <1>2, <1>4, <2>2
<1>5. Met(y, W)
  BY <1>3, <1>4 DEF Met
<1> QED BY <1>5 DEF y, W

(* The histories: of no revision is the attachment missing; an entry that   *)
(* was merged has all times of the other side's history, and the revision   *)
(* of this side, if the other side's is later.                              *)
Histories(x, V, mine, theirs) ==
  \A e \in Entries :
     /\ ToSet(x.m.hist[e]) \subseteq mine.pool \cup theirs.pool
     /\ e \notin V => x.m.hist[e] = mine.hist[e]
     /\ e \in V => Times(theirs.hist[e]) \subseteq Times(x.m.hist[e])
     /\ e \in V \cap x.own /\ Earlier(mine.rev[e], theirs.rev[e])
           => mine.rev[e].at \in x.added[e] \cap Times(x.m.hist[e])

(* The revision that an entry has when it is visited.                       *)
LEMMA RevisionMet ==
  ASSUME NEW mine, Good(mine), NEW theirs, Good(theirs), NEW x, NEW V,
         Fixed(x, mine, theirs), Stamps(x, V, mine, theirs), Lists(x, V, mine, theirs), Met(x, V),
         NEW e \in Seen(x, V) \cap x.all \cap Entries
  PROVE  /\ e \notin x.own => x.m.rev[e] = theirs.rev[e]
         /\ e \in x.own \ V => x.m.rev[e] = mine.rev[e]
         /\ e \in x.own \cap V => x.m.rev[e] = Newest(mine, theirs, e)
         /\ Later(x, e) => e \in x.own \ V /\ Earlier(mine.rev[e], theirs.rev[e])
         /\ theirs.rev[e] \in theirs.pool /\ (e \in x.own => mine.rev[e] \in mine.pool)
<1>1. /\ x.theirs = theirs /\ x.own = Present(mine) /\ x.all = Present(theirs)
      /\ mine \in Db /\ theirs \in Db /\ e \in Objects /\ e # Root
  BY GroupAssumption DEF Fixed, Good, Objects
<1>2. mine.rev[e].at \in Nat /\ theirs.rev[e].at \in Nat
  <2>1. mine.rev[e] \in Stamp /\ theirs.rev[e] \in Stamp
    BY <1>1, DbTypes
  <2> QED BY <2>1, BoundAssumption DEF Stamp, Time
<1>3. e \notin x.own => x.m.rev[e] = theirs.rev[e]
  <2>1. PICK p \in V \cap Groups : e \in Held(x.m, p)
    BY <1>1 DEF Met
  <2> QED BY <2>1 DEF Lists, ListedIn
<1>4. /\ e \in x.own \ V => x.m.rev[e] = mine.rev[e]
      /\ e \in x.own \cap V => x.m.rev[e] = Newest(mine, theirs, e)
  BY DEF Stamps
<1>5. Later(x, e) => e \in x.own \ V /\ Earlier(mine.rev[e], theirs.rev[e])
  BY <1>1, <1>2, <1>3, <1>4 DEF Later, Newest, Earlier
<1>6. theirs.rev[e] \in theirs.pool /\ (e \in x.own => mine.rev[e] \in mine.pool)
  BY <1>1 DEF Good
<1> QED BY <1>3, <1>4, <1>5, <1>6

LEMMA HistoriesStep ==
  ASSUME NEW mine, Good(mine), NEW theirs, Good(theirs), NEW x, NEW V, x.todo # <<>>,
         Fixed(x, mine, theirs), Stamps(x, V, mine, theirs), Lists(x, V, mine, theirs), Met(x, V),
         Histories(x, V, mine, theirs)
  PROVE  Histories(Visit(x), After(x, V), mine, theirs)
<1> DEFINE o == Head(x.todo)
           y == Visit(x)
           W == After(x, V)
<1>1. /\ x \in WalkState /\ x.theirs = theirs /\ x.own = Present(mine) /\ x.all = Present(theirs)
      /\ V \in SUBSET x.all
  BY DEF Fixed, Lists
<1>2. y \in WalkState /\ SameSides(x, y) /\ o \in Seen(x, V)
  BY <1>1, SeenStep
<1>3. /\ o \in Objects
      /\ \/ o \notin x.all /\ Passed(x, y)
         \/ o \in x.all \cap Groups /\ GroupVisited(x, y, o)
         \/ o \in x.all \cap Entries /\ EntryVisited(x, y, o)
  BY <1>1, VisitIs
<1>4. W = IF o \in x.all THEN V \cup {o} ELSE V
  BY DEF After
<1>5. y.own = x.own
  BY <1>2 DEF SameSides
<1> HIDE DEF o, y, W
<1>6. ASSUME \A e \in Entries : y.m.hist[e] = x.m.hist[e] /\ y.added[e] = x.added[e],
             V \cap Entries = W \cap Entries
      PROVE  Histories(y, W, mine, theirs)
  BY <1>5, <1>6 DEF Histories
<1>7. CASE o \notin x.all /\ Passed(x, y)
  BY <1>4, <1>6, <1>7 DEF Passed, y, W
<1>8. CASE o \in x.all \cap Groups /\ GroupVisited(x, y, o)
  BY <1>4, <1>6, <1>8, GroupAssumption DEF GroupVisited, y, W
<1>9. CASE o \in x.all \cap Entries /\ EntryVisited(x, y, o)
  <2>1. W = V \cup {o}
    BY <1>4, <1>9
  <2>2. \A e \in Entries \ {o} : y.m.hist[e] = x.m.hist[e] /\ y.added[e] = x.added[e]
    BY <1>9 DEF EntryVisited
  <2>3. /\ o \in x.own \ V => x.m.rev[o] = mine.rev[o]
        /\ Later(x, o) => o \in x.own \ V /\ Earlier(mine.rev[o], theirs.rev[o])
        /\ theirs.rev[o] \in theirs.pool /\ (o \in x.own => mine.rev[o] \in mine.pool)
    BY <1>2, <1>9, RevisionMet
  <2>4. ToSet(y.m.hist[o]) \subseteq mine.pool \cup theirs.pool
    <3>1. ToSet(x.m.hist[o]) \subseteq mine.pool \cup theirs.pool
      BY <1>9 DEF Histories
    <3>2. ToSet(theirs.hist[o]) \subseteq theirs.pool
      BY <1>9 DEF Good
    <3> QED BY <1>1, <1>9, <2>3, <3>1, <3>2 DEF EntryVisited
  <2>5. Times(theirs.hist[o]) \subseteq Times(y.m.hist[o])
    BY <1>1, <1>9 DEF EntryVisited
  <2>6. ASSUME o \in x.own, Earlier(mine.rev[o], theirs.rev[o])
        PROVE  mine.rev[o].at \in y.added[o] \cap Times(y.m.hist[o])
    <3>1. CASE o \in V
      <4>1. mine.rev[o].at \in x.added[o] \cap Times(x.m.hist[o])
        BY <1>9, <2>6, <3>1 DEF Histories
      <4> QED BY <1>9, <4>1 DEF EntryVisited
    <3>2. CASE o \notin V
      <4>1. x.m.rev[o] = mine.rev[o]
        BY <2>3, <2>6, <3>2
      <4>2. Later(x, o)
        BY <1>1, <2>6, <4>1 DEF Later
      <4> QED BY <1>9, <4>1, <4>2 DEF EntryVisited
    <3> QED BY <3>1, <3>2
  <2>7. ASSUME NEW e \in Entries \ {o}
        PROVE  /\ ToSet(y.m.hist[e]) \subseteq mine.pool \cup theirs.pool
               /\ e \notin W => y.m.hist[e] = mine.hist[e]
               /\ e \in W => Times(theirs.hist[e]) \subseteq Times(y.m.hist[e])
               /\ e \in W \cap y.own /\ Earlier(mine.rev[e], theirs.rev[e])
                     => mine.rev[e].at \in y.added[e] \cap Times(y.m.hist[e])
    BY <1>5, <2>1, <2>2 DEF Histories
  <2>8. Histories(y, W, mine, theirs)
    BY <1>5, <2>1, <2>4, <2>5, <2>6, <2>7 DEF Histories
  <2> QED BY <2>8 DEF y, W
<1> QED BY <1>3, <1>7, <1>8, <1>9

Walked(x, V, mine, theirs) ==
  /\ Fixed(x, mine, theirs) /\ Stamps(x, V, mine, theirs) /\ Lists(x, V, mine, theirs)
  /\ Met(x, V) /\ Histories(x, V, mine, theirs)

LEMMA WalkedStarts ==
  ASSUME NEW mine, Good(mine), NEW theirs, Good(theirs)
  PROVE  Walked(Start(mine, theirs), {}, mine, theirs)
<1> DEFINE x == Start(mine, theirs)
<1>1. mine \in Db /\ theirs \in Db
  BY DEF Good
<1>2. StartFields(x, mine, theirs)
  BY <1>1, StartIs
<1> HIDE DEF x
<1>3. /\ Fixed(x, mine, theirs) /\ Seen(x, {}) = {Root}
      /\ Stamps(x, {}, mine, theirs) /\ Lists(x, {}, mine, theirs)
  BY <1>1, <1>2, StartTodo
<1>4. Met(x, {})
  BY <1>3 DEF Met
<1>5. Histories(x, {}, mine, theirs)
  BY <1>2 DEF Histories, StartFields, Good
<1> QED BY <1>3, <1>4, <1>5 DEF Walked, x

LEMMA WalkedStep ==
  ASSUME NEW mine, Good(mine), NEW theirs, Good(theirs), NEW x, NEW V, x.todo # <<>>,
         Walked(x, V, mine, theirs)
  PROVE  Walked(Visit(x), After(x, V), mine, theirs) /\ Gains(x, Visit(x), V)
<1>1. /\ Fixed(x, mine, theirs) /\ Stamps(x, V, mine, theirs) /\ Lists(x, V, mine, theirs)
      /\ Met(x, V) /\ Histories(x, V, mine, theirs)
  BY DEF Walked
<1>2. x \in WalkState /\ V \in SUBSET x.all
  BY <1>1 DEF Fixed, Lists
<1>3. /\ Fixed(Visit(x), mine, theirs) /\ Stamps(Visit(x), After(x, V), mine, theirs)
      /\ Lists(Visit(x), After(x, V), mine, theirs) /\ Gains(x, Visit(x), V)
  BY <1>1, WalkStep
<1>4. Met(Visit(x), After(x, V))
  BY <1>1, <1>2, <1>3, MetStep
<1>5. Histories(Visit(x), After(x, V), mine, theirs)
  BY <1>1, HistoriesStep
<1> QED BY <1>3, <1>4, <1>5 DEF Walked

LEMMA WalkedEnds ==
  ASSUME NEW mine, Good(mine), NEW theirs, Good(theirs)
  PROVE  \E V : Walked(Merging(mine, theirs), V, mine, theirs)
<1> DEFINE S == {x \in WalkState : \E V : Walked(x, V, mine, theirs)}
<1>1. mine \in Db /\ theirs \in Db
  BY DEF Good
<1>2. Start(mine, theirs) \in S
  <2>1. Start(mine, theirs) \in WalkState
    BY <1>1, StartIs DEF StartFields
  <2> QED BY <2>1, WalkedStarts
<1>3. ASSUME NEW x \in S, x.todo # <<>> PROVE Visit(x) \in S
  <2>1. PICK V : Walked(x, V, mine, theirs)
    OBVIOUS
  <2>2. Walked(Visit(x), After(x, V), mine, theirs)
    BY <1>3, <2>1, WalkedStep
  <2>3. Visit(x) \in WalkState
    BY <2>2 DEF Walked, Fixed
  <2> QED BY <2>2, <2>3
<1> HIDE DEF S
<1>4. Merging(mine, theirs) \in S
  BY <1>1, <1>2, <1>3, WalkKeeps
<1> QED BY <1>4 DEF S

-----------------------------------------------------------------------------
(* What a merge ends with.                                                  *)

(* The database before the garbage is taken out.                            *)
LEMMA WalkGood ==
  ASSUME NEW mine, Good(mine), NEW theirs, Good(theirs), NEW x, NEW V, Walked(x, V, mine, theirs)
  PROVE  /\ x.m \in Db /\ Root \notin x.m.dead /\ (\A g \in Groups : Root \notin Held(x.m, g))
         /\ \A e \in Present(x.m) \cap Entries : ToSet(x.m.hist[e]) \subseteq x.m.pool
         /\ \A e \in Present(x.m) \cap Entries : x.m.rev[e] \in x.m.pool
<1>1. /\ Fixed(x, mine, theirs) /\ Stamps(x, V, mine, theirs) /\ Lists(x, V, mine, theirs)
      /\ Histories(x, V, mine, theirs)
  BY DEF Walked
<1>2. /\ x.theirs = theirs /\ x.own = Present(mine) /\ x.all = Present(theirs) /\ x.m \in Db
      /\ mine \in Db /\ theirs \in Db /\ V \in SUBSET x.all
      /\ x.m.pool = mine.pool \cup theirs.pool /\ x.m.dead = mine.dead \cup theirs.dead
  BY <1>1, WalkTypes DEF Fixed, Good, Lists
<1>3. Root \notin x.m.dead
  BY <1>2 DEF Good
<1>4. \A g \in Groups \ V : Held(x.m, g) = Held(mine, g)
  BY <1>1 DEF Lists, Held
<1>5. ASSUME NEW g \in Groups PROVE Root \notin Held(x.m, g)
  <2>1. CASE g \in V
    BY <1>1, <2>1 DEF Lists, ListedIn
  <2>2. CASE g \notin V
    BY <1>4, <2>2 DEF Good
  <2> QED BY <2>1, <2>2
<1>6. \A e \in Present(x.m) \cap Entries : ToSet(x.m.hist[e]) \subseteq x.m.pool
  BY <1>1, <1>2 DEF Histories
<1>7. ASSUME NEW e \in Present(x.m) \cap Entries PROVE x.m.rev[e] \in x.m.pool
  <2>1. CASE e \in x.own
    <3>1. mine.rev[e] \in mine.pool /\ (e \in x.all => theirs.rev[e] \in theirs.pool)
      BY <1>2, <2>1 DEF Good
    <3>2. x.m.rev[e] = mine.rev[e] \/ (e \in x.all /\ x.m.rev[e] = theirs.rev[e])
      BY <1>1, <1>2, <2>1 DEF Stamps, Newest
    <3> QED BY <1>2, <3>1, <3>2
  <2>2. CASE e \notin x.own
    <3>1. e # Root
      BY GroupAssumption
    <3>2. PICK g \in Reached(x.m, {Root}) : e \in Held(x.m, g)
      BY <1>2, <3>1, PresentIs
    <3>3. g \in Groups
      BY <1>2, <3>2, ReachedIs, GroupAssumption
    <3>4. g \in V
      BY <1>2, <1>4, <2>2, <3>2, <3>3, GoodIs
    <3>5. x.m.rev[e] = theirs.rev[e] /\ e \in x.all
      BY <1>1, <2>2, <3>2, <3>3, <3>4 DEF Lists, ListedIn
    <3>6. theirs.rev[e] \in theirs.pool
      BY <1>2, <3>5 DEF Good
    <3> QED BY <1>2, <3>5, <3>6
  <2> QED BY <2>1, <2>2
<1> QED BY <1>2, <1>3, <1>5, <1>6, <1>7

MergedFields(x, V, r, theirs) ==
  /\ Good(r) /\ Present(r) = Present(x.m) /\ r.max = theirs.max /\ r.dead = x.m.dead
  /\ Root \in V /\ V \in SUBSET x.all /\ V \subseteq Present(r)
  /\ \A g \in Present(r) \cap Groups : Held(r, g) = Held(x.m, g)
  /\ \A g \in Present(r) \cap Groups : r.groups[g] = x.m.groups[g] /\ r.entries[g] = x.m.entries[g]
  /\ \A o \in Present(r) : r.rev[o] = x.m.rev[o]
  /\ \A e \in Present(r) \cap Entries : r.hist[e] = MaintainHistory(x.m.hist[e], theirs.max)
  /\ \A o \in Present(r) : \/ o = Root
                           \/ \E g \in V \cap Groups : o \in Held(r, g)
                           \/ o \in Unvisited(r, theirs)

LEMMA MergedIs ==
  ASSUME NEW mine, Good(mine), NEW theirs, Good(theirs), NEW x, NEW V,
         Walked(x, V, mine, theirs), x.todo = <<>>
  PROVE  MergedFields(x, V, Merged(x), theirs)
<1> DEFINE c == Compact(x.m)
           r == Merged(x)
<1>1. /\ Fixed(x, mine, theirs) /\ Lists(x, V, mine, theirs) /\ Met(x, V)
  BY DEF Walked
<1>2. x.m \in Db /\ x.all = Present(theirs) /\ x.m.max = theirs.max /\ theirs \in Db
  BY <1>1, WalkTypes DEF Fixed, Good
<1>3. /\ Good(c) /\ Present(c) = Present(x.m) /\ CompactFields(x.m, c)
      /\ \A g \in Groups : Held(c, g) = IF g \in Present(x.m) THEN Held(x.m, g) ELSE {}
  BY <1>2, WalkGood, CompactGood, CompactIs
<1>4. c \in Db /\ r = Cleanup(c)
  BY <1>3 DEF Good, Merged
<1> HIDE DEF c
<1>5. /\ CleanupFields(c, r) /\ Present(r) = Present(c)
      /\ \A g \in Groups : Held(r, g) = Held(c, g)
  BY <1>4, CleanupIs
<1> HIDE DEF r
<1>6. c.max = theirs.max /\ theirs.max \in Nat
  BY <1>2, <1>3, DbTypes DEF CompactFields
<1>7. \A e \in Entries : ToSet(r.hist[e]) \subseteq ToSet(c.hist[e])
  <2>1. \A e \in Entries : c.hist[e] \in Seq(Stamp)
    BY <1>4, DbTypes
  <2> QED BY <1>5, <1>6, <2>1, MaintainHistoryIs DEF CleanupFields
<1>8. Good(r)
  BY <1>3, <1>5, <1>7, UnusedGood DEF CleanupFields
<1>9. /\ r \in Db /\ Present(r) = Present(x.m) /\ Present(r) \in SUBSET Objects
      /\ Present(r) \cap Groups = Reached(r, {Root})
      /\ \A o : o \in Present(r) <=> o = Root \/ \E g \in Reached(r, {Root}) : o \in Held(r, g)
  BY <1>3, <1>5, <1>8, PresentIs DEF Good
<1>10. \A g \in Present(r) \cap Groups : Held(r, g) = Held(x.m, g)
  BY <1>3, <1>5, <1>9
<1>11. /\ r.dead = x.m.dead /\ r.max = theirs.max
       /\ \A o \in Present(r) : r.rev[o] = x.m.rev[o]
       /\ \A e \in Present(r) \cap Entries : r.hist[e] = MaintainHistory(x.m.hist[e], theirs.max)
       /\ \A g \in Present(r) \cap Groups : r.groups[g] = x.m.groups[g] /\ r.entries[g] = x.m.entries[g]
  BY <1>3, <1>5, <1>6, <1>9 DEF CompactFields, CleanupFields
<1>12. Seen(x, V) = V
  BY EmptySet DEF Seen
<1>13. Root \in V /\ V \in SUBSET x.all
  BY <1>1, <1>12 DEF Lists
<1>14. V \cap Groups \subseteq Present(r)
  <2> DEFINE T == Present(r) \cap Groups
  <2>1. T \in SUBSET Groups /\ Root \in T
    BY <1>9, GroupAssumption
  <2>2. \A p \in T : Held(x.m, p) \subseteq Present(r)
    BY <1>9, <1>10
  <2>3. V \cap Groups \subseteq T
    BY <1>1, <1>12, <2>1, <2>2 DEF Met
  <2> QED BY <2>3
<1>15. ASSUME NEW o \in V PROVE o \in Present(r)
  <2>1. CASE o = Root
    BY <1>9, <2>1
  <2>2. CASE o # Root
    <3>1. PICK p \in V \cap Groups : o \in Held(x.m, p)
      BY <1>1, <1>12, <1>15, <2>2 DEF Met
    <3>2. p \in Reached(r, {Root}) /\ o \in Held(r, p)
      BY <1>9, <1>10, <1>14, <3>1
    <3> QED BY <1>9, <3>2
  <2> QED BY <2>1, <2>2
<1> DEFINE far == Reached(r, Groups \ Present(theirs))
<1>16. /\ far \in SUBSET Groups /\ Groups \ Present(theirs) \subseteq far
       /\ \A g \in far : Held(r, g) \cap Groups \subseteq far
  <2>1. Groups \ Present(theirs) \in SUBSET Groups
    OBVIOUS
  <2> QED BY <1>9, <2>1, ReachedIs DEF ClosedIn
<1>17. \A o : o \in Unvisited(r, theirs) <=> \E g \in far : o \in Held(r, g)
  <2>1. /\ Groups \ Present(theirs) \in SUBSET Objects
        /\ (Groups \ Present(theirs)) \cap Groups = Groups \ Present(theirs)
    BY DEF Objects
  <2>2. \A o : o \in Below(r, Groups \ Present(theirs))
                  <=> \E g \in Reached(r, (Groups \ Present(theirs)) \cap Groups) : o \in Held(r, g)
    BY <1>9, <2>1, BelowIs
  <2> QED BY <2>1, <2>2 DEF Unvisited
<1> HIDE DEF far
<1>18. ASSUME NEW p \in V \cap Groups PROVE Held(r, p) \cap Groups \subseteq (V \cap Groups) \cup far
  <2>1. Held(r, p) = Held(x.m, p)
    BY <1>10, <1>15
  <2>2. \A o \in Held(x.m, p) : o \in x.all => o \in V
    BY <1>1, <1>12 DEF Lists, ListedIn
  <2> QED BY <1>2, <1>16, <2>1, <2>2
<1>19. Reached(r, {Root}) \subseteq (V \cap Groups) \cup far
  <2> DEFINE T == (V \cap Groups) \cup far
  <2>1. T \in SUBSET Groups /\ {Root} \subseteq T
    BY <1>13, <1>16, GroupAssumption
  <2>2. ClosedIn(r, T)
    BY <1>16, <1>18 DEF ClosedIn
  <2>3. {Root} \in SUBSET Groups
    BY GroupAssumption
  <2> HIDE DEF T
  <2>4. Reached(r, {Root}) \subseteq T
    BY <1>9, <2>1, <2>2, <2>3, ReachedIs
  <2> QED BY <2>4 DEF T
<1>20. \A o \in Present(r) : \/ o = Root
                             \/ \E g \in V \cap Groups : o \in Held(r, g)
                             \/ o \in Unvisited(r, theirs)
  BY <1>9, <1>17, <1>19
<1>21. V \subseteq Present(r)
  BY <1>15
<1>22. MergedFields(x, V, r, theirs)
  BY <1>8, <1>9, <1>10, <1>11, <1>13, <1>20, <1>21 DEF MergedFields
<1> QED BY <1>22 DEF r

-----------------------------------------------------------------------------
(* The devices and the file.                                                *)

Counters ==
  /\ stale \subseteq Device /\ dirty \subseteq Device
  /\ used \subseteq Objects /\ Root \in used
  /\ clock \in Time /\ edit \in [Device -> Time] /\ edits \in 0 .. MaxEdits

Copies == db = [d \in Device |-> db[d]] /\ (\A d \in Device : Good(db[d])) /\ Good(stored)

MergeMade ==
  last # None =>
     /\ last = [mine |-> last.mine, theirs |-> last.theirs]
     /\ Good(last.mine) /\ Good(last.theirs) /\ MayMerge(last.mine, last.theirs)
     /\ Merging(last.mine, last.theirs).todo = <<>>
     /\ stored = Merged(Merging(last.mine, last.theirs))

IInv == Counters /\ Copies /\ MergeMade

LEMMA FirstGood == Good(First)
<1>1. /\ First \in Db /\ Compact(First) = First /\ ~HasDuplicates(First)
      /\ Root \notin First.dead /\ Revisions(First) \subseteq First.pool
  BY FirstAssumption
<1>2. /\ CompactFields(First, First)
      /\ \A g \in Groups : Held(First, g) = IF g \in Present(First) THEN Held(First, g) ELSE {}
  BY <1>1, CompactIs
<1>3. Root \notin Below(First, {Root})
  BY <1>1 DEF HasDuplicates
<1>4. /\ Present(First) \cap Groups = Reached(First, {Root})
      /\ {Root} \in SUBSET Objects /\ {Root} \cap Groups = {Root}
  BY <1>1, PresentIs, GroupAssumption DEF Objects
<1>5. \A o : o \in Below(First, {Root}) <=> \E g \in Reached(First, {Root}) : o \in Held(First, g)
  <2>1. \A o : o \in Below(First, {Root}) <=> \E g \in Reached(First, {Root} \cap Groups) : o \in Held(First, g)
    BY <1>1, <1>4, BelowIs
  <2> QED BY <1>4, <2>1
<1>6. \A g \in Groups : Root \notin Held(First, g)
  BY <1>2, <1>3, <1>4, <1>5
<1>7. \A e \in Entries : ToSet(First.hist[e]) \subseteq First.pool
  <2>1. \A e \in Present(First) \cap Entries : ToSet(First.hist[e]) \subseteq First.pool
    BY <1>1 DEF Revisions
  <2>2. \A e \in Entries \ Present(First) : ToSet(First.hist[e]) = {}
    BY <1>2, EmptySet DEF CompactFields
  <2> QED BY <2>1, <2>2
<1>8. \A e \in Entries \ Present(First) : ToSet(First.hist[e]) = {}
  BY <1>2, EmptySet DEF CompactFields
<1>9. \A e \in Present(First) \cap Entries : First.rev[e] \in First.pool
  BY <1>1 DEF Revisions
<1> QED BY <1>1, <1>2, <1>6, <1>7, <1>8, <1>9 DEF Good

LEMMA InitHolds == Init => IInv
<1>1. Good(First)
  BY FirstGood
<1>2. First \in Db /\ Present(First) \in SUBSET Objects /\ Root \in Present(First)
  BY <1>1, PresentIs DEF Good
<1>3. Init => Counters
  BY <1>2, BoundAssumption DEF Init, Counters, Time
<1>4. Init => Copies
  BY <1>1 DEF Init, Copies
<1>5. Init => MergeMade
  BY DEF Init, MergeMade
<1> QED BY <1>3, <1>4, <1>5 DEF IInv

(* An edit whose result is good.                                            *)
LEMMA EditsKeep ==
  ASSUME IInv, NEW d \in Device, NEW n, NEW t, Edits(d, t, n), Good(n), edits < MaxEdits,
         t \in {clock, clock + 1} \cap (edit[d] + 1 .. MaxTime),
         used' \subseteq Objects, used \subseteq used'
  PROVE  IInv'
<1>1. t \in Time
  <2>1. clock \in Nat /\ edit[d] \in Nat
    BY BoundAssumption DEF IInv, Counters, Time
  <2> QED BY <2>1, BoundAssumption DEF Time
<1>2. Counters'
  BY <1>1, BoundAssumption DEF IInv, Counters, Edits
<1>3. Copies'
  BY DEF IInv, Copies, Edits
<1>4. MergeMade'
  BY DEF MergeMade, Edits
<1> QED BY <1>2, <1>3, <1>4 DEF IInv

LEMMA EditStepKeeps ==
  ASSUME IInv, NEW d \in Device, EditStep(d)
  PROVE  IInv'
<1> DEFINE here == Present(db[d])
<1>1. /\ Good(db[d]) /\ db[d] \in Db /\ here \in SUBSET Objects /\ used \subseteq Objects
      /\ Root \in used /\ Groups \subseteq Objects /\ Entries \subseteq Objects
  BY PresentIs DEF IInv, Copies, Counters, Good, Objects
<1>2. edits < MaxEdits
  BY DEF EditStep
<1>3. PICK t \in {clock, clock + 1} \cap (edit[d] + 1 .. MaxTime) :
        \/ \E e \in here \cap Entries : EditEntry(d, e, t)
        \/ \E g \in here \cap Groups : EditGroup(d, g, t)
        \/ \E e \in Entries, g \in here \cap Groups : CreateEntry(d, e, g, t)
        \/ \E g \in Groups, p \in here \cap Groups : CreateGroup(d, g, p, t)
        \/ \E o \in here, g \in here \cap Groups : Move(d, o, g, t)
        \/ \E o \in here : RemoveItem(d, o, t)
        \/ \E n \in HistoryMax : EditSettings(d, n, t)
  BY DEF EditStep
<1>4. t \in Time /\ Now(d, t) \in Stamp
  <2>1. clock \in Nat /\ edit[d] \in Nat
    BY BoundAssumption DEF IInv, Counters, Time
  <2> QED BY <2>1, BoundAssumption DEF Time, Now, Stamp
<1> HIDE DEF here
<1>5. CASE \E e \in here \cap Entries : EditEntry(d, e, t)
  <2>1. PICK e \in here \cap Entries : EditEntry(d, e, t)
    BY <1>5
  <2> DEFINE n == [db[d] EXCEPT !.hist[e] = MaintainHistory(Append(@, db[d].rev[e]), db[d].max),
                                !.rev[e] = Now(d, t), !.pool = @ \cup {Now(d, t)}]
  <2>2. Good(n)
    BY <1>1, <1>4, EditEntryGood DEF here
  <2>3. Edits(d, t, n) /\ used' = used
    BY <2>1 DEF EditEntry
  <2> HIDE DEF n
  <2> QED BY <1>1, <1>2, <2>2, <2>3, EditsKeep
<1>6. CASE \E g \in here \cap Groups : EditGroup(d, g, t)
  <2>1. PICK g \in here \cap Groups : EditGroup(d, g, t)
    BY <1>6
  <2> DEFINE n == [db[d] EXCEPT !.rev[g] = Now(d, t)]
  <2>2. Good(n)
    BY <1>1, <1>4, EditGroupGood
  <2>3. Edits(d, t, n) /\ used' = used
    BY <2>1 DEF EditGroup
  <2> HIDE DEF n
  <2> QED BY <1>1, <1>2, <2>2, <2>3, EditsKeep
<1>7. CASE \E e \in Entries, g \in here \cap Groups : CreateEntry(d, e, g, t)
  <2>1. PICK e \in Entries, g \in here \cap Groups : CreateEntry(d, e, g, t)
    BY <1>7
  <2> DEFINE n == [db[d] EXCEPT !.entries[g] = Append(@, e), !.rev[e] = Now(d, t),
                                !.loc[e] = t, !.pool = @ \cup {Now(d, t)}]
  <2>2. Good(n)
    BY <1>1, <1>4, CreateEntryGood DEF here
  <2>3. Edits(d, t, n) /\ used' = used \cup {e}
    BY <2>1 DEF CreateEntry
  <2> HIDE DEF n
  <2> QED BY <1>1, <1>2, <2>2, <2>3, EditsKeep
<1>8. CASE \E g \in Groups, p \in here \cap Groups : CreateGroup(d, g, p, t)
  <2>1. PICK g \in Groups, p \in here \cap Groups : CreateGroup(d, g, p, t)
    BY <1>8
  <2> DEFINE n == [db[d] EXCEPT !.groups[p] = Append(@, g), !.rev[g] = Now(d, t), !.loc[g] = t]
  <2>0. g # Root
    BY <1>1, <2>1 DEF CreateGroup
  <2>2. Good(n)
    BY <1>1, <1>4, <2>0, CreateGroupGood DEF here
  <2>3. Edits(d, t, n) /\ used' = used \cup {g}
    BY <2>1 DEF CreateGroup
  <2> HIDE DEF n
  <2> QED BY <1>1, <1>2, <2>2, <2>3, EditsKeep
<1>9. CASE \E o \in here, g \in here \cap Groups : Move(d, o, g, t)
  <2>1. PICK o \in here, g \in here \cap Groups : Move(d, o, g, t)
    BY <1>9
  <2>2. Good(Moved(db[d], o, g, t))
    BY <1>1, <1>4, <2>1, MovedGood DEF here, Move
  <2>3. Edits(d, t, Moved(db[d], o, g, t)) /\ used' = used
    BY <2>1 DEF Move
  <2> QED BY <1>1, <1>2, <2>2, <2>3, EditsKeep
<1>10. CASE \E o \in here : RemoveItem(d, o, t)
  <2>1. PICK o \in here : RemoveItem(d, o, t)
    BY <1>10
  <2> DEFINE n == IF InRecycleBin(db[d], o) THEN Deleted(db[d], o)
                                            ELSE Moved(db[d], o, RecycleBin, t)
  <2>2. o # Root /\ RecycleBin \in here \cap Groups /\ RecycleBin \notin {o} \cup Below(db[d], {o})
    BY <2>1, GroupAssumption DEF RemoveItem, here
  <2>3. Edits(d, t, n) /\ used' = used
    BY <2>1 DEF RemoveItem
  <2>4. Good(Deleted(db[d], o)) /\ Good(Moved(db[d], o, RecycleBin, t))
    BY <1>1, <1>4, <2>2, DeletedGood, MovedGood DEF here
  <2>5. Good(n)
    BY <2>4
  <2> HIDE DEF n
  <2> QED BY <1>1, <1>2, <2>3, <2>5, EditsKeep
<1>11. CASE \E n \in HistoryMax : EditSettings(d, n, t)
  <2>1. PICK k \in HistoryMax : EditSettings(d, k, t)
    BY <1>11
  <2> DEFINE n == [db[d] EXCEPT !.max = k, !.name = Now(d, t),
                                !.hist = [e \in Entries |-> MaintainHistory(@[e], k)]]
  <2>2. Good(n)
    BY <1>1, <1>4, EditSettingsGood
  <2>3. Edits(d, t, n) /\ used' = used
    BY <2>1 DEF EditSettings
  <2> HIDE DEF n
  <2> QED BY <1>1, <1>2, <2>2, <2>3, EditsKeep
<1> QED BY <1>3, <1>5, <1>6, <1>7, <1>8, <1>9, <1>10, <1>11 DEF here

LEMMA SaveMergedKeeps ==
  ASSUME IInv, NEW d \in Device, SaveMerged(d)
  PROVE  IInv'
<1> DEFINE x == Merging(db[d], stored)
<1>1. Good(db[d]) /\ Good(stored)
  BY DEF IInv, Copies
<1>2. PICK V : Walked(x, V, db[d], stored)
  BY <1>1, WalkedEnds
<1>3. /\ x.todo = <<>> /\ Stores(d, Merged(x)) /\ MayMerge(db[d], stored)
      /\ db' = [db EXCEPT ![d] = stored'] /\ last' = [mine |-> db[d], theirs |-> stored]
  BY DEF SaveMerged
<1> HIDE DEF x
<1>4. Good(Merged(x))
  BY <1>1, <1>2, <1>3, MergedIs DEF MergedFields
<1>5. stored' = Merged(x)
  BY <1>3 DEF Stores
<1>6. Counters'
  BY <1>3 DEF IInv, Counters, Stores
<1>7. Copies'
  BY <1>3, <1>4, <1>5 DEF IInv, Copies
<1>8. MergeMade'
  BY <1>1, <1>3, <1>5 DEF MergeMade, x
<1> QED BY <1>6, <1>7, <1>8 DEF IInv

LEMMA NextKeeps == IInv /\ [Next]_vars => IInv'
<1> SUFFICES ASSUME IInv, [Next]_vars PROVE IInv'
  OBVIOUS
<1>1. ASSUME NEW d \in Device, EditStep(d) PROVE IInv'
  BY <1>1, EditStepKeeps
<1>2. ASSUME NEW d \in Device, Save(d) PROVE IInv'
  <2>1. Counters'
    BY <1>2 DEF IInv, Counters, Save, Stores
  <2>2. Copies' /\ MergeMade'
    BY <1>2 DEF IInv, Copies, MergeMade, Save, Stores
  <2> QED BY <2>1, <2>2 DEF IInv
<1>3. ASSUME NEW d \in Device, SaveMerged(d) PROVE IInv'
  BY <1>3, SaveMergedKeeps
<1>4. ASSUME NEW d \in Device, Reload(d) PROVE IInv'
  <2>1. Counters'
    BY <1>4 DEF IInv, Counters, Reload
  <2>2. Copies' /\ MergeMade'
    BY <1>4 DEF IInv, Copies, MergeMade, Reload
  <2> QED BY <2>1, <2>2 DEF IInv
<1>5. CASE UNCHANGED vars
  BY <1>5 DEF vars, IInv, Counters, Copies, MergeMade
<1> QED BY <1>1, <1>2, <1>3, <1>4, <1>5 DEF Next

(* In every state every copy and the file are good, and what a merge just   *)
(* stored is what it makes of its two sides.                                *)
THEOREM AlwaysGood == Spec => []IInv
BY InitHolds, NextKeeps, PTL DEF Spec

(* Every copy that an edit, a merge or a reload leaves is a database, and   *)
(* the ids, the clock and the counters stay in range.                       *)
THEOREM TypeCorrect == Spec => []TypeOK
<1>1. IInv => TypeOK
  <2> SUFFICES ASSUME IInv PROVE TypeOK
    OBVIOUS
  <2>1. db \in [Device -> Db] /\ stored \in Db
    BY DEF IInv, Copies, Good
  <2>2. last = None \/ last \in [mine : Db, theirs : Db]
    <3>1. CASE last # None
      <4>1. last = [mine |-> last.mine, theirs |-> last.theirs] /\ last.mine \in Db /\ last.theirs \in Db
        BY <3>1 DEF IInv, MergeMade, Good
      <4> QED BY <4>1
    <3> QED BY <3>1
  <2> QED BY <2>1, <2>2 DEF IInv, Counters, TypeOK
<1> QED BY <1>1, AlwaysGood, PTL

(* No edit, no merge and no removal of unused binaries takes an attachment  *)
(* that a revision in an entry or in a history needs.                       *)
THEOREM NoAttachmentLost == Spec => []AttachmentsKept
<1>1. IInv => AttachmentsKept
  BY GoodIs DEF IInv, Copies, AttachmentsKept
<1> QED BY <1>1, AlwaysGood, PTL

(* What one side of a merge deleted for good comes back in a group only     *)
(* that the other side does not know.                                       *)
THEOREM DeadStayDead == Spec => []NoResurrection
<1>1. IInv => NoResurrection
  <2> SUFFICES ASSUME IInv, last # None, NEW o \in Present(stored),
                      o \in last.mine.dead \cup last.theirs.dead
               PROVE  o \in Unvisited(stored, last.theirs)
    BY DEF NoResurrection
  <2> DEFINE mine == last.mine
             theirs == last.theirs
             x == Merging(mine, theirs)
  <2>1. Good(mine) /\ Good(theirs) /\ x.todo = <<>> /\ stored = Merged(x)
    BY DEF IInv, MergeMade
  <2>2. PICK V : Walked(x, V, mine, theirs)
    BY <2>1, WalkedEnds
  <2> HIDE DEF x
  <2>3. MergedFields(x, V, stored, theirs)
    BY <2>1, <2>2, MergedIs
  <2>4. o # Root
    BY <2>1 DEF Good
  <2>5. x.m.dead = mine.dead \cup theirs.dead
    BY <2>2 DEF Walked, Fixed
  <2>6. \A g \in V \cap Groups : o \notin Held(stored, g)
    <3>1. \A g \in V \cap Groups : Held(stored, g) = Held(x.m, g)
      BY <2>3 DEF MergedFields
    <3> QED BY <2>2, <2>5, <3>1 DEF Walked, Lists, ListedIn
  <2> QED BY <2>3, <2>4, <2>6 DEF MergedFields
<1> QED BY <1>1, AlwaysGood, PTL

-----------------------------------------------------------------------------
(* Where the objects of both sides end, and when one is listed twice.       *)

(* No object is listed twice.                                               *)
Unique(m) ==
  /\ \A g \in Groups : OnceIn(m, g)
  /\ \A g \in Groups : \A h \in Groups \ {g} : Held(m, g) \cap Held(m, h) = {}

LEMMA UniqueIs ==
  ASSUME NEW m, Good(m)
  PROVE  HasDuplicates(m) <=> ~Unique(m)
<1> DEFINE here == Reached(m, {Root})
<1>1. /\ m \in Db /\ {Root} \in SUBSET Objects /\ {Root} \cap Groups = {Root}
      /\ Present(m) \cap Groups = here /\ here \in SUBSET Groups
  BY PresentIs, ReachedIs, GroupAssumption DEF Good, Objects
<1> HIDE DEF here
<1>2. Root \notin Below(m, {Root})
  <2>1. \A o : o \in Below(m, {Root}) <=> \E g \in Reached(m, {Root} \cap Groups) : o \in Held(m, g)
    BY <1>1, BelowIs
  <2> QED BY <1>1, <2>1 DEF Good, here
<1>3. \A g \in Groups \ here : Held(m, g) = {}
  BY <1>1 DEF Good
<1>4. ASSUME NEW g \in Groups \ here PROVE OnceIn(m, g)
  <2>1. m.groups[g] \in Seq(Groups) /\ m.entries[g] \in Seq(Entries)
    BY <1>1, HeldIs
  <2>2. ToSet(m.groups[g]) = {} /\ ToSet(m.entries[g]) = {}
    BY <1>3 DEF Held
  <2>3. ASSUME NEW T, NEW s \in Seq(T), ToSet(s) = {} PROVE IsInjective(s)
    BY <2>3 DEF ToSet, IsInjective
  <2> QED BY <2>1, <2>2, <2>3 DEF OnceIn
<1>5. HasDuplicates(m) <=> \/ \E g \in here : ~OnceIn(m, g)
                           \/ \E g, h \in here : g # h /\ Held(m, g) \cap Held(m, h) # {}
  BY <1>2 DEF HasDuplicates, OnceIn, here
<1> QED BY <1>1, <1>3, <1>4, <1>5 DEF Unique

(* What is to be found in a merged group.                                   *)
Due(mine, theirs, g) == Belongs(mine, theirs, g) \ (mine.dead \cup theirs.dead)

(* It is in one group only.                                                 *)
LEMMA DueOnce ==
  ASSUME NEW mine, Good(mine), Unique(mine), NEW theirs, Good(theirs), Unique(theirs),
         NEW g \in Groups, NEW h \in Groups \ {g}
  PROVE  Due(mine, theirs, g) \cap Due(mine, theirs, h) = {}
<1>1. \A p \in Groups : Held(mine, p) \subseteq Present(mine) /\ Held(theirs, p) \subseteq Present(theirs)
  BY GoodIs
<1>2. mine \in Db /\ theirs \in Db /\ Present(mine) \in SUBSET Objects
  BY PresentIs DEF Good
<1>3. \A o \in Objects : mine.loc[o] \in Nat /\ theirs.loc[o] \in Nat
  BY <1>2, DbTypes, BoundAssumption DEF Time
<1>4. \A o \in Objects : ~(theirs.loc[o] <= mine.loc[o] /\ theirs.loc[o] > mine.loc[o])
  BY <1>3
<1>5. /\ Held(mine, g) \cap Held(mine, h) = {} /\ Held(theirs, g) \cap Held(theirs, h) = {}
  BY DEF Unique
<1> QED BY <1>1, <1>2, <1>4, <1>5 DEF Due, Belongs

(* An object that both sides have is where the later of them put it, and a  *)
(* merged group has what is due.                                            *)
Homes(x, V, mine, theirs) ==
  /\ \A o \in (Seen(x, V) \cap x.own \cap x.all) \ {Root} :
        \E p \in V \cap Groups :
           o \in Held(x.m, p) \cap Held(IF theirs.loc[o] > mine.loc[o] THEN theirs ELSE mine, p)
  /\ \A g \in V \cap Groups : Due(mine, theirs, g) \subseteq Held(x.m, g)

(* The first visit of a group: its list is that of this side, and the time  *)
(* of a move is that of this side unless the object was met before and the  *)
(* other side's revision of it is later.                                    *)
LEMMA FirstVisit ==
  ASSUME NEW mine, Good(mine), NEW theirs, Good(theirs), NEW x, NEW V,
         Walked(x, V, mine, theirs), NEW g \in (Groups \cap Seen(x, V)) \ V
  PROVE  /\ Held(x.m, g) = Held(mine, g) /\ Held(mine, g) \subseteq x.own \ {Root}
         /\ Held(theirs, g) \subseteq x.all \ {Root}
         /\ OnceIn(mine, g) => OnceIn(x.m, g)
         /\ \A o \in x.own :
               /\ mine.loc[o] \in Nat /\ theirs.loc[o] \in Nat
               /\ \/ LocOf(x, g, o) = mine.loc[o]
                  \/ /\ LocOf(x, g, o) = theirs.loc[o] /\ o \in Seen(x, V)
                     /\ Earlier(mine.rev[o], theirs.rev[o])
<1>1. /\ x \in WalkState /\ x.theirs = theirs /\ x.own = Present(mine) /\ x.all = Present(theirs)
      /\ mine \in Db /\ theirs \in Db /\ x.own \in SUBSET Objects
      /\ Lists(x, V, mine, theirs) /\ Stamps(x, V, mine, theirs)
  BY WalkTypes DEF Walked, Fixed, Good
<1>2. x.m.groups[g] = mine.groups[g] /\ x.m.entries[g] = mine.entries[g]
  BY <1>1 DEF Lists
<1>3. /\ Held(mine, g) \subseteq x.own \ {Root} /\ Held(theirs, g) \subseteq x.all \ {Root}
  BY <1>1, GoodIs DEF Good
<1>4. ASSUME NEW o \in x.own
      PROVE  /\ mine.loc[o] \in Nat /\ theirs.loc[o] \in Nat
             /\ \/ LocOf(x, g, o) = mine.loc[o]
                \/ /\ LocOf(x, g, o) = theirs.loc[o] /\ o \in Seen(x, V)
                   /\ Earlier(mine.rev[o], theirs.rev[o])
  <2>1. mine.loc[o] \in Nat /\ theirs.loc[o] \in Nat
    BY <1>1, DbTypes, BoundAssumption DEF Time
  <2>2. CASE o \in V
    <3>1. /\ x.m.rev[o] = Newest(mine, theirs, o) /\ x.m.loc[o] = NewestLoc(mine, theirs, o)
      BY <1>1, <2>2 DEF Stamps
    <3> QED BY <2>1, <2>2, <3>1 DEF LocOf, NewestLoc, Seen
  <2>3. CASE o \notin V
    <3>1. x.m.rev[o] = mine.rev[o] /\ x.m.loc[o] = mine.loc[o]
      BY <1>1, <2>3 DEF Stamps
    <3> QED BY <1>1, <2>1, <3>1 DEF LocOf, Later
  <2> QED BY <2>2, <2>3
<1>5. Held(x.m, g) = Held(mine, g) /\ (OnceIn(mine, g) => OnceIn(x.m, g))
  BY <1>2 DEF Held, OnceIn
<1> QED BY <1>3, <1>4, <1>5

LEMMA HomesStep ==
  ASSUME NEW mine, Good(mine), NEW theirs, Good(theirs), Unique(theirs), NEW x, NEW V,
         x.todo # <<>>, Walked(x, V, mine, theirs), Homes(x, V, mine, theirs)
  PROVE  Homes(Visit(x), After(x, V), mine, theirs)
<1> DEFINE g == Head(x.todo)
           y == Visit(x)
           W == After(x, V)
           Home(m, S, o) ==
             \E p \in S \cap Groups :
                o \in Held(m, p) \cap Held(IF theirs.loc[o] > mine.loc[o] THEN theirs ELSE mine, p)
<1>1. /\ x \in WalkState /\ x.theirs = theirs /\ x.own = Present(mine) /\ x.all = Present(theirs)
      /\ V \in SUBSET x.all /\ x.m.dead = mine.dead \cup theirs.dead /\ x.own \in SUBSET Objects
      /\ Lists(x, V, mine, theirs) /\ Stamps(x, V, mine, theirs)
  BY WalkTypes DEF Walked, Fixed, Lists
<1>2. /\ y \in WalkState /\ SameSides(x, y) /\ g \in Seen(x, V)
      /\ \/ Seen(y, W) \subseteq Seen(x, V)
         \/ g \in x.all \cap Groups /\ Seen(y, W) = Seen(x, V) \cup Held(y.m, g)
  BY <1>1, SeenStep
<1>3. \/ g \notin x.all /\ Passed(x, y)
      \/ g \in x.all \cap Groups /\ GroupVisited(x, y, g)
      \/ g \in x.all \cap Entries /\ EntryVisited(x, y, g)
  BY <1>1, VisitIs
<1>4. Gains(x, y, V)
  BY WalkedStep
<1>5. W = IF g \in x.all THEN V \cup {g} ELSE V
  BY DEF After
<1>6. y.own = x.own /\ y.all = x.all
  BY <1>2 DEF SameSides
<1> HIDE DEF g, y, W
<1>7. ASSUME g \in x.all \cap Groups
      PROVE  /\ GroupVisited(x, y, g)
             /\ Held(y.m, g) = {o \in Held(x.m, g) : StaysIn(x, g, o)}
                               \cup {o \in Held(theirs, g) : ComesIn(x, g, o)}
  BY <1>1, <1>3, <1>7, GroupAssumption DEF GroupVisited, Passed
<1>8. \A o \in (Seen(x, V) \cap x.own \cap x.all) \ {Root} : Home(x.m, V, o)
  BY DEF Homes
<1>9. ASSUME NEW o \in (Seen(y, W) \cap y.own \cap y.all) \ {Root} PROVE Home(y.m, W, o)
  <2>1. CASE o \in Seen(x, V)
    <3>1. Home(x.m, V, o)
      BY <1>6, <1>8, <1>9, <2>1
    <3> QED BY <1>4, <1>5, <3>1 DEF Gains
  <2>2. CASE o \notin Seen(x, V)
    <3>1. g \in x.all \cap Groups /\ o \in Held(y.m, g) /\ g \in W
      BY <1>2, <1>5, <1>9, <2>2
    <3>2. o \in x.own /\ o \in x.all /\ o # g /\ o \notin V
      BY <1>2, <1>6, <1>9, <2>2 DEF Seen
    <3>3. LocOf(x, g, o) = mine.loc[o]
      BY <1>1, <3>2 DEF Stamps, LocOf
    <3>4. CASE o \in Held(x.m, g) /\ StaysIn(x, g, o)
      <4>1. g \notin V
        BY <1>1, <2>2, <3>1, <3>2, <3>4 DEF Lists, ListedIn
      <4>2. o \in Held(mine, g)
        BY <1>1, <3>1, <3>4, <4>1 DEF Lists, Held
      <4>3. theirs.loc[o] <= mine.loc[o] /\ theirs.loc[o] \in Nat /\ mine.loc[o] \in Nat
        BY <1>1, <3>2, <3>3, <3>4, DbTypes, BoundAssumption DEF StaysIn, Good, Time
      <4>4. ~(theirs.loc[o] > mine.loc[o])
        BY <4>3
      <4> QED BY <3>1, <4>2, <4>4
    <3>5. CASE o \in Held(theirs, g) /\ ComesIn(x, g, o)
      <4>1. theirs.loc[o] > mine.loc[o]
        BY <1>1, <3>2, <3>3, <3>5 DEF ComesIn
      <4> QED BY <3>1, <3>5, <4>1
    <3> QED BY <1>7, <3>1, <3>4, <3>5
  <2> QED BY <2>1, <2>2
<1>10. ASSUME NEW h \in W \cap Groups PROVE Due(mine, theirs, h) \subseteq Held(y.m, h)
  <2>1. CASE h \in V
    BY <1>4, <2>1 DEF Homes, Gains
  <2>2. CASE h \notin V
    <3>1. h = g /\ g \in x.all \cap Groups /\ g \in (Groups \cap Seen(x, V)) \ V
      BY <1>2, <1>5, <1>10, <2>2
    <3>2. /\ Held(x.m, g) = Held(mine, g) /\ Held(mine, g) \subseteq x.own \ {Root}
          /\ Held(theirs, g) \subseteq x.all \ {Root}
          /\ \A o \in x.own :
               /\ mine.loc[o] \in Nat /\ theirs.loc[o] \in Nat
               /\ \/ LocOf(x, g, o) = mine.loc[o]
                  \/ LocOf(x, g, o) = theirs.loc[o] /\ o \in Seen(x, V)
      BY <3>1, FirstVisit
    <3>3. SUFFICES ASSUME NEW o \in Due(mine, theirs, g) PROVE o \in Held(y.m, g)
      BY <3>1
    <3>4. o \notin x.m.dead
      BY <1>1 DEF Due
    <3>5. CASE o \in Held(mine, g) /\ (o \in x.all => theirs.loc[o] <= mine.loc[o])
      <4>1. o \in x.all => theirs.loc[o] <= LocOf(x, g, o)
        BY <3>2, <3>5
      <4> QED BY <1>1, <1>7, <3>1, <3>2, <3>4, <3>5, <4>1 DEF StaysIn
    <3>6. CASE o \in Held(theirs, g) /\ (o \in x.own => theirs.loc[o] > mine.loc[o])
      <4>1. ASSUME o \in x.own PROVE LocOf(x, g, o) = mine.loc[o]
        <5>1. SUFFICES ASSUME o \in Seen(x, V) PROVE FALSE
          BY <3>2, <4>1
        <5>2. Home(x.m, V, o)
          BY <1>8, <3>2, <3>6, <4>1, <5>1
        <5>3. PICK p \in V \cap Groups : o \in Held(theirs, p)
          BY <3>6, <4>1, <5>2
        <5> QED BY <3>1, <3>6, <5>3 DEF Unique
      <4> QED BY <1>1, <1>7, <3>1, <3>4, <3>6, <4>1 DEF ComesIn
    <3> QED BY <1>1, <3>5, <3>6 DEF Due, Belongs
  <2> QED BY <2>1, <2>2
<1>11. Homes(y, W, mine, theirs)
  BY <1>9, <1>10 DEF Homes
<1> QED BY <1>11 DEF y, W

(* Nothing has been met twice: every object is visited once, every merged   *)
(* group has what is due and no more, and of entries edited on both sides   *)
(* the earlier revision is kept.                                            *)
Nice(x, V, mine, theirs) ==
  /\ IsInjective(x.todo) /\ ToSet(x.todo) \cap V = {}
  /\ \A g \in V \cap Groups : OnceIn(x.m, g) /\ Held(x.m, g) \subseteq Due(mine, theirs, g)
  /\ \A e \in V \cap x.own \cap Entries :
        Earlier(theirs.rev[e], mine.rev[e]) /\ theirs.rev[e].at \notin Times(mine.hist[e])
           => theirs.rev[e].at \in Times(x.m.hist[e])

(* An object is listed twice, and one was moved and edited.                 *)
Shared(x, V, mine, theirs) ==
  /\ \E p \in V \cap Groups : \E q \in (V \cap Groups) \ {p} : Held(x.m, p) \cap Held(x.m, q) # {}
  /\ \E o \in x.own \cap x.all : theirs.loc[o] > mine.loc[o] /\ Earlier(mine.rev[o], theirs.rev[o])

LEMMA SharedStep ==
  ASSUME NEW x, NEW y, NEW V, NEW mine, NEW theirs, Shared(x, V, mine, theirs), Gains(x, y, V),
         SameSides(x, y)
  PROVE  Shared(y, After(x, V), mine, theirs)
<1>1. /\ \E p \in V \cap Groups : \E q \in (V \cap Groups) \ {p} : Held(y.m, p) \cap Held(y.m, q) # {}
      /\ \E o \in y.own \cap y.all : theirs.loc[o] > mine.loc[o] /\ Earlier(mine.rev[o], theirs.rev[o])
  BY DEF Shared, Gains, SameSides
<1>2. V \subseteq After(x, V)
  BY DEF After
<1> QED BY <1>1, <1>2 DEF Shared

LEMMA ConcatOnce ==
  ASSUME NEW T, NEW s \in Seq(T), NEW t \in Seq(T), IsInjective(s), IsInjective(t),
         ToSet(s) \cap ToSet(t) = {}
  PROVE  IsInjective(s \o t)
<1> DEFINE a == Len(s)
           b == Len(t)
           u == s \o t
<1>1. /\ a \in Nat /\ b \in Nat /\ DOMAIN s = 1 .. a /\ DOMAIN t = 1 .. b /\ DOMAIN u = 1 .. a + b
      /\ \A i \in 1 .. a + b : u[i] = IF i <= a THEN s[i] ELSE t[i - a]
  OBVIOUS
<1> HIDE DEF a, b, u
<1>2. /\ \A i \in 1 .. a : \A j \in 1 .. a : s[i] = s[j] => i = j
      /\ \A i \in 1 .. b : \A j \in 1 .. b : t[i] = t[j] => i = j
      /\ \A i \in 1 .. a : \A j \in 1 .. b : s[i] # t[j]
  <2>1. /\ \A i \in 1 .. a : \A j \in 1 .. a : s[i] = s[j] => i = j
        /\ \A i \in 1 .. b : \A j \in 1 .. b : t[i] = t[j] => i = j
    BY <1>1 DEF IsInjective
  <2>2. ASSUME NEW i \in 1 .. a, NEW j \in 1 .. b PROVE s[i] # t[j]
    <3>1. s[i] \in ToSet(s) /\ t[j] \in ToSet(t)
      BY <1>1 DEF ToSet
    <3> QED BY <3>1
  <2> QED BY <2>1, <2>2
<1>3. ASSUME NEW i \in 1 .. a + b, NEW j \in 1 .. a + b, u[i] = u[j] PROVE i = j
  <2>1. CASE i <= a /\ j <= a
    BY <1>1, <1>2, <1>3, <2>1
  <2>2. CASE i <= a /\ ~(j <= a)
    <3>1. i \in 1 .. a /\ j - a \in 1 .. b
      BY <1>1, <2>2
    <3> QED BY <1>1, <1>2, <1>3, <2>2, <3>1
  <2>3. CASE ~(i <= a) /\ j <= a
    <3>1. j \in 1 .. a /\ i - a \in 1 .. b
      BY <1>1, <2>3
    <3>2. t[i - a] = s[j]
      BY <1>1, <1>3, <2>3
    <3> QED BY <1>2, <3>1, <3>2
  <2>4. CASE ~(i <= a) /\ ~(j <= a)
    <3>1. i - a \in 1 .. b /\ j - a \in 1 .. b
      BY <1>1, <2>4
    <3>2. t[i - a] = t[j - a]
      BY <1>1, <1>3, <2>4
    <3>3. i - a = j - a
      BY <1>2, <3>1, <3>2
    <3> QED BY <1>1, <3>3
  <2> QED BY <1>1, <2>1, <2>2, <2>3, <2>4
<1> QED BY <1>1, <1>3 DEF IsInjective, u

LEMMA TailOnce ==
  ASSUME NEW T, NEW s \in Seq(T), s # <<>>, IsInjective(s)
  PROVE  IsInjective(Tail(s)) /\ Head(s) \notin ToSet(Tail(s))
<1> DEFINE a == Len(s)
           t == Tail(s)
<1>1. /\ a \in Nat \ {0} /\ DOMAIN s = 1 .. a /\ DOMAIN t = 1 .. a - 1 /\ Head(s) = s[1]
      /\ \A i \in 1 .. a - 1 : t[i] = s[i + 1]
  OBVIOUS
<1> HIDE DEF a, t
<1>2. \A i \in 1 .. a : \A j \in 1 .. a : s[i] = s[j] => i = j
  BY <1>1 DEF IsInjective
<1>3. \A i \in 1 .. a - 1 : i + 1 \in 1 .. a /\ i + 1 # 1
  BY <1>1
<1>4. ASSUME NEW i \in 1 .. a - 1, NEW j \in 1 .. a - 1, t[i] = t[j] PROVE i = j
  <2>1. i + 1 = j + 1
    BY <1>1, <1>2, <1>3, <1>4
  <2> QED BY <2>1
<1>5. \A i \in 1 .. a - 1 : t[i] # Head(s)
  <2>1. 1 \in 1 .. a
    BY <1>1
  <2> QED BY <1>1, <1>2, <1>3, <2>1
<1> QED BY <1>1, <1>4, <1>5 DEF IsInjective, ToSet, t

(* A visit of a group, while nothing has been met twice.                    *)
LEMMA NiceGroup ==
  ASSUME NEW mine, Good(mine), Unique(mine), NEW theirs, Good(theirs), Unique(theirs),
         NEW x, NEW y, NEW V, Walked(x, V, mine, theirs), Nice(x, V, mine, theirs), x.todo # <<>>,
         NEW g \in Groups \cap x.all, g = Head(x.todo), GroupVisited(x, y, g)
  PROVE  \/ Nice(y, V \cup {g}, mine, theirs)
         \/ Shared(y, V \cup {g}, mine, theirs)
<1>1. /\ x \in WalkState /\ y \in WalkState /\ SameSides(x, y) /\ x.theirs = theirs
      /\ x.own = Present(mine) /\ x.all = Present(theirs) /\ x.own \in SUBSET Objects
      /\ V \in SUBSET x.all /\ x.m.dead = mine.dead \cup theirs.dead /\ Met(x, V)
      /\ y.m \in Db /\ x.todo \in Seq(Objects) /\ mine \in Db /\ theirs \in Db
  BY WalkTypes DEF Walked, Fixed, Lists, GroupVisited, Good
<1> DEFINE rest == Tail(x.todo)
<1>2. /\ rest \in Seq(Objects) /\ ToSet(x.todo) = {g} \cup ToSet(rest)
      /\ IsInjective(rest) /\ g \notin ToSet(rest)
  BY <1>1, HeadTailSet, TailOnce DEF Nice
<1>3. g \in (Groups \cap Seen(x, V)) \ V /\ ToSet(rest) \cap V = {} /\ ToSet(rest) \subseteq Seen(x, V)
      /\ V \cup {g} \subseteq Seen(x, V)
  BY <1>2 DEF Nice, Seen
<1>4. /\ Held(x.m, g) = Held(mine, g) /\ Held(mine, g) \subseteq x.own \ {Root}
      /\ Held(theirs, g) \subseteq x.all \ {Root} /\ OnceIn(x.m, g)
      /\ \A o \in x.own :
            /\ mine.loc[o] \in Nat /\ theirs.loc[o] \in Nat
            /\ \/ LocOf(x, g, o) = mine.loc[o]
               \/ /\ LocOf(x, g, o) = theirs.loc[o] /\ o \in Seen(x, V)
                  /\ Earlier(mine.rev[o], theirs.rev[o])
  BY <1>3, FirstVisit DEF Unique
<1> HIDE DEF rest
<1>5. Held(y.m, g) = {o \in Held(mine, g) : StaysIn(x, g, o)}
                     \cup {o \in Held(theirs, g) : ComesIn(x, g, o)}
  BY <1>1, <1>4 DEF GroupVisited
<1>6. \A h \in Groups \ {g} : Held(y.m, h) = Held(x.m, h) /\ (OnceIn(x.m, h) => OnceIn(y.m, h))
  BY DEF GroupVisited, Held, OnceIn
<1>7. CASE Held(y.m, g) \subseteq Due(mine, theirs, g)
  <2>1. \A h \in (V \cup {g}) \cap Groups : Held(y.m, h) \subseteq Due(mine, theirs, h)
    BY <1>6, <1>7 DEF Nice
  <2>2. Held(y.m, g) \cap Seen(x, V) = {}
    <3>1. SUFFICES ASSUME NEW o \in Held(y.m, g), o \in Seen(x, V) PROVE FALSE
      OBVIOUS
    <3>2. o # Root
      BY <1>4, <1>5, <3>1
    <3>3. PICK p \in V \cap Groups : o \in Held(x.m, p)
      BY <1>1, <3>1, <3>2 DEF Met
    <3>4. p # g /\ o \in Due(mine, theirs, p) /\ o \in Due(mine, theirs, g)
      BY <1>3, <1>7, <3>1, <3>3 DEF Nice
    <3> QED BY <3>3, <3>4, DueOnce
  <2>3. OnceIn(y.m, g)
    <3>1. \A o \in Held(x.m, g) \cap Held(x.theirs, g) : ~(StaysIn(x, g, o) /\ ComesIn(x, g, o))
      <4>1. SUFFICES ASSUME NEW o \in Held(mine, g) \cap Held(theirs, g),
                            StaysIn(x, g, o), ComesIn(x, g, o)
                     PROVE  FALSE
        BY <1>1, <1>4
      <4>2. o \in x.own /\ o \in x.all /\ theirs.loc[o] \in Nat /\ LocOf(x, g, o) \in Nat
        BY <1>4, <4>1
      <4>3. theirs.loc[o] <= LocOf(x, g, o) /\ theirs.loc[o] > LocOf(x, g, o)
        BY <1>1, <4>1, <4>2 DEF StaysIn, ComesIn
      <4> QED BY <4>2, <4>3
    <3>2. OnceIn(x.theirs, g)
      BY <1>1 DEF Unique
    <3> QED BY <1>4, <3>1, <3>2 DEF GroupVisited
  <2>4. /\ IsInjective(y.todo) /\ ToSet(y.todo) = Held(y.m, g) \cup ToSet(rest)
    <3> DEFINE gs == y.m.groups[g]
               es == y.m.entries[g]
               u == gs \o es
    <3>1. /\ gs \in Seq(Objects) /\ es \in Seq(Objects) /\ ToSet(gs) \cap ToSet(es) = {}
          /\ ToSet(gs) \cup ToSet(es) = Held(y.m, g)
      <4>1. /\ gs \in Seq(Groups) /\ es \in Seq(Entries)
            /\ ToSet(gs) \in SUBSET Groups /\ ToSet(es) \in SUBSET Entries
        BY <1>1, HeldIs
      <4>2. Seq(Groups) \subseteq Seq(Objects) /\ Seq(Entries) \subseteq Seq(Objects)
        BY DEF Objects
      <4> QED BY <4>1, <4>2, GroupAssumption DEF Held
    <3>2. IsInjective(gs) /\ IsInjective(es)
      BY <2>3 DEF OnceIn
    <3>3. y.todo = u \o rest
      BY <1>2, <3>1 DEF GroupVisited, rest
    <3> HIDE DEF gs, es
    <3>4. u \in Seq(Objects) /\ ToSet(u) = Held(y.m, g) /\ IsInjective(u)
      BY <3>1, <3>2, ConcatSet, ConcatOnce
    <3> HIDE DEF u
    <3>5. ToSet(u) \cap ToSet(rest) = {}
      BY <1>3, <2>2, <3>4
    <3> QED BY <1>2, <3>3, <3>4, <3>5, ConcatSet, ConcatOnce
  <2>5. ToSet(y.todo) \cap (V \cup {g}) = {}
    BY <1>2, <1>3, <2>2, <2>4
  <2>6. \A h \in (V \cup {g}) \cap Groups : OnceIn(y.m, h)
    BY <1>6, <2>3 DEF Nice
  <2>7. \A e \in (V \cup {g}) \cap y.own \cap Entries :
          Earlier(theirs.rev[e], mine.rev[e]) /\ theirs.rev[e].at \notin Times(mine.hist[e])
             => theirs.rev[e].at \in Times(y.m.hist[e])
    <3>1. y.own = x.own /\ y.m.hist = x.m.hist
      BY DEF GroupVisited, SameSides
    <3> QED BY <3>1, GroupAssumption DEF Nice
  <2> QED BY <2>1, <2>4, <2>5, <2>6, <2>7 DEF Nice
<1>8. CASE ~(Held(y.m, g) \subseteq Due(mine, theirs, g))
  <2>1. PICK o \in Held(y.m, g) : o \notin Due(mine, theirs, g)
    BY <1>8
  <2>2. CASE o \in Held(mine, g) /\ StaysIn(x, g, o)
    <3>1. o \in x.own /\ o # Root /\ o \notin x.m.dead
      BY <1>4, <2>2 DEF StaysIn
    <3>2. o \in x.all /\ ~(theirs.loc[o] <= mine.loc[o])
      BY <1>1, <2>1, <2>2, <3>1 DEF Due, Belongs
    <3>3. theirs.loc[o] <= LocOf(x, g, o)
      BY <1>1, <2>2, <3>2 DEF StaysIn
    <3>4. /\ o \in Seen(x, V) /\ Earlier(mine.rev[o], theirs.rev[o])
      BY <1>4, <3>1, <3>2, <3>3
    <3>5. theirs.loc[o] > mine.loc[o]
      BY <1>4, <3>1, <3>2
    <3>6. PICK p \in V \cap Groups : o \in Held(x.m, p)
      BY <1>1, <3>1, <3>4 DEF Met
    <3>7. p # g /\ o \in Held(y.m, p)
      BY <1>3, <1>6, <3>6
    <3>8. o \in y.own \cap y.all
      BY <1>1, <3>1, <3>2 DEF SameSides
    <3>9. \E q \in (V \cup {g}) \cap Groups : \E h \in ((V \cup {g}) \cap Groups) \ {q} :
             Held(y.m, q) \cap Held(y.m, h) # {}
      BY <2>1, <3>6, <3>7
    <3> QED BY <3>4, <3>5, <3>8, <3>9 DEF Shared
  <2>3. CASE o \in Held(theirs, g) /\ ComesIn(x, g, o)
    <3>1. o \in x.own => theirs.loc[o] > mine.loc[o]
      <4>1. SUFFICES ASSUME o \in x.own PROVE theirs.loc[o] > mine.loc[o]
        OBVIOUS
      <4>2. theirs.loc[o] > LocOf(x, g, o)
        BY <1>1, <2>3, <4>1 DEF ComesIn
      <4> QED BY <1>4, <4>1, <4>2
    <3>2. o \notin x.m.dead
      BY <2>3 DEF ComesIn
    <3> QED BY <1>1, <2>1, <2>3, <3>1, <3>2 DEF Due, Belongs
  <2> QED BY <1>5, <2>1, <2>2, <2>3
<1> QED BY <1>7, <1>8

LEMMA NiceStep ==
  ASSUME NEW mine, Good(mine), Unique(mine), NEW theirs, Good(theirs), Unique(theirs),
         NEW x, NEW V, Walked(x, V, mine, theirs), x.todo # <<>>,
         Nice(x, V, mine, theirs) \/ Shared(x, V, mine, theirs)
  PROVE  \/ Nice(Visit(x), After(x, V), mine, theirs)
         \/ Shared(Visit(x), After(x, V), mine, theirs)
<1> DEFINE o == Head(x.todo)
           y == Visit(x)
           W == After(x, V)
<1>1. /\ x \in WalkState /\ x.theirs = theirs /\ x.todo \in Seq(Objects) /\ V \in SUBSET x.all
      /\ Stamps(x, V, mine, theirs) /\ Histories(x, V, mine, theirs)
  BY WalkTypes DEF Walked, Fixed, Lists
<1>2. /\ y \in WalkState /\ SameSides(x, y) /\ o \in Seen(x, V)
  BY <1>1, SeenStep
<1>3. /\ o \in Objects
      /\ \/ o \notin x.all /\ Passed(x, y)
         \/ o \in x.all \cap Groups /\ GroupVisited(x, y, o)
         \/ o \in x.all \cap Entries /\ EntryVisited(x, y, o)
  BY <1>1, VisitIs
<1>4. W = IF o \in x.all THEN V \cup {o} ELSE V
  BY DEF After
<1>5. CASE Shared(x, V, mine, theirs)
  BY <1>2, <1>5, WalkedStep, SharedStep
<1>6. CASE Nice(x, V, mine, theirs)
  <2>1. /\ ToSet(x.todo) = {o} \cup ToSet(Tail(x.todo))
        /\ IsInjective(Tail(x.todo)) /\ o \notin ToSet(Tail(x.todo))
    BY <1>1, <1>6, HeadTailSet, TailOnce DEF Nice
  <2>2. o \notin V /\ ToSet(Tail(x.todo)) \cap V = {} /\ y.own = x.own
    BY <1>2, <1>6, <2>1 DEF Nice, SameSides
  <2> HIDE DEF o, y, W
  <2>3. CASE o \notin x.all /\ Passed(x, y)
    <3>1. W = V /\ y.m = x.m /\ y.todo = Tail(x.todo)
      BY <1>4, <2>3 DEF Passed
    <3>2. Nice(y, W, mine, theirs)
      BY <1>6, <2>1, <2>2, <3>1 DEF Nice
    <3> QED BY <3>2 DEF y, W
  <2>4. CASE o \in x.all \cap Groups /\ GroupVisited(x, y, o)
    <3>1. o = Head(x.todo)
      BY DEF o
    <3>2. Nice(y, V \cup {o}, mine, theirs) \/ Shared(y, V \cup {o}, mine, theirs)
      BY <1>6, <2>4, <3>1, NiceGroup
    <3>3. W = V \cup {o}
      BY <1>4, <2>4
    <3> QED BY <3>2, <3>3 DEF y, W
  <2>5. CASE o \in x.all \cap Entries /\ EntryVisited(x, y, o)
    <3>1. /\ W = V \cup {o} /\ W \cap Groups = V \cap Groups /\ y.todo = Tail(x.todo)
          /\ y.m.groups = x.m.groups /\ y.m.entries = x.m.entries
      BY <1>4, <2>5, GroupAssumption DEF EntryVisited, SameLists
    <3>2. \A g \in W \cap Groups : OnceIn(y.m, g) /\ Held(y.m, g) \subseteq Due(mine, theirs, g)
      BY <1>6, <3>1 DEF Nice, OnceIn, Held
    <3>3. IsInjective(y.todo) /\ ToSet(y.todo) \cap W = {}
      BY <2>1, <2>2, <3>1
    <3>4. ASSUME NEW e \in W \cap y.own \cap Entries,
                 Earlier(theirs.rev[e], mine.rev[e]), theirs.rev[e].at \notin Times(mine.hist[e])
          PROVE  theirs.rev[e].at \in Times(y.m.hist[e])
      <4>1. CASE e = o
        <5>1. x.m.rev[o] = mine.rev[o] /\ x.m.hist[o] = mine.hist[o]
          BY <1>1, <2>2, <3>4, <4>1 DEF Stamps, Histories
        <5> QED BY <1>1, <2>5, <3>4, <4>1, <5>1 DEF EntryVisited
      <4>2. CASE e # o
        <5>1. y.m.hist[e] = x.m.hist[e] /\ e \in V \cap x.own \cap Entries
          BY <2>2, <2>5, <3>1, <3>4, <4>2 DEF EntryVisited
        <5> QED BY <1>6, <3>4, <5>1 DEF Nice
      <4> QED BY <4>1, <4>2
    <3>5. Nice(y, W, mine, theirs)
      BY <3>2, <3>3, <3>4 DEF Nice
    <3> QED BY <3>5 DEF y, W
  <2> QED BY <1>3, <2>3, <2>4, <2>5
<1> QED BY <1>5, <1>6

(* What a merge of two copies without duplicates ends with.                 *)
Ends(x, V, mine, theirs) ==
  /\ Walked(x, V, mine, theirs) /\ Homes(x, V, mine, theirs)
  /\ Nice(x, V, mine, theirs) \/ Shared(x, V, mine, theirs)

LEMMA StartEnds ==
  ASSUME NEW mine \in Db, NEW theirs \in Db, Good(mine), Good(theirs)
  PROVE  Ends(Start(mine, theirs), {}, mine, theirs)
<1> DEFINE start == Start(mine, theirs)
<1>1. StartFields(start, mine, theirs)
  BY StartIs
<1>2. Walked(start, {}, mine, theirs) /\ Seen(start, {}) = {Root}
  BY <1>1, WalkedStarts, StartTodo
<1>3. start.todo = <<Root>>
  BY <1>1 DEF StartFields
<1> HIDE DEF start
<1>4. Homes(start, {}, mine, theirs)
  BY <1>2 DEF Homes
<1>5. IsInjective(<<Root>>)
  BY DEF IsInjective
<1>6. Nice(start, {}, mine, theirs)
  BY <1>3, <1>5 DEF Nice
<1> QED BY <1>2, <1>4, <1>6 DEF Ends, start

LEMMA EndsStep ==
  ASSUME NEW mine, Good(mine), Unique(mine), NEW theirs, Good(theirs), Unique(theirs),
         NEW x, NEW V, x.todo # <<>>, Ends(x, V, mine, theirs)
  PROVE  Ends(Visit(x), After(x, V), mine, theirs)
<1>1. Walked(Visit(x), After(x, V), mine, theirs)
  BY WalkedStep DEF Ends
<1>2. Homes(Visit(x), After(x, V), mine, theirs)
  BY HomesStep DEF Ends
<1>3. \/ Nice(Visit(x), After(x, V), mine, theirs)
      \/ Shared(Visit(x), After(x, V), mine, theirs)
  BY NiceStep DEF Ends
<1> QED BY <1>1, <1>2, <1>3 DEF Ends

LEMMA MergeEnds ==
  ASSUME NEW mine, Good(mine), Unique(mine), NEW theirs, Good(theirs), Unique(theirs)
  PROVE  \E V : Ends(Merging(mine, theirs), V, mine, theirs)
<1> DEFINE S == {x \in WalkState : \E V : Ends(x, V, mine, theirs)}
           start == Start(mine, theirs)
<1>1. mine \in Db /\ theirs \in Db
  BY DEF Good
<1>2. start \in S
  <2>1. Ends(start, {}, mine, theirs)
    BY <1>1, StartEnds
  <2>2. start \in WalkState
    BY <1>1, StartIs DEF StartFields
  <2> QED BY <2>1, <2>2
<1>3. ASSUME NEW x \in S, x.todo # <<>> PROVE Visit(x) \in S
  <2>1. PICK V : Ends(x, V, mine, theirs)
    OBVIOUS
  <2>2. Ends(Visit(x), After(x, V), mine, theirs)
    BY <1>3, <2>1, EndsStep
  <2>3. Visit(x) \in WalkState
    BY <2>2 DEF Ends, Walked, Fixed
  <2> QED BY <2>2, <2>3
<1> HIDE DEF S, start
<1>4. Merging(mine, theirs) \in S
  BY <1>1, <1>2, <1>3, WalkKeeps DEF start
<1> QED BY <1>4 DEF S

(* If the result lists an object twice, an object that the other side moved *)
(* was met twice, or is also in a group of this side only.                  *)
LEMMA ResultIs ==
  ASSUME NEW mine, Good(mine), Unique(mine), NEW theirs, Good(theirs), Unique(theirs),
         NEW x, NEW V, Ends(x, V, mine, theirs), x.todo = <<>>
  PROVE  /\ MergedFields(x, V, Merged(x), theirs)
         /\ ~HasDuplicates(Merged(x)) => Nice(x, V, mine, theirs)
<1> DEFINE r == Merged(x)
<1>1. MergedFields(x, V, r, theirs)
  BY MergedIs DEF Ends
<1> HIDE DEF r
<1>2. ASSUME Shared(x, V, mine, theirs) PROVE HasDuplicates(r)
  <2>1. PICK p \in V \cap Groups, q \in V \cap Groups : p # q /\ Held(x.m, p) \cap Held(x.m, q) # {}
    BY <1>2 DEF Shared
  <2>2. Held(r, p) = Held(x.m, p) /\ Held(r, q) = Held(x.m, q) /\ Good(r)
    BY <1>1, <2>1 DEF MergedFields
  <2> QED BY <2>1, <2>2, UniqueIs DEF Unique
<1> QED BY <1>1, <1>2 DEF Ends, r

(* What is in the result, known to both sides and not below a group that    *)
(* the other side does not know, was merged.                                *)
LEMMA MergedSeen ==
  ASSUME NEW mine, Good(mine), NEW theirs, Good(theirs), NEW x, NEW V, NEW r,
         Walked(x, V, mine, theirs), x.todo = <<>>, MergedFields(x, V, r, theirs),
         NEW o \in (Present(r) \cap Present(theirs)) \ Unvisited(r, theirs)
  PROVE  o \in V /\ Seen(x, V) = V
<1>1. Seen(x, V) = V
  BY EmptySet DEF Seen
<1>2. CASE o = Root
  BY <1>1, <1>2 DEF MergedFields
<1>3. CASE o # Root
  <2>1. PICK g \in V \cap Groups : o \in Held(r, g)
    BY <1>3 DEF MergedFields
  <2>2. o \in Held(x.m, g)
    BY <2>1 DEF MergedFields
  <2>3. ListedIn(x, V, theirs, g, o) /\ x.all = Present(theirs)
    BY <2>1, <2>2 DEF Walked, Lists, Fixed
  <2> QED BY <1>1, <2>3 DEF ListedIn
<1> QED BY <1>2, <1>3

(* A version of a history is kept, or later ones fill what is kept.         *)
LEMMA KeepsTime ==
  ASSUME NEW r, NEW h \in Seq(Stamp), NEW e \in Entries, r.max \in Nat,
         r.hist[e] = MaintainHistory(h, r.max), NEW stamp, stamp.at \in Times(h)
  PROVE  Keeps(r, e, stamp)
<1> DEFINE k == r.hist[e]
<1>1. PICK v \in ToSet(h) : v.at = stamp.at
  BY DEF Times
<1>2. /\ k \in Seq(Stamp)
      /\ \/ v \in ToSet(k)
         \/ Len(k) = r.max /\ \A w \in ToSet(k) : v.at <= w.at
  BY MaintainHistoryIs
<1>3. v \in Stamp /\ v.at \in Nat
  <2>1. v \in Stamp
    BY DEF ToSet
  <2> QED BY <2>1, BoundAssumption DEF Stamp, Time
<1> HIDE DEF k
<1>4. ToSet(k) = {k[i] : i \in 1 .. Len(k)}
  BY <1>2 DEF ToSet
<1>5. \A i \in 1 .. Len(k) : k[i].at \in Nat
  <2>1. \A i \in 1 .. Len(k) : k[i] \in Stamp
    BY <1>2
  <2> QED BY <2>1, BoundAssumption DEF Stamp, Time
<1>6. CASE \E i \in 1 .. Len(k) : k[i].at = v.at
  BY <1>1, <1>6 DEF Keeps, k
<1>7. CASE ~(\E i \in 1 .. Len(k) : k[i].at = v.at)
  <2>1. v \notin ToSet(k)
    BY <1>4, <1>7
  <2>2. Len(k) = r.max /\ \A i \in 1 .. r.max : v.at <= k[i].at
    BY <1>2, <1>4, <2>1
  <2>3. \A i \in 1 .. r.max : k[i].at > stamp.at
    BY <1>1, <1>3, <1>5, <1>7, <2>2
  <2> QED BY <2>2, <2>3 DEF Keeps, k
<1> QED BY <1>6, <1>7

LEMMA ResultNewest ==
  ASSUME NEW mine, Good(mine), Unique(mine), NEW theirs, Good(theirs), Unique(theirs),
         NEW x, NEW V, Ends(x, V, mine, theirs), x.todo = <<>>
  PROVE  NewestIn(mine, theirs, Merged(x))
<1> DEFINE r == Merged(x)
<1>1. MergedFields(x, V, r, theirs) /\ (~HasDuplicates(r) => Nice(x, V, mine, theirs))
  BY ResultIs
<1>2. /\ Walked(x, V, mine, theirs) /\ Stamps(x, V, mine, theirs) /\ Histories(x, V, mine, theirs)
      /\ x.own = Present(mine) /\ x.m \in Db /\ mine \in Db /\ theirs \in Db
      /\ Present(mine) \in SUBSET Objects
  BY WalkTypes, PresentIs DEF Ends, Walked, Fixed, Good
<1> HIDE DEF r
<1>3. ASSUME NEW o \in (Present(r) \cap Present(mine) \cap Present(theirs)) \ Unvisited(r, theirs)
      PROVE  /\ o \in V \cap x.own /\ o \in Objects
             /\ r.rev[o] = Newest(mine, theirs, o)
             /\ mine.rev[o].at \in Nat /\ theirs.rev[o].at \in Nat
  <2>1. o \in V
    BY <1>1, <1>2, MergedSeen
  <2>2. x.m.rev[o] = Newest(mine, theirs, o)
    BY <1>2, <2>1 DEF Stamps
  <2>3. mine.rev[o] \in Stamp /\ theirs.rev[o] \in Stamp
    BY <1>2, DbTypes
  <2> QED BY <1>1, <1>2, <2>1, <2>2, <2>3, BoundAssumption DEF MergedFields, Stamp, Time
<1>4. ASSUME NEW e \in (Present(r) \cap Present(mine) \cap Present(theirs)) \ Unvisited(r, theirs),
             e \in Entries
      PROVE  /\ \A stamp \in ToSet(theirs.hist[e]) : Keeps(r, e, stamp)
             /\ theirs.rev[e].at \notin {stamp.at : stamp \in ToSet(mine.hist[e])} =>
                    Keeps(r, e, mine.rev[e]) /\ (HasDuplicates(r) \/ Keeps(r, e, theirs.rev[e]))
  <2>1. /\ e \in V \cap x.own /\ r.rev[e] = Newest(mine, theirs, e)
        /\ mine.rev[e].at \in Nat /\ theirs.rev[e].at \in Nat
    BY <1>3
  <2>2. /\ x.m.hist[e] \in Seq(Stamp) /\ r.max \in Nat
        /\ r.hist[e] = MaintainHistory(x.m.hist[e], r.max)
    BY <1>1, <1>2, <1>4, DbTypes DEF MergedFields
  <2>3. ASSUME NEW stamp, stamp.at \in Times(x.m.hist[e]) PROVE Keeps(r, e, stamp)
    BY <1>4, <2>2, <2>3, KeepsTime
  <2>4. \A stamp \in ToSet(theirs.hist[e]) : Keeps(r, e, stamp)
    <3>1. Times(theirs.hist[e]) \subseteq Times(x.m.hist[e])
      BY <1>2, <1>4, <2>1 DEF Histories
    <3> QED BY <2>3, <3>1 DEF Times
  <2>5. Keeps(r, e, mine.rev[e])
    <3>1. CASE Earlier(mine.rev[e], theirs.rev[e])
      BY <1>2, <1>4, <2>1, <2>3, <3>1 DEF Histories
    <3>2. CASE ~Earlier(mine.rev[e], theirs.rev[e])
      BY <2>1, <3>2 DEF Newest, Keeps
    <3> QED BY <3>1, <3>2
  <2>6. ASSUME theirs.rev[e].at \notin {stamp.at : stamp \in ToSet(mine.hist[e])}, ~HasDuplicates(r)
        PROVE  Keeps(r, e, theirs.rev[e])
    <3>1. theirs.rev[e].at \notin Times(mine.hist[e])
      BY <2>6 DEF Times
    <3>2. CASE Earlier(theirs.rev[e], mine.rev[e])
      BY <1>1, <1>4, <2>1, <2>3, <2>6, <3>1, <3>2 DEF Nice
    <3>3. CASE ~Earlier(theirs.rev[e], mine.rev[e])
      <4>1. r.rev[e].at = theirs.rev[e].at
        BY <2>1, <3>3 DEF Newest, Earlier
      <4> QED BY <4>1 DEF Keeps
    <3> QED BY <3>2, <3>3
  <2> QED BY <2>4, <2>5, <2>6
<1>5. NewestIn(mine, theirs, r)
  BY <1>3, <1>4 DEF NewestIn, Newest
<1> QED BY <1>5 DEF r

LEMMA ResultLater ==
  ASSUME NEW mine, Good(mine), Unique(mine), NEW theirs, Good(theirs), Unique(theirs),
         NEW x, NEW V, Ends(x, V, mine, theirs), x.todo = <<>>
  PROVE  LaterMoveIn(mine, theirs, Merged(x))
<1> DEFINE r == Merged(x)
<1>1. MergedFields(x, V, r, theirs) /\ Good(r)
  BY ResultIs DEF MergedFields
<1>2. /\ Walked(x, V, mine, theirs) /\ Homes(x, V, mine, theirs)
      /\ x.own = Present(mine) /\ x.all = Present(theirs)
  BY DEF Ends, Walked, Fixed
<1> HIDE DEF r
<1>3. ASSUME ~HasDuplicates(r),
             NEW o \in (Present(r) \cap Present(mine) \cap Present(theirs)) \ Unvisited(r, theirs)
      PROVE  Parents(r, o) = Parents(IF theirs.loc[o] > mine.loc[o] THEN theirs ELSE mine, o)
  <2> DEFINE later == IF theirs.loc[o] > mine.loc[o] THEN theirs ELSE mine
  <2>1. Good(later) /\ Unique(later) /\ Unique(r)
    BY <1>1, <1>3, UniqueIs
  <2>2. CASE o = Root
    BY <1>1, <2>1, <2>2 DEF Parents, Good
  <2>3. CASE o # Root
    <3>1. o \in V /\ Seen(x, V) = V
      BY <1>1, <1>2, <1>3, MergedSeen
    <3>2. PICK p \in V \cap Groups : o \in Held(x.m, p) \cap Held(later, p)
      BY <1>2, <2>3, <3>1 DEF Homes
    <3> HIDE DEF later
    <3>3. o \in Held(r, p)
      BY <1>1, <3>2 DEF MergedFields
    <3>4. \A m : Unique(m) /\ o \in Held(m, p) => Parents(m, o) = {p}
      BY <3>2 DEF Unique, Parents
    <3>5. Parents(r, o) = {p}
      BY <2>1, <3>3, <3>4
    <3>6. Parents(later, o) = {p}
      BY <2>1, <3>2, <3>4
    <3>7. Parents(r, o) = Parents(later, o)
      BY <3>5, <3>6
    <3> QED BY <3>7 DEF later
  <2> QED BY <2>2, <2>3
<1>4. LaterMoveIn(mine, theirs, r)
  BY <1>3 DEF LaterMoveIn
<1> QED BY <1>4 DEF r

(* What a group of the result holds.                                        *)
LEMMA ResultHolds ==
  ASSUME NEW mine, Good(mine), Unique(mine), NEW theirs, Good(theirs), Unique(theirs),
         NEW x, NEW V, Ends(x, V, mine, theirs), x.todo = <<>>
  PROVE  /\ \A g \in V \cap Groups :
               /\ Held(Merged(x), g) = Held(x.m, g) /\ Due(mine, theirs, g) \subseteq Held(x.m, g)
               /\ Held(x.m, g) \cap Present(theirs) \subseteq V
         /\ \A g \in Groups \ V :
               \/ Held(Merged(x), g) = {} /\ g \notin Present(Merged(x))
               \/ Held(Merged(x), g) = Held(mine, g)
         /\ Nice(x, V, mine, theirs) =>
               \A g \in V \cap Groups : Held(Merged(x), g) = Due(mine, theirs, g)
<1> DEFINE r == Merged(x)
<1>1. /\ MergedFields(x, V, r, theirs) /\ Good(r)
      /\ Lists(x, V, mine, theirs) /\ Homes(x, V, mine, theirs) /\ x.all = Present(theirs)
  BY ResultIs DEF MergedFields, Ends, Walked, Fixed
<1>2. Seen(x, V) = V
  BY EmptySet DEF Seen
<1> HIDE DEF r
<1>3. ASSUME NEW g \in V \cap Groups
      PROVE  /\ Held(r, g) = Held(x.m, g) /\ Due(mine, theirs, g) \subseteq Held(x.m, g)
             /\ Held(x.m, g) \cap Present(theirs) \subseteq V
  <2>1. Held(r, g) = Held(x.m, g) /\ Due(mine, theirs, g) \subseteq Held(x.m, g)
    BY <1>1 DEF MergedFields, Homes
  <2>2. Held(x.m, g) \cap Present(theirs) \subseteq V
    BY <1>1, <1>2 DEF Lists, ListedIn
  <2> QED BY <2>1, <2>2
<1>4. ASSUME NEW g \in Groups \ V
      PROVE  \/ Held(r, g) = {} /\ g \notin Present(r)
             \/ Held(r, g) = Held(mine, g)
  <2>1. Held(x.m, g) = Held(mine, g)
    BY <1>1 DEF Lists, Held
  <2> QED BY <1>1, <2>1 DEF MergedFields, Good
<1>5. ASSUME Nice(x, V, mine, theirs), NEW g \in V \cap Groups
      PROVE  Held(r, g) = Due(mine, theirs, g)
  BY <1>3, <1>5 DEF Nice
<1> QED BY <1>3, <1>4, <1>5 DEF r

LEMMA ResultDuplicates ==
  ASSUME NEW mine, Good(mine), Unique(mine), NEW theirs, Good(theirs), Unique(theirs),
         NEW x, NEW V, Ends(x, V, mine, theirs), x.todo = <<>>
  PROVE  DuplicatesIn(mine, theirs, Merged(x))
<1> DEFINE r == Merged(x)
           own == Groups \ Present(theirs)
           far == Reached(mine, own)
<1>1. /\ MergedFields(x, V, r, theirs) /\ Good(r) /\ r \in Db /\ mine \in Db /\ theirs \in Db
      /\ x.own = Present(mine) /\ x.all = Present(theirs) /\ Root \in V /\ V \in SUBSET x.all
  <2>1. MergedFields(x, V, r, theirs)
    BY ResultIs
  <2> HIDE DEF r
  <2>2. Good(r) /\ Root \in V /\ V \in SUBSET x.all
    BY <2>1 DEF MergedFields
  <2>3. r \in Db /\ mine \in Db /\ theirs \in Db
    BY <2>2 DEF Good
  <2>4. x.own = Present(mine) /\ x.all = Present(theirs)
    BY DEF Ends, Walked, Fixed
  <2> QED BY <2>1, <2>2, <2>3, <2>4
<1>2. /\ \A g \in V \cap Groups :
            Held(r, g) = Held(x.m, g) /\ Held(r, g) \cap Present(theirs) \subseteq V
      /\ \A g \in Groups \ V : Held(r, g) = {} \/ Held(r, g) = Held(mine, g)
  BY ResultHolds
<1>3. SUFFICES ASSUME ~Unique(r), Nice(x, V, mine, theirs)
      PROVE  \E o \in Present(mine) \cap Present(theirs) :
                theirs.loc[o] > mine.loc[o] /\ o \in Unvisited(mine, theirs)
  <2>1. CASE Shared(x, V, mine, theirs)
    BY <1>1, <2>1 DEF DuplicatesIn, Shared
  <2>2. CASE Nice(x, V, mine, theirs)
    BY <1>1, <1>3, <2>2, UniqueIs DEF DuplicatesIn
  <2> QED BY <2>1, <2>2 DEF Ends
<1>4. \A g \in V \cap Groups : Held(r, g) = Due(mine, theirs, g)
  BY <1>3, ResultHolds
<1>5. \A g \in Groups : OnceIn(r, g)
  <2> SUFFICES ASSUME NEW g \in Groups PROVE OnceIn(r, g)
    OBVIOUS
  <2>1. CASE g \in V
    <3>1. OnceIn(x.m, g) /\ r.groups[g] = x.m.groups[g] /\ r.entries[g] = x.m.entries[g]
      BY <1>1, <1>3, <2>1 DEF Nice, MergedFields
    <3> QED BY <3>1 DEF OnceIn
  <2>2. CASE g \notin V /\ g \in Present(r)
    <3>1. r.groups[g] = mine.groups[g] /\ r.entries[g] = mine.entries[g]
      BY <1>1, <2>2 DEF MergedFields, Lists, Ends, Walked
    <3> QED BY <3>1 DEF Unique, OnceIn
  <2>3. CASE g \notin Present(r)
    <3>1. Held(r, g) = {} /\ r.groups[g] \in Seq(Groups) /\ r.entries[g] \in Seq(Entries)
      BY <1>1, <2>3, HeldIs DEF Good
    <3>2. ToSet(r.groups[g]) = {} /\ ToSet(r.entries[g]) = {}
      BY <3>1 DEF Held
    <3>3. ASSUME NEW T, NEW s \in Seq(T), ToSet(s) = {} PROVE IsInjective(s)
      BY <3>3 DEF ToSet, IsInjective
    <3> QED BY <3>1, <3>2, <3>3 DEF OnceIn
  <2> QED BY <2>1, <2>2, <2>3
<1>6. PICK p \in Groups, q \in Groups : p # q /\ Held(r, p) \cap Held(r, q) # {}
  BY <1>3, <1>5 DEF Unique
<1>7. ~(p \in V /\ q \in V)
  BY <1>4, <1>6, DueOnce
<1>8. ~(p \notin V /\ q \notin V)
  BY <1>2, <1>6 DEF Unique
<1>9. PICK g \in V \cap Groups, h \in Groups \ V : Held(r, g) \cap Held(r, h) # {}
  BY <1>6, <1>7, <1>8
<1>10. PICK o \in Held(r, g) \cap Held(r, h) : TRUE
  BY <1>9
<1>11. h \in Present(r) /\ Held(r, h) = Held(mine, h) /\ g # h
  BY <1>1, <1>2, <1>9, <1>10 DEF Good
<1>12. o \in Present(mine)
  BY <1>10, <1>11, GoodIs
<1>13. o \in Present(theirs) /\ theirs.loc[o] > mine.loc[o]
  <2>1. o \in Belongs(mine, theirs, g) /\ o \notin Held(mine, g)
    BY <1>4, <1>9, <1>10, <1>11 DEF Due, Unique
  <2>2. o \in Held(theirs, g) /\ (o \in Present(mine) => theirs.loc[o] > mine.loc[o])
    BY <2>1 DEF Belongs
  <2> QED BY <1>12, <2>2, GoodIs
<1>14. /\ far \in SUBSET Groups /\ own \subseteq far
       /\ \A k \in far : Held(mine, k) \cap Groups \subseteq far
  <2>1. own \in SUBSET Groups
    OBVIOUS
  <2> HIDE DEF own
  <2> QED BY <1>1, <2>1, ReachedIs DEF ClosedIn
<1>15. \A k : k \in Unvisited(mine, theirs) <=> \E f \in far : k \in Held(mine, f)
  <2>1. own \in SUBSET Objects /\ own \cap Groups = own
    BY DEF Objects
  <2>2. \A k : k \in Below(mine, own) <=> \E f \in Reached(mine, own \cap Groups) : k \in Held(mine, f)
    <3> HIDE DEF own
    <3> QED BY <1>1, <2>1, BelowIs
  <2> QED BY <2>1, <2>2 DEF Unvisited
<1>16. h \in far
  <2> DEFINE T == (V \cap Groups) \cup far
  <2>1. T \in SUBSET Groups /\ {Root} \subseteq T /\ {Root} \in SUBSET Groups
    BY <1>1, <1>14, GroupAssumption
  <2>2. ASSUME NEW k \in T PROVE Held(r, k) \cap Groups \subseteq T
    <3>1. CASE k \in V
      BY <1>2, <1>14, <2>1, <3>1
    <3>2. CASE k \notin V
      BY <1>2, <1>14, <2>1, <3>2
    <3> QED BY <3>1, <3>2
  <2> HIDE DEF T, far
  <2>3. Reached(r, {Root}) \subseteq T
    BY <1>1, <2>1, <2>2, ReachedIs DEF ClosedIn
  <2>4. h \in Reached(r, {Root})
    BY <1>1, <1>9, <1>11, PresentIs
  <2> QED BY <1>9, <2>3, <2>4 DEF T
<1>17. o \in Unvisited(mine, theirs)
  BY <1>10, <1>11, <1>15, <1>16
<1> QED BY <1>12, <1>13, <1>17

LEMMA ResultTree ==
  ASSUME NEW mine, Good(mine), Unique(mine), NEW theirs, Good(theirs), Unique(theirs),
         NEW x, NEW V, Ends(x, V, mine, theirs), x.todo = <<>>
  PROVE  TreeIn(mine, theirs, Merged(x))
<1> DEFINE r == Merged(x)
           all == Present(theirs)
           due == [g \in Groups |-> IF g \in all THEN Due(mine, theirs, g) ELSE {}]
           next == [g \in Groups |-> due[g] \cap Groups]
           common == Closure(next, {Root}) \cap all
           tree == [g \in Groups |-> IF g \in common THEN due[g] ELSE Held(mine, g)]
           below == [g \in Groups |-> tree[g] \cap Groups]
           here == Closure(below, {Root})
<1>1. /\ MergedFields(x, V, r, theirs) /\ Good(r) /\ r \in Db /\ mine \in Db
      /\ x.all = all /\ Root \in V /\ V \in SUBSET all /\ Met(x, V)
      /\ ~HasDuplicates(r) => Nice(x, V, mine, theirs)
  <2>1. MergedFields(x, V, r, theirs) /\ (~HasDuplicates(r) => Nice(x, V, mine, theirs))
    BY ResultIs
  <2>2. x.all = all /\ Met(x, V)
    BY DEF Ends, Walked, Fixed
  <2> HIDE DEF r, all
  <2>3. Good(r) /\ Root \in V /\ V \in SUBSET all
    BY <2>1, <2>2 DEF MergedFields
  <2>4. r \in Db /\ mine \in Db
    BY <2>3 DEF Good
  <2> QED BY <2>1, <2>2, <2>3, <2>4
<1>2. Ideal(mine, theirs) = [common |-> common, tree |-> tree]
  BY DEF Ideal, Due
<1>3. /\ \A g \in V \cap Groups : /\ Held(r, g) = Held(x.m, g)
                                  /\ Due(mine, theirs, g) \subseteq Held(x.m, g)
                                  /\ Held(x.m, g) \cap all \subseteq V
      /\ \A g \in Groups \ V : \/ Held(r, g) = {} /\ g \notin Present(r)
                               \/ Held(r, g) = Held(mine, g)
      /\ Nice(x, V, mine, theirs) => \A g \in V \cap Groups : Held(r, g) = Due(mine, theirs, g)
  BY ResultHolds
<1>4. Present(r) \cap Groups = Reached(r, {Root}) /\ V \subseteq Present(r)
  BY <1>1, PresentIs DEF MergedFields
<1>5. Seen(x, V) = V
  BY EmptySet DEF Seen
<1>6. \A g \in Groups : due[g] = IF g \in all THEN Due(mine, theirs, g) ELSE {}
  OBVIOUS
<1>7. /\ next \in [Groups -> SUBSET Groups] /\ below \in [Groups -> SUBSET Groups]
      /\ \A g \in Groups : next[g] = due[g] \cap Groups
      /\ \A g \in Groups : below[g] = tree[g] \cap Groups
      /\ \A g \in Groups : tree[g] = IF g \in common THEN due[g] ELSE Held(mine, g)
      /\ {Root} \in SUBSET Groups
  <2> HIDE DEF common, due
  <2> QED BY GroupAssumption
<1> HIDE DEF r, all, due, next, below
<1>8. /\ Closure(next, {Root}) \in SUBSET Groups /\ Root \in Closure(next, {Root})
      /\ \A g \in Closure(next, {Root}) : next[g] \subseteq Closure(next, {Root})
      /\ \A T \in SUBSET Groups : {Root} \subseteq T /\ Closed(next, T) => Closure(next, {Root}) \subseteq T
  BY <1>7, ClosureIs DEF Closed
<1>9. /\ here \in SUBSET Groups /\ Root \in here
      /\ \A g \in here : below[g] \subseteq here
      /\ \A T \in SUBSET Groups : {Root} \subseteq T /\ Closed(below, T) => here \subseteq T
  BY <1>7, ClosureIs DEF Closed
<1>10. common \subseteq V \cap Groups
  <2> DEFINE T == (V \cap Groups) \cup (Groups \ all)
  <2>1. T \in SUBSET Groups /\ {Root} \subseteq T
    BY <1>1, GroupAssumption
  <2>2. ASSUME NEW g \in T PROVE next[g] \subseteq T
    <3>1. g \in Groups /\ next[g] = due[g] \cap Groups
      BY <1>7, <2>1
    <3>2. CASE g \in V
      BY <1>1, <1>3, <1>6, <3>1, <3>2
    <3>3. CASE g \notin V
      BY <1>6, <3>1, <3>3
    <3> QED BY <3>2, <3>3
  <2>3. Closure(next, {Root}) \subseteq T
    <3> HIDE DEF T
    <3> QED BY <1>8, <2>1, <2>2 DEF Closed
  <2> QED BY <2>3
<1>11. ASSUME NEW g \in common
       PROVE  tree[g] \subseteq Held(r, g) /\ g \in Reached(r, {Root})
  <2>1. g \in V \cap Groups /\ g \in all
    BY <1>10
  <2> QED BY <1>3, <1>4, <1>6, <1>7, <2>1
<1>12. ASSUME ~HasDuplicates(r)
       PROVE  Reached(r, {Root}) = here /\ \A g \in here : Held(r, g) = tree[g]
  <2>1. \A g \in V \cap Groups : Held(r, g) = due[g] /\ Held(x.m, g) = due[g]
    BY <1>1, <1>3, <1>6, <1>12
  <2>2. V \cap Groups \subseteq common
    <3> DEFINE T == Closure(next, {Root})
    <3>1. \A p \in V \cap T : Held(x.m, p) \cap Groups \subseteq T
      BY <1>7, <1>8, <2>1
    <3>2. V \cap Groups \subseteq T
      BY <1>1, <1>5, <1>8, <3>1 DEF Met
    <3> QED BY <1>1, <3>2
  <2>3. ASSUME NEW g \in Reached(r, {Root}) PROVE g \in Groups /\ Held(r, g) = tree[g]
    <3>1. g \in Groups /\ g \in Present(r)
      BY <1>4
    <3>2. CASE g \in V
      BY <1>7, <2>1, <2>2, <3>1, <3>2
    <3>3. CASE g \notin V
      BY <1>3, <1>7, <1>10, <3>1, <3>3
    <3> QED BY <3>1, <3>2, <3>3
  <2> HIDE DEF here, tree
  <2>4. /\ Reached(r, {Root}) \in SUBSET Groups /\ Root \in Reached(r, {Root})
        /\ \A g \in Reached(r, {Root}) : Held(r, g) \cap Groups \subseteq Reached(r, {Root})
        /\ \A T \in SUBSET Groups : {Root} \subseteq T /\ ClosedIn(r, T) => Reached(r, {Root}) \subseteq T
    BY <1>1, <1>7, ReachedIs DEF ClosedIn
  <2>5. here \subseteq Reached(r, {Root})
    <3>1. Closed(below, Reached(r, {Root}))
      BY <1>7, <2>3, <2>4 DEF Closed
    <3> QED BY <1>9, <2>4, <3>1
  <2>6. Reached(r, {Root}) \subseteq here
    <3>1. ClosedIn(r, here)
      BY <1>7, <1>9, <2>3, <2>5 DEF ClosedIn
    <3> QED BY <1>9, <2>4, <3>1
  <2> QED BY <2>3, <2>5, <2>6
<1>13. TreeIn(mine, theirs, r)
  <2> DEFINE ideal == Ideal(mine, theirs)
  <2>1. ideal.common = common /\ ideal.tree = tree
    BY <1>2
  <2>2. Closure([g \in Groups |-> ideal.tree[g] \cap Groups], {Root}) = here
    BY <2>1 DEF below
  <2> HIDE DEF ideal, common, tree, here
  <2>3. TreeIn(mine, theirs, r) <=>
           /\ \A g \in common : tree[g] \subseteq Held(r, g) /\ g \in Reached(r, {Root})
           /\ ~HasDuplicates(r) => /\ Reached(r, {Root}) = here
                                   /\ \A g \in here : Held(r, g) = tree[g]
    BY <2>1, <2>2 DEF TreeIn, ideal
  <2> QED BY <1>11, <1>12, <2>3
<1> QED BY <1>13 DEF r

(* What was just stored is the result of a merge of two good copies without *)
(* duplicates.                                                              *)
LEMMA LastMerge ==
  ASSUME IInv, last # None
  PROVE  /\ Good(last.mine) /\ Unique(last.mine) /\ Good(last.theirs) /\ Unique(last.theirs)
         /\ \E x, V : Ends(x, V, last.mine, last.theirs) /\ x.todo = <<>> /\ stored = Merged(x)
<1>1. /\ Good(last.mine) /\ Good(last.theirs) /\ MayMerge(last.mine, last.theirs)
      /\ Merging(last.mine, last.theirs).todo = <<>>
      /\ stored = Merged(Merging(last.mine, last.theirs))
  BY DEF IInv, MergeMade
<1>2. Unique(last.mine) /\ Unique(last.theirs)
  BY <1>1, UniqueIs DEF MayMerge
<1> QED BY <1>1, <1>2, MergeEnds

(* Of what both sides of a merge have, the later revision becomes the       *)
(* current one; no revision in the history of the stored file is lost, and  *)
(* when both sides edited an entry, neither edit is.                        *)
THEOREM NewestAlwaysWins == Spec => []NewestWins
<1>1. IInv => NewestWins
  BY LastMerge, ResultNewest DEF NewestWins
<1> QED BY <1>1, AlwaysGood, PTL

(* An object that both sides have ends where the later of them put it.      *)
THEOREM LaterMoveAlwaysWins == Spec => []LaterMoveWins
<1>1. IInv => LaterMoveWins
  BY LastMerge, ResultLater DEF LaterMoveWins
<1> QED BY <1>1, AlwaysGood, PTL

(* An object is listed twice after a merge only if the other side moved it, *)
(* and edited it too, or this side put it into a group of its own.          *)
THEOREM DuplicatesAlwaysExplained == Spec => []DuplicatesExplained
<1>1. IInv => DuplicatesExplained
  BY LastMerge, ResultDuplicates DEF DuplicatesExplained
<1> QED BY <1>1, AlwaysGood, PTL

(* A merge leaves the tree that is due: nothing is lost, nothing misplaced. *)
THEOREM NothingIsLost == Spec => []NothingLost
<1>1. IInv => NothingLost
  BY LastMerge, ResultTree DEF NothingLost
<1> QED BY <1>1, AlwaysGood, PTL
-----------------------------------------------------------------------------
(* Merges that end.                                                         *)

(* W are the objects visited so far, those that the other side does not     *)
(* know included: none of them is to be visited again.                      *)
Visited(x, V, W) ==
  /\ W \subseteq Objects /\ W \cap ToSet(x.todo) = {}
  /\ \A o \in W \ {Root} : \E p \in V \cap Groups : o \in Held(x.m, p)

LEMMA VisitedStep ==
  ASSUME NEW mine, Good(mine), Unique(mine), NEW theirs, Good(theirs), Unique(theirs),
         NEW x, NEW V, Walked(x, V, mine, theirs), Nice(x, V, mine, theirs), x.todo # <<>>,
         Nice(Visit(x), After(x, V), mine, theirs), NEW W, Visited(x, V, W)
  PROVE  Head(x.todo) \notin W /\ Visited(Visit(x), After(x, V), W \cup {Head(x.todo)})
<1> DEFINE o == Head(x.todo)
           y == Visit(x)
           U == After(x, V)
<1>1. /\ x \in WalkState /\ x.todo \in Seq(Objects) /\ V \in SUBSET x.all /\ Met(x, V)
  BY WalkTypes DEF Walked, Fixed, Lists
<1>2. /\ y \in WalkState /\ o \in Seen(x, V) /\ o \in Objects /\ V \subseteq U
      /\ (o \in x.all => o \in U) /\ Walked(y, U, mine, theirs) /\ Gains(x, y, V)
      /\ \/ o \notin x.all /\ Passed(x, y)
         \/ o \in x.all \cap Groups /\ GroupVisited(x, y, o)
         \/ o \in x.all \cap Entries /\ EntryVisited(x, y, o)
  BY <1>1, SeenStep, VisitIs, WalkedStep DEF After
<1>3. /\ ToSet(x.todo) = {o} \cup ToSet(Tail(x.todo)) /\ o \notin ToSet(Tail(x.todo))
  BY <1>1, HeadTailSet, TailOnce DEF Nice
<1> HIDE DEF o, y, U
<1>4. o \notin W /\ o \notin V
  BY <1>3 DEF Visited, Nice
<1>5. ASSUME NEW q \in (W \cup {o}) \ {Root} PROVE \E p \in V \cap Groups : q \in Held(y.m, p)
  <2>1. \E p \in V \cap Groups : q \in Held(x.m, p)
    BY <1>1, <1>2, <1>5 DEF Visited, Met
  <2> QED BY <1>2, <2>1 DEF Gains
<1>6. (W \cup {o}) \cap ToSet(y.todo) = {}
  <2>1. CASE y.todo = Tail(x.todo)
    BY <1>3, <2>1 DEF Visited
  <2>2. CASE o \in x.all \cap Groups /\ GroupVisited(x, y, o)
    <3>1. ToSet(y.todo) = Held(y.m, o) \cup ToSet(Tail(x.todo))
      BY <1>1, <1>2, <2>2, TodoIs DEF o
    <3>2. o \notin ToSet(y.todo)
      BY <1>2, <2>2 DEF Nice, y, U
    <3>3. ASSUME NEW q \in W, q \in Held(y.m, o) PROVE FALSE
      <4>1. q # Root
        BY <1>2, <2>2, <3>3 DEF Walked, Lists, ListedIn
      <4>2. PICK p \in V \cap Groups : q \in Held(y.m, p)
        BY <1>5, <4>1
      <4>3. p # o /\ q \in Due(mine, theirs, p) /\ q \in Due(mine, theirs, o)
        BY <1>2, <1>4, <2>2, <3>3, <4>2 DEF Nice, y, U
      <4> QED BY <2>2, <4>2, <4>3, DueOnce
    <3> QED BY <1>3, <3>1, <3>2, <3>3 DEF Visited
  <2> QED BY <1>2, <2>1, <2>2 DEF Passed, EntryVisited
<1>7. W \cup {o} \subseteq Objects /\ \A q \in (W \cup {o}) \ {Root} : \E p \in U \cap Groups : q \in Held(y.m, p)
  BY <1>2, <1>5 DEF Visited
<1> QED BY <1>4, <1>6, <1>7 DEF Visited, o, y, U

(* The other side moved an object that both have later, and edited it later *)
(* too: the time of the move is copied with the revision.                   *)
MovedAndEdited(mine, theirs) ==
  \E o \in Present(mine) \cap Present(theirs) :
     theirs.loc[o] > mine.loc[o] /\ Earlier(mine.rev[o], theirs.rev[o])

(* Then nothing is ever met twice.                                          *)
LEMMA EndsNice ==
  ASSUME NEW mine, NEW theirs, NEW x, NEW V, Ends(x, V, mine, theirs), ~MovedAndEdited(mine, theirs)
  PROVE  Nice(x, V, mine, theirs) /\ Walked(x, V, mine, theirs)
BY DEF Ends, Shared, MovedAndEdited, Walked, Fixed

(* Without such an object each round visits an object that no round before  *)
(* has visited.                                                             *)
LEMMA EveryRoundIsNew ==
  ASSUME NEW mine, Good(mine), Unique(mine), NEW theirs, Good(theirs), Unique(theirs),
         ~MovedAndEdited(mine, theirs), IsFiniteSet(Objects), Cardinality(Objects) <= MaxVisits
  PROVE  Merging(mine, theirs).todo = <<>>
<1> DEFINE Walk(x, V, W) == Ends(x, V, mine, theirs) /\ Visited(x, V, W) /\ IsFiniteSet(W)
<1>1. mine \in Db /\ theirs \in Db /\ MaxVisits \in Nat
  BY BoundAssumption DEF Good
<1>2. PICK f : WalkStates(f, mine, theirs)
  BY <1>1, WalkLoop
<1>3. /\ f \in [0 .. MaxVisits -> WalkState]
      /\ Merging(mine, theirs) = f[MaxVisits]
      /\ f[0] = Start(mine, theirs)
      /\ \A n \in 1 .. MaxVisits : f[n] = IF f[n - 1].todo = <<>> THEN f[n - 1] ELSE Visit(f[n - 1])
  BY <1>2 DEF WalkStates
<1> DEFINE Done(n) == \E V, W : Walk(f[n], V, W) /\ (f[n].todo # <<>> => Cardinality(W) = n)
           G == {n \in 0 .. MaxVisits : Done(n)}
<1>4. Done(0)
  <2>1. Ends(f[0], {}, mine, theirs)
    BY <1>1, <1>3, StartEnds
  <2>2. Visited(f[0], {}, {}) /\ IsFiniteSet({}) /\ Cardinality({}) = 0
    BY FS_EmptySet DEF Visited
  <2> QED BY <2>1, <2>2
<1>5. ASSUME NEW n \in 0 .. MaxVisits, Done(n), n < MaxVisits PROVE Done(n + 1)
  <2>1. PICK V, W : Walk(f[n], V, W) /\ (f[n].todo # <<>> => Cardinality(W) = n)
    BY <1>5
  <2>2. /\ n + 1 \in 1 .. MaxVisits /\ (n + 1) - 1 = n
    BY <1>1, <1>5
  <2> DEFINE x == f[n]
             y == f[n + 1]
  <2>3. y = IF x.todo = <<>> THEN x ELSE Visit(x)
    BY <1>3, <2>2
  <2> HIDE DEF x, y
  <2>4. CASE x.todo = <<>>
    BY <2>1, <2>3, <2>4 DEF x, y
  <2>5. CASE x.todo # <<>>
    <3>1. Ends(x, V, mine, theirs) /\ Visited(x, V, W) /\ IsFiniteSet(W) /\ Cardinality(W) = n
      BY <2>1, <2>5 DEF x
    <3>2. Ends(y, After(x, V), mine, theirs)
      BY <2>3, <2>5, <3>1, EndsStep
    <3>3. Nice(x, V, mine, theirs) /\ Nice(y, After(x, V), mine, theirs) /\ Walked(x, V, mine, theirs)
      BY <3>1, <3>2, EndsNice
    <3>4. Head(x.todo) \notin W /\ Visited(y, After(x, V), W \cup {Head(x.todo)})
      BY <2>3, <2>5, <3>1, <3>3, VisitedStep
    <3>5. IsFiniteSet(W \cup {Head(x.todo)}) /\ Cardinality(W \cup {Head(x.todo)}) = n + 1
      BY <3>1, <3>4, FS_AddElement
    <3> QED BY <3>2, <3>4, <3>5 DEF y
  <2> QED BY <2>4, <2>5
<1> HIDE DEF Done
<1>6. 0 \in G /\ \A n \in 0 .. MaxVisits : n \in G /\ n < MaxVisits => n + 1 \in G
  BY <1>1, <1>4, <1>5
<1>7. MaxVisits \in G
  <2> HIDE DEF G
  <2>1. \A n \in 0 .. MaxVisits : n \in G
    BY <1>1, <1>6, UpTo
  <2> QED BY <1>1, <2>1
<1> DEFINE z == Merging(mine, theirs)
<1>8. PICK V, W : Walk(z, V, W) /\ (z.todo # <<>> => Cardinality(W) = MaxVisits)
  BY <1>3, <1>7 DEF Done
<1>9. z \in WalkState /\ z.todo \in Seq(Objects)
  BY <1>8, WalkTypes DEF Ends, Walked, Fixed
<1> HIDE DEF z
<1>10. SUFFICES ASSUME z.todo # <<>> PROVE FALSE
  BY DEF z
<1>11. W \in SUBSET Objects /\ W \cap ToSet(z.todo) = {} /\ Cardinality(W) = MaxVisits
  BY <1>8, <1>10 DEF Visited
<1>12. W = Objects
  <2>1. Cardinality(W) <= Cardinality(Objects) /\ Cardinality(Objects) \in Nat
    BY <1>11, FS_Subset, FS_CardinalityType
  <2>2. Cardinality(Objects) = Cardinality(W)
    BY <1>1, <1>11, <2>1
  <2> QED BY <1>11, <2>2, FS_Subset
<1>13. Head(z.todo) \in Objects /\ Head(z.todo) \in ToSet(z.todo)
  BY <1>9, <1>10, HeadTailSet
<1> QED BY <1>11, <1>12, <1>13

(* A merge ends: if the other side has not both                              *)
(* moved and edited an object of this side, the recursion of                *)
(* KdbxGroup.merge() meets every object at most once, so that a walk of as  *)
(* many rounds as there are objects is a whole one.                         *)
THEOREM MergesEnd ==
  ASSUME IsFiniteSet(Entries), Cardinality(Objects) <= MaxVisits
  PROVE  Spec => [](\A d \in Device :
                       MayMerge(db[d], stored) /\ ~MovedAndEdited(db[d], stored)
                          => Merging(db[d], stored).todo = <<>>)
<1>1. IInv => \A d \in Device : MayMerge(db[d], stored) /\ ~MovedAndEdited(db[d], stored)
                                  => Merging(db[d], stored).todo = <<>>
  <2> SUFFICES ASSUME IInv, NEW d \in Device, MayMerge(db[d], stored), ~MovedAndEdited(db[d], stored)
               PROVE  Merging(db[d], stored).todo = <<>>
    OBVIOUS
  <2>1. Good(db[d]) /\ Good(stored)
    BY DEF IInv, Copies
  <2>2. Unique(db[d]) /\ Unique(stored)
    BY <2>1, UniqueIs DEF MayMerge
  <2>3. IsFiniteSet(Objects)
    BY GroupAssumption, FS_Union DEF Objects
  <2> QED BY <2>1, <2>2, <2>3, EveryRoundIsNew
<1> QED BY <1>1, AlwaysGood, PTL


-----------------------------------------------------------------------------
(* A merge that is made again with its own result.                          *)

(* What it keeps: the tombstones, the revisions, and of the histories all   *)
(* versions but those that later ones have pushed out.                      *)
Kept(r, again) ==
  /\ again.dead = r.dead
  /\ \A o \in (Present(r) \cap Present(again)) \ Unvisited(again, r) :
        /\ again.rev[o] = r.rev[o]
        /\ o \in Entries => \A stamp \in ToSet(r.hist[o]) : Keeps(again, o, stamp)

(* The result has no revision that is earlier than that of this side.       *)
LEMMA ResultLatest ==
  ASSUME NEW mine, Good(mine), NEW theirs, Good(theirs), NEW x, NEW V,
         Walked(x, V, mine, theirs), x.todo = <<>>,
         NEW o \in Present(Merged(x)) \cap Present(mine)
  PROVE  Merged(x).rev[o] = mine.rev[o] \/ Earlier(mine.rev[o], Merged(x).rev[o])
<1>1. MergedFields(x, V, Merged(x), theirs)
  BY MergedIs
<1>2. Merged(x).rev[o] = x.m.rev[o]
  BY <1>1 DEF MergedFields
<1>3. x.m.rev[o] = mine.rev[o] \/ x.m.rev[o] = Newest(mine, theirs, o)
  BY DEF Walked, Fixed, Stamps
<1> QED BY <1>2, <1>3 DEF Newest

LEMMA ResultKept ==
  ASSUME NEW mine, Good(mine), NEW theirs, Good(theirs), NEW x, NEW V,
         Walked(x, V, mine, theirs), x.todo = <<>>,
         NEW z, NEW W, Walked(z, W, mine, Merged(x)), z.todo = <<>>
  PROVE  Kept(Merged(x), Merged(z))
<1> DEFINE r == Merged(x)
           again == Merged(z)
<1>1. MergedFields(x, V, r, theirs) /\ Good(r) /\ r \in Db
  <2>1. MergedFields(x, V, r, theirs)
    BY MergedIs
  <2> HIDE DEF r
  <2> QED BY <2>1 DEF MergedFields, Good
<1>2. \A o \in Present(r) \cap Present(mine) : r.rev[o] = mine.rev[o] \/ Earlier(mine.rev[o], r.rev[o])
  BY ResultLatest
<1>3. r.dead = mine.dead \cup theirs.dead
  BY <1>1 DEF MergedFields, Walked, Fixed
<1> HIDE DEF r
<1>4. Walked(z, W, mine, r)
  BY DEF r
<1>5. MergedFields(z, W, again, r)
  BY <1>1, <1>4, MergedIs
<1>6. /\ z \in WalkState /\ z.m \in Db /\ z.own = Present(mine)
      /\ z.m.dead = mine.dead \cup r.dead
      /\ Stamps(z, W, mine, r) /\ Histories(z, W, mine, r) /\ Lists(z, W, mine, r) /\ Met(z, W)
  BY <1>4, WalkTypes DEF Walked, Fixed
<1> HIDE DEF again
<1>7. again.dead = r.dead
  BY <1>3, <1>5, <1>6 DEF MergedFields
<1>8. ASSUME NEW o \in (Present(r) \cap Present(again)) \ Unvisited(again, r)
      PROVE  /\ again.rev[o] = r.rev[o]
             /\ o \in Entries => \A stamp \in ToSet(r.hist[o]) : Keeps(again, o, stamp)
  <2>1. o \in W /\ Seen(z, W) = W
    BY <1>1, <1>4, <1>5, MergedSeen
  <2>2. again.rev[o] = z.m.rev[o]
    BY <1>5 DEF MergedFields
  <2>3. z.m.rev[o] = r.rev[o]
    <3>1. CASE o \in Present(mine)
      <4>1. z.m.rev[o] = Newest(mine, r, o)
        BY <1>6, <2>1, <3>1 DEF Stamps
      <4> QED BY <1>2, <3>1, <4>1 DEF Newest
    <3>2. CASE o \notin Present(mine)
      <4>1. o # Root
        BY <3>2, PresentIs DEF Good
      <4>2. PICK p \in W \cap Groups : o \in Held(z.m, p)
        BY <1>6, <2>1, <4>1 DEF Met
      <4> QED BY <1>6, <3>2, <4>2 DEF Lists, ListedIn
    <3> QED BY <3>1, <3>2
  <2>4. ASSUME o \in Entries, NEW stamp \in ToSet(r.hist[o]) PROVE Keeps(again, o, stamp)
    <3>1. z.m.hist[o] \in Seq(Stamp) /\ again.max \in Nat
          /\ again.hist[o] = MaintainHistory(z.m.hist[o], again.max)
      BY <1>1, <1>5, <1>6, <2>4, DbTypes DEF MergedFields
    <3>2. stamp.at \in Times(z.m.hist[o])
      BY <1>6, <2>1, <2>4 DEF Histories, Times
    <3> QED BY <2>4, <3>1, <3>2, KeepsTime
  <2> QED BY <2>2, <2>3, <2>4
<1>9. Kept(r, again)
  BY <1>7, <1>8 DEF Kept
<1> QED BY <1>9 DEF r, again

(* The merge that this side made, made again.                               *)
Again == Merging(last.mine, stored)

(* A save that is tried again, for its answer was lost, merges the model    *)
(* with what it has stored itself: it changes no tombstone and no revision  *)
(* and loses none of the history.                                           *)
THEOREM RetryLosesNothing ==
  Spec => [](last # None /\ MayMerge(last.mine, stored) /\ Again.todo = <<>>
                => Kept(stored, Merged(Again)))
<1>1. ASSUME IInv, last # None, MayMerge(last.mine, stored), Merging(last.mine, stored).todo = <<>>
      PROVE  Kept(stored, Merged(Merging(last.mine, stored)))
  <2>1. PICK x, V : Ends(x, V, last.mine, last.theirs) /\ x.todo = <<>> /\ stored = Merged(x)
    BY <1>1, LastMerge
  <2>2. /\ Good(last.mine) /\ Unique(last.mine) /\ Good(last.theirs) /\ Good(stored)
    BY <1>1, LastMerge DEF IInv, Copies
  <2>3. Unique(stored)
    BY <1>1, <2>2, UniqueIs DEF MayMerge
  <2>4. PICK W : Ends(Merging(last.mine, stored), W, last.mine, stored)
    BY <2>2, <2>3, MergeEnds
  <2> QED BY <1>1, <2>1, <2>2, <2>4, ResultKept DEF Ends
<1>2. IInv => (last # None /\ MayMerge(last.mine, stored) /\ Again.todo = <<>>
                  => Kept(stored, Merged(Again)))
  BY <1>1 DEF Again
<1> QED BY <1>2, AlwaysGood, PTL
=============================================================================
