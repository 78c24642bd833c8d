-------------------------- MODULE KdbxFormat_proofs --------------------------
(***************************************************************************)
(* Proofs about KdbxFormat, for every set of contents and entries, every   *)
(* threshold and every bound: a load brings what the file holds, damage is *)
(* noticed, a save writes what was asked, no entry is bound to what its    *)
(* pool does not hold, and nothing fails by itself.                        *)
(***************************************************************************)
EXTENDS KdbxFormat, WellFoundedInduction, TLAPS

-----------------------------------------------------------------------------
(* Numbers.                                                                 *)

(* A set of numbers has a least one.                                        *)
LEMMA LeastNatural ==
  ASSUME NEW S \in SUBSET Nat, S # {}
  PROVE  \E k \in S : \A j \in S : k <= j
<1>1. PICK k \in S : \A j \in S : ~(<<j, k>> \in OpToRel(<, Nat))
  BY NatLessThanWellFounded, WFMin
<1>2. \A j \in S : ~(j < k)
  BY <1>1 DEF OpToRel
<1> QED BY <1>2

(* Induction up to a bound, about a set.                                    *)
LEMMA UpTo ==
  ASSUME NEW G, NEW m \in Nat, 0 \in G,
         \A n \in 0 .. m : n \in G /\ n < m => n + 1 \in G
  PROVE  \A n \in 0 .. m : n \in G
<1> DEFINE Bad == {n \in 0 .. m : n \notin G}
<1>1. SUFFICES ASSUME Bad # {} PROVE FALSE
  OBVIOUS
<1>2. \E k \in Bad : \A j \in Bad : k <= j
  <2>1. Bad \in SUBSET Nat
    OBVIOUS
  <2> HIDE DEF Bad
  <2> QED BY <1>1, <2>1, LeastNatural
<1>3. PICK k \in Bad : \A j \in Bad : k <= j
  BY <1>2
<1>4. k # 0
  OBVIOUS
<1>5. k - 1 \in 0 .. m /\ k - 1 < m /\ k - 1 \in G
  BY <1>3, <1>4
<1> QED BY <1>5

-----------------------------------------------------------------------------
(* The pool.                                                                *)

(* The place of a hash is the first that has it, or 0.                      *)
LEMMA PlaceOfIs ==
  ASSUME NEW s, Len(s) \in Nat, NEW h
  PROVE  /\ PlaceOf(s, h) \in 0 .. Len(s)
         /\ PlaceOf(s, h) # 0 => s[PlaceOf(s, h)].hash = h
         /\ PlaceOf(s, h) = 0 => \A k \in 1 .. Len(s) : s[k].hash # h
<1> DEFINE I == {i \in 1 .. Len(s) : s[i].hash = h}
<1>1. PlaceOf(s, h) = IF I # {} THEN Min(I) ELSE 0
  BY DEF PlaceOf, SelectInSeq
<1>2. CASE I # {}
  <2>1. \E k \in I : \A j \in I : k <= j
    <3>1. I \in SUBSET Nat
      OBVIOUS
    <3> HIDE DEF I
    <3> QED BY <1>2, <3>1, LeastNatural
  <2>2. Min(I) \in I
    BY <2>1 DEF Min
  <2>3. PlaceOf(s, h) \in I
    BY <1>1, <1>2, <2>2
  <2> QED BY <2>3
<1>3. CASE I = {}
  BY <1>1, <1>3
<1> QED BY <1>2, <1>3

(* The hashes of a pool by their places.                                    *)
LEMMA HashesIs ==
  ASSUME NEW s, DOMAIN s = 1 .. Len(s), Len(s) \in Nat
  PROVE  /\ \A h : h \in Hashes(s) <=> \E k \in DOMAIN s : s[k].hash = h
         /\ \A h : h \in Hashes(s) <=> PlaceOf(s, h) # 0
<1>1. \A h : h \in Hashes(s) <=> \E k \in DOMAIN s : s[k].hash = h
  BY DEF Hashes, ToSet
<1>2. \A h : h \in Hashes(s) <=> PlaceOf(s, h) # 0
  BY <1>1, PlaceOfIs
<1> QED BY <1>1, <1>2

(* Setting an item adds its hash and keeps the others.                      *)
LEMMA SetItemIs ==
  ASSUME NEW pool \in Seq(Item), NEW item \in Item
  PROVE  /\ SetItem(pool, item) \in Seq(Item)
         /\ Hashes(SetItem(pool, item)) = Hashes(pool) \cup {item.hash}
         /\ ToSet(SetItem(pool, item)) \subseteq ToSet(pool) \cup {item}
         /\ item.hash \notin Hashes(pool) => SetItem(pool, item) = Append(pool, item)
<1> DEFINE i == PlaceOf(pool, item.hash)
           new == SetItem(pool, item)
<1>1. /\ DOMAIN pool = 1 .. Len(pool) /\ Len(pool) \in Nat
      /\ \A k \in DOMAIN pool : pool[k] \in Item
  OBVIOUS
<1>2. /\ i \in 0 .. Len(pool)
      /\ i # 0 => pool[i].hash = item.hash
  BY <1>1, PlaceOfIs
<1>3. CASE i = 0
  <2>1. new = Append(pool, item)
    BY <1>3 DEF SetItem
  <2>2. /\ new \in Seq(Item) /\ DOMAIN new = 1 .. Len(new) /\ Len(new) = Len(pool) + 1
        /\ \A k \in 1 .. Len(pool) : new[k] = pool[k]
        /\ new[Len(pool) + 1] = item
    BY <2>1
  <2> HIDE DEF new
  <2>3. ToSet(new) \subseteq ToSet(pool) \cup {item}
    BY <1>1, <2>2 DEF ToSet
  <2>4. Hashes(new) = Hashes(pool) \cup {item.hash}
    <3>1. \A h \in Hashes(new) : h \in Hashes(pool) \cup {item.hash}
      BY <2>3 DEF Hashes
    <3>2. ToSet(pool) \cup {item} \subseteq ToSet(new)
      BY <1>1, <2>2 DEF ToSet
    <3> QED BY <3>1, <3>2 DEF Hashes
  <2> QED BY <2>1, <2>2, <2>3, <2>4 DEF new
<1>4. CASE i # 0
  <2>1. new = [pool EXCEPT ![i] = item]
    BY <1>4 DEF SetItem
  <2>2. /\ new \in Seq(Item) /\ DOMAIN new = 1 .. Len(pool) /\ Len(new) = Len(pool)
        /\ \A k \in 1 .. Len(pool) : new[k] = IF k = i THEN item ELSE pool[k]
    BY <1>1, <1>2, <1>4, <2>1
  <2> HIDE DEF new
  <2>3. ToSet(new) \subseteq ToSet(pool) \cup {item}
    BY <1>1, <2>2 DEF ToSet
  <2>4. \A k \in 1 .. Len(pool) : new[k].hash = pool[k].hash
    BY <1>2, <1>4, <2>2
  <2>5. Hashes(new) = Hashes(pool)
    <3>1. \A h : h \in Hashes(new) <=> \E k \in 1 .. Len(pool) : new[k].hash = h
      BY <1>1, <2>2, HashesIs
    <3>2. \A h : h \in Hashes(pool) <=> \E k \in 1 .. Len(pool) : pool[k].hash = h
      BY <1>1, HashesIs
    <3>3. \A h : h \in Hashes(new) <=> h \in Hashes(pool)
      BY <2>4, <3>1, <3>2
    <3> QED BY <3>3
  <2>6. item.hash \in Hashes(pool)
    BY <1>1, <1>2, <1>4, HashesIs
  <2> QED BY <2>2, <2>3, <2>5, <2>6 DEF new
<1> HIDE DEF i, new
<1> QED BY <1>3, <1>4 DEF new

(* What Setting's recursion says up to k.                                   *)
Next1(p, items, some, n) == IF n \in some THEN SetItem(p, items[n]) ELSE p
SetUpTo(g, pool, items, some, k) ==
  g = [n \in 0 .. k |-> IF n = 0 THEN pool ELSE Next1(g[n - 1], items, some, n)]

(* There is such a function.                                                *)
LEMMA SettingExists ==
  ASSUME NEW pool, NEW items, NEW some, NEW m \in Nat
  PROVE  \E g : SetUpTo(g, pool, items, some, m)
<1> DEFINE Good == {k \in Nat : \E g : SetUpTo(g, pool, items, some, k)}
<1>1. 0 \in Good
  <2>1. SetUpTo([n \in 0 .. 0 |-> pool], pool, items, some, 0)
    BY DEF SetUpTo
  <2> QED BY <2>1
<1>2. ASSUME NEW k \in Nat, k \in Good PROVE k + 1 \in Good
  <2>1. PICK g : SetUpTo(g, pool, items, some, k)
    BY <1>2
  <2> DEFINE h == [n \in 0 .. k + 1 |->
                     IF n = k + 1 THEN Next1(g[k], items, some, n) ELSE g[n]]
  <2>2. \A n \in 0 .. k : g[n] = IF n = 0 THEN pool ELSE Next1(g[n - 1], items, some, n)
    BY <2>1 DEF SetUpTo
  <2>3. ASSUME NEW n \in 0 .. k + 1
        PROVE  h[n] = IF n = 0 THEN pool ELSE Next1(h[n - 1], items, some, n)
    <3>1. CASE n = 0
      BY <2>2, <3>1
    <3>2. CASE n \in 1 .. k
      <4>1. h[n] = g[n] /\ h[n - 1] = g[n - 1] /\ n # 0 /\ n \in 0 .. k
        BY <3>2
      <4> QED BY <2>2, <4>1
    <3>3. CASE n = k + 1
      <4>1. h[n] = Next1(g[k], items, some, n) /\ h[n - 1] = g[k] /\ n # 0
        BY <3>3
      <4> QED BY <4>1
    <3> QED BY <3>1, <3>2, <3>3
  <2>4. h = [n \in 0 .. k + 1 |-> h[n]]
    OBVIOUS
  <2>5. SetUpTo(h, pool, items, some, k + 1)
    <3> HIDE DEF h
    <3> QED BY <2>3, <2>4 DEF SetUpTo
  <2> QED BY <2>5
<1>3. m \in Good
  <2> HIDE DEF Good
  <2> QED BY <1>1, <1>2, UpTo
<1> QED BY <1>3

(* The recursion of Setting, step by step.                                  *)
LEMMA SettingIs ==
  ASSUME NEW pool, NEW items, NEW some, Len(items) \in Nat
  PROVE  /\ Setting(pool, items, some)[0] = pool
         /\ \A n \in 1 .. Len(items) :
              Setting(pool, items, some)[n] =
                IF n \in some THEN SetItem(Setting(pool, items, some)[n - 1], items[n])
                ELSE Setting(pool, items, some)[n - 1]
<1> DEFINE f == Setting(pool, items, some)
<1>1. SetUpTo(f, pool, items, some, Len(items))
  BY SettingExists DEF Setting, SetUpTo, Next1
<1> HIDE DEF f
<1>2. \A n \in 0 .. Len(items) :
        f[n] = IF n = 0 THEN pool ELSE Next1(f[n - 1], items, some, n)
  BY <1>1 DEF SetUpTo
<1>3. f[0] = pool
  BY <1>2
<1>4. \A n \in 1 .. Len(items) :
        f[n] = IF n \in some THEN SetItem(f[n - 1], items[n]) ELSE f[n - 1]
  BY <1>2 DEF Next1
<1> QED BY <1>3, <1>4 DEF f

(* Setting some items: their hashes join, in a pool of known items.         *)
LEMMA SetAllIs ==
  ASSUME NEW pool \in Seq(Item), NEW items \in Seq(Item), NEW some \in SUBSET (DOMAIN items)
  PROVE  /\ SetAll(pool, items, some) \in Seq(Item)
         /\ Hashes(SetAll(pool, items, some))
              = Hashes(pool) \cup {items[i].hash : i \in some}
         /\ ToSet(SetAll(pool, items, some)) \subseteq ToSet(pool) \cup ToSet(items)
<1> DEFINE f == Setting(pool, items, some)
           m == Len(items)
           P(n) == /\ f[n] \in Seq(Item)
                   /\ Hashes(f[n]) = Hashes(pool) \cup {items[i].hash : i \in some \cap (1 .. n)}
                   /\ ToSet(f[n]) \subseteq ToSet(pool) \cup ToSet(items)
           G == {n \in 0 .. m : P(n)}
<1>1. /\ m \in Nat /\ DOMAIN items = 1 .. m
      /\ \A k \in DOMAIN items : items[k] \in Item /\ items[k] \in ToSet(items)
  BY DEF ToSet
<1>2. /\ f[0] = pool
      /\ \A n \in 1 .. m : f[n] = IF n \in some THEN SetItem(f[n - 1], items[n]) ELSE f[n - 1]
  BY <1>1, SettingIs
<1> HIDE DEF f, m
<1>3. P(0)
  <2>1. some \cap (1 .. 0) = {}
    OBVIOUS
  <2> QED BY <1>2, <2>1
<1>4. ASSUME NEW n \in 0 .. m, P(n), n < m PROVE P(n + 1)
  <2>1. n + 1 \in 1 .. m /\ (n + 1) - 1 = n
    BY <1>1, <1>4
  <2>2. CASE n + 1 \in some
    <3>1. f[n + 1] = SetItem(f[n], items[n + 1])
      BY <1>2, <2>1, <2>2
    <3>2. f[n] \in Seq(Item) /\ items[n + 1] \in Item
      BY <1>1, <1>4, <2>1
    <3>3. /\ f[n + 1] \in Seq(Item)
          /\ Hashes(f[n + 1]) = Hashes(f[n]) \cup {items[n + 1].hash}
          /\ ToSet(f[n + 1]) \subseteq ToSet(f[n]) \cup {items[n + 1]}
      <4> DEFINE q == f[n]
                 x == items[n + 1]
      <4>1. q \in Seq(Item) /\ x \in Item /\ f[n + 1] = SetItem(q, x)
        BY <3>1, <3>2
      <4> HIDE DEF q, x
      <4>2. /\ SetItem(q, x) \in Seq(Item)
            /\ Hashes(SetItem(q, x)) = Hashes(q) \cup {x.hash}
            /\ ToSet(SetItem(q, x)) \subseteq ToSet(q) \cup {x}
        BY <4>1, SetItemIs
      <4> QED BY <4>1, <4>2 DEF q, x
    <3>4. some \cap (1 .. n + 1) = (some \cap (1 .. n)) \cup {n + 1}
      BY <1>1, <2>2
    <3>5. {items[i].hash : i \in some \cap (1 .. n + 1)}
            = {items[i].hash : i \in some \cap (1 .. n)} \cup {items[n + 1].hash}
      BY <3>4
    <3>6. Hashes(f[n + 1]) = Hashes(pool) \cup {items[i].hash : i \in some \cap (1 .. n + 1)}
      BY <1>4, <3>3, <3>5
    <3>7. ToSet(f[n + 1]) \subseteq ToSet(pool) \cup ToSet(items)
      BY <1>1, <1>4, <2>1, <3>3
    <3> QED BY <3>3, <3>6, <3>7
  <2>3. CASE n + 1 \notin some
    <3>1. f[n + 1] = f[n]
      BY <1>2, <2>1, <2>3
    <3>2. some \cap (1 .. n + 1) = some \cap (1 .. n)
      BY <1>1, <2>3
    <3> QED BY <1>4, <3>1, <3>2
  <2> QED BY <2>2, <2>3
<1>5. \A n \in 0 .. m : n \in G
  <2>1. 0 \in G
    BY <1>1, <1>3
  <2>2. \A n \in 0 .. m : n \in G /\ n < m => n + 1 \in G
    <3> HIDE DEF P
    <3> QED BY <1>1, <1>4
  <2> HIDE DEF G
  <2> QED BY <1>1, <2>1, <2>2, UpTo
<1>6. P(m)
  <2> HIDE DEF P
  <2> QED BY <1>1, <1>5
<1>7. some \cap (1 .. m) = some
  BY <1>1
<1> QED BY <1>6, <1>7 DEF SetAll, f, m

(* When the hashes of a file have resolved, each is in the pool, and the    *)
(* pool holds nothing else.                                                 *)
LEMMA ResolvedIs ==
  ASSUME NEW read \in Seq(Item)
  PROVE  /\ Resolved(read) \in Seq(Item)
         /\ Hashes(Resolved(read)) = Hashes(read)
         /\ ToSet(Resolved(read)) \subseteq ToSet(read)
<1> DEFINE At(turn) == {i \in DOMAIN read : Turns(read[i]) = turn}
           first == SetAll(<<>>, read, At(1))
           second == SetAll(first, read, At(2))
           third == SetAll(second, read, At(3))
<1>1. Resolved(read) = third
  BY DEF Resolved
<1>2. \A t : At(t) \in SUBSET (DOMAIN read)
  OBVIOUS
<1>3. <<>> \in Seq(Item) /\ ToSet(<<>>) = {} /\ Hashes(<<>>) = {}
  BY DEF ToSet, Hashes
<1>4. DOMAIN read = At(1) \cup At(2) \cup At(3)
  BY DEF Turns
<1> HIDE DEF At
<1>5. /\ first \in Seq(Item) /\ Hashes(first) = {read[i].hash : i \in At(1)}
      /\ ToSet(first) \subseteq ToSet(read)
  <2> DEFINE none == <<>>
  <2>1. none \in Seq(Item) /\ At(1) \in SUBSET (DOMAIN read) /\ first = SetAll(none, read, At(1))
    BY <1>2, <1>3
  <2>2. ToSet(none) = {} /\ Hashes(none) = {}
    BY <1>3
  <2> HIDE DEF none, first
  <2>3. /\ first \in Seq(Item) /\ Hashes(first) = Hashes(none) \cup {read[i].hash : i \in At(1)}
        /\ ToSet(first) \subseteq ToSet(none) \cup ToSet(read)
    BY <2>1, SetAllIs
  <2> QED BY <2>2, <2>3
<1> HIDE DEF first
<1>6. /\ second \in Seq(Item) /\ Hashes(second) = Hashes(first) \cup {read[i].hash : i \in At(2)}
      /\ ToSet(second) \subseteq ToSet(read)
  <2>1. /\ second \in Seq(Item) /\ Hashes(second) = Hashes(first) \cup {read[i].hash : i \in At(2)}
        /\ ToSet(second) \subseteq ToSet(first) \cup ToSet(read)
    BY <1>2, <1>5, SetAllIs
  <2> QED BY <1>5, <2>1
<1> HIDE DEF second
<1>7. /\ third \in Seq(Item) /\ Hashes(third) = Hashes(second) \cup {read[i].hash : i \in At(3)}
      /\ ToSet(third) \subseteq ToSet(read)
  <2>1. /\ third \in Seq(Item) /\ Hashes(third) = Hashes(second) \cup {read[i].hash : i \in At(3)}
        /\ ToSet(third) \subseteq ToSet(second) \cup ToSet(read)
    BY <1>2, <1>6, SetAllIs
  <2> QED BY <1>6, <2>1
<1> HIDE DEF third
<1>8. Hashes(read) = {read[i].hash : i \in DOMAIN read}
  BY DEF Hashes, ToSet
<1>9. Hashes(third) = Hashes(read)
  BY <1>4, <1>5, <1>6, <1>7, <1>8
<1> QED BY <1>1, <1>7, <1>9

(* Setting the items from a to b behind those before them, in a file with   *)
(* no content twice.                                                        *)
LEMMA SetRun ==
  ASSUME NEW items \in Seq(Item), NEW a \in 0 .. Len(items), NEW b \in a .. Len(items),
         \A i, j \in DOMAIN items : i < j => items[i].hash # items[j].hash
  PROVE  SetAll(SubSeq(items, 1, a), items, (a + 1) .. b) = SubSeq(items, 1, b)
<1> DEFINE p(k) == SubSeq(items, 1, k)
           some == (a + 1) .. b
           f == Setting(p(a), items, some)
           m == Len(items)
           reached(n) == IF n <= a THEN a ELSE IF n <= b THEN n ELSE b
           G == {n \in 0 .. m : f[n] = p(reached(n))}
<1>1. m \in Nat /\ DOMAIN items = 1 .. m
  OBVIOUS
<1>2. /\ f[0] = p(a)
      /\ \A n \in 1 .. m : f[n] = IF n \in some THEN SetItem(f[n - 1], items[n]) ELSE f[n - 1]
  <2> DEFINE start == p(a)
  <2> HIDE DEF p, start, some
  <2>1. /\ Setting(start, items, some)[0] = start
        /\ \A n \in 1 .. Len(items) :
             Setting(start, items, some)[n] =
               IF n \in some THEN SetItem(Setting(start, items, some)[n - 1], items[n])
               ELSE Setting(start, items, some)[n - 1]
    BY <1>1, SettingIs
  <2> QED BY <2>1 DEF start
<1>3. ASSUME NEW k \in 0 .. m - 1
      PROVE  SetItem(p(k), items[k + 1]) = p(k + 1)
  <2>1. /\ p(k) \in Seq(Item) /\ Len(p(k)) = k /\ DOMAIN p(k) = 1 .. k
        /\ \A i \in 1 .. k : p(k)[i] = items[i]
        /\ items[k + 1] \in Item
    BY <1>1
  <2>2. items[k + 1].hash \notin Hashes(p(k))
    <3>1. \A i \in 1 .. k : items[i].hash # items[k + 1].hash
      BY <1>1
    <3> DEFINE q == p(k)
    <3>2. DOMAIN q = 1 .. Len(q) /\ Len(q) \in Nat
      BY <2>1
    <3>3. \A i \in DOMAIN q : q[i].hash # items[k + 1].hash
      BY <2>1, <3>1
    <3> HIDE DEF q, p
    <3>4. \A h : h \in Hashes(q) <=> \E i \in DOMAIN q : q[i].hash = h
      BY <3>2, HashesIs
    <3>5. items[k + 1].hash \notin Hashes(q)
      BY <3>3, <3>4
    <3> QED BY <3>5 DEF q
  <2>3. SetItem(p(k), items[k + 1]) = Append(p(k), items[k + 1])
    <3> HIDE DEF p
    <3> QED BY <2>1, <2>2, SetItemIs
  <2>4. Append(p(k), items[k + 1]) = p(k + 1)
    BY <1>1
  <2> QED BY <2>3, <2>4
<1> HIDE DEF f, p, m
<1>4. 0 \in G
  BY <1>1, <1>2
<1>5. ASSUME NEW n \in 0 .. m, n \in G, n < m PROVE n + 1 \in G
  <2>1. n + 1 \in 1 .. m /\ (n + 1) - 1 = n /\ f[n] = p(reached(n))
    BY <1>1, <1>5
  <2>2. CASE n + 1 \in some
    <3>1. f[n + 1] = SetItem(f[n], items[n + 1]) /\ reached(n) = n /\ reached(n + 1) = n + 1
      BY <1>1, <1>2, <2>1, <2>2
    <3>2. f[n] = p(n) /\ n \in 0 .. m - 1
      BY <1>1, <1>5, <2>1, <3>1
    <3>3. SetItem(p(n), items[n + 1]) = p(n + 1)
      BY <1>3, <3>2
    <3>4. f[n + 1] = p(n + 1)
      BY <3>1, <3>2, <3>3
    <3> QED BY <2>1, <3>1, <3>4
  <2>3. CASE n + 1 \notin some
    <3>1. f[n + 1] = f[n] /\ reached(n + 1) = reached(n)
      BY <1>1, <1>2, <2>1, <2>3
    <3> QED BY <2>1, <3>1
  <2> QED BY <2>2, <2>3
<1>6. m \in G
  <2>1. \A n \in 0 .. m : n \in G /\ n < m => n + 1 \in G
    BY <1>5
  <2> HIDE DEF G
  <2>2. \A n \in 0 .. m : n \in G
    BY <1>1, <1>4, <2>1, UpTo
  <2> QED BY <1>1, <2>2
<1>7. f[m] = p(b)
  <2>1. a \in Nat /\ b \in Nat /\ a <= b /\ b <= m
    BY <1>1 DEF m
  <2>2. reached(m) = b
    BY <1>1, <2>1
  <2> QED BY <1>6, <2>2
<1> QED BY <1>7 DEF SetAll, f, p, m

(* Where a file in order goes from one turn to the next.                    *)
LEMMA Cut ==
  ASSUME NEW read \in Seq(Item), NEW t \in Nat,
         \A i, j \in DOMAIN read : i < j => Turns(read[i]) <= Turns(read[j])
  PROVE  \E a \in 0 .. Len(read) : \A i \in 1 .. Len(read) : Turns(read[i]) <= t <=> i <= a
<1> DEFINE Late == {i \in 1 .. Len(read) : ~(Turns(read[i]) <= t)}
<1>1. Len(read) \in Nat /\ DOMAIN read = 1 .. Len(read)
  OBVIOUS
<1>2. \A i \in 1 .. Len(read) : Turns(read[i]) \in Nat
  BY DEF Turns
<1>3. CASE Late = {}
  <2>1. \A i \in 1 .. Len(read) : Turns(read[i]) <= t <=> i <= Len(read)
    BY <1>1, <1>3
  <2> QED BY <1>1, <2>1
<1>4. CASE Late # {}
  <2>1. \E k \in Late : \A j \in Late : k <= j
    <3>1. Late \in SUBSET Nat
      OBVIOUS
    <3> HIDE DEF Late
    <3> QED BY <1>4, <3>1, LeastNatural
  <2>2. PICK k \in Late : \A j \in Late : k <= j
    BY <2>1
  <2>3. k \in 1 .. Len(read) /\ ~(Turns(read[k]) <= t) /\ k - 1 \in 0 .. Len(read)
    BY <1>1
  <2>4. ASSUME NEW i \in 1 .. Len(read) PROVE Turns(read[i]) <= t <=> i <= k - 1
    <3>1. CASE i < k
      <4>1. i \notin Late
        BY <2>2, <2>3, <3>1
      <4> QED BY <2>3, <3>1, <4>1
    <3>2. CASE ~(i < k)
      <4>1. Turns(read[k]) <= Turns(read[i])
        BY <1>1, <1>2, <2>3, <3>2
      <4> QED BY <1>2, <2>3, <3>2, <4>1
    <3> QED BY <3>1, <3>2
  <2> QED BY <2>3, <2>4
<1> QED BY <1>3, <1>4

(* A file in order resolves to itself.                                      *)
LEMMA ResolvedInOrder ==
  ASSUME NEW read \in Seq(Item),
         \A i, j \in DOMAIN read :
           i < j => read[i].hash # read[j].hash /\ Turns(read[i]) <= Turns(read[j])
  PROVE  Resolved(read) = read
<1> DEFINE n == Len(read)
           At(turn) == {i \in DOMAIN read : Turns(read[i]) = turn}
<1>1. /\ n \in Nat /\ DOMAIN read = 1 .. n
      /\ \A i \in 1 .. n : Turns(read[i]) \in 1 .. 3
  BY DEF Turns
<1>2. \E a \in 0 .. n : \A i \in 1 .. n : Turns(read[i]) <= 1 <=> i <= a
  BY Cut
<1>3. \E b \in 0 .. n : \A i \in 1 .. n : Turns(read[i]) <= 2 <=> i <= b
  BY Cut
<1>4. PICK a \in 0 .. n : \A i \in 1 .. n : Turns(read[i]) <= 1 <=> i <= a
  BY <1>2
<1>5. PICK b \in 0 .. n : \A i \in 1 .. n : Turns(read[i]) <= 2 <=> i <= b
  BY <1>3
<1>6. a <= b
  <2>1. CASE a = 0
    BY <2>1
  <2>2. CASE a # 0
    <3>1. a \in 1 .. n /\ Turns(read[a]) <= 1
      BY <1>4, <2>2
    <3>2. Turns(read[a]) <= 2
      BY <1>1, <3>1
    <3> QED BY <1>5, <3>1, <3>2
  <2> QED BY <2>1, <2>2
<1>7. At(1) = (0 + 1) .. a /\ At(2) = (a + 1) .. b /\ At(3) = (b + 1) .. n
  <2>1. \A i \in 1 .. n : i \in At(1) <=> i <= a
    BY <1>1, <1>4
  <2>2. \A i \in 1 .. n : i \in At(2) <=> ~(i <= a) /\ i <= b
    <3>1. \A i \in 1 .. n : Turns(read[i]) = 2 <=> ~(Turns(read[i]) <= 1) /\ Turns(read[i]) <= 2
      BY <1>1
    <3> QED BY <1>1, <1>4, <1>5, <3>1
  <2>3. \A i \in 1 .. n : i \in At(3) <=> ~(i <= b)
    <3>1. \A i \in 1 .. n : Turns(read[i]) = 3 <=> ~(Turns(read[i]) <= 2)
      BY <1>1
    <3> QED BY <1>1, <1>5, <3>1
  <2>4. \A t : At(t) \subseteq 1 .. n
    BY <1>1
  <2>5. a \in Nat /\ b \in Nat /\ a <= n /\ b <= n
    BY <1>1
  <2> HIDE DEF At, n
  <2>6. \A i : i \in At(1) <=> i \in (0 + 1) .. a
    BY <1>1, <2>1, <2>4, <2>5
  <2>7. \A i : i \in At(2) <=> i \in (a + 1) .. b
    BY <1>1, <2>2, <2>4, <2>5
  <2>8. \A i : i \in At(3) <=> i \in (b + 1) .. n
    BY <1>1, <2>3, <2>4, <2>5
  <2> QED BY <2>6, <2>7, <2>8
<1>8. \A i, j \in DOMAIN read : i < j => read[i].hash # read[j].hash
  OBVIOUS
<1>9. Resolved(read) = SetAll(SetAll(SetAll(<<>>, read, At(1)), read, At(2)), read, At(3))
  BY DEF Resolved
<1> HIDE DEF At
<1>10. SubSeq(read, 1, 0) = <<>> /\ SubSeq(read, 1, n) = read
  OBVIOUS
<1>11. SetAll(SubSeq(read, 1, 0), read, (0 + 1) .. a) = SubSeq(read, 1, a)
  <2>1. 0 \in 0 .. Len(read) /\ a \in 0 .. Len(read)
    BY <1>1
  <2> QED BY <1>8, <2>1, SetRun
<1>12. SetAll(SubSeq(read, 1, a), read, (a + 1) .. b) = SubSeq(read, 1, b)
  <2>1. a \in 0 .. Len(read) /\ b \in a .. Len(read)
    BY <1>1, <1>6
  <2> QED BY <1>8, <2>1, SetRun
<1>13. SetAll(SubSeq(read, 1, b), read, (b + 1) .. n) = SubSeq(read, 1, n)
  <2>1. b \in 0 .. Len(read) /\ n \in b .. Len(read)
    BY <1>1
  <2> QED BY <1>8, <2>1, SetRun
<1> QED BY <1>7, <1>9, <1>10, <1>11, <1>12, <1>13

-----------------------------------------------------------------------------
(* Models and what crosses a thread.                                        *)

(* The entries of a model are bound to what its pool holds.                 *)
Bound(m) == \A e \in Entry : m.att[e] # None => m.att[e] \in Hashes(m.pool)

(* What a pool holds are contents.                                          *)
LEMMA PoolHashes ==
  ASSUME NEW pool \in Seq(Item)
  PROVE  /\ Hashes(pool) \subseteq Content /\ None \notin Hashes(pool)
         /\ DOMAIN pool = 1 .. Len(pool) /\ Len(pool) \in Nat
         /\ \A i \in DOMAIN pool : /\ pool[i] \in Item /\ pool[i] \in ToSet(pool)
                                   /\ pool[i].hash \in Hashes(pool)
<1>1. DOMAIN pool = 1 .. Len(pool) /\ Len(pool) \in Nat
  OBVIOUS
<1>2. \A i \in DOMAIN pool : pool[i] \in Item
  OBVIOUS
<1>3. ToSet(pool) = {pool[i] : i \in DOMAIN pool}
  BY DEF ToSet
<1>4. \A i \in DOMAIN pool : pool[i] \in ToSet(pool)
  BY <1>3
<1>5. \A i \in DOMAIN pool : pool[i].hash \in Hashes(pool)
  BY <1>4 DEF Hashes
<1>6. \A x \in Item : x.hash \in Content
  BY DEF Item
<1>7. ToSet(pool) \subseteq Item
  BY <1>2, <1>3
<1>8. Hashes(pool) \subseteq Content
  BY <1>6, <1>7 DEF Hashes
<1> QED BY <1>1, <1>2, <1>4, <1>5, <1>8, NoneAssumption

(* References of a parcel lead to what its pool holds, or to nothing.       *)
LEMMA ResolveIs ==
  ASSUME NEW pool \in Seq(Item), NEW refs, NEW ids
  PROVE  /\ Resolve(refs, ids, pool) \in [Entry -> Content \cup {None}]
         /\ \A e \in Entry : Resolve(refs, ids, pool)[e] # None
                               => Resolve(refs, ids, pool)[e] \in Hashes(pool)
BY PoolHashes DEF Resolve, ByRef

(* The references that are written stay in the pool, and a reader that      *)
(* takes the place for the id finds the same attachments again.             *)
LEMMA RoundTrip ==
  ASSUME NEW m \in Model, Bound(m)
  PROVE  /\ WriteRefs(m.att, m.pool) \in [Entry -> 0 .. Len(m.pool)]
         /\ \A e \in Entry : LET ref == WriteRefs(m.att, m.pool)[e] IN
              /\ ref = 0 => m.att[e] = None
              /\ ref # 0 => m.pool[ref].hash = m.att[e]
         /\ Resolve(WriteRefs(m.att, m.pool), ImportPool(m.pool), m.pool) = m.att
<1> DEFINE pool == m.pool
           att == m.att
           refs == WriteRefs(att, pool)
           ids == ImportPool(pool)
<1>1. pool \in Seq(Item) /\ att \in [Entry -> Content \cup {None}]
  BY DEF Model
<1>2. \A e \in Entry : att[e] # None => att[e] \in Hashes(pool)
  BY DEF Bound
<1>3. /\ DOMAIN pool = 1 .. Len(pool) /\ Len(pool) \in Nat
      /\ \A i \in DOMAIN pool : pool[i].hash \in Hashes(pool)
      /\ None \notin Hashes(pool)
  BY <1>1, PoolHashes
<1>4. /\ DOMAIN ids = 1 .. Len(pool)
      /\ \A i \in 1 .. Len(pool) : ids[i] = pool[i].hash
  BY <1>3 DEF ImportPool
<1>5. DOMAIN refs = Entry /\ \A e \in Entry : refs[e] = PlaceOf(pool, att[e])
  BY DEF WriteRefs, RefOf
<1> HIDE DEF pool, att, ids, refs
<1>6. ASSUME NEW e \in Entry
      PROVE  /\ refs[e] \in 0 .. Len(pool)
             /\ refs[e] = 0 => att[e] = None
             /\ refs[e] # 0 => pool[refs[e]].hash = att[e]
             /\ ByRef(ids, pool, refs[e]) = att[e]
  <2>1. /\ PlaceOf(pool, att[e]) \in 0 .. Len(pool)
        /\ PlaceOf(pool, att[e]) # 0 => pool[PlaceOf(pool, att[e])].hash = att[e]
    BY <1>3, PlaceOfIs
  <2>2. att[e] \in Hashes(pool) <=> PlaceOf(pool, att[e]) # 0
    BY <1>3, HashesIs
  <2>3. CASE refs[e] = 0
    <3>1. att[e] = None
      BY <1>2, <1>5, <2>2, <2>3
    <3> QED BY <1>4, <1>5, <2>1, <2>3, <3>1 DEF ByRef
  <2>4. CASE refs[e] # 0
    <3>1. refs[e] \in 1 .. Len(pool) /\ pool[refs[e]].hash = att[e]
      BY <1>3, <1>5, <2>1, <2>4
    <3>2. att[e] \in Hashes(pool)
      BY <1>5, <2>2, <2>4
    <3> QED BY <1>4, <2>4, <3>1, <3>2 DEF ByRef
  <2> QED BY <2>3, <2>4
<1>7. refs \in [Entry -> 0 .. Len(pool)]
  <2>1. refs = [e \in Entry |-> refs[e]]
    BY DEF refs, WriteRefs
  <2> QED BY <1>6, <2>1
<1>8. Resolve(refs, ids, pool) = att
  BY <1>1, <1>6 DEF Resolve
<1> QED BY <1>6, <1>7, <1>8 DEF pool, att, ids, refs

(* A parcel becomes a model whose entries are bound.                        *)
LEMMA ImportIs ==
  ASSUME NEW p \in Parcel
  PROVE  /\ Import(p) \in Model /\ Bound(Import(p))
         /\ Import(p).pool = p.pool /\ Import(p).tail = p.tail
         /\ Import(p).att = Resolve(p.refs, ImportPool(p.pool), p.pool)
<1> DEFINE att == Resolve(p.refs, ImportPool(p.pool), p.pool)
<1>1. p.pool \in Seq(Item) /\ p.tail \in BOOLEAN
  BY DEF Parcel
<1>2. /\ att \in [Entry -> Content \cup {None}]
      /\ \A e \in Entry : att[e] # None => att[e] \in Hashes(p.pool)
  BY <1>1, ResolveIs
<1>3. Import(p) = [pool |-> p.pool, att |-> att, tail |-> p.tail]
  BY DEF Import
<1> HIDE DEF att
<1>4. Import(p) \in Model /\ Bound(Import(p))
  BY <1>1, <1>2, <1>3 DEF Model, Bound
<1> QED BY <1>3, <1>4 DEF att

(* A snapshot crosses the threads and is the same model again.              *)
LEMMA SnapshotIs ==
  ASSUME NEW m \in Model, Bound(m)
  PROVE  Import(Snapshot(m)) \in Model /\ Import(Snapshot(m)) = m
<1> DEFINE p == Snapshot(m)
<1>1. /\ m.pool \in Seq(Item) /\ m.tail \in BOOLEAN
      /\ m = [pool |-> m.pool, att |-> m.att, tail |-> m.tail]
  BY DEF Model
<1>2. /\ WriteRefs(m.att, m.pool) \in [Entry -> 0 .. Len(m.pool)] /\ Len(m.pool) \in Nat
      /\ Resolve(WriteRefs(m.att, m.pool), ImportPool(m.pool), m.pool) = m.att
  BY <1>1, RoundTrip, PoolHashes
<1>3. WriteRefs(m.att, m.pool) \in Refs
  BY <1>2 DEF Refs
<1>4. /\ p \in Parcel /\ p.pool = m.pool /\ p.tail = m.tail
      /\ p.refs = WriteRefs(m.att, m.pool)
  BY <1>1, <1>3 DEF Snapshot, Parcel
<1> HIDE DEF p
<1>5. /\ Import(p) \in Model /\ Import(p).pool = m.pool /\ Import(p).tail = m.tail
      /\ Import(p).att = m.att
  BY <1>2, <1>4, ImportIs
<1>6. Import(p) = m
  BY <1>1, <1>5 DEF Model
<1> QED BY <1>5, <1>6 DEF p

(* Moving a pool to the cache changes where its items are.                  *)
LEMMA ToDiskIs ==
  ASSUME NEW pool \in Seq(Item)
  PROVE  /\ ToDisk(pool) \in Seq(Item)
         /\ Hashes(ToDisk(pool)) = Hashes(pool)
         /\ ConvertedHashes(pool) \subseteq Content
<1> DEFINE disk == [i \in DOMAIN pool |-> OnDisk(pool[i])]
<1>1. /\ DOMAIN pool = 1 .. Len(pool) /\ Len(pool) \in Nat
      /\ \A i \in DOMAIN pool : pool[i] \in Item
  OBVIOUS
<1>2. \A i \in DOMAIN pool : OnDisk(pool[i]) \in Item /\ OnDisk(pool[i]).hash = pool[i].hash
  BY <1>1 DEF OnDisk, Item
<1>3. /\ disk \in Seq(Item) /\ DOMAIN disk = 1 .. Len(disk) /\ Len(disk) = Len(pool)
      /\ \A i \in DOMAIN pool : disk[i].hash = pool[i].hash
  BY <1>1, <1>2
<1> HIDE DEF disk
<1>4. Hashes(disk) = Hashes(pool)
  <2>1. \A h : h \in Hashes(disk) <=> \E k \in DOMAIN pool : disk[k].hash = h
    BY <1>1, <1>3, HashesIs
  <2>2. \A h : h \in Hashes(pool) <=> \E k \in DOMAIN pool : pool[k].hash = h
    BY <1>1, HashesIs
  <2>3. \A h : h \in Hashes(disk) <=> h \in Hashes(pool)
    BY <1>3, <2>1, <2>2
  <2> QED BY <2>3
<1>5. ConvertedHashes(pool) \subseteq Content
  BY <1>1 DEF ConvertedHashes, ToSet, Item
<1>6. ToDisk(pool) = IF Converts(pool) THEN disk ELSE pool
  BY DEF ToDisk, disk
<1> QED BY <1>3, <1>4, <1>5, <1>6

-----------------------------------------------------------------------------
(* The inductive invariant.                                                 *)

(* A file that was built or written whole: its references lead somewhere.   *)
FileSound(f) ==
  /\ \A i \in DOMAIN f.bins : f.bins[i].hash \in Content
  /\ \A e \in Entry : f.refs[e] <= Len(f.bins)

Active == {"decrypt", "inflate", "inner", "ship"}

(* What a load makes of an attachment of the file.                          *)
ReadAs(buffered, bin) ==
  IF ~buffered /\ bin.hash \in Large THEN OnDisk(bin) ELSE InMemory(bin)

(* What a load has read so far is what the file holds, in its order.        *)
ReadSound(l) ==
  /\ Len(l.read) <= Len(l.src.bins)
  /\ \A i \in DOMAIN l.read : l.read[i] = ReadAs(l.buffered, l.src.bins[i])

(* The ids of the attachments of a file.                                    *)
Ids(f) == [i \in DOMAIN f.bins |-> f.bins[i].hash]

(* What is about to cross is what the file holds.                           *)
ParcelSound(p, f) ==
  /\ p \in Parcel
  /\ Whole(f) /\ InOrder(f) =>
       ImportPool(p.pool) = Ids(f) /\ p.refs = f.refs /\ p.tail = f.tail
ModelSound(m, f) ==
  /\ m \in Model /\ Bound(m)
  /\ Whole(f) => m.att = Held(f) /\ m.tail = f.tail

LoadSound(l) ==
  /\ l.pc \in Active => l.src \in File /\ FileSound(l.src)
  /\ l.container => ~l.buffered
  /\ l.pc \in {"inflate", "inner", "ship"} => Verifies(l.src)
  /\ l.pc \in {"inflate", "inner", "ship"} => l.buffered \/ l.src.stream
  /\ l.pc \in {"inner", "ship"} => Inflates(l.src)
  /\ l.pc = "ship" /\ l.buffered => ~Short(l.src)
  /\ l.pc \in {"decrypt", "inflate"} => l.read = <<>>
  /\ l.pc = "inner" => ReadSound(l)
  /\ l.pc = "ship" /\ l.container => ParcelSound(l.parcel, l.src)
  /\ l.pc = "ship" /\ ~l.container => ModelSound(l.model, l.src)

(* A save writes the pool of its model from the front.                      *)
SaveSound(s) ==
  s.pc = "write" =>
    /\ s.model \in Model /\ Bound(s.model) /\ s.model.att = s.asked
    /\ Len(s.out) <= Len(s.model.pool)
    /\ \A i \in DOMAIN s.out : s.out[i].hash = s.model.pool[i].hash

DbSound(d) == d # None => Bound(d)

Sound == FileSound(file) /\ DbSound(db) /\ LoadSound(load) /\ SaveSound(save)

(* Every disk reference of a pool can be read back.                         *)
Backed(pool, c) == \A x \in ToSet(pool) : x.at = "disk" => c[x.hash] = "whole"

(* As long as nothing went wrong outside.                                   *)
CacheClean(c) == \A x \in Content : c[x] # "damaged"
DbClean(d, c) == d # None => Backed(d.pool, c)
LoadClean(l, c) ==
  /\ l.pc # "failed"
  /\ l.pc \in Active => l.src.damage = "none"
  /\ l.pc = "inner" => Backed(l.read, c)
  /\ l.pc = "ship" /\ l.container => Backed(l.parcel.pool, c)
  /\ l.pc = "ship" /\ ~l.container => Backed(l.model.pool, c)
SaveClean(s, c) == s.pc # "failed" /\ (s.pc = "write" => Backed(s.model.pool, c))

Clean ==
  count.faults = 0 =>
    /\ file.damage = "none"
    /\ CacheClean(cache) /\ DbClean(db, cache)
    /\ LoadClean(load, cache) /\ SaveClean(save, cache)

FormatInv == TypeOK /\ Sound /\ Clean

-----------------------------------------------------------------------------
(* What the parts of a step keep.                                           *)

LEMMA ReadAsIs ==
  ASSUME NEW bin \in Bin, bin.hash \in Content, NEW buffered \in BOOLEAN
  PROVE  /\ ReadAs(buffered, bin) \in Item
         /\ ReadAs(buffered, bin).hash = bin.hash
         /\ InMemory(bin) \in Item /\ OnDisk(bin) \in Item
         /\ InMemory(bin).at = "mem"
BY DEF ReadAs, OnDisk, InMemory, Bin, Item

(* When everything has been read it is what the file holds.                 *)
LEMMA ReadWhole ==
  ASSUME NEW f \in File, FileSound(f), NEW read \in Seq(Item), NEW buffered \in BOOLEAN,
         Len(read) = Len(f.bins),
         \A i \in DOMAIN read : read[i] = ReadAs(buffered, f.bins[i])
  PROVE  /\ ImportPool(read) = Ids(f)
         /\ \A h : h \in Hashes(read) <=> \E i \in DOMAIN f.bins : f.bins[i].hash = h
<1>1. /\ DOMAIN f.bins = 1 .. Len(f.bins) /\ Len(f.bins) \in Nat
      /\ DOMAIN read = 1 .. Len(read)
      /\ \A i \in DOMAIN f.bins : f.bins[i] \in Bin
  BY DEF File
<1>2. \A i \in DOMAIN read : read[i].hash = f.bins[i].hash
  BY <1>1, ReadAsIs DEF FileSound
<1>3. ImportPool(read) = Ids(f)
  BY <1>1, <1>2 DEF ImportPool, Ids
<1>4. \A h : h \in Hashes(read) <=> \E i \in DOMAIN read : read[i].hash = h
  BY <1>1, HashesIs
<1> QED BY <1>1, <1>2, <1>3, <1>4

(* The references of a file, by the ids of the file, give what it holds.    *)
LEMMA ResolvesToHeld ==
  ASSUME NEW f \in File, FileSound(f), NEW pool,
         \A i \in DOMAIN f.bins : f.bins[i].hash \in Hashes(pool)
  PROVE  Resolve(f.refs, Ids(f), pool) = Held(f)
<1>1. /\ DOMAIN f.bins = 1 .. Len(f.bins) /\ Len(f.bins) \in Nat
      /\ \A e \in Entry : f.refs[e] \in 0 .. Len(f.bins)
  BY DEF File, Refs, FileSound
<1>2. /\ DOMAIN Ids(f) = DOMAIN f.bins
      /\ \A i \in DOMAIN f.bins : Ids(f)[i] = f.bins[i].hash
  BY DEF Ids
<1>3. ASSUME NEW e \in Entry
      PROVE  ByRef(Ids(f), pool, f.refs[e])
               = IF f.refs[e] = 0 THEN None ELSE f.bins[f.refs[e]].hash
  <2>1. CASE f.refs[e] = 0
    <3>1. f.refs[e] \notin DOMAIN Ids(f)
      BY <1>1, <1>2, <2>1
    <3> QED BY <2>1, <3>1 DEF ByRef
  <2>2. CASE f.refs[e] # 0
    <3>1. f.refs[e] \in DOMAIN f.bins
      BY <1>1, <2>2
    <3> QED BY <1>2, <2>2, <3>1 DEF ByRef
  <2> QED BY <2>1, <2>2
<1> QED BY <1>3 DEF Resolve, Held

(* What the parser makes of a file is all of it unless blocks are missing.  *)
LEMMA DocumentsAre ==
  ASSUME NEW f \in File, NEW doc \in Documents(f)
  PROVE  /\ doc.refs \in Refs /\ doc.tail \in BOOLEAN
         /\ Whole(f) => doc.refs = f.refs /\ doc.tail = f.tail
<1>1. f.refs \in Refs /\ f.tail \in BOOLEAN
  BY DEF File
<1>2. [e \in Entry |-> 0] \in Refs
  BY DEF Refs
<1>3. PICK open \in LeftOpen(f) : doc = Committed(f, open)
  BY DEF Documents
<1>4. Whole(f) => open = "nothing"
  BY <1>3 DEF LeftOpen, Short, Whole
<1>5. /\ doc.refs = (IF open = "root" THEN [e \in Entry |-> 0] ELSE f.refs)
      /\ doc.tail = (open = "nothing" /\ f.tail)
  BY <1>3 DEF Committed
<1> QED BY <1>1, <1>2, <1>4, <1>5

(* Storing contents damages nothing and takes nothing away.                 *)
LEMMA PutIs ==
  ASSUME cache \in [Content -> {"none", "whole", "damaged"}], NEW hashes
  PROVE  /\ Put(hashes) \in [Content -> {"none", "whole", "damaged"}]
         /\ \A c \in Content : cache[c] = "whole" => Put(hashes)[c] = "whole"
         /\ CacheClean(cache) => /\ CacheClean(Put(hashes))
                                 /\ \A c \in Content \cap hashes : Put(hashes)[c] = "whole"
BY DEF Put, CacheClean

(* A disk reference that can be read back stays so while whole files stay.  *)
LEMMA BackedKept ==
  ASSUME NEW pool \in Seq(Item), NEW c, NEW d, Backed(pool, c),
         \A x \in Content : c[x] = "whole" => d[x] = "whole"
  PROVE  Backed(pool, d)
<1>1. \A x \in ToSet(pool) : \E i \in DOMAIN pool : x = pool[i]
  BY DEF ToSet
<1>2. \A x \in ToSet(pool) : x.hash \in Content
  BY <1>1, PoolHashes DEF Item
<1> QED BY <1>2 DEF Backed

(* Moving a pool to the cache, and the bytes with it.                       *)
LEMMA ToDiskBacked ==
  ASSUME cache \in [Content -> {"none", "whole", "damaged"}], CacheClean(cache),
         NEW pool \in Seq(Item), Backed(pool, cache)
  PROVE  Backed(ToDisk(pool), Put(ConvertedHashes(pool)))
<1> DEFINE new == Put(ConvertedHashes(pool))
<1>1. /\ \A c \in Content : cache[c] = "whole" => new[c] = "whole"
      /\ \A c \in Content \cap ConvertedHashes(pool) : new[c] = "whole"
  BY PutIs
<1> HIDE DEF new
<1>2. \A i \in DOMAIN pool : /\ pool[i] \in ToSet(pool) /\ pool[i].hash \in Content
                             /\ pool[i].at \in {"mem", "disk"}
  BY PoolHashes DEF Item
<1>3. CASE Converts(pool)
  <2>1. ConvertedHashes(pool) = {x.hash : x \in {y \in ToSet(pool) : y.at = "mem"}}
    BY <1>3 DEF ConvertedHashes
  <2>2. \A i \in DOMAIN pool : new[pool[i].hash] = "whole"
    BY <1>1, <1>2, <2>1 DEF Backed
  <2>3. ToDisk(pool) = [i \in DOMAIN pool |-> OnDisk(pool[i])]
    BY <1>3 DEF ToDisk
  <2>4. \A x \in ToSet(ToDisk(pool)) : \E i \in DOMAIN pool : x = OnDisk(pool[i])
    BY <2>3 DEF ToSet
  <2>5. \A i \in DOMAIN pool : OnDisk(pool[i]).hash = pool[i].hash
    BY DEF OnDisk
  <2>6. \A x \in ToSet(ToDisk(pool)) : new[x.hash] = "whole"
    BY <2>2, <2>4, <2>5
  <2> QED BY <2>6 DEF Backed, new
<1>4. CASE ~Converts(pool)
  <2>1. ToDisk(pool) = pool
    BY <1>4 DEF ToDisk
  <2> QED BY <1>1, <2>1, BackedKept DEF new
<1> QED BY <1>3, <1>4

-----------------------------------------------------------------------------
(* One step at a time.                                                      *)

LEMMA InitHolds == Init => FormatInv
<1> SUFFICES ASSUME Init PROVE FormatInv
  OBVIOUS
<1>1. file \in File /\ FileSound(file) /\ file.damage = "none"
  <2>1. /\ file.refs \in [Entry -> 0 .. MaxBins] /\ file.tail \in BOOLEAN
        /\ file.gzip \in BOOLEAN /\ file.stream \in BOOLEAN /\ file.damage = "none"
        /\ file = [bins |-> file.bins, refs |-> file.refs, tail |-> file.tail,
                   gzip |-> file.gzip, stream |-> file.stream, damage |-> file.damage]
        /\ \A e \in Entry : file.refs[e] <= Len(file.bins)
    BY DEF Init, Files
  <2>2. PICK n \in 0 .. MaxBins :
          file.bins \in [1 .. n -> {[hash |-> c, prot |-> c \in Protected] : c \in Content}]
    BY DEF Init, Files
  <2>3. \A x \in {[hash |-> c, prot |-> c \in Protected] : c \in Content} :
          x \in Bin /\ x.hash \in Content
    <3>1. \A c : (c \in Protected) \in BOOLEAN
      OBVIOUS
    <3>2. ASSUME NEW c \in Content, NEW b \in BOOLEAN
          PROVE  [hash |-> c, prot |-> b] \in Bin /\ [hash |-> c, prot |-> b].hash \in Content
      BY DEF Bin
    <3> QED BY <3>1, <3>2
  <2>4. n \in Nat
    BY <2>2, BoundAssumption
  <2>5. \A i \in DOMAIN file.bins : file.bins[i] \in Bin /\ file.bins[i].hash \in Content
    BY <2>2, <2>3
  <2>6. file.bins \in Seq(Bin)
    BY <2>2, <2>4, <2>5
  <2>7. file.refs \in Refs
    BY <2>1, BoundAssumption DEF Refs
  <2> QED BY <2>1, <2>5, <2>6, <2>7 DEF File, FileSound, Damages
<1>2. load \in Loads /\ LoadSound(load) /\ LoadClean(load, cache)
  BY DEF Init, Idle, Loads, LoadSound, LoadClean, Active
<1>3. save \in Saves /\ SaveSound(save) /\ SaveClean(save, cache)
  BY DEF Init, NotSaving, Saves, SaveSound, SaveClean
<1>4. /\ cache \in [Content -> {"none", "whole", "damaged"}] /\ CacheClean(cache)
      /\ count \in [{"loads", "saves", "edits", "faults"} -> Nat]
      /\ db \in Model \cup {None} /\ DbSound(db) /\ DbClean(db, cache)
  BY DEF Init, CacheClean, DbSound, DbClean
<1> QED BY <1>1, <1>2, <1>3, <1>4 DEF FormatInv, TypeOK, Sound, Clean

(* The counters of faults and of the rest.                                  *)
LEMMA CountIs ==
  ASSUME TypeOK, NEW what \in {"loads", "saves", "edits", "faults"}, Counted(what)
  PROVE  /\ count' \in [{"loads", "saves", "edits", "faults"} -> Nat]
         /\ what = "faults" => count'.faults # 0
         /\ what # "faults" => count'.faults = count.faults
BY DEF TypeOK, Counted

(* The next cache keeps what is whole, and no fault is taken back.          *)
Keeps ==
  /\ cache' \in [Content -> {"none", "whole", "damaged"}]
  /\ count' \in [{"loads", "saves", "edits", "faults"} -> Nat]
  /\ count'.faults = 0 =>
       /\ count.faults = 0
       /\ \A c \in Content : cache[c] = "whole" => cache'[c] = "whole"
       /\ CacheClean(cache) => CacheClean(cache')

(* What is not changed stays backed when the cache keeps what is whole.     *)
LEMMA CleanKept ==
  ASSUME FormatInv, Keeps, count'.faults = 0
  PROVE  /\ count.faults = 0 /\ file.damage = "none"
         /\ CacheClean(cache) /\ CacheClean(cache')
         /\ DbClean(db, cache) /\ DbClean(db, cache')
         /\ LoadClean(load, cache) /\ LoadClean(load, cache')
         /\ SaveClean(save, cache) /\ SaveClean(save, cache')
<1>1. /\ count.faults = 0 /\ file.damage = "none" /\ CacheClean(cache)
      /\ DbClean(db, cache) /\ LoadClean(load, cache) /\ SaveClean(save, cache)
  BY DEF FormatInv, Clean, Keeps
<1>2. \A c \in Content : cache[c] = "whole" => cache'[c] = "whole"
  BY DEF Keeps
<1>3. CacheClean(cache')
  BY <1>1 DEF Keeps
<1>4. \A pool \in Seq(Item) : Backed(pool, cache) => Backed(pool, cache')
  BY <1>2, BackedKept
<1>5. DbClean(db, cache')
  <2>1. db # None => db.pool \in Seq(Item)
    BY DEF FormatInv, TypeOK, Model
  <2> QED BY <1>1, <1>4, <2>1 DEF DbClean
<1>6. LoadClean(load, cache')
  <2>1. load.read \in Seq(Item)
    BY DEF FormatInv, TypeOK, Loads
  <2>2. load.pc = "ship" /\ load.container => load.parcel.pool \in Seq(Item)
    BY DEF FormatInv, Sound, LoadSound, ParcelSound, Parcel
  <2>3. load.pc = "ship" /\ ~load.container => load.model.pool \in Seq(Item)
    BY DEF FormatInv, Sound, LoadSound, ModelSound, Model
  <2> QED BY <1>1, <1>4, <2>1, <2>2, <2>3 DEF LoadClean
<1>7. SaveClean(save, cache')
  <2>1. save.pc = "write" => save.model.pool \in Seq(Item)
    BY DEF FormatInv, Sound, SaveSound, Model
  <2> QED BY <1>1, <1>4, <2>1 DEF SaveClean
<1> QED BY <1>1, <1>3, <1>5, <1>6, <1>7

(* A step that leaves cache and counters alone, one that counts, one that   *)
(* stores, and one with a fault.                                            *)
LEMMA KeepsSame == ASSUME FormatInv, UNCHANGED <<cache, count>> PROVE Keeps
BY DEF FormatInv, TypeOK, Keeps

LEMMA KeepsCounted ==
  ASSUME FormatInv, cache' = cache, NEW what \in {"loads", "saves", "edits"}, Counted(what)
  PROVE  Keeps
BY CountIs DEF FormatInv, TypeOK, Keeps

LEMMA KeepsPut ==
  ASSUME FormatInv, NEW hashes, cache' = Put(hashes),
         count' = count \/ Counted("edits")
  PROVE  Keeps
<1>1. /\ cache \in [Content -> {"none", "whole", "damaged"}]
      /\ count \in [{"loads", "saves", "edits", "faults"} -> Nat]
  BY DEF FormatInv, TypeOK
<1>2. /\ count' \in [{"loads", "saves", "edits", "faults"} -> Nat]
      /\ count'.faults = count.faults
  BY <1>1, CountIs DEF FormatInv
<1> QED BY <1>1, <1>2, PutIs DEF Keeps

LEMMA KeepsFault ==
  ASSUME FormatInv, Fault, cache' \in [Content -> {"none", "whole", "damaged"}]
  PROVE  Keeps /\ count'.faults # 0
BY CountIs DEF FormatInv, Keeps, Fault

(* A step of the load alone.                                                *)
LEMMA LoadFrame ==
  ASSUME FormatInv, Keeps, UNCHANGED <<file, db, save>>,
         load' \in Loads, LoadSound(load'),
         count'.faults = 0 => LoadClean(load', cache')
  PROVE  FormatInv'
<1>1. TypeOK'
  BY DEF FormatInv, TypeOK, Keeps
<1>2. Sound'
  BY DEF FormatInv, Sound
<1>3. Clean'
  BY CleanKept DEF Clean
<1> QED BY <1>1, <1>2, <1>3 DEF FormatInv

(* A load at rest.                                                          *)
LEMMA IdleIs ==
  /\ Idle \in Loads /\ Idle.pc = "idle" /\ Idle.container = FALSE
  /\ Idle.buffered = FALSE /\ Idle.read = <<>>
<1>1. <<>> \in Seq(Item)
  OBVIOUS
<1> QED BY <1>1 DEF Idle, Loads

(* A load that fails.                                                       *)
LEMMA FailIs ==
  ASSUME Fail
  PROVE  load' \in Loads /\ LoadSound(load') /\ load'.pc = "failed"
<1> DEFINE l == [Idle EXCEPT !.pc = "failed"]
<1>1. l \in Loads /\ l.pc = "failed" /\ l.container = FALSE
  BY IdleIs DEF Loads
<1>2. load' = l
  BY DEF Fail
<1> HIDE DEF l
<1>3. LoadSound(l)
  BY <1>1 DEF LoadSound, Active
<1> QED BY <1>1, <1>2, <1>3

LEMMA FailFrame ==
  ASSUME FormatInv, Keeps, UNCHANGED <<file, db, save>>, Fail, count'.faults # 0
  PROVE  FormatInv'
BY LoadFrame, FailIs

(* What the invariant says of a load on its way.                            *)
LEMMA LoadIs ==
  ASSUME FormatInv, load.pc \in Active
  PROVE  /\ load \in Loads /\ LoadSound(load)
         /\ load.src \in File /\ FileSound(load.src)
         /\ load.read \in Seq(Item) /\ load.buffered \in BOOLEAN /\ load.container \in BOOLEAN
         /\ load.src.bins \in Seq(Bin) /\ Len(load.src.bins) \in Nat
         /\ DOMAIN load.src.bins = 1 .. Len(load.src.bins)
<1>1. load \in Loads /\ LoadSound(load)
  BY DEF FormatInv, TypeOK, Sound
<1>2. load.src \in File /\ FileSound(load.src)
  BY <1>1 DEF LoadSound
<1>3. load.src.bins \in Seq(Bin)
  BY <1>2 DEF File
<1>4. load.read \in Seq(Item) /\ load.buffered \in BOOLEAN /\ load.container \in BOOLEAN
  BY <1>1 DEF Loads
<1> QED BY <1>1, <1>2, <1>3, <1>4

LEMMA LoadBeginKeeps ==
  ASSUME FormatInv, NEW worker \in BOOLEAN, LoadBegin(worker)
  PROVE  FormatInv'
<1> DEFINE l == [Idle EXCEPT !.pc = "decrypt", !.worker = worker, !.container = worker,
                             !.src = file]
<1>1. file \in File /\ FileSound(file)
  BY DEF FormatInv, TypeOK, Sound
<1>2. load' = l /\ UNCHANGED <<file, db, save, cache>> /\ Counted("loads")
  BY DEF LoadBegin
<1>3. /\ l \in Loads /\ l.pc = "decrypt" /\ l.container = worker /\ l.buffered = FALSE
      /\ l.src = file /\ l.read = <<>>
  BY <1>1, IdleIs DEF Loads
<1> HIDE DEF l
<1>6. LoadSound(l)
  BY <1>1, <1>3 DEF LoadSound, Active
<1>7. Keeps
  BY <1>2, KeepsCounted
<1>8. ASSUME count'.faults = 0 PROVE LoadClean(l, cache')
  <2>1. file.damage = "none"
    BY <1>7, <1>8, CleanKept
  <2> QED BY <1>3, <2>1 DEF LoadClean
<1> QED BY <1>2, <1>3, <1>6, <1>7, <1>8, LoadFrame

(* A container that is given up starts again on the way of the model.       *)
LEMMA ToModelKeeps ==
  ASSUME FormatInv, load.pc \in {"decrypt", "inflate"}, load.container, ToModel,
         UNCHANGED <<file, db, save, cache>>, Keeps
  PROVE  FormatInv'
<1> DEFINE l == [load EXCEPT !.pc = "decrypt", !.container = FALSE]
<1>1. load \in Loads /\ LoadSound(load) /\ load.src \in File /\ FileSound(load.src)
  BY LoadIs DEF Active
<1>2. load' = l
  BY DEF ToModel
<1>3. /\ l \in Loads /\ l.pc = "decrypt" /\ l.container = FALSE /\ l.src = load.src
      /\ l.read = load.read
  BY <1>1 DEF Loads
<1> HIDE DEF l
<1>4. LoadSound(l)
  BY <1>1, <1>3 DEF LoadSound, Active
<1>5. ASSUME count'.faults = 0 PROVE LoadClean(l, cache')
  <2>1. LoadClean(load, cache)
    BY <1>5, CleanKept
  <2> QED BY <1>3, <2>1 DEF LoadClean, Active
<1> QED BY <1>2, <1>3, <1>4, <1>5, LoadFrame

(* A file without damage passes every check.                                *)
LEMMA IntactPasses ==
  ASSUME NEW f, f.damage = "none" PROVE Verifies(f) /\ ~MayNotice(f) /\ Inflates(f) /\ ~Short(f)
BY DEF MayNotice, Verifies, StreamVerifies, BufferVerifies, Inflates, Short

LEMMA DecryptKeeps == ASSUME FormatInv, Decrypt PROVE FormatInv'
<1>1. load.pc = "decrypt" /\ UNCHANGED <<file, cache, db, save, count>>
  BY DEF Decrypt
<1>2. Keeps
  BY <1>1, KeepsSame
<1>3. load \in Loads /\ LoadSound(load) /\ load.src \in File /\ FileSound(load.src)
  BY <1>1, LoadIs DEF Active
<1>4. CASE load.container /\ ~load.src.stream
  BY <1>1, <1>2, <1>4, ToModelKeeps DEF Decrypt
<1>5. CASE Fail /\ (~Verifies(load.src) \/ MayNotice(load.src))
  <2>1. Fail
    BY <1>5
  <2>2. count'.faults # 0
    <3>1. SUFFICES ASSUME count'.faults = 0 PROVE FALSE
      OBVIOUS
    <3>2. LoadClean(load, cache)
      BY <1>2, <3>1, CleanKept
    <3> QED BY <1>1, <1>5, <3>2, IntactPasses DEF LoadClean, Active
  <2> QED BY <1>1, <1>2, <2>1, <2>2, FailFrame
<1>6. CASE /\ ~(load.container /\ ~load.src.stream) /\ Verifies(load.src)
           /\ load' = [load EXCEPT !.pc = "inflate", !.buffered = ~load.src.stream]
  <2> DEFINE l == [load EXCEPT !.pc = "inflate", !.buffered = ~load.src.stream]
  <2>1. load' = l
    BY <1>6 DEF Decrypt
  <2>2. load.src.stream \in BOOLEAN /\ (~load.src.stream) \in BOOLEAN
    BY <1>3 DEF File
  <2>3. /\ l \in Loads /\ l.pc = "inflate" /\ l.buffered = ~load.src.stream
        /\ l.src = load.src /\ l.read = load.read /\ l.container = load.container
    BY <1>3, <2>2 DEF Loads
  <2> HIDE DEF l
  <2>4. LoadSound(l)
    BY <1>1, <1>3, <1>6, <2>2, <2>3 DEF LoadSound, Active
  <2>5. ASSUME count'.faults = 0 PROVE LoadClean(l, cache')
    <3>1. LoadClean(load, cache)
      BY <1>2, <2>5, CleanKept
    <3> QED BY <1>1, <2>3, <3>1 DEF LoadClean, Active
  <2> QED BY <1>1, <1>2, <2>1, <2>3, <2>4, <2>5, LoadFrame
<1> QED BY <1>4, <1>5, <1>6 DEF Decrypt

(* The model given up for the buffer, or the container for the model.       *)
LEMMA FallbackKeeps ==
  ASSUME FormatInv, load.pc = "inflate", InflateFallback,
         UNCHANGED <<file, db, save, cache>>, Keeps
  PROVE  FormatInv'
<1>1. load \in Loads /\ LoadSound(load) /\ load.src \in File /\ FileSound(load.src)
  BY LoadIs DEF Active
<1>2. CASE load.container
  BY <1>2, ToModelKeeps DEF InflateFallback
<1>3. CASE ~load.container
  <2> DEFINE l == [load EXCEPT !.buffered = TRUE]
  <2>1. load' = l
    BY <1>3 DEF InflateFallback
  <2>2. /\ l \in Loads /\ l.pc = load.pc /\ l.buffered = TRUE
        /\ l.src = load.src /\ l.read = load.read /\ l.container = load.container
    BY <1>1 DEF Loads
  <2> HIDE DEF l
  <2>3. LoadSound(l)
    BY <1>1, <1>3, <2>2 DEF LoadSound, Active
  <2>4. ASSUME count'.faults = 0 PROVE LoadClean(l, cache')
    <3>1. LoadClean(load, cache)
      BY <2>4, CleanKept
    <3> QED BY <2>2, <3>1 DEF LoadClean, Active
  <2> QED BY <2>1, <2>2, <2>3, <2>4, LoadFrame
<1> QED BY <1>2, <1>3

LEMMA InflateKeeps == ASSUME FormatInv, Inflate PROVE FormatInv'
<1>1. load.pc = "inflate" /\ UNCHANGED <<file, cache, db, save, count>>
  BY DEF Inflate
<1>2. Keeps
  BY <1>1, KeepsSame
<1>3. load \in Loads /\ LoadSound(load) /\ load.src \in File /\ FileSound(load.src)
  BY <1>1, LoadIs DEF Active
<1>4. CASE Inflates(load.src)
  <2> DEFINE l == [load EXCEPT !.pc = "inner"]
  <2>1. load' = l
    BY <1>4 DEF Inflate
  <2>2. /\ l \in Loads /\ l.pc = "inner" /\ l.buffered = load.buffered
        /\ l.src = load.src /\ l.read = <<>> /\ l.container = load.container
    BY <1>1, <1>3 DEF Loads, LoadSound
  <2> HIDE DEF l
  <2>3. ReadSound(l)
    BY <1>1, <2>2, LoadIs DEF ReadSound, Active
  <2>4. LoadSound(l)
    BY <1>1, <1>3, <1>4, <2>2, <2>3 DEF LoadSound, Active
  <2>5. ASSUME count'.faults = 0 PROVE LoadClean(l, cache')
    <3>1. LoadClean(load, cache)
      BY <1>2, <2>5, CleanKept
    <3>2. Backed(<<>>, cache')
      BY DEF Backed, ToSet
    <3> QED BY <1>1, <2>2, <3>1, <3>2 DEF LoadClean, Active
  <2> QED BY <1>1, <1>2, <2>1, <2>2, <2>4, <2>5, LoadFrame
<1>5. CASE ~Inflates(load.src) /\ load.buffered
  <2>1. Fail
    BY <1>5 DEF Inflate
  <2>2. count'.faults # 0
    <3>1. SUFFICES ASSUME count'.faults = 0 PROVE FALSE
      OBVIOUS
    <3>2. LoadClean(load, cache)
      BY <1>2, <3>1, CleanKept
    <3> QED BY <1>1, <1>5, <3>2, IntactPasses DEF LoadClean, Active
  <2> QED BY <1>1, <1>2, <2>1, <2>2, FailFrame
<1>6. CASE ~Inflates(load.src) /\ ~load.buffered
  <2>1. InflateFallback
    BY <1>6 DEF Inflate
  <2> QED BY <1>1, <1>2, <2>1, FallbackKeeps
<1> QED BY <1>4, <1>5, <1>6

LEMMA InflateFailsKeeps == ASSUME FormatInv, InflateFails PROVE FormatInv'
<1>1. /\ load.pc = "inflate" /\ UNCHANGED <<file, cache, db, save>> /\ Fault
      /\ Fail \/ InflateFallback
  BY DEF InflateFails
<1>2. Keeps /\ count'.faults # 0
  BY <1>1, KeepsFault DEF FormatInv, TypeOK
<1> QED BY <1>1, <1>2, FailFrame, FallbackKeeps

(* The attachment that is read next.                                        *)
LEMMA NextBinIs ==
  ASSUME FormatInv, load.pc = "inner", ToRead
  PROVE  NextBin \in Bin /\ NextBin.hash \in Content
         /\ NextBin = load.src.bins[Len(load.read) + 1]
         /\ Len(load.read) + 1 \in DOMAIN load.src.bins
<1>1. /\ FileSound(load.src) /\ load.src.bins \in Seq(Bin)
      /\ Len(load.src.bins) \in Nat /\ DOMAIN load.src.bins = 1 .. Len(load.src.bins)
      /\ load.read \in Seq(Item)
  BY LoadIs DEF Active
<1>2. Len(load.read) \in Nat /\ Len(load.read) < Len(load.src.bins)
  BY <1>1 DEF ToRead
<1>3. Len(load.read) + 1 \in DOMAIN load.src.bins
  BY <1>1, <1>2
<1> QED BY <1>1, <1>3 DEF NextBin, FileSound

LEMMA ReadBinaryKeeps == ASSUME FormatInv, ReadBinary PROVE FormatInv'
<1> DEFINE bin == NextBin
           item == ReadAs(load.buffered, bin)
           read == Append(load.read, item)
           l == [load EXCEPT !.read = read]
           n == Len(load.read)
<1>1. /\ load.pc = "inner" /\ ~load.buffered /\ ToRead
      /\ UNCHANGED <<file, db, save, count>>
  BY DEF ReadBinary
<1>2. /\ load \in Loads /\ LoadSound(load) /\ load.src \in File /\ FileSound(load.src)
      /\ load.read \in Seq(Item) /\ load.buffered \in BOOLEAN
      /\ Len(load.src.bins) \in Nat /\ DOMAIN load.src.bins = 1 .. Len(load.src.bins)
  BY <1>1, LoadIs DEF Active
<1>3. /\ bin \in Bin /\ bin.hash \in Content /\ bin = load.src.bins[n + 1]
      /\ n + 1 \in DOMAIN load.src.bins
  BY <1>1, NextBinIs
<1>4. item = IF bin.hash \in Large THEN OnDisk(bin) ELSE InMemory(bin)
  BY <1>1 DEF ReadAs
<1>5. load' = l
  <2>1. Taken(item)
    BY <1>1, <1>4 DEF ReadBinary
  <2> QED BY <2>1 DEF Taken
<1>6. \/ bin.hash \in Large /\ cache' = Put({bin.hash})
      \/ bin.hash \notin Large /\ cache' = cache
  BY DEF ReadBinary
<1>7. item \in Item /\ item.hash = bin.hash
  BY <1>2, <1>3, ReadAsIs
<1>8. item.at = "disk" => bin.hash \in Large
  BY <1>3, <1>4, ReadAsIs
<1>9. Keeps
  BY <1>1, <1>6, KeepsPut, KeepsSame
<1> HIDE DEF bin, item
<1>10. /\ read \in Seq(Item) /\ Len(read) = n + 1 /\ n \in Nat
       /\ DOMAIN read = 1 .. n + 1 /\ DOMAIN load.read = 1 .. n
       /\ \A i \in 1 .. n : read[i] = load.read[i]
       /\ read[n + 1] = item
  BY <1>2, <1>7
<1> HIDE DEF read
<1>11. /\ l \in Loads /\ l.pc = "inner" /\ l.buffered = load.buffered /\ l.src = load.src
       /\ l.container = load.container /\ l.read = read
  BY <1>1, <1>2, <1>10 DEF Loads
<1> HIDE DEF l
<1>12. ReadSound(l)
  <2>1. ReadSound(load)
    BY <1>1, <1>2 DEF LoadSound
  <2>2. Len(read) <= Len(load.src.bins)
    BY <1>2, <1>3, <1>10
  <2>3. \A i \in 1 .. n + 1 : read[i] = ReadAs(load.buffered, load.src.bins[i])
    <3>1. \A i \in 1 .. n : read[i] = ReadAs(load.buffered, load.src.bins[i])
      BY <1>10, <2>1 DEF ReadSound
    <3>2. read[n + 1] = ReadAs(load.buffered, load.src.bins[n + 1])
      BY <1>3, <1>10 DEF item
    <3>3. \A i \in 1 .. n + 1 : i \in 1 .. n \/ i = n + 1
      BY <1>10
    <3> QED BY <3>1, <3>2, <3>3
  <2> QED BY <1>10, <1>11, <2>2, <2>3 DEF ReadSound
<1>13. LoadSound(l)
  BY <1>1, <1>2, <1>11, <1>12 DEF LoadSound, Active
<1>14. ASSUME count'.faults = 0 PROVE LoadClean(l, cache')
  <2>1. LoadClean(load, cache') /\ CacheClean(cache)
    BY <1>9, <1>14, CleanKept
  <2>2. Backed(load.read, cache')
    BY <1>1, <2>1 DEF LoadClean
  <2>3. item.at = "disk" => cache'[item.hash] = "whole"
    <3>1. SUFFICES ASSUME item.at = "disk" PROVE cache'[item.hash] = "whole"
      OBVIOUS
    <3>2. cache' = Put({bin.hash})
      BY <1>6, <1>8, <3>1
    <3>3. cache \in [Content -> {"none", "whole", "damaged"}]
      BY DEF FormatInv, TypeOK
    <3>4. \A c \in Content \cap {bin.hash} : Put({bin.hash})[c] = "whole"
      BY <2>1, <3>3, PutIs
    <3> QED BY <1>3, <1>7, <3>2, <3>4
  <2>4. \A x \in ToSet(read) : x \in ToSet(load.read) \/ x = item
    <3>1. \A x \in ToSet(read) : \E i \in 1 .. n + 1 : x = read[i]
      BY <1>10 DEF ToSet
    <3>2. \A i \in 1 .. n : load.read[i] \in ToSet(load.read)
      BY <1>10 DEF ToSet
    <3> QED BY <1>10, <3>1, <3>2
  <2>5. Backed(read, cache')
    BY <2>2, <2>3, <2>4 DEF Backed
  <2> QED BY <1>1, <1>11, <2>1, <2>5 DEF LoadClean, Active
<1> QED BY <1>1, <1>5, <1>9, <1>11, <1>13, <1>14, LoadFrame

LEMMA ReadBinaryFailsKeeps == ASSUME FormatInv, ReadBinaryFails PROVE FormatInv'
<1>1. /\ load.pc = "inner" /\ Fail /\ UNCHANGED <<file, cache, db, save>>
      /\ Fault
  BY DEF ReadBinaryFails
<1>2. Keeps /\ count'.faults # 0
  BY <1>1, KeepsFault DEF FormatInv, TypeOK
<1> QED BY <1>1, <1>2, FailFrame

LEMMA InnerEndsKeeps == ASSUME FormatInv, InnerEnds PROVE FormatInv'
<1>1. /\ load.pc = "inner" /\ Short(load.src) /\ Fail
      /\ UNCHANGED <<file, cache, db, save, count>>
  BY DEF InnerEnds
<1>2. Keeps
  BY <1>1, KeepsSame
<1>3. count'.faults # 0
  <2>1. SUFFICES ASSUME count'.faults = 0 PROVE FALSE
    OBVIOUS
  <2>2. LoadClean(load, cache)
    BY <1>2, <2>1, CleanKept
  <2> QED BY <1>1, <2>2, IntactPasses DEF LoadClean, Active
<1> QED BY <1>1, <1>2, <1>3, FailFrame

LEMMA ReadBufferedKeeps == ASSUME FormatInv, ReadBuffered PROVE FormatInv'
<1> DEFINE bins == load.src.bins
           read == [i \in DOMAIN bins |-> InMemory(bins[i])]
           l == [load EXCEPT !.read = read]
<1>1. load.pc = "inner" /\ load.buffered /\ UNCHANGED <<file, cache, db, save, count>>
  BY DEF ReadBuffered
<1>2. /\ load \in Loads /\ LoadSound(load) /\ load.src \in File /\ FileSound(load.src)
      /\ bins \in Seq(Bin) /\ Len(bins) \in Nat /\ DOMAIN bins = 1 .. Len(bins)
  BY <1>1, LoadIs DEF Active
<1>3. load' = l
  BY DEF ReadBuffered
<1>4. \A i \in DOMAIN bins : bins[i] \in Bin /\ bins[i].hash \in Content
  BY <1>2 DEF FileSound
<1>5. /\ read \in Seq(Item) /\ Len(read) = Len(bins) /\ DOMAIN read = DOMAIN bins
      /\ \A i \in DOMAIN bins : read[i] = InMemory(bins[i]) /\ read[i].at = "mem"
  <2>1. \A i \in DOMAIN bins : InMemory(bins[i]) \in Item /\ InMemory(bins[i]).at = "mem"
    BY <1>4, ReadAsIs
  <2> QED BY <1>2, <2>1
<1> HIDE DEF read
<1>6. /\ l \in Loads /\ l.pc = "inner" /\ l.buffered = TRUE /\ l.src = load.src
      /\ l.container = load.container /\ l.read = read
  BY <1>1, <1>2, <1>5 DEF Loads
<1> HIDE DEF l
<1>7. ReadSound(l)
  BY <1>2, <1>5, <1>6 DEF ReadSound, ReadAs
<1>8. LoadSound(l)
  BY <1>1, <1>2, <1>6, <1>7 DEF LoadSound, Active
<1>9. Keeps
  BY <1>1, KeepsSame
<1>10. ASSUME count'.faults = 0 PROVE LoadClean(l, cache')
  <2>1. LoadClean(load, cache)
    BY <1>9, <1>10, CleanKept
  <2>2. \A x \in ToSet(read) : x.at = "mem"
    BY <1>5 DEF ToSet
  <2>3. Backed(read, cache')
    BY <2>2 DEF Backed
  <2> QED BY <1>1, <1>6, <2>1, <2>3 DEF LoadClean, Active
<1> QED BY <1>1, <1>3, <1>6, <1>8, <1>9, <1>10, LoadFrame

(* When the attachments have been read, the pool as the hashes resolve: it  *)
(* holds what the file holds, and in the order of the file if the file is   *)
(* in order.                                                                *)
LEMMA ResolvedLoad ==
  ASSUME FormatInv, load.pc = "inner", ~ToRead
  PROVE  /\ Resolved(load.read) \in Seq(Item)
         /\ ToSet(Resolved(load.read)) \subseteq ToSet(load.read)
         /\ ComputeHashes(load.read) = [ids |-> Ids(load.src), pool |-> Resolved(load.read)]
         /\ \A i \in DOMAIN load.src.bins :
              load.src.bins[i].hash \in Hashes(Resolved(load.read))
         /\ ~load.buffered /\ InOrder(load.src) =>
              ImportPool(Resolved(load.read)) = Ids(load.src)
<1> DEFINE f == load.src
           read == load.read
<1>1. /\ load \in Loads /\ LoadSound(load) /\ f \in File /\ FileSound(f)
      /\ read \in Seq(Item) /\ load.buffered \in BOOLEAN
      /\ f.bins \in Seq(Bin) /\ Len(f.bins) \in Nat /\ DOMAIN f.bins = 1 .. Len(f.bins)
  BY LoadIs DEF Active
<1>2. /\ Len(read) = Len(f.bins)
      /\ \A i \in DOMAIN read : read[i] = ReadAs(load.buffered, f.bins[i])
  <2>1. ReadSound(load)
    BY <1>1 DEF LoadSound
  <2>2. Len(read) \in Nat /\ ~(Len(read) < Len(f.bins))
    BY <1>1 DEF ToRead
  <2> QED BY <1>1, <2>1, <2>2 DEF ReadSound
<1>3. /\ ImportPool(read) = Ids(f)
      /\ \A h : h \in Hashes(read) <=> \E i \in DOMAIN f.bins : f.bins[i].hash = h
  <2> HIDE DEF f, read
  <2> QED BY <1>1, <1>2, ReadWhole
<1>4. /\ Resolved(read) \in Seq(Item) /\ Hashes(Resolved(read)) = Hashes(read)
      /\ ToSet(Resolved(read)) \subseteq ToSet(read)
  BY <1>1, ResolvedIs
<1>5. ComputeHashes(read) = [ids |-> Ids(f), pool |-> Resolved(read)]
  BY <1>3 DEF ComputeHashes, ImportPool
<1>6. \A i \in DOMAIN f.bins : f.bins[i].hash \in Hashes(Resolved(read))
  BY <1>3, <1>4
<1>7. ASSUME ~load.buffered, InOrder(f)
      PROVE  ImportPool(Resolved(read)) = Ids(f)
  <2>1. DOMAIN read = DOMAIN f.bins
    BY <1>1, <1>2
  <2>2. \A i \in DOMAIN read :
          read[i] = IF f.bins[i].hash \in Large THEN OnDisk(f.bins[i]) ELSE InMemory(f.bins[i])
    BY <1>2, <1>7 DEF ReadAs
  <2>3. \A i \in DOMAIN read : read[i].hash = f.bins[i].hash
    <3>1. \A bin : OnDisk(bin).hash = bin.hash /\ InMemory(bin).hash = bin.hash
      BY DEF OnDisk, InMemory
    <3> QED BY <2>2, <3>1
  <2>4. \A i, j \in DOMAIN f.bins :
          i < j => /\ f.bins[i].hash # f.bins[j].hash
                   /\ Turns(IF f.bins[i].hash \in Large THEN OnDisk(f.bins[i])
                            ELSE InMemory(f.bins[i]))
                        <= Turns(IF f.bins[j].hash \in Large THEN OnDisk(f.bins[j])
                                 ELSE InMemory(f.bins[j]))
    BY <1>7 DEF InOrder
  <2>5. \A i, j \in DOMAIN read :
          i < j => read[i].hash # read[j].hash /\ Turns(read[i]) <= Turns(read[j])
    BY <2>1, <2>2, <2>3, <2>4
  <2>6. Resolved(read) = read
    <3> HIDE DEF read
    <3> QED BY <1>1, <2>5, ResolvedInOrder
  <2> QED BY <1>3, <2>6
<1> QED BY <1>4, <1>5, <1>6, <1>7

LEMMA WriteContainerKeeps == ASSUME FormatInv, WriteContainer PROVE FormatInv'
<1> DEFINE f == load.src
           pool == Resolved(load.read)
<1>1. /\ load.pc = "inner" /\ load.container /\ ~ToRead
      /\ UNCHANGED <<file, cache, db, save, count>>
  BY DEF WriteContainer
<1>2. PICK doc \in Documents(f) :
        load' = [load EXCEPT !.pc = "ship", !.read = <<>>,
                             !.parcel = Container(ComputeHashes(load.read), doc)]
  BY DEF WriteContainer
<1>3. load \in Loads /\ LoadSound(load) /\ f \in File /\ FileSound(f)
  BY <1>1, LoadIs DEF Active
<1>4. /\ pool \in Seq(Item) /\ ToSet(pool) \subseteq ToSet(load.read)
      /\ ComputeHashes(load.read) = [ids |-> Ids(f), pool |-> pool]
      /\ ~load.buffered /\ InOrder(f) => ImportPool(pool) = Ids(f)
  BY <1>1, ResolvedLoad
<1>5. /\ doc.refs \in Refs /\ doc.tail \in BOOLEAN
      /\ Whole(f) => doc.refs = f.refs /\ doc.tail = f.tail
  BY <1>3, DocumentsAre
<1> DEFINE p == Container(ComputeHashes(load.read), doc)
           l == [load EXCEPT !.pc = "ship", !.read = <<>>, !.parcel = p]
<1> HIDE DEF pool
<1>6. p = [pool |-> pool, refs |-> doc.refs, tail |-> doc.tail]
  BY <1>4 DEF Container
<1>7. load' = l
  BY <1>2
<1> HIDE DEF p
<1>8. p \in Parcel /\ p.pool = pool /\ p.refs = doc.refs /\ p.tail = doc.tail
  BY <1>4, <1>5, <1>6 DEF Parcel
<1>9. <<>> \in Seq(Item)
  OBVIOUS
<1>10. /\ l \in Loads /\ l.pc = "ship" /\ l.buffered = load.buffered /\ l.src = f
       /\ l.container = load.container /\ l.read = <<>> /\ l.parcel = p
  BY <1>1, <1>3, <1>8, <1>9 DEF Loads
<1> HIDE DEF l
<1>11. ~load.buffered
  BY <1>1, <1>3 DEF LoadSound
<1>12. ParcelSound(p, f)
  BY <1>4, <1>5, <1>8, <1>11 DEF ParcelSound
<1>13. LoadSound(l)
  BY <1>1, <1>3, <1>10, <1>12 DEF LoadSound, Active
<1>14. Keeps
  BY <1>1, KeepsSame
<1>15. ASSUME count'.faults = 0 PROVE LoadClean(l, cache')
  <2>1. LoadClean(load, cache')
    BY <1>14, <1>15, CleanKept
  <2>2. Backed(pool, cache')
    BY <1>1, <1>4, <2>1 DEF LoadClean, Backed
  <2> QED BY <1>1, <1>8, <1>10, <2>1, <2>2 DEF LoadClean, Active
<1> QED BY <1>1, <1>7, <1>10, <1>13, <1>14, <1>15, LoadFrame

LEMMA ParseModelKeeps == ASSUME FormatInv, ParseModel PROVE FormatInv'
<1> DEFINE f == load.src
           pool == Resolved(load.read)
<1>1. /\ load.pc = "inner" /\ ~load.container /\ ~ToRead
      /\ load.buffered => ~Short(f)
      /\ UNCHANGED <<file, db, save, count>>
  BY DEF ParseModel, Readable
<1>2. load \in Loads /\ LoadSound(load) /\ f \in File /\ FileSound(f)
  BY <1>1, LoadIs DEF Active
<1>3. /\ pool \in Seq(Item) /\ ToSet(pool) \subseteq ToSet(load.read)
      /\ ComputeHashes(load.read) = [ids |-> Ids(f), pool |-> pool]
      /\ \A i \in DOMAIN f.bins : f.bins[i].hash \in Hashes(pool)
  BY <1>1, ResolvedLoad
<1> HIDE DEF pool
<1>hashed. ComputeHashes(load.read).pool = pool /\ ComputeHashes(load.read).ids = Ids(f)
  BY <1>3
<1>4. PICK doc \in Documents(f) :
        load' = [load EXCEPT !.pc = "ship", !.read = <<>>,
                   !.model = [pool |-> ToDisk(pool),
                              att |-> Resolve(doc.refs, Ids(f), pool),
                              tail |-> doc.tail]]
  BY <1>hashed DEF ParseModel
<1>5. cache' = Put(ConvertedHashes(pool))
  BY <1>hashed DEF ParseModel
<1>6. /\ doc.refs \in Refs /\ doc.tail \in BOOLEAN
      /\ Whole(f) => doc.refs = f.refs /\ doc.tail = f.tail
  BY <1>2, DocumentsAre
<1> DEFINE att == Resolve(doc.refs, Ids(f), pool)
           m == [pool |-> ToDisk(pool), att |-> att, tail |-> doc.tail]
           l == [load EXCEPT !.pc = "ship", !.read = <<>>, !.model = m]
<1>7. load' = l
  BY <1>4
<1>8. /\ ToDisk(pool) \in Seq(Item) /\ Hashes(ToDisk(pool)) = Hashes(pool)
  BY <1>3, ToDiskIs
<1>9. /\ att \in [Entry -> Content \cup {None}]
      /\ \A e \in Entry : att[e] # None => att[e] \in Hashes(pool)
  BY <1>3, ResolveIs
<1>10. Whole(f) => att = Held(f)
  BY <1>2, <1>3, <1>6, ResolvesToHeld
<1> HIDE DEF att
<1>11. m \in Model /\ m.pool = ToDisk(pool) /\ m.att = att /\ m.tail = doc.tail
  BY <1>6, <1>8, <1>9 DEF Model
<1> HIDE DEF m
<1>12. ModelSound(m, f)
  BY <1>6, <1>8, <1>9, <1>10, <1>11 DEF ModelSound, Bound
<1>13. <<>> \in Seq(Item)
  OBVIOUS
<1>14. /\ l \in Loads /\ l.pc = "ship" /\ l.buffered = load.buffered /\ l.src = f
       /\ l.container = load.container /\ l.read = <<>> /\ l.model = m
  BY <1>1, <1>2, <1>11, <1>13 DEF Loads
<1> HIDE DEF l
<1>15. LoadSound(l)
  BY <1>1, <1>2, <1>12, <1>14 DEF LoadSound, Active
<1>16. Keeps
  BY <1>1, <1>5, KeepsPut
<1>17. ASSUME count'.faults = 0 PROVE LoadClean(l, cache')
  <2>1. LoadClean(load, cache) /\ CacheClean(cache)
    BY <1>16, <1>17, CleanKept
  <2>2. Backed(pool, cache)
    BY <1>1, <1>3, <2>1 DEF LoadClean, Backed
  <2>3. Backed(ToDisk(pool), cache')
    BY <1>3, <1>5, <2>1, <2>2, ToDiskBacked DEF FormatInv, TypeOK
  <2> QED BY <1>1, <1>11, <1>14, <2>1, <2>3 DEF LoadClean, Active
<1> QED BY <1>1, <1>7, <1>14, <1>15, <1>16, <1>17, LoadFrame

LEMMA ConvertFailsKeeps == ASSUME FormatInv, ConvertFails PROVE FormatInv'
<1>1. Fault /\ Fail /\ UNCHANGED <<file, cache, db, save>>
  BY DEF ConvertFails
<1>2. Keeps /\ count'.faults # 0
  BY <1>1, KeepsFault DEF FormatInv, TypeOK
<1> QED BY <1>1, <1>2, FailFrame

(* A step of the open database alone, or of it and the load.                *)
LEMMA DbFrame ==
  ASSUME FormatInv, Keeps, UNCHANGED <<file, save>>,
         db' \in Model, Bound(db'),
         count'.faults = 0 => DbClean(db', cache'),
         load' \in Loads, LoadSound(load'),
         count'.faults = 0 => LoadClean(load', cache')
  PROVE  FormatInv'
<1>1. TypeOK'
  BY DEF FormatInv, TypeOK, Keeps
<1>2. Sound'
  BY DEF FormatInv, Sound, DbSound
<1>3. Clean'
  BY CleanKept DEF Clean
<1> QED BY <1>1, <1>2, <1>3 DEF FormatInv

(* What arrives, on whichever way it crosses.                               *)
LEMMA ReceivedIs ==
  ASSUME FormatInv, load.pc = "ship"
  PROVE  /\ Received \in Model /\ Bound(Received)
         /\ Received.pool = IF load.container THEN load.parcel.pool ELSE load.model.pool
         /\ Whole(load.src) /\ (load.container => InOrder(load.src)) =>
              Received.att = Held(load.src) /\ Received.tail = load.src.tail
<1>1. /\ LoadSound(load) /\ load.src \in File /\ FileSound(load.src)
      /\ load.src.bins \in Seq(Bin)
  BY LoadIs DEF Active
<1>2. CASE load.container
  <2> DEFINE p == load.parcel
             f == load.src
  <2>1. ParcelSound(p, f)
    BY <1>1, <1>2 DEF LoadSound
  <2>2. Received = Import(p)
    BY <1>2 DEF Received
  <2> HIDE DEF p, f
  <2>3. p \in Parcel /\ p.pool \in Seq(Item)
    BY <2>1 DEF ParcelSound, Parcel
  <2>4. /\ Import(p) \in Model /\ Bound(Import(p)) /\ Import(p).pool = p.pool
        /\ Import(p).tail = p.tail
        /\ Import(p).att = Resolve(p.refs, ImportPool(p.pool), p.pool)
    BY <2>3, ImportIs
  <2>5. ASSUME Whole(f), InOrder(f)
        PROVE  Import(p).att = Held(f) /\ Import(p).tail = f.tail
    <3>1. ImportPool(p.pool) = Ids(f) /\ p.refs = f.refs /\ p.tail = f.tail
      BY <2>1, <2>5 DEF ParcelSound
    <3>2. \A i \in DOMAIN f.bins : f.bins[i].hash \in Hashes(p.pool)
      <4>1. DOMAIN p.pool = DOMAIN f.bins
        BY <3>1 DEF ImportPool, Ids
      <4>2. \A i \in DOMAIN f.bins : p.pool[i].hash = f.bins[i].hash
        <5>1. \A i \in DOMAIN f.bins : ImportPool(p.pool)[i] = Ids(f)[i]
          BY <3>1
        <5> QED BY <4>1, <5>1 DEF ImportPool, Ids
      <4> QED BY <2>3, <4>1, <4>2, PoolHashes
    <3>3. Resolve(f.refs, Ids(f), p.pool) = Held(f)
      BY <1>1, <3>2, ResolvesToHeld DEF f
    <3> QED BY <2>4, <3>1, <3>3
  <2> QED BY <1>2, <2>2, <2>4, <2>5 DEF p, f
<1>3. CASE ~load.container
  <2> DEFINE m == load.model
  <2>1. ModelSound(m, load.src)
    BY <1>1, <1>3 DEF LoadSound
  <2>2. Received = m
    <3>1. Import(Snapshot(m)) = m
      BY <2>1, SnapshotIs DEF ModelSound
    <3> QED BY <1>3, <3>1 DEF Received
  <2> QED BY <1>3, <2>1, <2>2 DEF ModelSound
<1> QED BY <1>2, <1>3

LEMMA ArriveKeeps == ASSUME FormatInv, Arrive PROVE FormatInv'
<1> DEFINE l == [Idle EXCEPT !.pc = "done"]
<1>1. /\ load.pc = "ship" /\ db' = Received /\ load' = l
      /\ UNCHANGED <<file, cache, save, count>>
  BY DEF Arrive
<1>2. /\ Received \in Model /\ Bound(Received)
      /\ Received.pool = IF load.container THEN load.parcel.pool ELSE load.model.pool
  BY <1>1, ReceivedIs
<1>3. l \in Loads /\ l.pc = "done" /\ l.container = FALSE
  BY IdleIs DEF Loads
<1> HIDE DEF l
<1>4. LoadSound(l) /\ LoadClean(l, cache')
  BY <1>3 DEF LoadSound, LoadClean, Active
<1>5. Keeps
  BY <1>1, KeepsSame
<1>6. ASSUME count'.faults = 0 PROVE DbClean(db', cache')
  <2>1. LoadClean(load, cache')
    BY <1>5, <1>6, CleanKept
  <2> QED BY <1>1, <1>2, <2>1 DEF LoadClean, DbClean
<1> QED BY <1>1, <1>2, <1>3, <1>4, <1>5, <1>6, DbFrame

(* A step that leaves the load alone.                                       *)
LEMMA DbOnlyFrame ==
  ASSUME FormatInv, Keeps, UNCHANGED <<file, save, load>>,
         db' \in Model, Bound(db'), count'.faults = 0 => DbClean(db', cache')
  PROVE  FormatInv'
<1>1. load' \in Loads /\ LoadSound(load')
  BY DEF FormatInv, TypeOK, Sound
<1>2. count'.faults = 0 => LoadClean(load', cache')
  BY CleanKept
<1> QED BY <1>1, <1>2, DbFrame

LEMMA AttachKeeps ==
  ASSUME FormatInv, NEW e \in Entry, NEW c \in Content, Attach(e, c)
  PROVE  FormatInv'
<1> DEFINE item == InMemory([hash |-> c, prot |-> FALSE])
           pool == SetItem(db.pool, item)
           att == [db.att EXCEPT ![e] = c]
<1>1. db # None /\ Counted("edits") /\ UNCHANGED <<file, load, save>>
  BY DEF Attach, Edit
<1>2. db \in Model /\ Bound(db) /\ db.pool \in Seq(Item)
  BY <1>1 DEF FormatInv, TypeOK, Sound, DbSound, Model
<1>3. item \in Item /\ item.hash = c /\ item.at = "mem"
  BY DEF InMemory, Item
<1>4. /\ db' = [db EXCEPT !.pool = ToDisk(pool), !.att[e] = c]
      /\ cache' = Put(ConvertedHashes(pool))
  BY DEF Attach
<1> HIDE DEF item
<1>5. /\ pool \in Seq(Item) /\ Hashes(pool) = Hashes(db.pool) \cup {c}
      /\ ToSet(pool) \subseteq ToSet(db.pool) \cup {item}
  BY <1>2, <1>3, SetItemIs
<1> HIDE DEF pool
<1>6. ToDisk(pool) \in Seq(Item) /\ Hashes(ToDisk(pool)) = Hashes(pool)
  BY <1>5, ToDiskIs
<1>7. /\ att \in [Entry -> Content \cup {None}]
      /\ \A x \in Entry : att[x] = IF x = e THEN c ELSE db.att[x]
  BY <1>2 DEF Model
<1>8. db'.pool = ToDisk(pool) /\ db'.att = att /\ db' \in Model
  BY <1>2, <1>4, <1>6, <1>7 DEF Model
<1>9. Bound(db')
  BY <1>2, <1>5, <1>6, <1>7, <1>8 DEF Bound
<1>10. Keeps
  BY <1>1, <1>4, KeepsPut
<1>11. ASSUME count'.faults = 0 PROVE DbClean(db', cache')
  <2>1. DbClean(db, cache) /\ CacheClean(cache)
    BY <1>10, <1>11, CleanKept
  <2>2. Backed(pool, cache)
    BY <1>1, <1>3, <1>5, <2>1 DEF DbClean, Backed
  <2>3. Backed(ToDisk(pool), cache')
    BY <1>4, <1>5, <2>1, <2>2, ToDiskBacked DEF FormatInv, TypeOK
  <2> QED BY <1>8, <2>3 DEF DbClean
<1> QED BY <1>1, <1>8, <1>9, <1>10, <1>11, DbOnlyFrame

LEMMA RemoveEntryKeeps ==
  ASSUME FormatInv, NEW e \in Entry, RemoveEntry(e)
  PROVE  FormatInv'
<1> DEFINE att == [db.att EXCEPT ![e] = None]
           used == {i \in DOMAIN db.pool : \E x \in Entry : att[x] = db.pool[i].hash}
           pool == SetAll(<<>>, db.pool, used)
<1>1. /\ db # None /\ Counted("edits") /\ UNCHANGED <<file, load, save, cache>>
      /\ db' = [db EXCEPT !.att = att, !.pool = Compacted(@, att)]
  BY DEF RemoveEntry, Edit
<1>2. db \in Model /\ Bound(db) /\ db.pool \in Seq(Item)
  BY <1>1 DEF FormatInv, TypeOK, Sound, DbSound, Model
<1>3. Compacted(db.pool, att) = pool
  BY DEF Compacted
<1>4. /\ att \in [Entry -> Content \cup {None}]
      /\ \A x \in Entry : att[x] = IF x = e THEN None ELSE db.att[x]
  BY <1>2 DEF Model
<1>5. used \in SUBSET (DOMAIN db.pool)
  OBVIOUS
<1> HIDE DEF att, used
<1>6. /\ pool \in Seq(Item)
      /\ Hashes(pool) = Hashes(<<>>) \cup {db.pool[i].hash : i \in used}
      /\ ToSet(pool) \subseteq ToSet(<<>>) \cup ToSet(db.pool)
  <2>1. <<>> \in Seq(Item)
    OBVIOUS
  <2> QED BY <1>2, <1>5, <2>1, SetAllIs
<1>7. ToSet(<<>>) = {}
  BY DEF ToSet
<1> HIDE DEF pool
<1>8. db'.pool = pool /\ db'.att = att /\ db' \in Model
  BY <1>1, <1>2, <1>3, <1>4, <1>6 DEF Model
<1>9. Bound(db')
  <2>1. ASSUME NEW x \in Entry, att[x] # None PROVE att[x] \in Hashes(pool)
    <3>1. att[x] \in Hashes(db.pool)
      BY <1>2, <1>4, <2>1 DEF Bound
    <3>2. PICK i \in DOMAIN db.pool : db.pool[i].hash = att[x]
      BY <1>2, <3>1, PoolHashes, HashesIs
    <3>3. i \in used
      BY <3>2 DEF used
    <3> QED BY <1>6, <3>2, <3>3
  <2> QED BY <1>8, <2>1 DEF Bound
<1>10. Keeps
  BY <1>1, KeepsCounted
<1>11. ASSUME count'.faults = 0 PROVE DbClean(db', cache')
  <2>1. DbClean(db, cache')
    BY <1>10, <1>11, CleanKept
  <2> QED BY <1>1, <1>6, <1>7, <1>8, <2>1 DEF DbClean, Backed
<1> QED BY <1>1, <1>8, <1>9, <1>10, <1>11, DbOnlyFrame

(* A step of the save alone.                                                *)
LEMMA SaveFrame ==
  ASSUME FormatInv, Keeps, UNCHANGED <<file, db, load>>,
         save' \in Saves, SaveSound(save'),
         count'.faults = 0 => SaveClean(save', cache')
  PROVE  FormatInv'
<1>1. TypeOK'
  BY DEF FormatInv, TypeOK, Keeps
<1>2. Sound'
  BY DEF FormatInv, Sound
<1>3. Clean'
  BY CleanKept DEF Clean
<1> QED BY <1>1, <1>2, <1>3 DEF FormatInv

LEMMA NotSavingIs == NotSaving \in Saves
<1>1. <<>> \in Seq(Bin)
  OBVIOUS
<1> QED BY <1>1 DEF NotSaving, Saves

LEMMA SaveBeginKeeps == ASSUME FormatInv, SaveBegin PROVE FormatInv'
<1>1. /\ db # None /\ Counted("saves") /\ UNCHANGED <<file, cache, db, load>>
      /\ save' = [pc |-> "write", model |-> Import(Snapshot(db)), asked |-> db.att, out |-> <<>>]
  BY DEF SaveBegin
<1>2. db \in Model /\ Bound(db) /\ db.att \in [Entry -> Content \cup {None}]
  BY <1>1 DEF FormatInv, TypeOK, Sound, DbSound, Model
<1>3. Import(Snapshot(db)) = db
  BY <1>2, SnapshotIs
<1>4. save' = [pc |-> "write", model |-> db, asked |-> db.att, out |-> <<>>]
  BY <1>1, <1>3
<1>5. save' \in Saves
  <2>1. <<>> \in Seq(Bin)
    OBVIOUS
  <2> QED BY <1>2, <1>4, <2>1 DEF Saves
<1>6. SaveSound(save')
  <2>1. db.pool \in Seq(Item)
    BY <1>2 DEF Model
  <2> QED BY <1>2, <1>4, <2>1 DEF SaveSound
<1>7. Keeps
  BY <1>1, KeepsCounted
<1>8. ASSUME count'.faults = 0 PROVE SaveClean(save', cache')
  <2>1. DbClean(db, cache')
    BY <1>7, <1>8, CleanKept
  <2> QED BY <1>1, <1>4, <2>1 DEF SaveClean, DbClean
<1> QED BY <1>1, <1>5, <1>6, <1>7, <1>8, SaveFrame

(* A save that fails.                                                       *)
LEMMA SaveFailedKeeps ==
  ASSUME FormatInv, Keeps, UNCHANGED <<file, db, load>>, SaveFailed, count'.faults # 0
  PROVE  FormatInv'
<1>1. save' \in Saves /\ save'.pc = "failed"
  BY NotSavingIs DEF SaveFailed, Saves
<1>2. SaveSound(save')
  BY <1>1 DEF SaveSound
<1> QED BY <1>1, <1>2, SaveFrame

(* What the invariant says of a save that writes.                           *)
LEMMA SaveIs ==
  ASSUME FormatInv, save.pc = "write"
  PROVE  /\ save \in Saves /\ SaveSound(save)
         /\ save.model \in Model /\ Bound(save.model) /\ save.model.att = save.asked
         /\ save.model.pool \in Seq(Item) /\ save.out \in Seq(Bin)
         /\ DOMAIN save.model.pool = 1 .. Len(save.model.pool)
         /\ Len(save.model.pool) \in Nat
         /\ DOMAIN save.out = 1 .. Len(save.out) /\ Len(save.out) \in Nat
         /\ Len(save.out) <= Len(save.model.pool)
         /\ \A i \in DOMAIN save.out : save.out[i].hash = save.model.pool[i].hash
<1>1. save \in Saves /\ SaveSound(save)
  BY DEF FormatInv, TypeOK, Sound
<1>2. save.model \in Model /\ save.out \in Seq(Bin)
  BY <1>1 DEF SaveSound, Saves
<1>3. save.model.pool \in Seq(Item)
  BY <1>2 DEF Model
<1> QED BY <1>1, <1>2, <1>3 DEF SaveSound

LEMMA WriteBinaryKeeps == ASSUME FormatInv, WriteBinary PROVE FormatInv'
<1> DEFINE item == NextItem
           n == Len(save.out)
           bin == [hash |-> item.hash, prot |-> item.prot]
           out == Append(save.out, bin)
           s == [save EXCEPT !.out = out]
<1>1. save.pc = "write" /\ ToWrite /\ UNCHANGED <<file, cache, db, load, count>>
  BY DEF WriteBinary
<1>2. Keeps
  BY <1>1, KeepsSame
<1>3. /\ save \in Saves /\ save.model \in Model /\ Bound(save.model)
      /\ save.model.att = save.asked
      /\ save.model.pool \in Seq(Item) /\ save.out \in Seq(Bin)
      /\ DOMAIN save.model.pool = 1 .. Len(save.model.pool) /\ Len(save.model.pool) \in Nat
      /\ DOMAIN save.out = 1 .. n /\ n \in Nat
      /\ \A i \in DOMAIN save.out : save.out[i].hash = save.model.pool[i].hash
  BY <1>1, SaveIs
<1>4. n + 1 \in DOMAIN save.model.pool
  BY <1>1, <1>3 DEF ToWrite
<1>5. item = save.model.pool[n + 1] /\ item \in Item /\ item \in ToSet(save.model.pool)
  BY <1>3, <1>4, PoolHashes DEF NextItem
<1>6. CASE item.at = "mem" \/ Serves(item.hash)
  <2>1. ~(item.at = "disk" /\ cache[item.hash] = "damaged")
    BY <1>6 DEF Serves
  <2>2. Written(item.hash)
    BY <1>6, <2>1 DEF WriteBinary
  <2>3. save' = s
    BY <2>2 DEF Written
  <2> HIDE DEF item
  <2>4. bin \in Bin /\ bin.hash = item.hash
    BY <1>5 DEF Bin, Item
  <2> HIDE DEF bin
  <2>5. /\ out \in Seq(Bin) /\ Len(out) = n + 1 /\ DOMAIN out = 1 .. n + 1
        /\ \A i \in 1 .. n : out[i] = save.out[i]
        /\ out[n + 1] = bin
    BY <1>3, <2>4
  <2> HIDE DEF out
  <2>6. /\ s \in Saves /\ s.pc = "write" /\ s.model = save.model /\ s.asked = save.asked
        /\ s.out = out
    BY <1>1, <1>3, <2>5 DEF Saves
  <2> HIDE DEF s
  <2>7. \A i \in 1 .. n + 1 : out[i].hash = save.model.pool[i].hash
    <3>1. \A i \in 1 .. n : out[i].hash = save.model.pool[i].hash
      BY <1>3, <2>5
    <3>2. out[n + 1].hash = save.model.pool[n + 1].hash
      BY <1>5, <2>4, <2>5
    <3>3. \A i \in 1 .. n + 1 : i \in 1 .. n \/ i = n + 1
      BY <1>3
    <3> QED BY <3>1, <3>2, <3>3
  <2>8. SaveSound(s)
    BY <1>3, <1>4, <2>5, <2>6, <2>7 DEF SaveSound
  <2>9. ASSUME count'.faults = 0 PROVE SaveClean(s, cache')
    <3>1. SaveClean(save, cache')
      BY <1>2, <2>9, CleanKept
    <3> QED BY <1>1, <2>6, <3>1 DEF SaveClean
  <2> QED BY <1>1, <1>2, <2>3, <2>6, <2>8, <2>9, SaveFrame
<1>7. CASE ~(item.at = "mem" \/ Serves(item.hash))
  <2>1. SaveFailed
    BY <1>7 DEF WriteBinary
  <2>2. count'.faults # 0
    <3>1. SUFFICES ASSUME count'.faults = 0 PROVE FALSE
      OBVIOUS
    <3>2. SaveClean(save, cache)
      BY <1>2, <3>1, CleanKept
    <3>3. item.at = "disk"
      BY <1>5, <1>7 DEF Item
    <3>4. cache[item.hash] = "whole"
      BY <1>1, <1>5, <3>2, <3>3 DEF SaveClean, Backed
    <3> QED BY <1>7, <3>4 DEF Serves
  <2> QED BY <1>1, <1>2, <2>1, <2>2, SaveFailedKeeps
<1> QED BY <1>6, <1>7

LEMMA SaveAbortsKeeps == ASSUME FormatInv, SaveAborts PROVE FormatInv'
<1>1. Fault /\ SaveFailed /\ UNCHANGED <<file, cache, db, load>>
  BY DEF SaveAborts
<1>2. Keeps /\ count'.faults # 0
  BY <1>1, KeepsFault DEF FormatInv, TypeOK
<1> QED BY <1>1, <1>2, SaveFailedKeeps

(* The file a save leaves: its references lead where the entries pointed.   *)
LEMMA AssembledIs ==
  ASSUME FormatInv, save.pc = "write", ~ToWrite
  PROVE  /\ Assembled(save.model, save.out) \in File
         /\ FileSound(Assembled(save.model, save.out))
         /\ Assembled(save.model, save.out).damage = "none"
         /\ Held(Assembled(save.model, save.out)) = save.asked
<1> DEFINE m == save.model
           bins == save.out
           refs == WriteRefs(m.att, m.pool)
           f == Assembled(m, bins)
<1>1. /\ m \in Model /\ Bound(m) /\ m.att = save.asked
      /\ m.pool \in Seq(Item) /\ bins \in Seq(Bin)
      /\ DOMAIN m.pool = 1 .. Len(m.pool) /\ Len(m.pool) \in Nat
      /\ DOMAIN bins = 1 .. Len(bins) /\ Len(bins) \in Nat
      /\ Len(bins) <= Len(m.pool)
      /\ \A i \in DOMAIN bins : bins[i].hash = m.pool[i].hash
  BY SaveIs
<1>2. Len(bins) = Len(m.pool)
  BY <1>1 DEF ToWrite
<1>3. /\ refs \in [Entry -> 0 .. Len(m.pool)]
      /\ \A e \in Entry : /\ refs[e] = 0 => m.att[e] = None
                          /\ refs[e] # 0 => m.pool[refs[e]].hash = m.att[e]
  BY <1>1, RoundTrip
<1>4. f = [file EXCEPT !.bins = bins, !.refs = refs, !.tail = m.tail, !.damage = "none"]
  BY DEF Assembled
<1>5. m.tail \in BOOLEAN /\ m.att \in [Entry -> Content \cup {None}] /\ file \in File
  BY <1>1 DEF Model, FormatInv, TypeOK
<1>6. \A i \in DOMAIN m.pool : m.pool[i].hash \in Content
  BY <1>1, PoolHashes DEF Item
<1> HIDE DEF m, bins, refs
<1>7. refs \in Refs
  BY <1>1, <1>3 DEF Refs
<1> HIDE DEF f
<1>8. /\ f \in File /\ f.bins = bins /\ f.refs = refs /\ f.damage = "none"
  BY <1>1, <1>4, <1>5, <1>7 DEF File, Damages
<1>9. FileSound(f)
  BY <1>1, <1>2, <1>3, <1>6, <1>8 DEF FileSound
<1>10. ASSUME NEW e \in Entry
       PROVE  (IF refs[e] = 0 THEN None ELSE bins[refs[e]].hash) = m.att[e]
  BY <1>1, <1>2, <1>3
<1>11. Held(f) = m.att
  BY <1>5, <1>8, <1>10 DEF Held
<1> QED BY <1>1, <1>8, <1>9, <1>11 DEF f, m, bins

LEMMA SaveDoneKeeps == ASSUME FormatInv, SaveDone PROVE FormatInv'
<1>1. /\ save.pc = "write" /\ ~ToWrite /\ UNCHANGED <<cache, db, load, count>>
      /\ file' = Assembled(save.model, save.out) /\ save' = [NotSaving EXCEPT !.pc = "done"]
  BY DEF SaveDone
<1>2. file' \in File /\ FileSound(file') /\ file'.damage = "none"
  BY <1>1, AssembledIs
<1>3. save' \in Saves /\ save'.pc = "done"
  BY <1>1, NotSavingIs DEF Saves
<1>4. Keeps
  BY <1>1, KeepsSame
<1>5. TypeOK'
  BY <1>1, <1>2, <1>3 DEF FormatInv, TypeOK
<1>6. Sound'
  BY <1>1, <1>2, <1>3 DEF FormatInv, Sound, SaveSound
<1>7. Clean'
  <2>1. SaveClean(save', cache')
    BY <1>3 DEF SaveClean
  <2> QED BY <1>1, <1>2, <1>4, <2>1, CleanKept DEF Clean
<1> QED BY <1>5, <1>6, <1>7 DEF FormatInv

(* What the environment does to the cache and to the file.                  *)
LEMMA EvictKeeps ==
  ASSUME FormatInv, NEW c \in Content, Evict(c) \/ DamageCache(c)
  PROVE  FormatInv'
<1>1. Fault /\ UNCHANGED <<file, db, load, save>>
  BY DEF Evict, DamageCache
<1>2. cache' \in [Content -> {"none", "whole", "damaged"}]
  BY DEF FormatInv, TypeOK, Evict, DamageCache
<1>3. Keeps /\ count'.faults # 0
  BY <1>1, <1>2, KeepsFault
<1>4. TypeOK'
  BY <1>1, <1>3 DEF FormatInv, TypeOK, Keeps
<1>5. Sound'
  BY <1>1 DEF FormatInv, Sound
<1>6. Clean'
  BY <1>3 DEF Clean
<1> QED BY <1>4, <1>5, <1>6 DEF FormatInv

LEMMA DamageFileKeeps ==
  ASSUME FormatInv, NEW how \in Damages, DamageFile(how)
  PROVE  FormatInv'
<1>1. /\ Fault /\ UNCHANGED <<cache, db, load, save>>
      /\ file' = [file EXCEPT !.damage = how]
  BY DEF DamageFile
<1>2. file \in File /\ FileSound(file)
  BY DEF FormatInv, TypeOK, Sound
<1>3. file' \in File /\ file'.bins = file.bins /\ file'.refs = file.refs
  BY <1>1, <1>2 DEF File
<1>4. FileSound(file')
  BY <1>2, <1>3 DEF FileSound
<1>5. Keeps /\ count'.faults # 0
  BY <1>1, KeepsFault DEF FormatInv, TypeOK
<1>6. TypeOK'
  BY <1>1, <1>3, <1>5 DEF FormatInv, TypeOK, Keeps
<1>7. Sound'
  BY <1>1, <1>4 DEF FormatInv, Sound
<1>8. Clean'
  BY <1>5 DEF Clean
<1> QED BY <1>6, <1>7, <1>8 DEF FormatInv

-----------------------------------------------------------------------------
(* The theorems.                                                            *)

LEMMA NextKeeps == ASSUME FormatInv, [Next]_vars PROVE FormatInv'
<1>1. CASE Load
  <2>1. ASSUME NEW worker \in BOOLEAN, LoadBegin(worker) PROVE FormatInv'
    BY <2>1, LoadBeginKeeps
  <2>2. CASE Decrypt       BY <2>2, DecryptKeeps
  <2>3. CASE Inflate       BY <2>3, InflateKeeps
  <2>4. CASE InflateFails  BY <2>4, InflateFailsKeeps
  <2>5. CASE ReadBinary    BY <2>5, ReadBinaryKeeps
  <2>6. CASE ReadBinaryFails BY <2>6, ReadBinaryFailsKeeps
  <2>12. CASE InnerEnds    BY <2>12, InnerEndsKeeps
  <2>7. CASE ReadBuffered  BY <2>7, ReadBufferedKeeps
  <2>8. CASE WriteContainer BY <2>8, WriteContainerKeeps
  <2>9. CASE ParseModel    BY <2>9, ParseModelKeeps
  <2>10. CASE ConvertFails BY <2>10, ConvertFailsKeeps
  <2>11. CASE Arrive       BY <2>11, ArriveKeeps
  <2> QED BY <1>1, <2>1, <2>2, <2>3, <2>4, <2>5, <2>6, <2>7, <2>8, <2>9, <2>10, <2>11,
            <2>12 DEF Load
<1>2. CASE Edits
  BY <1>2, AttachKeeps, RemoveEntryKeeps DEF Edits
<1>3. CASE Save
  BY <1>3, SaveBeginKeeps, WriteBinaryKeeps, SaveDoneKeeps, SaveAbortsKeeps DEF Save
<1>4. CASE Environment
  BY <1>4, EvictKeeps, DamageFileKeeps DEF Environment
<1>5. CASE UNCHANGED vars
  <2>1. UNCHANGED <<file, cache, db, load, save, count>>
    BY <1>5 DEF vars
  <2>2. TypeOK'
    BY <2>1 DEF FormatInv, TypeOK
  <2>3. Sound'
    BY <2>1 DEF FormatInv, Sound
  <2>4. Clean'
    BY <2>1 DEF FormatInv, Clean
  <2> QED BY <2>2, <2>3, <2>4 DEF FormatInv
<1> QED BY <1>1, <1>2, <1>3, <1>4, <1>5 DEF Next

(* The invariant holds in every state the pipelines reach.                  *)
THEOREM Invariance == Spec => []FormatInv
BY InitHolds, NextKeeps, PTL DEF Spec

(* Files, models, parcels and pools keep their shapes through both          *)
(* pipelines: what a load ships is a model or a container, what a save      *)
(* writes is a file.                                                        *)
THEOREM TypeCorrect == Spec => []TypeOK
<1>1. FormatInv => TypeOK
  BY DEF FormatInv
<1> QED BY <1>1, Invariance, PTL

(* A file that lost content is opened by no way a load can take, with one   *)
(* exception: a file of ChaCha20, not compressed, whose blocks seem to end  *)
(* early (decryptFromFile() takes the end of the file, and a length that    *)
(* reads 0, for the end and compares no HMAC there).                        *)
THEOREM DamageIsNoticed == Spec => []DamageNoticed
<1>1. FormatInv => DamageNoticed
  <2>1. SUFFICES ASSUME FormatInv, load.pc = "ship", ~Whole(load.src)
                 PROVE  Short(load.src) /\ load.src.stream /\ ~load.src.gzip
    BY DEF DamageNoticed
  <2>2. /\ load.src \in File /\ Verifies(load.src) /\ Inflates(load.src)
        /\ load.buffered => ~Short(load.src)
        /\ ~load.buffered => load.src.stream
    BY <2>1, LoadIs DEF LoadSound, Active
  <2>3. load.src.damage \in {"broken", "zeroed", "short"}
    BY <2>1, <2>2 DEF Whole, File, Damages
  <2>4. Short(load.src)
    BY <2>2, <2>3 DEF Verifies, StreamVerifies, BufferVerifies, Short
  <2> QED BY <2>2, <2>4 DEF Inflates
<1> QED BY <1>1, Invariance, PTL

(* No entry of the open database is bound to an attachment its pool does    *)
(* not hold, so that writeBinaries() never leaves one out of a file.        *)
THEOREM PoolAlwaysHolds == Spec => []PoolHolds
<1>1. FormatInv => PoolHolds
  BY DEF FormatInv, Sound, DbSound, Bound, PoolHolds
<1> QED BY <1>1, Invariance, PTL

(* No load and no save fails unless something outside did: what a load or   *)
(* an edit puts on disk can be read back.                                   *)
THEOREM NothingFailsByItself == Spec => []FailuresExplained
<1>1. FormatInv => FailuresExplained
  <2>1. SUFFICES ASSUME FormatInv, load.pc = "failed" \/ save.pc = "failed"
                 PROVE  count.faults > 0
    BY DEF FailuresExplained
  <2>2. count.faults # 0
    BY <2>1 DEF FormatInv, Clean, LoadClean, SaveClean
  <2>3. count.faults \in Nat
    BY <2>1 DEF FormatInv, TypeOK
  <2> QED BY <2>2, <2>3
<1> QED BY <1>1, Invariance, PTL

(* The only step that ends a load with a database is its arrival.           *)
LEMMA LoadedIs ==
  ASSUME FormatInv, [Next]_vars, Loaded
  PROVE  Arrive
<1>1. load.pc = "ship" /\ load'.pc = "done"
  BY DEF Loaded
<1>2. CASE Load
  <2>1. ~(\E worker \in BOOLEAN : LoadBegin(worker)) /\ ~Decrypt /\ ~Inflate /\ ~InflateFails
    BY <1>1 DEF LoadBegin, LoadEnded, Decrypt, Inflate, InflateFails
  <2>2. /\ ~ReadBinary /\ ~ReadBinaryFails /\ ~ReadBuffered
        /\ ~InnerEnds /\ ~WriteContainer /\ ~ParseModel /\ ~ConvertFails
    BY <1>1 DEF ReadBinary, ReadBinaryFails, InnerEnds, ReadBuffered, WriteContainer, ParseModel,
                ConvertFails
  <2> QED BY <1>2, <2>1, <2>2 DEF Load
<1>3. ASSUME UNCHANGED load PROVE FALSE
  BY <1>1, <1>3
<1>4. CASE Edits
  BY <1>3, <1>4 DEF Edits, Attach, RemoveEntry
<1>5. CASE Save
  BY <1>3, <1>5 DEF Save, SaveBegin, WriteBinary, SaveDone, SaveAborts
<1>6. CASE Environment
  BY <1>3, <1>6 DEF Environment, Evict, DamageCache, DamageFile
<1>7. CASE UNCHANGED vars
  BY <1>3, <1>7 DEF vars
<1> QED BY <1>2, <1>4, <1>5, <1>6, <1>7 DEF Next

(* A load of a file that lost nothing brings, for each entry, the           *)
(* attachment the file holds for it, on every way it can take; as a container, when the pool of *)
(* the file is in order.                                                    *)
THEOREM LoadsAreExact == Spec => LoadExact
<1> DEFINE A == Loaded /\ Whole(load.src) /\ (load.container => InOrder(load.src))
                  => Restored(load.src)
<1>1. FormatInv /\ [Next]_vars => A
  <2>1. SUFFICES ASSUME FormatInv, [Next]_vars, Loaded, Whole(load.src),
                        load.container => InOrder(load.src)
                 PROVE  Restored(load.src)
    OBVIOUS
  <2>2. load.pc = "ship" /\ db' = Received
    BY <2>1, LoadedIs DEF Arrive
  <2>3. Received.att = Held(load.src) /\ Received.tail = load.src.tail
    BY <2>1, <2>2, ReceivedIs
  <2> QED BY <2>2, <2>3 DEF Restored
<1>2. FormatInv /\ [Next]_vars => [A]_vars
  BY <1>1
<1>3. Spec => [][A]_vars
  <2> HIDE DEF A
  <2> QED BY <1>2, Invariance, PTL DEF Spec
<1> QED BY <1>3 DEF LoadExact

(* The only step that ends a save with a file is SaveDone.                  *)
LEMMA SavedIs ==
  ASSUME FormatInv, [Next]_vars, save.pc = "write", save'.pc = "done"
  PROVE  SaveDone
<1>1. ASSUME UNCHANGED save PROVE FALSE
  BY <1>1
<1>2. CASE Load
  <2>1. \A worker \in BOOLEAN : LoadBegin(worker) => UNCHANGED save
    BY DEF LoadBegin
  <2>2. Decrypt \/ Inflate \/ InflateFails \/ Arrive => UNCHANGED save
    BY DEF Decrypt, Inflate, InflateFails, Arrive
  <2>3. ReadBinary \/ ReadBinaryFails \/ InnerEnds \/ ReadBuffered => UNCHANGED save
    BY DEF ReadBinary, ReadBinaryFails, InnerEnds, ReadBuffered
  <2>4. WriteContainer \/ ParseModel \/ ConvertFails => UNCHANGED save
    BY DEF WriteContainer, ParseModel, ConvertFails
  <2> QED BY <1>1, <1>2, <2>1, <2>2, <2>3, <2>4 DEF Load
<1>3. CASE Edits
  BY <1>1, <1>3 DEF Edits, Attach, RemoveEntry
<1>4. CASE Save
  <2>1. ~SaveBegin
    BY DEF SaveBegin
  <2>2. ~SaveFailed
    BY NotSavingIs DEF SaveFailed, Saves
  <2>3. ~WriteBinary
    <3>1. ASSUME NEW hash PROVE ~Written(hash)
      <4>1. SUFFICES ASSUME Written(hash) PROVE FALSE
        OBVIOUS
      <4>2. save'.pc = save.pc
        BY <4>1 DEF Written, FormatInv, TypeOK, Saves
      <4> QED BY <4>2
    <3> QED BY <2>2, <3>1 DEF WriteBinary
  <2> QED BY <1>4, <2>1, <2>2, <2>3 DEF Save, SaveAborts
<1>5. CASE Environment
  BY <1>1, <1>5 DEF Environment, Evict, DamageCache, DamageFile
<1>6. CASE UNCHANGED vars
  BY <1>1, <1>6 DEF vars
<1> QED BY <1>2, <1>3, <1>4, <1>5, <1>6 DEF Next

(* A save that succeeds wrote, for each entry, the attachment it had when   *)
(* the save was asked for, whatever was edited, evicted or damaged while it *)
(* wrote.                                                                   *)
THEOREM SavesAreExact == Spec => SavedExact
<1> DEFINE A == save.pc = "write" /\ save'.pc = "done" => Held(file') = save.asked
<1>1. FormatInv /\ [Next]_vars => A
  <2>1. SUFFICES ASSUME FormatInv, [Next]_vars, save.pc = "write", save'.pc = "done"
                 PROVE  Held(file') = save.asked
    OBVIOUS
  <2>2. ~ToWrite /\ file' = Assembled(save.model, save.out)
    BY <2>1, SavedIs DEF SaveDone
  <2>3. Held(Assembled(save.model, save.out)) = save.asked
    BY <2>1, <2>2, AssembledIs
  <2> QED BY <2>2, <2>3
<1>2. FormatInv /\ [Next]_vars => [A]_vars
  BY <1>1
<1>3. Spec => [][A]_vars
  <2> HIDE DEF A
  <2> QED BY <1>2, Invariance, PTL DEF Spec
<1> QED BY <1>3 DEF SavedExact
=============================================================================
