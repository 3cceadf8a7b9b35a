---------------------------- MODULE MemoryMapProofs ----------------------------
(***************************************************************************)
(* What MEM_GetTotalSize returns, for every memory map: TotalPages is a    *)
(* recursive sum.                                                          *)
(***************************************************************************)
EXTENDS MemoryMap, FiniteSetTheorems, WellFoundedInduction, TLAPS

\* A set of numbers has a least one.
LEMMA Least ==
  ASSUME NEW T \in SUBSET Nat, T # {}
  PROVE  \E n \in T : \A m \in T : n <= m
<1> DEFINE R == OpToRel(<, Nat)
<1>1. IsWellFoundedOn(R, Nat)
  BY NatLessThanWellFounded
<1>2. \A x, y \in Nat : x < y => <<x, y>> \in R
  BY DEF OpToRel
<1> HIDE DEF R
<1>3. PICK x \in T : \A y \in T : ~(<<y, x>> \in R)
  BY <1>1, WFMin
<1>4. \A y \in T : ~(y < x)
  BY <1>2, <1>3
<1>5. \A y \in T : x <= y
  BY <1>4
<1> QED BY <1>5

\* sum adds up the first n regions of m.
IsSum(m, n, sum) ==
  sum = [i \in 0 .. n |-> IF i = 0 THEN 0 ELSE sum[i - 1] + m[i].numPages]

\* One region more.
LEMMA NextSum ==
  ASSUME NEW m \in Seq(Descriptor), NEW n \in 1 .. Len(m),
         NEW sum \in [0 .. (n - 1) -> Nat], IsSum(m, n - 1, sum)
  PROVE  \E next \in [0 .. n -> Nat] : IsSum(m, n, next)
<1> DEFINE last == sum[n - 1] + m[n].numPages
           next == [i \in 0 .. n |-> IF i = n THEN last ELSE sum[i]]
<1>1. /\ n \in Nat /\ n # 0 /\ n - 1 \in 0 .. (n - 1)
      /\ \A i \in 0 .. n : i # n => i \in 0 .. (n - 1)
      /\ \A i \in 0 .. n : i # 0 => i - 1 \in 0 .. (n - 1) /\ i - 1 \in 0 .. n /\ i - 1 # n
  OBVIOUS
<1>2. last \in Nat
  <2>1. m[n] \in Descriptor
    OBVIOUS
  <2>2. m[n].numPages \in Nat
    BY <2>1 DEF Descriptor
  <2>3. sum[n - 1] \in Nat
    BY <1>1
  <2> QED BY <2>2, <2>3
<1>3. next \in [0 .. n -> Nat]
  <2> HIDE DEF last
  <2> QED BY <1>1, <1>2
<1>4. ASSUME NEW i \in 0 .. n
      PROVE  next[i] = IF i = 0 THEN 0 ELSE next[i - 1] + m[i].numPages
  <2>1. \A j \in 0 .. (n - 1) : sum[j] = IF j = 0 THEN 0 ELSE sum[j - 1] + m[j].numPages
    BY DEF IsSum
  <2>2. i # 0 => next[i - 1] = sum[i - 1]
    BY <1>1
  <2>3. CASE i = n
    BY <1>1, <2>2, <2>3
  <2>4. CASE i # n
    BY <1>1, <2>1, <2>2, <2>4
  <2> QED BY <2>3, <2>4
<1>5. IsSum(m, n, next)
  <2> DEFINE V == [i \in 0 .. n |-> IF i = 0 THEN 0 ELSE next[i - 1] + m[i].numPages]
  <2>1. \A i \in 0 .. n : next[i] = V[i]
    BY <1>4
  <2>2. next = [i \in 0 .. n |-> next[i]]
    OBVIOUS
  <2>3. next = V
    <3>1. V = [i \in 0 .. n |-> V[i]]
      OBVIOUS
    <3> HIDE DEF next, V
    <3> QED BY <2>1, <2>2, <3>1
  <2> HIDE DEF next
  <2> QED BY <2>3 DEF IsSum
<1> HIDE DEF next
<1> QED BY <1>3, <1>5

\* The sum exists: no number of regions is the first without one.
LEMMA SomeSum ==
  ASSUME NEW m \in Seq(Descriptor)
  PROVE  \E sum \in [0 .. Len(m) -> Nat] : IsSum(m, Len(m), sum)
<1> DEFINE Sums(n) == \E sum \in [0 .. n -> Nat] : IsSum(m, n, sum)
           T == {n \in 0 .. Len(m) : ~Sums(n)}
<1>1. Len(m) \in Nat
  OBVIOUS
<1>2. Sums(0)
  <2> DEFINE zero == [i \in 0 .. 0 |-> 0]
  <2>1. zero \in [0 .. 0 -> Nat] /\ \A i \in 0 .. 0 : i = 0
    OBVIOUS
  <2>2. IsSum(m, 0, zero)
    BY <2>1 DEF IsSum
  <2> QED BY <2>1, <2>2
<1>3. ASSUME NEW n \in 1 .. Len(m), Sums(n - 1)
      PROVE  Sums(n)
  BY <1>3, NextSum
<1> HIDE DEF Sums
<1>4. T = {}
  <2> SUFFICES ASSUME T # {} PROVE FALSE
    OBVIOUS
  <2>1. T \in SUBSET Nat
    BY <1>1
  <2>2. PICK n \in T : \A k \in T : n <= k
    BY <2>1, Least
  <2>3. n \in 1 .. Len(m) /\ n - 1 \in 0 .. Len(m) /\ ~(n <= n - 1)
    BY <1>1, <1>2, <2>2
  <2>4. ~Sums(n)
    BY <2>2
  <2>5. Sums(n - 1)
    BY <2>2, <2>3
  <2> QED BY <1>3, <2>3, <2>4, <2>5
<1>5. Sums(Len(m))
  BY <1>1, <1>4
<1> QED BY <1>5 DEF Sums

\* MEM_GetTotalSize returns the last of the sums.
LEMMA TotalIsSum ==
  ASSUME NEW m \in Seq(Descriptor)
  PROVE  \E sum \in [0 .. Len(m) -> Nat] :
           IsSum(m, Len(m), sum) /\ TotalPages(m) = sum[Len(m)]
<1> DEFINE n == Len(m)
           sum == CHOOSE s : IsSum(m, n, s)
<1>1. n \in Nat
  OBVIOUS
<1>2. TotalPages(m) = sum[n]
  BY DEF TotalPages, IsSum
<1>3. PICK f \in [0 .. n -> Nat] : IsSum(m, n, f)
  BY SomeSum
<1>4. IsSum(m, n, sum)
  BY <1>3
<1> HIDE DEF n, sum
<1>5. /\ DOMAIN sum = 0 .. n /\ DOMAIN f = 0 .. n
      /\ \A i \in 0 .. n : sum[i] = IF i = 0 THEN 0 ELSE sum[i - 1] + m[i].numPages
      /\ \A i \in 0 .. n : f[i] = IF i = 0 THEN 0 ELSE f[i - 1] + m[i].numPages
  BY <1>3, <1>4 DEF IsSum
<1> DEFINE T == {i \in 0 .. n : sum[i] # f[i]}
<1>6. T = {}
  <2> SUFFICES ASSUME T # {} PROVE FALSE
    OBVIOUS
  <2>1. PICK i \in T : \A k \in T : i <= k
    <3>1. T \in SUBSET Nat
      BY <1>1
    <3> QED BY <3>1, Least
  <2>2. i \in 0 .. n /\ sum[i] # f[i]
    BY <2>1
  <2>3. i # 0 /\ i - 1 \in 0 .. n
    BY <1>1, <1>5, <2>2
  <2>4. sum[i - 1] # f[i - 1]
    BY <1>5, <2>2, <2>3
  <2>5. i <= i - 1
    BY <2>1, <2>3, <2>4
  <2> QED BY <1>1, <2>2, <2>5
<1>7. sum[n] = f[n]
  BY <1>1, <1>6
<1> QED BY <1>2, <1>3, <1>7 DEF n

\* It is a number, whatever the map.
LEMMA TotalIsNatural ==
  ASSUME NEW m \in Seq(Descriptor)
  PROVE  TotalPages(m) \in Nat
<1>1. Len(m) \in Nat
  OBVIOUS
<1> QED BY <1>1, TotalIsSum
===============================================================================
