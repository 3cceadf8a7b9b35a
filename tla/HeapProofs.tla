------------------------------- MODULE HeapProofs -------------------------------
(***************************************************************************)
(* Theorems about Heap.  MEM_HeapSegHdrSplit gives the segment behind the  *)
(* one it cuts the wrong length, so the list does not describe the memory  *)
(* it is laid over.  For callers that free in the reverse order of         *)
(* allocation it nevertheless keeps their blocks apart, inside the heap    *)
(* and away from the headers, as long as their blocks together fit in a    *)
(* page; and for callers that never free, however many blocks they take,   *)
(* if a block is small against a page.                                     *)
(***************************************************************************)
EXTENDS Heap, FiniteSetTheorems, WellFoundedInduction, TLAPS

\* A set of numbers has a least one.
LEMMA Least ==
  ASSUME NEW T \in SUBSET Nat, T # {}
  PROVE  \E n \in T : \A m \in T : n <= m
<1> DEFINE R == OpToRel(<, Nat)
<1>1. IsWellFoundedOn(R, Nat)
  BY NatLessThanWellFounded
<1>2. \A x, y \in Nat : x < y => <<x, y>> \in R
  BY DEF OpToRel
<1> HIDE DEF R
<1>3. PICK x \in T : \A y \in T : ~(<<y, x>> \in R)
  BY <1>1, WFMin
<1>4. \A y \in T : ~(y < x)
  BY <1>2, <1>3
<1>5. \A y \in T : x <= y
  BY <1>4
<1> QED BY <1>5

-------------------------------------------------------------------------------
(***************************************************************************)
(* The list                                                                *)
(***************************************************************************)

IsHeap(h) ==
  /\ DOMAIN h = {"segs", "end", "lastHdr"}
  /\ IsFiniteSet(DOMAIN h.segs) /\ DOMAIN h.segs \subseteq Nat
  /\ h.segs \in [DOMAIN h.segs -> HeapSegHdr]
  /\ h.end \in Nat

\* A heap h as MEM_Malloc and MEM_Free find it: the headers f[0] to f[k] are
\* linked both ways in the order of their addresses, none reaches into the next
\* or, the last, beyond the heap, and all but the last are in use.
Good(h, k, f) ==
  /\ IsHeap(h)
  /\ k \in Nat /\ f \in [0 .. k -> DOMAIN h.segs]
  /\ f[0] = 0 /\ f[k] = h.lastHdr
  /\ h.segs[0].last = NULL /\ h.segs[f[k]].next = NULL
  /\ \A n \in 0 .. k : n < k =>
       /\ h.segs[f[n]].next = f[n + 1] /\ h.segs[f[n + 1]].last = f[n]
       /\ ~h.segs[f[n]].free
  /\ \A m, n \in 0 .. k : m < n => f[m] + HdrSize + h.segs[f[m]].lenght <= f[n]
  /\ f[k] + HdrSize + h.segs[f[k]].lenght <= h.end

\* Two positions hold different headers.
LEMMA Distinct ==
  ASSUME NEW h, NEW k, NEW f, Good(h, k, f)
  PROVE  \A m, n \in 0 .. k : /\ f[m] \in Nat /\ f[m] \in DOMAIN h.segs
                              /\ h.segs[f[m]].lenght \in Nat
                              /\ f[m] = f[n] => m = n
<1>1. \A m \in 0 .. k : f[m] \in Nat /\ f[m] \in DOMAIN h.segs /\ h.segs[f[m]].lenght \in Nat
  BY DEF Good, IsHeap, HeapSegHdr
<1>2. \A m, n \in 0 .. k : m < n => f[m] # f[n]
  <2> SUFFICES ASSUME NEW m \in 0 .. k, NEW n \in 0 .. k, m < n PROVE f[m] # f[n]
    OBVIOUS
  <2>1. f[m] + HdrSize + h.segs[f[m]].lenght <= f[n]
    BY DEF Good
  <2> QED BY <1>1, <2>1, HeapAssumption
<1>3. \A m, n \in 0 .. k : m \in Int /\ n \in Int /\ (m < n \/ n < m \/ m = n)
  BY DEF Good
<1> QED BY <1>1, <1>2, <1>3

IsWalk(h, at) ==
  at = [n \in 0 .. Cardinality(DOMAIN h.segs) |->
          IF n = 0 THEN g_HeapStart
          ELSE LET s == at[n - 1] IN IF s = NULL THEN NULL ELSE h.segs[s].next]

\* There is but one way to walk along the list.
LEMMA WalkUnique ==
  ASSUME NEW h, Cardinality(DOMAIN h.segs) \in Nat, NEW w, IsWalk(h, w), NEW v, IsWalk(h, v)
  PROVE  v = w
<1> DEFINE N == Cardinality(DOMAIN h.segs)
           T == {n \in 0 .. N : v[n] # w[n]}
<1>1. /\ DOMAIN v = 0 .. N /\ DOMAIN w = 0 .. N /\ v[0] = w[0]
      /\ v = [n \in 0 .. N |-> v[n]] /\ w = [n \in 0 .. N |-> w[n]]
  BY DEF IsWalk
<1>2. \A n \in 0 .. N : n # 0 => n - 1 \in 0 .. N /\ (v[n - 1] = w[n - 1] => v[n] = w[n])
  BY DEF IsWalk
<1>3. T = {}
  <2> SUFFICES ASSUME T # {} PROVE FALSE
    OBVIOUS
  <2> HIDE DEF N
  <2>1. T \in SUBSET Nat
    OBVIOUS
  <2>2. PICK n \in T : \A m \in T : n <= m
    BY <2>1, Least
  <2>3. n # 0 /\ n - 1 \in 0 .. N /\ v[n - 1] # w[n - 1]
    BY <1>1, <1>2, <2>2
  <2>4. n - 1 \in T /\ n \in Nat
    BY <2>1, <2>3
  <2> QED BY <2>2, <2>4
<1> QED BY <1>1, <1>3

\* Walk goes along f, and has room for all of it.
LEMMA WalkIs ==
  ASSUME NEW h, NEW k, NEW f, Good(h, k, f)
  PROVE  LET N == Cardinality(DOMAIN h.segs)
         IN  /\ N \in Nat /\ k < N
             /\ Walk(h) = [n \in 0 .. N |-> IF n <= k THEN f[n] ELSE NULL]
<1> DEFINE N == Cardinality(DOMAIN h.segs)
           W == [n \in 0 .. N |-> IF n <= k THEN f[n] ELSE NULL]
<1>1. k \in Nat /\ IsFiniteSet(DOMAIN h.segs) /\ f \in [0 .. k -> DOMAIN h.segs]
  BY DEF Good, IsHeap
<1>2. N \in Nat /\ k < N
  <2>1. f \in Injection(0 .. k, DOMAIN h.segs)
    BY <1>1, Distinct DEF Injection, IsInjective
  <2>2. Cardinality(0 .. k) <= N
    BY <1>1, <2>1, FS_Injection
  <2>3. Cardinality(0 .. k) = k + 1
    BY <1>1, FS_Interval
  <2>4. N \in Nat
    BY <1>1, FS_CardinalityType
  <2> HIDE DEF N
  <2> QED BY <1>1, <2>2, <2>3, <2>4
<1>3. IsWalk(h, W)
  <2> HIDE DEF N
  <2>1. ASSUME NEW n \in 0 .. N
        PROVE  W[n] = IF n = 0 THEN 0 ELSE IF W[n - 1] = NULL THEN NULL ELSE h.segs[W[n - 1]].next
    <3>1. CASE n = 0
      BY <1>1, <3>1 DEF Good
    <3>2. CASE n # 0 /\ n <= k
      <4>1. n - 1 \in 0 .. k /\ n - 1 < k /\ n - 1 \in 0 .. N /\ n - 1 + 1 = n
        BY <1>1, <1>2, <3>2
      <4>2. W[n] = f[n] /\ W[n - 1] = f[n - 1]
        BY <1>1, <3>2, <4>1
      <4>3. f[n - 1] # NULL
        BY <4>1, Distinct, HeapAssumption
      <4>4. h.segs[f[n - 1]].next = f[n]
        BY <4>1 DEF Good
      <4> QED BY <3>2, <4>2, <4>3, <4>4
    <3>3. CASE n = k + 1
      <4>1. n # 0 /\ n - 1 = k /\ k \in 0 .. k /\ k \in 0 .. N /\ ~(n <= k)
        BY <1>1, <1>2, <3>3
      <4>2. W[n] = NULL /\ W[n - 1] = f[k]
        BY <1>1, <4>1
      <4>3. f[k] # NULL
        BY <4>1, Distinct, HeapAssumption
      <4>4. h.segs[f[k]].next = NULL
        BY DEF Good
      <4> QED BY <4>1, <4>2, <4>3, <4>4
    <3>4. CASE n > k + 1
      BY <1>1, <1>2, <3>4
    <3> QED BY <1>1, <3>1, <3>2, <3>3, <3>4
  <2>2. W = [n \in 0 .. N |-> IF n = 0 THEN g_HeapStart
                              ELSE IF W[n - 1] = NULL THEN NULL ELSE h.segs[W[n - 1]].next]
    <3> DEFINE V == [n \in 0 .. N |-> IF n = 0 THEN g_HeapStart
                              ELSE IF W[n - 1] = NULL THEN NULL ELSE h.segs[W[n - 1]].next]
    <3>1. \A n \in 0 .. N : W[n] = V[n]
      BY <2>1 DEF g_HeapStart
    <3>2. W = [n \in 0 .. N |-> W[n]]
      OBVIOUS
    <3>3. W = [n \in 0 .. N |-> V[n]]
      <4> HIDE DEF W, V
      <4> QED BY <3>1, <3>2
    <3> QED BY <3>3
  <2> HIDE DEF W
  <2> QED BY <2>2 DEF IsWalk, N
<1> HIDE DEF W
<1>4. Walk(h) = CHOOSE at : IsWalk(h, at)
  BY DEF Walk, IsWalk
<1>5. IsWalk(h, Walk(h))
  BY <1>3, <1>4
<1>6. Walk(h) = W
  BY <1>2, <1>3, <1>5, WalkUnique
<1> QED BY <1>2, <1>6 DEF W

\* The list's headers are those of f.
LEMMA ListedIs ==
  ASSUME NEW h, NEW k, NEW f, Good(h, k, f)
  PROVE  Listed(h) = {f[n] : n \in 0 .. k}
<1> DEFINE N == Cardinality(DOMAIN h.segs)
           W == Walk(h)
<1>1. N \in Nat /\ k \in Nat /\ k < N /\ W = [n \in 0 .. N |-> IF n <= k THEN f[n] ELSE NULL]
  <2>1. k \in Nat
    BY DEF Good
  <2> QED BY <2>1, WalkIs
<1>2. Listed(h) = {W[n] : n \in DOMAIN W} \ {NULL}
  BY DEF Listed
<1> HIDE DEF N, W
<1>3. \A n \in 0 .. k : n \in 0 .. N /\ W[n] = f[n] /\ f[n] # NULL
  BY <1>1, Distinct, HeapAssumption
<1>4. \A n \in 0 .. N : n \in 0 .. k \/ W[n] = NULL
  BY <1>1
<1> QED BY <1>1, <1>2, <1>3, <1>4

\* Nothing but the last segment is free.
LEMMA FittingIs ==
  ASSUME NEW h, NEW k, NEW f, Good(h, k, f), NEW size \in Nat
  PROVE  LET last == h.segs[h.lastHdr]
         IN  /\ last.free /\ last.lenght >= size => Fitting(h, size) = {k}
             /\ ~(last.free /\ last.lenght >= size) => Fitting(h, size) = {}
<1> DEFINE N == Cardinality(DOMAIN h.segs)
           W == Walk(h)
<1>1. N \in Nat /\ k \in Nat /\ k < N /\ W = [n \in 0 .. N |-> IF n <= k THEN f[n] ELSE NULL]
  <2>1. k \in Nat
    BY DEF Good
  <2> QED BY <2>1, WalkIs
<1>2. Fitting(h, size)
        = {n \in DOMAIN W : W[n] # NULL /\ h.segs[W[n]].free /\ h.segs[W[n]].lenght >= size}
  BY DEF Fitting
<1> HIDE DEF N, W
<1>3. \A n \in 0 .. N : n < k \/ n = k \/ W[n] = NULL
  BY <1>1
<1>4. \A n \in 0 .. N : n < k => ~h.segs[W[n]].free
  <2> SUFFICES ASSUME NEW n \in 0 .. N, n < k PROVE ~h.segs[W[n]].free
    OBVIOUS
  <2>1. n \in 0 .. k /\ W[n] = f[n]
    BY <1>1
  <2> QED BY <2>1 DEF Good
<1>5. k \in 0 .. N /\ W[k] = h.lastHdr /\ W[k] # NULL /\ DOMAIN W = 0 .. N
  <2>1. k \in 0 .. N /\ k \in 0 .. k /\ DOMAIN W = 0 .. N
    BY <1>1
  <2>2. W[k] = f[k]
    BY <1>1, <2>1
  <2>3. f[k] # NULL
    BY <2>1, Distinct, HeapAssumption
  <2>4. f[k] = h.lastHdr
    BY DEF Good
  <2> QED BY <2>1, <2>2, <2>3, <2>4
<1> QED BY <1>2, <1>3, <1>4, <1>5

LEMMA FirstFitIs ==
  ASSUME NEW h, NEW k, NEW f, Good(h, k, f), NEW size \in Nat,
         h.segs[h.lastHdr].free, h.segs[h.lastHdr].lenght >= size
  PROVE  FirstFit(h, size) = h.lastHdr
<1> DEFINE n == CHOOSE n \in {k} : \A m \in {k} : n <= m
<1>1. Fitting(h, size) = {k}
  BY FittingIs
<1>2. FirstFit(h, size) = Walk(h)[n]
  BY <1>1 DEF FirstFit
<1>3. n = k
  BY DEF Good
<1> HIDE DEF n
<1>4. Walk(h)[k] = f[k]
  <2>1. k \in Nat
    BY DEF Good
  <2> QED BY <2>1, WalkIs
<1> QED BY <1>2, <1>3, <1>4 DEF Good

\* The list is cut behind a header, whose segment may change.
LEMMA Ended ==
  ASSUME NEW h, NEW k, NEW f, Good(h, k, f), NEW j \in 0 .. k,
         NEW d, IsHeap(d), DOMAIN h.segs \subseteq DOMAIN d.segs, d.lastHdr = f[j],
         d.segs[f[j]].next = NULL, d.segs[f[j]].last = h.segs[f[j]].last,
         f[j] + HdrSize + d.segs[f[j]].lenght <= d.end,
         \A n \in 0 .. k : n < j => d.segs[f[n]] = h.segs[f[n]]
  PROVE  Good(d, j, [n \in 0 .. j |-> f[n]])
<1> DEFINE g == [n \in 0 .. j |-> f[n]]
<1>1. k \in Nat /\ f \in [0 .. k -> DOMAIN h.segs] /\ j \in Nat /\ f[0] = 0
  BY DEF Good
<1>2. \A n \in 0 .. j : n \in 0 .. k /\ g[n] = f[n]
  BY <1>1
<1>3. g \in [0 .. j -> DOMAIN d.segs] /\ g[0] = 0 /\ g[j] = f[j]
  BY <1>1, <1>2
<1> HIDE DEF g
<1>4. d.segs[0].last = NULL
  <2>1. h.segs[f[0]].last = NULL
    BY <1>1 DEF Good
  <2>2. CASE j = 0
    BY <1>1, <2>1, <2>2
  <2>3. CASE j # 0
    BY <1>1, <2>1, <2>3
  <2> QED BY <2>2, <2>3
<1>5. ASSUME NEW n \in 0 .. j, n < j
      PROVE  d.segs[g[n]].next = g[n + 1] /\ d.segs[g[n + 1]].last = g[n] /\ ~d.segs[g[n]].free
  <2>1. n \in 0 .. k /\ n < k /\ n + 1 \in 0 .. j /\ (n + 1 < j \/ n + 1 = j)
    BY <1>1, <1>5
  <2>2. g[n] = f[n] /\ g[n + 1] = f[n + 1] /\ d.segs[f[n]] = h.segs[f[n]]
    BY <1>2, <1>5, <2>1
  <2>3. d.segs[f[n + 1]].last = h.segs[f[n + 1]].last
    BY <1>2, <2>1
  <2> QED BY <2>1, <2>2, <2>3 DEF Good
<1>6. ASSUME NEW m \in 0 .. j, NEW n \in 0 .. j, m < n
      PROVE  g[m] + HdrSize + d.segs[g[m]].lenght <= g[n]
  <2>1. m \in 0 .. k /\ n \in 0 .. k /\ m < j /\ g[m] = f[m] /\ g[n] = f[n]
    BY <1>1, <1>2, <1>6
  <2>2. d.segs[f[m]] = h.segs[f[m]]
    BY <2>1
  <2> QED BY <1>6, <2>1, <2>2 DEF Good
<1> QED BY <1>1, <1>3, <1>4, <1>5, <1>6 DEF Good, g

\* A header is appended to the list, behind a segment now in use.
LEMMA Longer ==
  ASSUME NEW h, NEW k, NEW f, Good(h, k, f), NEW new \in Nat,
         NEW d, IsHeap(d), DOMAIN h.segs \cup {new} \subseteq DOMAIN d.segs, d.lastHdr = new,
         d.segs[new].next = NULL, d.segs[new].last = f[k],
         d.segs[f[k]].next = new, d.segs[f[k]].last = h.segs[f[k]].last, ~d.segs[f[k]].free,
         f[k] + HdrSize + d.segs[f[k]].lenght <= new,
         new + HdrSize + d.segs[new].lenght <= d.end,
         \A n \in 0 .. k : n < k => d.segs[f[n]] = h.segs[f[n]]
  PROVE  Good(d, k + 1, [n \in 0 .. (k + 1) |-> IF n <= k THEN f[n] ELSE new])
<1> DEFINE g == [n \in 0 .. (k + 1) |-> IF n <= k THEN f[n] ELSE new]
<1>1. k \in Nat /\ f \in [0 .. k -> DOMAIN h.segs] /\ f[0] = 0
  BY DEF Good
<1>2. \A n \in 0 .. k : n \in 0 .. (k + 1) /\ g[n] = f[n]
  BY <1>1
<1>3. g \in [0 .. (k + 1) -> DOMAIN d.segs] /\ g[0] = 0 /\ g[k + 1] = new
  BY <1>1, <1>2
<1> HIDE DEF g
<1>4. \A n \in 0 .. (k + 1) : n < k + 1 => n \in 0 .. k /\ (n < k \/ n = k)
  BY <1>1
<1>5. d.segs[0].last = NULL
  <2>1. h.segs[f[0]].last = NULL
    BY <1>1 DEF Good
  <2>2. CASE k = 0
    BY <1>1, <2>1, <2>2
  <2>3. CASE k # 0
    BY <1>1, <2>1, <2>3
  <2> QED BY <2>2, <2>3
<1>6. ASSUME NEW n \in 0 .. (k + 1), n < k + 1
      PROVE  d.segs[g[n]].next = g[n + 1] /\ d.segs[g[n + 1]].last = g[n] /\ ~d.segs[g[n]].free
  <2>1. CASE n = k
    <3>1. g[n] = f[k] /\ g[n + 1] = new
      BY <1>1, <1>2, <1>3, <2>1
    <3> QED BY <3>1
  <2>2. CASE n < k
    <3>1. n \in 0 .. k /\ n + 1 \in 0 .. k /\ (n + 1 < k \/ n + 1 = k)
      BY <1>1, <2>2
    <3>2. g[n] = f[n] /\ g[n + 1] = f[n + 1] /\ d.segs[f[n]] = h.segs[f[n]]
      BY <1>2, <2>2, <3>1
    <3>3. d.segs[f[n + 1]].last = h.segs[f[n + 1]].last
      BY <3>1
    <3> QED BY <2>2, <3>1, <3>2, <3>3 DEF Good
  <2> QED BY <1>4, <1>6, <2>1, <2>2
<1>7. ASSUME NEW n \in 0 .. k
      PROVE  g[n] + HdrSize + d.segs[g[n]].lenght <= new
  <2>1. g[n] = f[n]
    BY <1>2
  <2>2. CASE n = k
    BY <2>1, <2>2
  <2>3. CASE n < k
    <3>1. k \in 0 .. k /\ d.segs[f[n]] = h.segs[f[n]]
      BY <1>1, <2>3
    <3>2. f[n] + HdrSize + h.segs[f[n]].lenght <= f[k]
      BY <2>3, <3>1 DEF Good
    <3>3. f[k] \in Nat /\ f[n] \in Nat /\ h.segs[f[n]].lenght \in Nat /\ d.segs[f[k]].lenght \in Nat
      BY <1>1, <3>1, Distinct DEF IsHeap, HeapSegHdr
    <3> QED BY <2>1, <3>1, <3>2, <3>3, HeapAssumption
  <2> QED BY <1>1, <2>2, <2>3
<1>8. ASSUME NEW m \in 0 .. (k + 1), NEW n \in 0 .. (k + 1), m < n
      PROVE  g[m] + HdrSize + d.segs[g[m]].lenght <= g[n]
  <2>1. m \in 0 .. k
    BY <1>1, <1>8
  <2>2. CASE n = k + 1
    BY <1>3, <1>7, <2>1, <2>2
  <2>3. CASE n # k + 1
    <3>1. n \in 0 .. k /\ m < k
      BY <1>1, <1>8, <2>1, <2>3
    <3>2. g[m] = f[m] /\ g[n] = f[n] /\ d.segs[f[m]] = h.segs[f[m]]
      BY <1>2, <2>1, <3>1
    <3> QED BY <1>8, <2>1, <3>1, <3>2 DEF Good
  <2> QED BY <2>2, <2>3
<1>9. k + 1 \in Nat
  BY <1>1
<1> QED BY <1>3, <1>5, <1>6, <1>8, <1>9 DEF Good, g

-------------------------------------------------------------------------------
(***************************************************************************)
(* The operations                                                          *)
(***************************************************************************)

\* The segments in use are those of the blocks bs.
Blocks(h, k, f, bs) ==
  /\ bs \subseteq [addr : Nat, size : Sizes]
  /\ \A b \in bs : \E n \in 0 .. k :
       ~h.segs[f[n]].free /\ b.addr = f[n] + HdrSize /\ b.size <= h.segs[f[n]].lenght
  /\ \A n \in 0 .. k : ~h.segs[f[n]].free => \E b \in bs : b.addr = f[n] + HdrSize
  /\ \A b, c \in bs : b.addr = c.addr => b = c

\* A heap whose blocks in use are bs.
Holds(h, bs) == \E k, f : Good(h, k, f) /\ Blocks(h, k, f, bs)

Last(h) == h.segs[h.lastHdr]

\* The units from the last header to the end of the heap.
Left(h) == h.end - h.lastHdr

LEMMA HoldsTypes ==
  ASSUME NEW h, NEW bs, Holds(h, bs)
  PROVE  /\ IsHeap(h) /\ h.lastHdr \in DOMAIN h.segs /\ h.lastHdr \in Nat /\ h.end \in Nat
         /\ Last(h) \in HeapSegHdr /\ Last(h).lenght \in Nat /\ Last(h).free \in BOOLEAN
         /\ Last(h).next = NULL
         /\ h.lastHdr + HdrSize + Last(h).lenght <= h.end /\ Left(h) \in Nat
<1>1. PICK k, f : Good(h, k, f)
  BY DEF Holds
<1>2. k \in Nat /\ k \in 0 .. k /\ f[k] = h.lastHdr /\ IsHeap(h) /\ h.segs[f[k]].next = NULL
  BY <1>1 DEF Good
<1>3. h.lastHdr \in DOMAIN h.segs /\ h.lastHdr \in Nat
  BY <1>1, <1>2, Distinct
<1>4. Last(h) \in HeapSegHdr
  BY <1>2, <1>3 DEF IsHeap, Last
<1>5. Last(h).lenght \in Nat /\ Last(h).free \in BOOLEAN
  BY <1>4 DEF HeapSegHdr
<1>6. h.lastHdr + HdrSize + Last(h).lenght <= h.end
  BY <1>1, <1>2 DEF Good, Last
<1>7. h.end \in Nat
  BY <1>2 DEF IsHeap
<1>8. Left(h) \in Nat
  BY <1>3, <1>5, <1>6, <1>7, HeapAssumption DEF Left
<1> QED BY <1>2, <1>3, <1>4, <1>5, <1>6, <1>7, <1>8 DEF Last

\* The units MEM_ExpandHeap adds: enough for a segment of the size asked for,
\* but for its header.
LEMMA PagesAdded ==
  ASSUME NEW size \in Sizes
  PROVE  LET n == Pages(size) * PageSize
         IN  n \in Nat /\ n >= PageSize /\ n >= size
<1> DEFINE q == (size + PageSize - 1) \div PageSize
<1>1. size \in Nat /\ size >= 1 /\ PageSize \in Nat /\ PageSize >= 1
  BY HeapAssumption
<1>2. q \in Nat /\ q >= 1 /\ q * PageSize <= size + PageSize - 1
      /\ size + PageSize - 1 < q * PageSize + PageSize
  BY <1>1
<1> HIDE DEF q
<1>3. q * PageSize \in Nat /\ q * PageSize >= PageSize
  BY <1>1, <1>2
<1>4. q * PageSize >= size
  BY <1>1, <1>2, <1>3
<1> QED BY <1>3, <1>4 DEF Pages, q

\* The new segment at the end of the heap, before it is joined to the last one.
Appended(h, size) ==
  [segs |-> [a \in DOMAIN h.segs \cup {h.end} |->
               IF a = h.end
                 THEN [lenght |-> Pages(size) * PageSize - HdrSize, next |-> NULL,
                       last |-> h.lastHdr, free |-> TRUE]
                 ELSE [h.segs EXCEPT ![h.lastHdr].next = h.end][a]],
   end |-> h.end + Pages(size) * PageSize,
   lastHdr |-> h.end]

LEMMA ExpandIs ==
  ASSUME NEW h, NEW size
  PROVE  Expand(h, size) = CombineBackward(Appended(h, size), h.end)
BY DEF Expand, Appended, EndAfter

LEMMA AppendedIs ==
  ASSUME NEW h, NEW bs, Holds(h, bs), NEW size \in Sizes
  PROVE  LET x == Appended(h, size)
         IN  /\ IsHeap(x) /\ DOMAIN x.segs = DOMAIN h.segs \cup {h.end}
             /\ h.lastHdr # h.end /\ x.lastHdr = h.end /\ x.end = h.end + Pages(size) * PageSize
             /\ x.segs[h.end] = [lenght |-> Pages(size) * PageSize - HdrSize, next |-> NULL,
                                 last |-> h.lastHdr, free |-> TRUE]
             /\ x.segs[h.lastHdr] = [Last(h) EXCEPT !.next = h.end]
             /\ \A a \in DOMAIN h.segs : a # h.end /\ a # h.lastHdr => x.segs[a] = h.segs[a]
<1> DEFINE P == Pages(size) * PageSize
           new == h.end
           newHdr == [lenght |-> P - HdrSize, next |-> NULL, last |-> h.lastHdr, free |-> TRUE]
           x == Appended(h, size)
<1>1. P \in Nat /\ P >= PageSize
  BY PagesAdded
<1>2. /\ IsHeap(h) /\ h.lastHdr \in DOMAIN h.segs /\ h.lastHdr \in Nat /\ h.end \in Nat
      /\ Last(h) \in HeapSegHdr /\ Last(h).lenght \in Nat
      /\ h.lastHdr + HdrSize + Last(h).lenght <= h.end
  BY HoldsTypes
<1>3. x = [segs |-> [a \in DOMAIN h.segs \cup {new} |->
                       IF a = new THEN newHdr ELSE [h.segs EXCEPT ![h.lastHdr].next = new][a]],
           end |-> new + P, lastHdr |-> new]
  BY DEF Appended
<1> HIDE DEF P, new, x
<1>4. h.lastHdr # new
  BY <1>2, HeapAssumption DEF new
<1>5. DOMAIN x = {"segs", "end", "lastHdr"} /\ x.lastHdr = new /\ x.end = new + P
      /\ DOMAIN x.segs = DOMAIN h.segs \cup {new} /\ x.segs[new] = newHdr
  BY <1>3
<1>6. x.segs[h.lastHdr] = [Last(h) EXCEPT !.next = new]
  BY <1>2, <1>3, <1>4 DEF IsHeap, Last
<1>7. \A a \in DOMAIN h.segs : a # new /\ a # h.lastHdr => x.segs[a] = h.segs[a]
  BY <1>2, <1>3 DEF IsHeap
<1>8. IsHeap(x)
  <2>1. IsFiniteSet(DOMAIN x.segs) /\ DOMAIN x.segs \subseteq Nat
    BY <1>2, <1>5, FS_AddElement DEF IsHeap, new
  <2>2. newHdr \in HeapSegHdr
    <3>1. P - HdrSize \in Nat
      BY <1>1, HeapAssumption
    <3> QED BY <1>2, <3>1 DEF HeapSegHdr
  <2>3. [Last(h) EXCEPT !.next = new] \in HeapSegHdr
    BY <1>2 DEF HeapSegHdr, new
  <2>4. \A a \in DOMAIN x.segs : x.segs[a] \in HeapSegHdr
    <3>1. \A a \in DOMAIN h.segs : h.segs[a] \in HeapSegHdr
      BY <1>2 DEF IsHeap
    <3> HIDE DEF newHdr
    <3> QED BY <1>5, <1>6, <1>7, <2>2, <2>3, <3>1
  <2>5. x.segs \in [DOMAIN x.segs -> HeapSegHdr]
    <3>1. x.segs = [a \in DOMAIN x.segs |-> x.segs[a]]
      BY <1>3
    <3> QED BY <2>4, <3>1
  <2>6. x.end \in Nat
    BY <1>1, <1>2, <1>5 DEF new
  <2> QED BY <1>5, <2>1, <2>5, <2>6 DEF IsHeap
<1> QED BY <1>4, <1>5, <1>6, <1>7, <1>8 DEF new, P, x

\* Behind a last segment in use, the heap grows by a segment.
LEMMA ExpandUsed ==
  ASSUME NEW h, NEW bs, Holds(h, bs), NEW size \in Sizes, ~Last(h).free
  PROVE  LET d == Expand(h, size)
         IN  /\ Holds(d, bs) /\ Last(d).free
             /\ Last(d).lenght = Pages(size) * PageSize - HdrSize
             /\ Left(d) = Pages(size) * PageSize
<1> DEFINE P == Pages(size) * PageSize
           new == h.end
           d == Appended(h, size)
<1>1. P \in Nat /\ P >= PageSize
  BY PagesAdded
<1> HIDE DEF P, new, d
<1>2. /\ IsHeap(d) /\ DOMAIN d.segs = DOMAIN h.segs \cup {new}
      /\ h.lastHdr # new /\ d.lastHdr = new /\ d.end = new + P
      /\ d.segs[new] = [lenght |-> P - HdrSize, next |-> NULL, last |-> h.lastHdr, free |-> TRUE]
      /\ d.segs[h.lastHdr] = [Last(h) EXCEPT !.next = new]
      /\ \A a \in DOMAIN h.segs : a # new /\ a # h.lastHdr => d.segs[a] = h.segs[a]
  BY AppendedIs DEF P, new, d
<1>3. /\ h.lastHdr \in Nat /\ new \in Nat /\ Last(h).lenght \in Nat /\ Last(h) \in HeapSegHdr
      /\ h.lastHdr + HdrSize + Last(h).lenght <= new
  BY HoldsTypes DEF new
<1>4. /\ d.segs[h.lastHdr].next = new /\ d.segs[h.lastHdr].free = Last(h).free
      /\ d.segs[h.lastHdr].last = Last(h).last /\ d.segs[h.lastHdr].lenght = Last(h).lenght
  BY <1>2, <1>3 DEF HeapSegHdr
<1>5. Expand(h, size) = d
  <2>1. ~d.segs[h.lastHdr].free
    BY <1>4
  <2>2. d.segs[new].last = h.lastHdr
    BY <1>2
  <2>3. CombineBackward(d, new) = d
    BY <2>1, <2>2 DEF CombineBackward
  <2> QED BY <2>3, ExpandIs DEF d, new
<1>6. PICK k, f : Good(h, k, f) /\ Blocks(h, k, f, bs)
  BY DEF Holds
<1>7. k \in Nat /\ k \in 0 .. k /\ f[k] = h.lastHdr
  BY <1>6 DEF Good
<1>8. \A n \in 0 .. k : f[n] \in DOMAIN h.segs /\ (n < k => f[n] # h.lastHdr /\ f[n] # new)
  <2> SUFFICES ASSUME NEW n \in 0 .. k
               PROVE  f[n] \in DOMAIN h.segs /\ (n < k => f[n] # h.lastHdr /\ f[n] # new)
    OBVIOUS
  <2>1. f[n] \in DOMAIN h.segs /\ f[n] \in Nat /\ h.segs[f[n]].lenght \in Nat
    BY <1>6, Distinct
  <2>2. n < k => f[n] + HdrSize + h.segs[f[n]].lenght <= h.lastHdr
    BY <1>6, <1>7 DEF Good
  <2> QED BY <1>3, <2>1, <2>2, HeapAssumption
<1>9. \A n \in 0 .. k : n < k => d.segs[f[n]] = h.segs[f[n]]
  BY <1>2, <1>8
<1> DEFINE g == [n \in 0 .. (k + 1) |-> IF n <= k THEN f[n] ELSE new]
<1>10. Good(d, k + 1, g)
  <2>1. P - HdrSize + new + HdrSize = new + P
    BY <1>1, <1>3, HeapAssumption
  <2>2. new + HdrSize + d.segs[new].lenght <= d.end
    BY <1>1, <1>2, <1>3, <2>1, HeapAssumption
  <2>3. f[k] + HdrSize + d.segs[f[k]].lenght <= new
    BY <1>3, <1>4, <1>7
  <2>4. /\ d.segs[new].next = NULL /\ d.segs[new].last = f[k]
        /\ d.segs[f[k]].next = new /\ d.segs[f[k]].last = h.segs[f[k]].last
    <3>1. d.segs[new].next = NULL /\ d.segs[new].last = f[k]
      BY <1>2, <1>7
    <3>2. d.segs[f[k]].next = new
      BY <1>4, <1>7
    <3>3. d.segs[f[k]].last = h.segs[f[k]].last
      BY <1>4, <1>7 DEF Last
    <3> QED BY <3>1, <3>2, <3>3
  <2>5. ~d.segs[f[k]].free
    BY <1>4, <1>7, Zenon
  <2> QED BY <1>2, <1>3, <1>6, <1>9, <2>2, <2>3, <2>4, <2>5, Longer
<1>11. \A n \in 0 .. k : n \in 0 .. (k + 1) /\ g[n] = f[n]
         /\ d.segs[f[n]].free = h.segs[f[n]].free /\ d.segs[f[n]].lenght = h.segs[f[n]].lenght
  BY <1>4, <1>7, <1>9 DEF Last
<1>12. \A n \in 0 .. (k + 1) : n \in 0 .. k \/ n = k + 1
  BY <1>7
<1>13. d.segs[g[k + 1]].free
  BY <1>2, <1>7
<1> HIDE DEF g
<1>14. Blocks(d, k + 1, g, bs)
  <2>1. \A b \in bs : \E n \in 0 .. (k + 1) :
          ~d.segs[g[n]].free /\ b.addr = g[n] + HdrSize /\ b.size <= d.segs[g[n]].lenght
    <3> SUFFICES ASSUME NEW b \in bs
                 PROVE  \E n \in 0 .. (k + 1) :
                          ~d.segs[g[n]].free /\ b.addr = g[n] + HdrSize /\ b.size <= d.segs[g[n]].lenght
      OBVIOUS
    <3>1. PICK n \in 0 .. k : ~h.segs[f[n]].free /\ b.addr = f[n] + HdrSize
                              /\ b.size <= h.segs[f[n]].lenght
      BY <1>6 DEF Blocks
    <3> QED BY <1>11, <3>1
  <2>2. \A n \in 0 .. (k + 1) : ~d.segs[g[n]].free => \E b \in bs : b.addr = g[n] + HdrSize
    BY <1>6, <1>11, <1>12, <1>13 DEF Blocks
  <2> QED BY <1>6, <2>1, <2>2 DEF Blocks
<1>15. Holds(d, bs)
  BY <1>10, <1>14 DEF Holds
<1>16. Left(d) = P
  BY <1>1, <1>2, <1>3 DEF Left
<1> QED BY <1>2, <1>5, <1>15, <1>16 DEF Last, P

\* A free segment takes in the last one.
LEMMA JoinLast ==
  ASSUME NEW h, IsHeap(h), NEW s \in DOMAIN h.segs, h.segs[s].free,
         NEW n \in DOMAIN h.segs, h.segs[s].next = n, h.segs[n].next = NULL, h.lastHdr = n,
         NEW d, d = CombineForward(h, s)
  PROVE  /\ IsHeap(d) /\ DOMAIN d.segs = DOMAIN h.segs /\ d.lastHdr = s /\ d.end = h.end
         /\ d.segs[s].lenght = h.segs[s].lenght + h.segs[n].lenght + HdrSize
         /\ d.segs[s].next = NULL /\ d.segs[s].last = h.segs[s].last
         /\ d.segs[s].free = h.segs[s].free
         /\ \A a \in DOMAIN h.segs : a # s => d.segs[a] = h.segs[a]
<1> DEFINE hdr == [h.segs[s] EXCEPT !.lenght = @ + h.segs[n].lenght + HdrSize, !.next = NULL]
<1>1. /\ DOMAIN h = {"segs", "end", "lastHdr"} /\ n \in Nat /\ n # NULL
      /\ h.segs[s] \in HeapSegHdr /\ h.segs[n] \in HeapSegHdr
  BY HeapAssumption DEF IsHeap
<1>2. d = [h EXCEPT !.lastHdr = s,
                    !.segs = [h.segs EXCEPT ![s].lenght = @ + h.segs[n].lenght + HdrSize,
                                            ![s].next = NULL]]
  <2>1. LastAfter(h, s, n) = s
    BY DEF LastAfter
  <2> QED BY <1>1, <2>1 DEF CombineForward
<1>3. /\ DOMAIN d = {"segs", "end", "lastHdr"} /\ d.lastHdr = s /\ d.end = h.end
      /\ d.segs = [h.segs EXCEPT ![s].lenght = @ + h.segs[n].lenght + HdrSize, ![s].next = NULL]
  BY <1>1, <1>2
<1>4. /\ DOMAIN d.segs = DOMAIN h.segs /\ d.segs[s] = hdr
      /\ \A a \in DOMAIN h.segs : a # s => d.segs[a] = h.segs[a]
  <2>1. DOMAIN d.segs = DOMAIN h.segs
    BY <1>3
  <2>2. \A a \in DOMAIN h.segs : a # s => d.segs[a] = h.segs[a]
    BY <1>3
  <2>3. d.segs[s] = hdr
    BY <1>3
  <2> HIDE DEF hdr
  <2> QED BY <2>1, <2>2, <2>3
<1>5. hdr \in HeapSegHdr
  <2>1. h.segs[s].lenght + h.segs[n].lenght + HdrSize \in Nat
    BY <1>1, HeapAssumption DEF HeapSegHdr
  <2> QED BY <1>1, <2>1 DEF HeapSegHdr
<1>6. /\ hdr.lenght = h.segs[s].lenght + h.segs[n].lenght + HdrSize
      /\ hdr.next = NULL /\ hdr.last = h.segs[s].last /\ hdr.free = h.segs[s].free
  BY <1>1 DEF HeapSegHdr
<1>7. IsHeap(d)
  <2>1. \A a \in DOMAIN d.segs : d.segs[a] \in HeapSegHdr
    <3> HIDE DEF hdr
    <3> QED BY <1>4, <1>5 DEF IsHeap
  <2>2. d.segs = [a \in DOMAIN d.segs |-> d.segs[a]]
    BY <1>3
  <2>3. d.segs \in [DOMAIN d.segs -> HeapSegHdr]
    BY <2>1, <2>2
  <2> QED BY <1>3, <1>4, <2>3 DEF IsHeap
<1> HIDE DEF hdr
<1> QED BY <1>3, <1>4, <1>6, <1>7

LEMMA JoinFree ==
  ASSUME NEW h, IsHeap(h), NEW s \in DOMAIN h.segs, h.segs[s].free,
         NEW n \in DOMAIN h.segs, h.segs[s].next = n, h.segs[n].next = NULL, h.lastHdr = n,
         NEW d, d = CombineForward(h, s)
  PROVE  d.segs[s].free
<1>1. d.segs[s].free = h.segs[s].free
  BY JoinLast
<1> QED BY <1>1, Zenon

\* A last segment that is free takes the pages added in.
LEMMA ExpandFree ==
  ASSUME NEW h, NEW bs, Holds(h, bs), NEW size \in Sizes, Last(h).free
  PROVE  LET d == Expand(h, size)
         IN  /\ Holds(d, bs) /\ Last(d).free
             /\ Last(d).lenght = Last(h).lenght + Pages(size) * PageSize
             /\ Left(d) = Left(h) + Pages(size) * PageSize
<1> DEFINE P == Pages(size) * PageSize
           new == h.end
           l == h.lastHdr
           x == Appended(h, size)
           d == CombineForward(x, l)
<1>1. P \in Nat /\ P >= PageSize
  BY PagesAdded
<1> HIDE DEF P, new, x, d, l
<1>2. /\ IsHeap(x) /\ DOMAIN x.segs = DOMAIN h.segs \cup {new}
      /\ l # new /\ x.lastHdr = new /\ x.end = new + P
      /\ x.segs[new] = [lenght |-> P - HdrSize, next |-> NULL, last |-> l, free |-> TRUE]
      /\ x.segs[l] = [Last(h) EXCEPT !.next = new]
      /\ \A a \in DOMAIN h.segs : a # new /\ a # l => x.segs[a] = h.segs[a]
  BY AppendedIs DEF P, new, x, l
<1>3. /\ l \in Nat /\ l \in DOMAIN h.segs /\ new \in Nat /\ Last(h).lenght \in Nat
      /\ Last(h) \in HeapSegHdr /\ l + HdrSize + Last(h).lenght <= new
  BY HoldsTypes DEF new, l
<1>4. /\ x.segs[l].next = new /\ x.segs[l].free = Last(h).free
      /\ x.segs[l].last = Last(h).last /\ x.segs[l].lenght = Last(h).lenght
  BY <1>2, <1>3 DEF HeapSegHdr
<1>5. Expand(h, size) = d
  <2>1. x.segs[l].free
    BY <1>4
  <2>2. x.segs[new].last = l /\ l # NULL
    BY <1>2, <1>3, HeapAssumption
  <2>3. CombineBackward(x, new) = d
    BY <2>1, <2>2 DEF CombineBackward, d
  <2> QED BY <2>3, ExpandIs DEF x, new
<1>6. /\ IsHeap(d) /\ DOMAIN d.segs = DOMAIN x.segs /\ d.lastHdr = l /\ d.end = x.end
      /\ d.segs[l].lenght = Last(h).lenght + (P - HdrSize) + HdrSize
      /\ d.segs[l].next = NULL /\ d.segs[l].last = Last(h).last
      /\ \A a \in DOMAIN h.segs : a # new /\ a # l => d.segs[a] = h.segs[a]
  <2>1. x.segs[l].free /\ l \in DOMAIN x.segs /\ new \in DOMAIN x.segs /\ x.segs[l].next = new
        /\ x.segs[new].next = NULL /\ x.segs[new].lenght = P - HdrSize
    BY <1>2, <1>3, <1>4
  <2>2. /\ IsHeap(d) /\ DOMAIN d.segs = DOMAIN x.segs /\ d.lastHdr = l /\ d.end = x.end
        /\ d.segs[l].lenght = x.segs[l].lenght + x.segs[new].lenght + HdrSize
        /\ d.segs[l].next = NULL /\ d.segs[l].last = x.segs[l].last
        /\ \A a \in DOMAIN x.segs : a # l => d.segs[a] = x.segs[a]
    <3>1. IsHeap(x) /\ x.lastHdr = new
      BY <1>2
    <3>2. d = CombineForward(x, l)
      BY DEF d
    <3> QED BY <2>1, <3>1, <3>2, JoinLast
  <2>3. d.segs[l].lenght = Last(h).lenght + (P - HdrSize) + HdrSize
    BY <1>4, <2>1, <2>2
  <2>4. d.segs[l].last = Last(h).last
    BY <1>4, <2>2
  <2>5. \A a \in DOMAIN h.segs : a # new /\ a # l => d.segs[a] = h.segs[a]
    BY <1>2, <2>2
  <2> QED BY <2>2, <2>3, <2>4, <2>5
<1>7. d.segs[l].free
  <2>1. l \in DOMAIN x.segs /\ new \in DOMAIN x.segs /\ x.segs[l].next = new
        /\ x.segs[new].next = NULL /\ IsHeap(x) /\ x.lastHdr = new
    BY <1>2, <1>3, <1>4
  <2>2. x.segs[l].free
    BY <1>4
  <2>3. d = CombineForward(x, l)
    BY DEF d
  <2> QED BY <2>1, <2>2, <2>3, JoinFree
<1>8. d.segs[l].lenght = Last(h).lenght + P
  BY <1>1, <1>3, <1>6, HeapAssumption
<1>9. PICK k, f : Good(h, k, f) /\ Blocks(h, k, f, bs)
  BY DEF Holds
<1>10. k \in Nat /\ k \in 0 .. k /\ f[k] = l
  BY <1>9 DEF Good, l
<1>11. \A n \in 0 .. k : f[n] \in DOMAIN h.segs /\ (n < k => f[n] # l /\ f[n] # new)
  <2> SUFFICES ASSUME NEW n \in 0 .. k
               PROVE  f[n] \in DOMAIN h.segs /\ (n < k => f[n] # l /\ f[n] # new)
    OBVIOUS
  <2>1. f[n] \in DOMAIN h.segs /\ f[n] \in Nat /\ h.segs[f[n]].lenght \in Nat
    BY <1>9, Distinct
  <2>2. n < k => f[n] + HdrSize + h.segs[f[n]].lenght <= l
    BY <1>9, <1>10 DEF Good
  <2> QED BY <1>3, <2>1, <2>2, HeapAssumption
<1>12. \A n \in 0 .. k : n < k => d.segs[f[n]] = h.segs[f[n]]
  BY <1>6, <1>11
<1> DEFINE g == [n \in 0 .. k |-> f[n]]
<1>13. Good(d, k, g)
  <2>1. f[k] + HdrSize + d.segs[f[k]].lenght <= d.end
    BY <1>1, <1>2, <1>3, <1>6, <1>8, <1>10, HeapAssumption
  <2>2. d.segs[f[k]].next = NULL /\ d.segs[f[k]].last = h.segs[f[k]].last /\ d.lastHdr = f[k]
    BY <1>6, <1>10 DEF Last, l
  <2>3. DOMAIN h.segs \subseteq DOMAIN d.segs
    BY <1>2, <1>6
  <2> QED BY <1>6, <1>9, <1>10, <1>12, <2>1, <2>2, <2>3, Ended
<1>14. \A n \in 0 .. k : g[n] = f[n] /\ (n < k \/ n = k)
  BY <1>10
<1>15. \A n \in 0 .. k : ~d.segs[g[n]].free => n < k
  BY <1>7, <1>10, <1>14
<1>16. \A n \in 0 .. k : ~h.segs[f[n]].free => n < k
  BY <1>10, <1>14 DEF Last, l
<1> HIDE DEF g
<1>17. Blocks(d, k, g, bs)
  <2>1. \A b \in bs : \E n \in 0 .. k :
          ~d.segs[g[n]].free /\ b.addr = g[n] + HdrSize /\ b.size <= d.segs[g[n]].lenght
    <3> SUFFICES ASSUME NEW b \in bs
                 PROVE  \E n \in 0 .. k :
                          ~d.segs[g[n]].free /\ b.addr = g[n] + HdrSize /\ b.size <= d.segs[g[n]].lenght
      OBVIOUS
    <3>1. PICK n \in 0 .. k : ~h.segs[f[n]].free /\ b.addr = f[n] + HdrSize
                              /\ b.size <= h.segs[f[n]].lenght
      BY <1>9 DEF Blocks
    <3> QED BY <1>12, <1>14, <1>16, <3>1
  <2>2. \A n \in 0 .. k : ~d.segs[g[n]].free => \E b \in bs : b.addr = g[n] + HdrSize
    BY <1>9, <1>12, <1>14, <1>15 DEF Blocks
  <2> QED BY <1>9, <2>1, <2>2 DEF Blocks
<1>18. Holds(d, bs)
  BY <1>13, <1>17 DEF Holds
<1>19. Left(d) = Left(h) + P
  BY <1>1, <1>2, <1>3, <1>6 DEF Left, new, l
<1> QED BY <1>5, <1>6, <1>7, <1>8, <1>18, <1>19 DEF Last, P

\* MEM_ExpandHeap leaves a free segment at the end, of about the pages it added.
LEMMA ExpandKeeps ==
  ASSUME NEW h, NEW bs, Holds(h, bs), NEW size \in Sizes, NEW d, d = Expand(h, size)
  PROVE  /\ Holds(d, bs) /\ Last(d).free /\ Left(d) >= PageSize
         /\ Last(d).lenght >= Pages(size) * PageSize - HdrSize
         /\ Last(h).free => Last(d).lenght = Last(h).lenght + Pages(size) * PageSize
<1> DEFINE P == Pages(size) * PageSize
<1>1. P \in Nat /\ P >= PageSize
  BY PagesAdded
<1>2. Left(h) \in Nat /\ Last(h).lenght \in Nat
  BY HoldsTypes
<1>3. CASE Last(h).free
  <2>1. /\ Holds(d, bs) /\ Last(d).free
        /\ Last(d).lenght = Last(h).lenght + P /\ Left(d) = Left(h) + P
    BY <1>3, ExpandFree
  <2> HIDE DEF P
  <2>2. Left(d) >= PageSize /\ Last(d).lenght >= P - HdrSize
    BY <1>1, <1>2, <2>1, HeapAssumption
  <2> QED BY <2>1, <2>2 DEF P
<1>4. CASE ~Last(h).free
  <2>1. /\ Holds(d, bs) /\ Last(d).free
        /\ Last(d).lenght = P - HdrSize /\ Left(d) = P
    BY <1>4, ExpandUsed
  <2> HIDE DEF P
  <2>2. Left(d) >= PageSize /\ Last(d).lenght >= P - HdrSize
    BY <1>1, <2>1, HeapAssumption
  <2> QED BY <1>4, <2>1, <2>2 DEF P
<1> QED BY <1>3, <1>4

\* Two expansions are enough for any size.
LEMMA RoomIs ==
  ASSUME NEW h, NEW bs, Holds(h, bs), NEW size \in Sizes, NEW r, r = RoomFor(h, size)
  PROVE  /\ Holds(r, bs) /\ Fitting(r, size) # {}
         /\ Last(r).free /\ Last(r).lenght >= size
         /\ r = h \/ Left(r) >= PageSize
<1> DEFINE P == Pages(size) * PageSize
           once == Expand(h, size)
           twice == Expand(once, size)
<1>1. P \in Nat /\ P >= PageSize /\ P >= size /\ size \in Nat
  BY PagesAdded, HeapAssumption
<1>2. \A x : Holds(x, bs) =>
        (Fitting(x, size) # {} <=> Last(x).free /\ Last(x).lenght >= size)
  <2> SUFFICES ASSUME NEW x, Holds(x, bs)
               PROVE  Fitting(x, size) # {} <=> Last(x).free /\ Last(x).lenght >= size
    OBVIOUS
  <2>1. PICK k, f : Good(x, k, f)
    BY DEF Holds
  <2> QED BY <1>1, <2>1, FittingIs DEF Last
<1>3. r = IF Fitting(h, size) # {} THEN h
          ELSE IF Fitting(once, size) # {} THEN once ELSE twice
  BY DEF RoomFor
<1>4. /\ Holds(once, bs) /\ Last(once).free /\ Left(once) >= PageSize
      /\ Last(once).lenght >= P - HdrSize /\ Last(once).lenght \in Nat
  BY ExpandKeeps, HoldsTypes
<1> HIDE DEF once
<1>5. /\ Holds(twice, bs) /\ Last(twice).free /\ Left(twice) >= PageSize
      /\ Last(twice).lenght = Last(once).lenght + P
  BY <1>4, ExpandKeeps
<1> HIDE DEF P, twice
<1>6. Last(twice).lenght >= size
  BY <1>1, <1>4, <1>5, HeapAssumption
<1> QED BY <1>2, <1>3, <1>4, <1>5, <1>6

\* The last segment of h is put to use for a block of this size: in the heap d
\* nothing precedes it that was not there before, and what follows it is free.
Taken(h, k, f, size, d, j, g) ==
  /\ \A n \in 0 .. k : g[n] = f[n]
  /\ \A n \in 0 .. k : n < k => d.segs[f[n]] = h.segs[f[n]]
  /\ ~d.segs[f[k]].free
  /\ size <= d.segs[f[k]].lenght
  /\ j = k + 1 => d.segs[g[j]].free

LEMMA BlocksAdded ==
  ASSUME NEW h, NEW bs, NEW k, NEW f, Good(h, k, f), Blocks(h, k, f, bs), Last(h).free,
         NEW size \in Sizes, NEW d, NEW j \in {k, k + 1}, NEW g, Taken(h, k, f, size, d, j, g)
  PROVE  Blocks(d, j, g, bs \cup {[addr |-> h.lastHdr + HdrSize, size |-> size]})
<1> DEFINE new == [addr |-> h.lastHdr + HdrSize, size |-> size]
<1>0. /\ \A n \in 0 .. k : g[n] = f[n]
      /\ \A n \in 0 .. k : n < k => d.segs[f[n]] = h.segs[f[n]]
      /\ ~d.segs[f[k]].free /\ size <= d.segs[f[k]].lenght
      /\ j = k + 1 => d.segs[g[j]].free
  BY DEF Taken
<1>1. k \in Nat /\ j \in Nat /\ k \in 0 .. k /\ k \in 0 .. j /\ f[k] = h.lastHdr
  BY DEF Good
<1>2. \A n \in 0 .. j : (n \in 0 .. k /\ n < k) \/ n = k \/ (n = k + 1 /\ n = j)
  BY <1>1
<1>3. \A n \in 0 .. k : n \in 0 .. j /\ f[n] \in Nat /\ (n < k => f[n] # f[k])
  BY <1>1, Distinct
<1>4. \A n \in 0 .. k : ~h.segs[f[n]].free => n < k
  <2>1. h.segs[f[k]].free
    BY <1>1 DEF Last
  <2> QED BY <1>1, <2>1
<1>5. new.addr = f[k] + HdrSize /\ new.size = size /\ new \in [addr : Nat, size : Sizes]
  BY <1>1, <1>3, HeapAssumption
<1> HIDE DEF new
<1>6. \A b \in bs : \E n \in 0 .. k : n < k /\ b.addr = f[n] + HdrSize
        /\ ~h.segs[f[n]].free /\ b.size <= h.segs[f[n]].lenght
  <2> SUFFICES ASSUME NEW b \in bs
               PROVE  \E n \in 0 .. k : n < k /\ b.addr = f[n] + HdrSize
                        /\ ~h.segs[f[n]].free /\ b.size <= h.segs[f[n]].lenght
    OBVIOUS
  <2>1. PICK n \in 0 .. k : ~h.segs[f[n]].free /\ b.addr = f[n] + HdrSize
                            /\ b.size <= h.segs[f[n]].lenght
    BY DEF Blocks
  <2> QED BY <1>4, <2>1
<1>7. bs \cup {new} \subseteq [addr : Nat, size : Sizes]
  BY <1>5 DEF Blocks
<1>8. ASSUME NEW b \in bs \cup {new}
      PROVE  \E n \in 0 .. j : ~d.segs[g[n]].free /\ b.addr = g[n] + HdrSize
                               /\ b.size <= d.segs[g[n]].lenght
  <2>1. CASE b = new
    <3>1. g[k] = f[k]
      BY <1>0, <1>1
    <3>2. ~d.segs[g[k]].free /\ b.addr = g[k] + HdrSize /\ b.size <= d.segs[g[k]].lenght
      BY <1>0, <1>5, <2>1, <3>1
    <3> QED BY <1>1, <3>2
  <2>2. CASE b \in bs
    <3>1. PICK n \in 0 .. k : n < k /\ b.addr = f[n] + HdrSize
                              /\ ~h.segs[f[n]].free /\ b.size <= h.segs[f[n]].lenght
      BY <1>6, <2>2
    <3>2. n \in 0 .. j /\ g[n] = f[n] /\ d.segs[f[n]] = h.segs[f[n]]
      BY <1>0, <1>3, <3>1
    <3>3. ~d.segs[g[n]].free /\ b.addr = g[n] + HdrSize /\ b.size <= d.segs[g[n]].lenght
      BY <3>1, <3>2
    <3> QED BY <3>2, <3>3
  <2> QED BY <1>8, <2>1, <2>2
<1>9. ASSUME NEW n \in 0 .. j, ~d.segs[g[n]].free
      PROVE  \E b \in bs \cup {new} : b.addr = g[n] + HdrSize
  <2>1. CASE n = k
    BY <1>0, <1>1, <1>5, <2>1
  <2>2. CASE n \in 0 .. k /\ n < k
    <3>1. ~h.segs[f[n]].free /\ g[n] = f[n]
      BY <1>0, <1>9, <2>2
    <3>2. PICK b \in bs : b.addr = f[n] + HdrSize
      BY <2>2, <3>1 DEF Blocks
    <3> QED BY <3>1, <3>2
  <2>3. CASE n = k + 1 /\ n = j
    BY <1>0, <1>9, <2>3
  <2> QED BY <1>2, <2>1, <2>2, <2>3
<1>10. ASSUME NEW b \in bs \cup {new}, NEW c \in bs \cup {new}, b.addr = c.addr
       PROVE  b = c
  <2>1. \A e \in bs : e.addr # new.addr
    <3> SUFFICES ASSUME NEW e \in bs PROVE e.addr # new.addr
      OBVIOUS
    <3>1. PICK n \in 0 .. k : n < k /\ e.addr = f[n] + HdrSize
      BY <1>6
    <3> QED BY <1>1, <1>3, <1>5, <3>1, HeapAssumption
  <2>2. \A e, i \in bs : e.addr = i.addr => e = i
    BY DEF Blocks
  <2> QED BY <1>10, <2>1, <2>2
<1> QED BY <1>7, <1>8, <1>9, <1>10 DEF Blocks, new

\* The last segment, put to use.
Used(h) == [h EXCEPT !.segs[h.lastHdr].free = FALSE]

\* MEM_Malloc takes the last segment as it is.
LEMMA UseWhole ==
  ASSUME NEW h, NEW bs, Holds(h, bs), NEW size \in Sizes, Last(h).free,
         size <= Last(h).lenght,
         NEW d, d = Used(h)
  PROVE  /\ Holds(d, bs \cup {[addr |-> h.lastHdr + HdrSize, size |-> size]})
         /\ Left(d) = Left(h) /\ ~Last(d).free
<1> DEFINE l == h.lastHdr
<1>1. PICK k, f : Good(h, k, f) /\ Blocks(h, k, f, bs)
  BY DEF Holds
<1>2. /\ IsHeap(h) /\ l \in DOMAIN h.segs /\ l \in Nat /\ h.segs[l] \in HeapSegHdr
      /\ h.segs[l].next = NULL /\ l + HdrSize + h.segs[l].lenght <= h.end
  BY HoldsTypes DEF Last
<1>3. k \in Nat /\ k \in 0 .. k /\ f[k] = l
  BY <1>1 DEF Good
<1> HIDE DEF l
<1>4. /\ DOMAIN d = {"segs", "end", "lastHdr"} /\ d.lastHdr = l /\ d.end = h.end
      /\ d.segs = [h.segs EXCEPT ![l].free = FALSE]
  BY <1>2 DEF IsHeap, Used, l
<1>5. /\ DOMAIN d.segs = DOMAIN h.segs /\ d.segs[l] = [h.segs[l] EXCEPT !.free = FALSE]
      /\ \A a \in DOMAIN h.segs : a # l => d.segs[a] = h.segs[a]
  BY <1>2, <1>4
<1>6. d.segs[l] \in HeapSegHdr /\ d.segs[l].free = FALSE
      /\ d.segs[l].next = h.segs[l].next /\ d.segs[l].last = h.segs[l].last
      /\ d.segs[l].lenght = h.segs[l].lenght
  BY <1>2, <1>5 DEF HeapSegHdr
<1>7. IsHeap(d)
  <2>1. \A a \in DOMAIN d.segs : d.segs[a] \in HeapSegHdr
    BY <1>2, <1>5, <1>6 DEF IsHeap
  <2>2. d.segs = [a \in DOMAIN d.segs |-> d.segs[a]]
    BY <1>4
  <2>3. d.segs \in [DOMAIN d.segs -> HeapSegHdr]
    BY <2>1, <2>2
  <2> QED BY <1>2, <1>4, <1>5, <2>3 DEF IsHeap
<1>8. \A n \in 0 .. k : n < k => d.segs[f[n]] = h.segs[f[n]]
  <2>1. \A n \in 0 .. k : f[n] \in DOMAIN h.segs /\ (n < k => f[n] # l)
    BY <1>1, <1>3, Distinct
  <2> QED BY <1>5, <2>1
<1> DEFINE g == [n \in 0 .. k |-> f[n]]
<1>9. Good(d, k, g)
  <2>1. /\ d.segs[f[k]].next = NULL /\ d.segs[f[k]].last = h.segs[f[k]].last
        /\ d.lastHdr = f[k] /\ DOMAIN h.segs \subseteq DOMAIN d.segs
    BY <1>2, <1>3, <1>4, <1>5, <1>6
  <2>2. f[k] + HdrSize + d.segs[f[k]].lenght <= d.end
    BY <1>2, <1>3, <1>4, <1>6
  <2> QED BY <1>1, <1>3, <1>7, <1>8, <2>1, <2>2, Ended
<1>10. \A n \in 0 .. k : g[n] = f[n]
  OBVIOUS
<1> HIDE DEF g
<1>11. ~d.segs[f[k]].free /\ size <= d.segs[f[k]].lenght
  <2>1. d.segs[f[k]].free = FALSE /\ d.segs[f[k]].lenght = h.segs[l].lenght
    BY <1>3, <1>6
  <2>2. size <= h.segs[l].lenght
    BY DEF Last, l
  <2>3. ~d.segs[f[k]].free
    BY <2>1, Zenon
  <2> QED BY <2>1, <2>2, <2>3
<1>12. Blocks(d, k, g, bs \cup {[addr |-> h.lastHdr + HdrSize, size |-> size]})
  <2>1. k \in {k, k + 1} /\ ~(k = k + 1)
    BY <1>3
  <2>2. Taken(h, k, f, size, d, k, g)
    BY <1>8, <1>10, <1>11, <2>1 DEF Taken
  <2> QED BY <1>1, <2>1, <2>2, BlocksAdded
<1>13. Left(d) = Left(h)
  BY <1>4 DEF Left, l
<1>14. ~Last(d).free
  <2>1. Last(d) = d.segs[f[k]]
    BY <1>3, <1>4 DEF Last
  <2> QED BY <1>11, <2>1
<1> QED BY <1>9, <1>12, <1>13, <1>14 DEF Holds

\* MEM_Malloc cuts the last segment; the one behind the cut is given the length
\* of the part in front of it, which must not take it beyond the heap.
LEMMA UseCut ==
  ASSUME NEW h, NEW bs, Holds(h, bs), NEW size \in Sizes, Last(h).free,
         size + HdrSize < Last(h).lenght, 2 * (size + HdrSize) <= Left(h),
         NEW d, d = Use(h, h.lastHdr, size)
  PROVE  /\ Holds(d, bs \cup {[addr |-> h.lastHdr + HdrSize, size |-> size]})
         /\ Left(d) = Left(h) - (size + HdrSize) /\ Last(d).lenght = size
<1> DEFINE l == h.lastHdr
           new == Behind(l, size)
           newHdr == [lenght |-> size, next |-> NULL, last |-> l, free |-> h.segs[l].free]
           oldHdr == [h.segs[l] EXCEPT !.next = new, !.lenght = size]
           usedHdr == [oldHdr EXCEPT !.free = FALSE]
           x == Split(h, l, size)
<1>1. PICK k, f : Good(h, k, f) /\ Blocks(h, k, f, bs)
  BY DEF Holds
<1>2. /\ IsHeap(h) /\ l \in DOMAIN h.segs /\ l \in Nat /\ h.segs[l] \in HeapSegHdr
      /\ h.segs[l].next = NULL /\ h.segs[l].lenght \in Nat /\ h.end \in Nat
      /\ l + HdrSize + h.segs[l].lenght <= h.end
  BY HoldsTypes DEF Last
<1>3. k \in Nat /\ k \in 0 .. k /\ f[k] = l
  BY <1>1 DEF Good
<1>4. size \in Nat /\ size >= 1 /\ HdrSize \in Nat /\ HdrSize >= 1
      /\ size + HdrSize < h.segs[l].lenght /\ 2 * (size + HdrSize) <= h.end - l
  BY HeapAssumption DEF Last, Left
<1>5. x = [h EXCEPT !.lastHdr = new,
                    !.segs = [a \in DOMAIN h.segs \cup {new} |->
                                IF a = new THEN newHdr ELSE IF a = l THEN oldHdr ELSE h.segs[a]]]
  <2>1. ~(size < 1 \/ h.segs[l].lenght - size - HdrSize < 1)
    BY <1>2, <1>4
  <2> QED BY <1>2, <2>1 DEF Split, IsHeap
<1>6. d = [x EXCEPT !.segs[l].free = FALSE]
  <2>1. h.segs[l].lenght > size
    BY <1>2, <1>4
  <2> QED BY <2>1 DEF Use
<1>7. new \in Nat /\ new = l + HdrSize + size /\ new # l
  BY <1>2, <1>4 DEF Behind
<1> HIDE DEF l, new, newHdr, oldHdr, x
<1>8. /\ DOMAIN x = {"segs", "end", "lastHdr"} /\ x.lastHdr = new /\ x.end = h.end
      /\ x.segs = [a \in DOMAIN h.segs \cup {new} |->
                     IF a = new THEN newHdr ELSE IF a = l THEN oldHdr ELSE h.segs[a]]
  BY <1>2, <1>5 DEF IsHeap
<1>9. /\ DOMAIN d = {"segs", "end", "lastHdr"} /\ d.lastHdr = new /\ d.end = h.end
      /\ d.segs = [x.segs EXCEPT ![l].free = FALSE]
  BY <1>6, <1>8
<1>10. /\ DOMAIN d.segs = DOMAIN h.segs \cup {new}
       /\ d.segs[new] = newHdr /\ d.segs[l] = usedHdr
       /\ \A a \in DOMAIN h.segs : a # l /\ a # new => d.segs[a] = h.segs[a]
  <2>1. /\ DOMAIN x.segs = DOMAIN h.segs \cup {new}
        /\ x.segs[new] = newHdr /\ x.segs[l] = oldHdr
        /\ \A a \in DOMAIN h.segs : a # l /\ a # new => x.segs[a] = h.segs[a]
    BY <1>2, <1>7, <1>8
  <2>2. DOMAIN d.segs = DOMAIN x.segs /\ \A a \in DOMAIN x.segs : a # l => d.segs[a] = x.segs[a]
    BY <1>9
  <2>3. d.segs[l] = usedHdr
    BY <1>2, <1>9, <2>1
  <2> HIDE DEF usedHdr
  <2> QED BY <1>7, <2>1, <2>2, <2>3
<1>11. newHdr \in HeapSegHdr /\ newHdr.lenght = size /\ newHdr.next = NULL /\ newHdr.last = l
       /\ newHdr.free = h.segs[l].free
  BY <1>2, <1>4 DEF HeapSegHdr, newHdr
<1>12. oldHdr \in HeapSegHdr /\ oldHdr.lenght = size /\ oldHdr.next = new
       /\ oldHdr.last = h.segs[l].last
  BY <1>2, <1>4, <1>7 DEF HeapSegHdr, oldHdr
<1>13. usedHdr \in HeapSegHdr /\ usedHdr.lenght = size /\ usedHdr.next = new
       /\ usedHdr.last = h.segs[l].last
  BY <1>12 DEF HeapSegHdr
<1>14. usedHdr.free = FALSE
  BY <1>12 DEF HeapSegHdr
<1> HIDE DEF usedHdr
<1>15. IsHeap(d)
  <2>1. \A a \in DOMAIN d.segs : d.segs[a] \in HeapSegHdr
    BY <1>2, <1>10, <1>11, <1>13 DEF IsHeap
  <2>2. d.segs = [a \in DOMAIN d.segs |-> d.segs[a]]
    BY <1>8, <1>9
  <2>3. d.segs \in [DOMAIN d.segs -> HeapSegHdr]
    BY <2>1, <2>2
  <2>4. IsFiniteSet(DOMAIN d.segs) /\ DOMAIN d.segs \subseteq Nat
    BY <1>2, <1>7, <1>10, FS_AddElement DEF IsHeap
  <2>5. d.end \in Nat
    BY <1>2, <1>9
  <2> QED BY <1>9, <2>3, <2>4, <2>5 DEF IsHeap
<1>16. \A n \in 0 .. k : f[n] \in DOMAIN h.segs /\ (n < k => f[n] # l /\ f[n] # new)
  <2> SUFFICES ASSUME NEW n \in 0 .. k
               PROVE  f[n] \in DOMAIN h.segs /\ (n < k => f[n] # l /\ f[n] # new)
    OBVIOUS
  <2>1. f[n] \in DOMAIN h.segs /\ f[n] \in Nat /\ h.segs[f[n]].lenght \in Nat
    BY <1>1, Distinct
  <2>2. n < k => f[n] + HdrSize + h.segs[f[n]].lenght <= l
    BY <1>1, <1>3 DEF Good
  <2> QED BY <1>2, <1>4, <1>7, <2>1, <2>2
<1>17. \A n \in 0 .. k : n < k => d.segs[f[n]] = h.segs[f[n]]
  BY <1>10, <1>16
<1> DEFINE g == [n \in 0 .. (k + 1) |-> IF n <= k THEN f[n] ELSE new]
<1>18. ~d.segs[f[k]].free
  <2>1. d.segs[f[k]].free = FALSE
    BY <1>3, <1>10, <1>14
  <2> QED BY <2>1, Zenon
<1>19. Good(d, k + 1, g)
  <2>1. /\ d.segs[new].next = NULL /\ d.segs[new].last = f[k] /\ d.segs[f[k]].next = new
        /\ d.segs[f[k]].last = h.segs[f[k]].last /\ d.lastHdr = new
        /\ DOMAIN h.segs \cup {new} \subseteq DOMAIN d.segs
    BY <1>3, <1>9, <1>10, <1>11, <1>13
  <2>2. f[k] + HdrSize + d.segs[f[k]].lenght <= new
    BY <1>2, <1>3, <1>4, <1>7, <1>10, <1>13
  <2>3. new + HdrSize + d.segs[new].lenght <= d.end
    <3>1. d.segs[new].lenght = size /\ d.end = h.end
      BY <1>9, <1>10, <1>11
    <3> QED BY <1>2, <1>4, <1>7, <3>1
  <2> QED BY <1>1, <1>7, <1>15, <1>17, <1>18, <2>1, <2>2, <2>3, Longer
<1>20. \A n \in 0 .. k : g[n] = f[n]
  BY <1>3
<1>21. g[k + 1] = new
  BY <1>3
<1> HIDE DEF g
<1>22. Blocks(d, k + 1, g, bs \cup {[addr |-> h.lastHdr + HdrSize, size |-> size]})
  <2>1. d.segs[new].free
    BY <1>10, <1>11 DEF Last, l
  <2>2. size <= d.segs[f[k]].lenght
    BY <1>3, <1>4, <1>10, <1>13
  <2>3. Taken(h, k, f, size, d, k + 1, g)
    BY <1>17, <1>18, <1>20, <1>21, <2>1, <2>2 DEF Taken
  <2>4. k + 1 \in {k, k + 1}
    OBVIOUS
  <2> QED BY <1>1, <2>3, <2>4, BlocksAdded
<1>23. Left(d) = Left(h) - (size + HdrSize)
  BY <1>2, <1>4, <1>7, <1>9 DEF Left, l
<1>24. Last(d).lenght = size
  BY <1>9, <1>10, <1>11 DEF Last
<1> QED BY <1>19, <1>22, <1>23, <1>24 DEF Holds

\* MEM_Malloc marks the last segment, or what the cut leaves of it, as used.
LEMMA UseKeeps ==
  ASSUME NEW h, NEW bs, Holds(h, bs), NEW size \in Sizes, Last(h).free,
         size <= Last(h).lenght,
         size + HdrSize < Last(h).lenght => 2 * (size + HdrSize) <= Left(h),
         NEW d, d = Use(h, h.lastHdr, size)
  PROVE  /\ Holds(d, bs \cup {[addr |-> h.lastHdr + HdrSize, size |-> size]})
         /\ \/ Left(d) = Left(h) /\ ~Last(d).free
            \/ /\ size + HdrSize < Last(h).lenght
               /\ Left(d) = Left(h) - (size + HdrSize) /\ Last(d).lenght = size
<1> DEFINE len == Last(h).lenght
<1>1. len \in Nat /\ size \in Nat /\ HdrSize \in Nat
  BY HoldsTypes, HeapAssumption
<1>2. CASE size + HdrSize < len
  BY <1>2, UseCut
<1>3. CASE ~(size + HdrSize < len)
  <2>1. Split(h, h.lastHdr, size) = h
    <3>1. len - size - HdrSize < 1
      BY <1>1, <1>3
    <3> QED BY <3>1 DEF Split, Last
  <2>2. d = Used(h)
    BY <2>1 DEF Use, Used
  <2> QED BY <2>2, UseWhole
<1> QED BY <1>2, <1>3

\* MEM_Free marks a segment as free.
Freed(h, s) == [h EXCEPT !.segs[s].free = TRUE]

LEMMA FreedIs ==
  ASSUME NEW h, IsHeap(h), NEW s \in DOMAIN h.segs, NEW x, x = Freed(h, s)
  PROVE  /\ IsHeap(x) /\ DOMAIN x.segs = DOMAIN h.segs
         /\ x.end = h.end /\ x.lastHdr = h.lastHdr
         /\ x.segs[s].next = h.segs[s].next /\ x.segs[s].last = h.segs[s].last
         /\ x.segs[s].lenght = h.segs[s].lenght /\ x.segs[s].free
         /\ \A a \in DOMAIN h.segs : a # s => x.segs[a] = h.segs[a]
<1> DEFINE hdr == [h.segs[s] EXCEPT !.free = TRUE]
<1>1. h.segs[s] \in HeapSegHdr
  BY DEF IsHeap
<1>2. /\ DOMAIN x = {"segs", "end", "lastHdr"} /\ x.lastHdr = h.lastHdr /\ x.end = h.end
      /\ x.segs = [h.segs EXCEPT ![s].free = TRUE]
  BY DEF IsHeap, Freed
<1>3. /\ DOMAIN x.segs = DOMAIN h.segs /\ x.segs[s] = hdr
      /\ \A a \in DOMAIN h.segs : a # s => x.segs[a] = h.segs[a]
  BY <1>2
<1>4. hdr \in HeapSegHdr /\ hdr.next = h.segs[s].next /\ hdr.last = h.segs[s].last
      /\ hdr.lenght = h.segs[s].lenght
  BY <1>1 DEF HeapSegHdr
<1>5. hdr.free = TRUE
  BY <1>1 DEF HeapSegHdr
<1> HIDE DEF hdr
<1>6. IsHeap(x)
  <2>1. \A a \in DOMAIN x.segs : x.segs[a] \in HeapSegHdr
    BY <1>3, <1>4 DEF IsHeap
  <2>2. x.segs = [a \in DOMAIN x.segs |-> x.segs[a]]
    BY <1>2
  <2>3. x.segs \in [DOMAIN x.segs -> HeapSegHdr]
    BY <2>1, <2>2
  <2> QED BY <1>2, <1>3, <2>3 DEF IsHeap
<1>7. x.segs[s].free
  <2>1. x.segs[s].free = TRUE
    BY <1>3, <1>5
  <2> QED BY <2>1, Zenon
<1> QED BY <1>2, <1>3, <1>4, <1>6, <1>7

\* The segment at position p of h is the last one of d, and free, and so were
\* all that followed it in h.
Released(h, k, f, p, d, g) ==
  /\ \A n \in 0 .. p : g[n] = f[n]
  /\ \A n \in 0 .. k : n < p => d.segs[f[n]] = h.segs[f[n]]
  /\ d.segs[f[p]].free
  /\ \A n \in 0 .. k : n > p => h.segs[f[n]].free

LEMMA BlocksRemoved ==
  ASSUME NEW h, NEW bs, NEW k, NEW f, Good(h, k, f), Blocks(h, k, f, bs),
         NEW p \in 0 .. k, NEW b \in bs, b.addr = f[p] + HdrSize,
         NEW d, NEW g, Released(h, k, f, p, d, g)
  PROVE  Blocks(d, p, g, bs \ {b})
<1>1. k \in Nat /\ p \in Nat
  BY DEF Good
<1>2. /\ \A n \in 0 .. p : g[n] = f[n]
      /\ \A n \in 0 .. k : n < p => d.segs[f[n]] = h.segs[f[n]]
      /\ d.segs[f[p]].free
      /\ \A n \in 0 .. k : n > p => h.segs[f[n]].free
  BY DEF Released
<1>3. \A n \in 0 .. k : f[n] \in Nat /\ (n < p => f[n] # f[p])
  BY <1>1, Distinct
<1>4. ASSUME NEW c \in bs \ {b}
      PROVE  \E n \in 0 .. p : ~d.segs[g[n]].free /\ c.addr = g[n] + HdrSize
                               /\ c.size <= d.segs[g[n]].lenght
  <2>1. PICK n \in 0 .. k : ~h.segs[f[n]].free /\ c.addr = f[n] + HdrSize
                            /\ c.size <= h.segs[f[n]].lenght
    BY DEF Blocks
  <2>2. c.addr # b.addr
    BY DEF Blocks
  <2>3. n # p /\ ~(n > p)
    BY <1>2, <2>1, <2>2
  <2>4. n \in 0 .. p /\ n < p
    BY <1>1, <2>3
  <2>5. g[n] = f[n] /\ d.segs[f[n]] = h.segs[f[n]]
    BY <1>2, <2>4
  <2> QED BY <2>1, <2>4, <2>5
<1>5. ASSUME NEW n \in 0 .. p, ~d.segs[g[n]].free
      PROVE  \E c \in bs \ {b} : c.addr = g[n] + HdrSize
  <2>1. n \in 0 .. k /\ g[n] = f[n] /\ n < p
    <3>1. n # p
      BY <1>2, <1>5
    <3> QED BY <1>1, <1>2, <3>1
  <2>2. ~h.segs[f[n]].free
    BY <1>2, <1>5, <2>1
  <2>3. PICK c \in bs : c.addr = f[n] + HdrSize
    BY <2>1, <2>2 DEF Blocks
  <2>4. c # b
    BY <1>3, <2>1, <2>3, HeapAssumption
  <2> QED BY <2>1, <2>3, <2>4
<1>6. bs \ {b} \subseteq [addr : Nat, size : Sizes]
      /\ \A c, e \in bs \ {b} : c.addr = e.addr => c = e
  BY DEF Blocks
<1> QED BY <1>4, <1>5, <1>6 DEF Blocks

\* MEM_Free of the block with the highest address: the heap ends where it did,
\* and its last header has moved down or stayed.
LEMMA FreeKeeps ==
  ASSUME NEW h, NEW bs, Holds(h, bs), NEW b \in bs, \A c \in bs : c.addr <= b.addr,
         NEW s, s = b.addr - HdrSize,
         NEW d, d = CombineBackward(CombineForward(Freed(h, s), s), s)
  PROVE  Holds(d, bs \ {b}) /\ Left(d) >= Left(h)
<1> DEFINE x == Freed(h, s)
           y == CombineForward(x, s)
<1>1. PICK k, f : Good(h, k, f) /\ Blocks(h, k, f, bs)
  BY DEF Holds
<1>2. PICK p \in 0 .. k : ~h.segs[f[p]].free /\ b.addr = f[p] + HdrSize
  BY <1>1 DEF Blocks
<1>3. k \in Nat /\ p \in Nat /\ k \in 0 .. k /\ IsHeap(h) /\ f[k] = h.lastHdr
  BY <1>1 DEF Good
<1>4. \A n \in 0 .. k : f[n] \in Nat /\ f[n] \in DOMAIN h.segs /\ h.segs[f[n]].lenght \in Nat
  BY <1>1, Distinct
<1>5. s = f[p] /\ s \in Nat /\ s \in DOMAIN h.segs
  BY <1>2, <1>4, HeapAssumption
<1>6. \A n \in 0 .. k : n > p => h.segs[f[n]].free
  <2> SUFFICES ASSUME NEW n \in 0 .. k, n > p, ~h.segs[f[n]].free PROVE FALSE
    OBVIOUS
  <2>1. PICK c \in bs : c.addr = f[n] + HdrSize
    BY <1>1 DEF Blocks
  <2>2. f[n] + HdrSize <= f[p] + HdrSize
    BY <1>2, <2>1
  <2>3. f[p] + HdrSize + h.segs[f[p]].lenght <= f[n]
    BY <1>1 DEF Good
  <2> QED BY <1>4, <2>2, <2>3, HeapAssumption
<1>7. p = k \/ p = k - 1
  <2> SUFFICES ASSUME p # k, p # k - 1 PROVE FALSE
    OBVIOUS
  <2>1. p + 1 \in 0 .. k /\ p + 1 < k /\ p + 1 > p
    BY <1>3
  <2>2. h.segs[f[p + 1]].free
    BY <1>6, <2>1
  <2>3. ~h.segs[f[p + 1]].free
    BY <1>1, <2>1 DEF Good
  <2> QED BY <2>2, <2>3
<1> HIDE DEF x
<1>8. /\ IsHeap(x) /\ DOMAIN x.segs = DOMAIN h.segs /\ x.end = h.end /\ x.lastHdr = h.lastHdr
      /\ x.segs[s].next = h.segs[s].next /\ x.segs[s].last = h.segs[s].last
      /\ x.segs[s].lenght = h.segs[s].lenght
      /\ \A a \in DOMAIN h.segs : a # s => x.segs[a] = h.segs[a]
  BY <1>3, <1>5, FreedIs DEF x
<1>9. x.segs[s].free
  BY <1>3, <1>5, FreedIs DEF x
<1> HIDE DEF y
<1>10. \A n \in 0 .. k : n # p => f[n] # s
  BY <1>1, <1>5, Distinct
<1>11. /\ IsHeap(y) /\ DOMAIN y.segs = DOMAIN h.segs /\ y.end = h.end /\ y.lastHdr = s
       /\ y.segs[s].next = NULL /\ y.segs[s].last = h.segs[s].last
       /\ s + HdrSize + y.segs[s].lenght <= h.end
       /\ \A a \in DOMAIN h.segs : a # s => y.segs[a] = h.segs[a]
  <2>1. CASE p = k
    <3>1. h.segs[s].next = NULL /\ s + HdrSize + h.segs[s].lenght <= h.end /\ s = h.lastHdr
      BY <1>1, <1>3, <1>5, <2>1 DEF Good
    <3>2. y = x
      BY <1>8, <3>1 DEF CombineForward, y
    <3> QED BY <1>8, <3>1, <3>2
  <2>2. CASE p = k - 1
    <3>1. p < k /\ p + 1 = k
      BY <1>3, <2>2
    <3>2. h.segs[s].next = f[k] /\ s + HdrSize + h.segs[s].lenght <= f[k]
          /\ h.segs[f[k]].next = NULL /\ f[k] + HdrSize + h.segs[f[k]].lenght <= h.end
      BY <1>1, <1>3, <1>5, <3>1 DEF Good
    <3>3. f[k] # s /\ f[k] \in DOMAIN h.segs
      BY <1>3, <1>4, <1>10, <3>1
    <3>4. x.segs[f[k]] = h.segs[f[k]]
      BY <1>8, <3>3
    <3>5. s \in DOMAIN x.segs /\ f[k] \in DOMAIN x.segs /\ x.segs[s].next = f[k]
          /\ x.segs[f[k]].next = NULL /\ x.lastHdr = f[k]
      BY <1>3, <1>5, <1>8, <3>2, <3>3, <3>4
    <3>6. y = CombineForward(x, s) /\ IsHeap(x)
      BY <1>8 DEF y
    <3>7. /\ IsHeap(y) /\ DOMAIN y.segs = DOMAIN x.segs /\ y.lastHdr = s /\ y.end = x.end
          /\ y.segs[s].lenght = x.segs[s].lenght + x.segs[f[k]].lenght + HdrSize
          /\ y.segs[s].next = NULL /\ y.segs[s].last = x.segs[s].last
          /\ \A a \in DOMAIN x.segs : a # s => y.segs[a] = x.segs[a]
      BY <1>9, <3>5, <3>6, JoinLast
    <3>8. y.segs[s].lenght = h.segs[s].lenght + h.segs[f[k]].lenght + HdrSize
      BY <1>8, <3>4, <3>7
    <3>9. s + HdrSize + y.segs[s].lenght <= h.end
      <4>1. h.segs[s].lenght \in Nat /\ h.segs[f[k]].lenght \in Nat /\ f[k] \in Nat /\ h.end \in Nat
        BY <1>3, <1>4, <1>5 DEF IsHeap
      <4> QED BY <1>5, <3>2, <3>8, <4>1, HeapAssumption
    <3>10. y.segs[s].last = h.segs[s].last
      BY <1>8, <3>7
    <3>11. \A a \in DOMAIN h.segs : a # s => y.segs[a] = h.segs[a]
      BY <1>8, <3>7
    <3> QED BY <1>8, <3>7, <3>9, <3>10, <3>11
  <2> QED BY <1>7, <2>1, <2>2
<1>12. y.segs[s].free
  <2>1. CASE p = k
    <3>1. h.segs[s].next = NULL
      BY <1>1, <1>3, <1>5, <2>1 DEF Good
    <3>2. y = x
      BY <1>8, <3>1 DEF CombineForward, y
    <3> QED BY <1>9, <3>2
  <2>2. CASE p = k - 1
    <3>1. p < k /\ p + 1 = k
      BY <1>3, <2>2
    <3>2. h.segs[s].next = f[k] /\ h.segs[f[k]].next = NULL
      BY <1>1, <1>3, <1>5, <3>1 DEF Good
    <3>3. f[k] # s /\ f[k] \in DOMAIN h.segs
      BY <1>3, <1>4, <1>10, <3>1
    <3>4. s \in DOMAIN x.segs /\ f[k] \in DOMAIN x.segs /\ x.segs[s].next = f[k]
          /\ x.segs[f[k]].next = NULL /\ x.lastHdr = f[k]
      BY <1>3, <1>5, <1>8, <3>2, <3>3
    <3>5. y = CombineForward(x, s) /\ IsHeap(x)
      BY <1>8 DEF y
    <3> QED BY <1>9, <3>4, <3>5, JoinFree
  <2> QED BY <1>7, <2>1, <2>2
<1>13. d = y
  <2>1. h.segs[s].last = NULL \/ ~y.segs[h.segs[s].last].free
    <3>1. CASE p = 0
      BY <1>1, <1>5, <3>1 DEF Good
    <3>2. CASE p # 0
      <4>1. p - 1 \in 0 .. k /\ p - 1 < k /\ p - 1 + 1 = p /\ p - 1 # p
        BY <1>3, <3>2
      <4>2. h.segs[s].last = f[p - 1]
        BY <1>1, <1>5, <4>1 DEF Good
      <4>3. ~h.segs[f[p - 1]].free
        BY <1>1, <4>1 DEF Good
      <4>4. y.segs[f[p - 1]] = h.segs[f[p - 1]]
        BY <1>4, <1>10, <1>11, <4>1
      <4> QED BY <4>2, <4>3, <4>4
    <3> QED BY <3>1, <3>2
  <2>2. d = CombineBackward(y, s) /\ y.segs[s].last = h.segs[s].last
    BY <1>11 DEF x, y
  <2> QED BY <2>1, <2>2 DEF CombineBackward
<1>14. \A n \in 0 .. k : n < p => y.segs[f[n]] = h.segs[f[n]]
  BY <1>3, <1>4, <1>10, <1>11
<1> DEFINE g == [n \in 0 .. p |-> f[n]]
<1>15. Good(y, p, g)
  <2>1. /\ DOMAIN h.segs \subseteq DOMAIN y.segs /\ y.lastHdr = f[p] /\ y.segs[f[p]].next = NULL
        /\ y.segs[f[p]].last = h.segs[f[p]].last
        /\ f[p] + HdrSize + y.segs[f[p]].lenght <= y.end
    BY <1>5, <1>11
  <2> QED BY <1>1, <1>11, <1>14, <2>1, Ended
<1>16. \A n \in 0 .. p : g[n] = f[n]
  OBVIOUS
<1> HIDE DEF g
<1>17. Blocks(y, p, g, bs \ {b})
  <2>1. y.segs[f[p]].free
    BY <1>5, <1>12
  <2>2. Released(h, k, f, p, y, g)
    BY <1>6, <1>14, <1>16, <2>1 DEF Released
  <2> QED BY <1>1, <1>2, <2>2, BlocksRemoved
<1>18. Left(y) >= Left(h)
  <2>1. s <= h.lastHdr
    <3>1. CASE p = k
      BY <1>3, <1>5, <3>1
    <3>2. CASE p = k - 1
      <4>1. p < k
        BY <1>3, <3>2
      <4>2. f[p] + HdrSize + h.segs[f[p]].lenght <= f[k]
        BY <1>1, <1>3, <4>1 DEF Good
      <4> QED BY <1>3, <1>4, <1>5, <4>2, HeapAssumption
    <3> QED BY <1>7, <3>1, <3>2
  <2>2. h.end \in Nat /\ h.lastHdr \in Nat
    BY <1>3, <1>4 DEF IsHeap
  <2> QED BY <1>5, <1>11, <2>1, <2>2 DEF Left
<1> QED BY <1>13, <1>15, <1>17, <1>18 DEF Holds

-------------------------------------------------------------------------------
(***************************************************************************)
(* What the list shows of the heap                                         *)
(***************************************************************************)

\* Only the three fields of a heap matter.
LEMMA SameHeap ==
  ASSUME NEW h, NEW bs, Holds(h, bs), NEW x, DOMAIN x = DOMAIN h,
         x.segs = h.segs, x.end = h.end, x.lastHdr = h.lastHdr
  PROVE  Holds(x, bs) /\ Left(x) = Left(h) /\ Last(x) = Last(h)
<1>1. PICK k, f : Good(h, k, f) /\ Blocks(h, k, f, bs)
  BY DEF Holds
<1>2. Good(x, k, f)
  BY <1>1 DEF Good, IsHeap
<1>3. Blocks(x, k, f, bs)
  BY <1>1 DEF Blocks
<1> QED BY <1>2, <1>3 DEF Holds, Left, Last

\* Each block lies behind its header, in its segment.
LEMMA Placed ==
  ASSUME NEW h, NEW k, NEW f, Good(h, k, f), NEW bs, Blocks(h, k, f, bs), NEW b \in bs
  PROVE  \E n \in 0 .. k :
           /\ b.addr = f[n] + HdrSize /\ b.addr \in Nat /\ b.size \in Nat
           /\ b.addr + b.size <= h.end
           /\ \A m \in 0 .. k : n < m => b.addr + b.size <= f[m]
<1>1. PICK n \in 0 .. k : b.addr = f[n] + HdrSize /\ b.size <= h.segs[f[n]].lenght
  BY DEF Blocks
<1>2. b.addr \in Nat /\ b.size \in Nat
  BY HeapAssumption DEF Blocks
<1>3. k \in Nat /\ k \in 0 .. k /\ h.end \in Nat
  BY DEF Good, IsHeap
<1>4. \A m \in 0 .. k : f[m] \in Nat /\ h.segs[f[m]].lenght \in Nat
  BY Distinct
<1>5. \A m \in 0 .. k : n < m => f[n] + HdrSize + h.segs[f[n]].lenght <= f[m]
  BY DEF Good
<1>6. \A m \in 0 .. k : n < m => b.addr + b.size <= f[m]
  BY <1>1, <1>2, <1>4, <1>5, HeapAssumption
<1>7. b.addr + b.size <= h.end
  <2>1. f[k] + HdrSize + h.segs[f[k]].lenght <= h.end
    BY DEF Good
  <2>2. CASE n = k
    BY <1>1, <1>2, <1>3, <1>4, <2>1, <2>2, HeapAssumption
  <2>3. CASE n < k
    <3>1. b.addr + b.size <= f[k]
      BY <1>3, <1>6, <2>3
    <3> QED BY <1>2, <1>3, <1>4, <2>1, <3>1, HeapAssumption
  <2> QED BY <1>3, <2>2, <2>3
<1> QED BY <1>1, <1>2, <1>6, <1>7

LEMMA HeldApart ==
  ASSUME Holds(Current, live)
  PROVE  LiveBlocksDisjoint /\ LiveBlocksInsideHeap /\ HeadersUntouched
<1>1. PICK k, f : Good(Current, k, f) /\ Blocks(Current, k, f, live)
  BY DEF Holds
<1>2. k \in Nat /\ Listed(Current) = {f[n] : n \in 0 .. k}
  <2>1. k \in Nat
    BY <1>1 DEF Good
  <2> QED BY <1>1, <2>1, ListedIs
<1>3. \A n \in 0 .. k : f[n] \in Nat
  BY <1>1, Distinct
<1>4. \A b \in live : \E n \in 0 .. k :
        /\ b.addr = f[n] + HdrSize /\ b.addr \in Nat /\ b.size \in Nat
        /\ b.addr + b.size <= g_HeapEnd
        /\ \A m \in 0 .. k : n < m => b.addr + b.size <= f[m]
  <2>1. Current.end = g_HeapEnd
    BY DEF Current
  <2> QED BY <1>1, <2>1, Placed
<1>5. \A m, n \in 0 .. k : m < n \/ n < m \/ m = n
  BY <1>2
<1>6. LiveBlocksDisjoint
  <2> SUFFICES ASSUME NEW b \in live, NEW c \in live, b # c
               PROVE  b.addr + b.size <= c.addr \/ c.addr + c.size <= b.addr
    BY DEF LiveBlocksDisjoint, Apart
  <2>1. PICK m \in 0 .. k :
          /\ b.addr = f[m] + HdrSize /\ b.addr \in Nat /\ b.size \in Nat
          /\ \A n \in 0 .. k : m < n => b.addr + b.size <= f[n]
    BY <1>4
  <2>2. PICK n \in 0 .. k :
          /\ c.addr = f[n] + HdrSize /\ c.addr \in Nat /\ c.size \in Nat
          /\ \A i \in 0 .. k : n < i => c.addr + c.size <= f[i]
    BY <1>4
  <2>3. m # n
    <3>1. b.addr # c.addr
      BY <1>1 DEF Blocks
    <3> QED BY <2>1, <2>2, <3>1
  <2>4. CASE m < n
    BY <1>3, <2>1, <2>2, <2>4, HeapAssumption
  <2>5. CASE n < m
    BY <1>3, <2>1, <2>2, <2>5, HeapAssumption
  <2> QED BY <1>5, <2>3, <2>4, <2>5
<1>7. LiveBlocksInsideHeap
  <2> SUFFICES ASSUME NEW b \in live
               PROVE  b.addr >= HdrSize /\ b.addr + b.size <= g_HeapEnd
    BY HeapAssumption DEF LiveBlocksInsideHeap, g_HeapStart
  <2>1. PICK n \in 0 .. k : b.addr = f[n] + HdrSize /\ b.addr + b.size <= g_HeapEnd
    BY <1>4
  <2> QED BY <1>3, <2>1, HeapAssumption
<1>8. HeadersUntouched
  <2> SUFFICES ASSUME NEW b \in live, NEW s \in Listed(Current)
               PROVE  b.addr + b.size <= s \/ s + HdrSize <= b.addr
    BY DEF HeadersUntouched, Apart
  <2>1. PICK m \in 0 .. k : s = f[m]
    BY <1>2
  <2>2. PICK n \in 0 .. k :
          /\ b.addr = f[n] + HdrSize
          /\ \A i \in 0 .. k : n < i => b.addr + b.size <= f[i]
    BY <1>4
  <2>3. CASE n < m
    BY <2>1, <2>2, <2>3
  <2>4. CASE m = n
    BY <1>3, <2>1, <2>2, <2>4, HeapAssumption
  <2>5. CASE m < n
    <3>1. f[m] + HdrSize + Current.segs[f[m]].lenght <= f[n]
      BY <1>1, <2>5 DEF Good
    <3>2. Current.segs[f[m]].lenght \in Nat
      BY <1>1, Distinct
    <3> QED BY <1>3, <2>1, <2>2, <3>1, <3>2, HeapAssumption
  <2> QED BY <1>5, <2>3, <2>4, <2>5
<1> QED BY <1>6, <1>7, <1>8

LEMMA HeldFormed ==
  ASSUME Holds(Current, live)
  PROVE  ListWellFormed /\ MallocTerminates
<1>1. PICK k, f : Good(Current, k, f)
  BY DEF Holds
<1>2. Current.segs = segs /\ Current.lastHdr = g_LastHdr
  BY DEF Current
<1>3. k \in Nat /\ k \in 0 .. k /\ f[k] = g_LastHdr
  BY <1>1, <1>2 DEF Good
<1>4. Listed(Current) = {f[n] : n \in 0 .. k}
  BY <1>1, ListedIs
<1>5. ASSUME NEW s \in Listed(Current)
      PROVE  /\ s = g_LastHdr <=> segs[s].next = NULL
             /\ segs[s].next # NULL =>
                  /\ segs[segs[s].next].last = s
                  /\ segs[s].next >= s + HdrSize + segs[s].lenght
  <2>1. PICK n \in 0 .. k : s = f[n]
    BY <1>4
  <2>2. CASE n = k
    BY <1>1, <1>2, <1>3, <2>1, <2>2 DEF Good
  <2>3. CASE n < k
    <3>1. n + 1 \in 0 .. k /\ n < n + 1
      BY <1>3, <2>3
    <3>2. f[n + 1] \in Nat /\ f[n] # f[k]
      BY <1>1, <1>3, <2>3, <3>1, Distinct
    <3>3. segs[s].next = f[n + 1] /\ segs[f[n + 1]].last = s
      BY <1>1, <1>2, <2>1, <2>3 DEF Good
    <3>4. f[n] + HdrSize + segs[f[n]].lenght <= f[n + 1]
      BY <1>1, <1>2, <3>1 DEF Good
    <3>5. f[n] \in Nat /\ segs[f[n]].lenght \in Nat
      BY <1>1, <1>2, Distinct
    <3>6. segs[s].next >= s + HdrSize + segs[s].lenght
      BY <2>1, <3>2, <3>3, <3>4, <3>5, HeapAssumption
    <3> QED BY <1>3, <2>1, <3>2, <3>3, <3>6, HeapAssumption
  <2> QED BY <1>3, <2>2, <2>3
<1>6. segs[0].last = NULL
  BY <1>1, <1>2 DEF Good
<1>7. g_LastHdr \in Listed(Current)
  BY <1>3, <1>4
<1>8. MallocTerminates
  BY RoomIs DEF MallocTerminates
<1> QED BY <1>5, <1>6, <1>7, <1>8 DEF ListWellFormed, g_HeapStart

LEMMA HeldTypes ==
  ASSUME Holds(Current, live), count \in 0 .. MaxBlocks
  PROVE  TypeOK
<1>1. PICK k, f : Good(Current, k, f) /\ Blocks(Current, k, f, live)
  BY DEF Holds
<1>2. Current.segs = segs /\ Current.end = g_HeapEnd /\ Current.lastHdr = g_LastHdr
  BY DEF Current
<1>3. /\ DOMAIN segs \subseteq Nat /\ segs \in [DOMAIN segs -> HeapSegHdr] /\ g_HeapEnd \in Nat
      /\ g_LastHdr \in DOMAIN segs
  BY <1>2, HoldsTypes DEF IsHeap
<1>4. live \subseteq [addr : Nat, size : Sizes]
  BY <1>1 DEF Blocks
<1> QED BY <1>3, <1>4 DEF TypeOK

-------------------------------------------------------------------------------
(***************************************************************************)
(* The actions                                                             *)
(***************************************************************************)

LEMMA InitHolds ==
  ASSUME Init
  PROVE  Holds(Current, live) /\ Left(Current) >= PageSize /\ count = 0
<1> DEFINE L == StartPages * PageSize - HdrSize
           f == [n \in 0 .. 0 |-> 0]
<1>1. StartPages * PageSize \in Nat /\ StartPages * PageSize >= PageSize /\ L \in Nat
      /\ L + HdrSize = StartPages * PageSize
  BY HeapAssumption
<1>2. segs = [a \in {0} |-> [lenght |-> L, next |-> NULL, last |-> NULL, free |-> TRUE]]
  BY DEF Init, g_HeapStart
<1> HIDE DEF L
<1>3. /\ DOMAIN Current = {"segs", "end", "lastHdr"} /\ Current.segs = segs
      /\ Current.end = StartPages * PageSize /\ Current.lastHdr = 0
  BY DEF Init, Current, FirstLastHdr, g_HeapStart
<1>4. DOMAIN segs = {0} /\ segs[0].lenght = L /\ segs[0].next = NULL /\ segs[0].last = NULL
      /\ segs[0].free = TRUE
  BY <1>2
<1>5. IsHeap(Current)
  <2>1. IsFiniteSet({0})
    BY FS_EmptySet, FS_AddElement
  <2>2. segs \in [{0} -> HeapSegHdr]
    BY <1>1, <1>2 DEF HeapSegHdr
  <2> QED BY <1>1, <1>3, <1>4, <2>1, <2>2 DEF IsHeap
<1>6. \A n \in 0 .. 0 : n = 0
  OBVIOUS
<1>7. f \in [0 .. 0 -> {0}] /\ f[0] = 0
  OBVIOUS
<1> HIDE DEF f
<1>8. Good(Current, 0, f)
  <2>1. \A n \in 0 .. 0 : ~(n < 0)
    OBVIOUS
  <2>2. \A m, n \in 0 .. 0 : ~(m < n)
    OBVIOUS
  <2>3. f[0] + HdrSize + segs[f[0]].lenght <= Current.end
    BY <1>1, <1>3, <1>4, <1>7, HeapAssumption
  <2> QED BY <1>3, <1>4, <1>5, <1>7, <2>1, <2>2, <2>3 DEF Good
<1>9. Blocks(Current, 0, f, live)
  <2>1. \A n \in 0 .. 0 : segs[f[n]].free
    <3>1. segs[f[0]].free = TRUE
      BY <1>4, <1>7
    <3> QED BY <1>6, <3>1
  <2>2. live = {}
    BY DEF Init
  <2> QED BY <1>3, <2>1, <2>2 DEF Blocks
<1>10. Left(Current) >= PageSize
  BY <1>1, <1>3 DEF Left
<1> QED BY <1>8, <1>9, <1>10 DEF Holds, Init

\* MEM_Malloc, given the heap r it finds room in.
LEMMA MallocKeeps ==
  ASSUME Holds(Current, live), NEW size \in Sizes, MEM_Malloc(size),
         NEW r, r = RoomFor(Current, size),
         size + HdrSize < Last(r).lenght => 2 * (size + HdrSize) <= Left(r)
  PROVE  /\ Holds(Current', live')
         /\ \/ Left(Current') = Left(r) /\ ~Last(Current').free
            \/ /\ size + HdrSize < Last(r).lenght
               /\ Left(Current') = Left(r) - (size + HdrSize) /\ Last(Current').lenght = size
<1> DEFINE d == Use(r, r.lastHdr, size)
<1>1. Holds(r, live) /\ Last(r).free /\ size <= Last(r).lenght
  <2>1. Last(r).lenght \in Nat /\ size \in Nat
    BY RoomIs, HoldsTypes, HeapAssumption
  <2> QED BY <2>1, RoomIs
<1>2. FirstFit(r, size) = r.lastHdr
  <2>1. PICK k, f : Good(r, k, f)
    BY <1>1 DEF Holds
  <2>2. size \in Nat /\ r.segs[r.lastHdr].lenght >= size /\ r.segs[r.lastHdr].free
    BY <1>1, HoldsTypes, HeapAssumption DEF Last
  <2> QED BY <2>1, <2>2, FirstFitIs
<1>3. /\ segs' = d.segs /\ g_HeapEnd' = d.end /\ g_LastHdr' = d.lastHdr
      /\ live' = live \cup {[addr |-> r.lastHdr + HdrSize, size |-> size]}
  BY <1>2 DEF MEM_Malloc, Become
<1>4. /\ Holds(d, live')
      /\ \/ Left(d) = Left(r) /\ ~Last(d).free
         \/ /\ size + HdrSize < Last(r).lenght
            /\ Left(d) = Left(r) - (size + HdrSize) /\ Last(d).lenght = size
  BY <1>1, <1>3, UseKeeps
<1> HIDE DEF d
<1>5. DOMAIN d = {"segs", "end", "lastHdr"}
  BY <1>4, HoldsTypes DEF IsHeap
<1>6. /\ DOMAIN Current' = {"segs", "end", "lastHdr"} /\ Current'.segs = d.segs
      /\ Current'.end = d.end /\ Current'.lastHdr = d.lastHdr
  BY <1>3 DEF Current
<1>7. Holds(Current', live') /\ Left(Current') = Left(d) /\ Last(Current') = Last(d)
  BY <1>4, <1>5, <1>6, SameHeap
<1> QED BY <1>4, <1>7

\* MEM_Free of the block allocated last.
LEMMA FreeTopKeeps ==
  ASSUME Holds(Current, live), FreeTop
  PROVE  Holds(Current', live') /\ Left(Current') >= Left(Current) /\ count' = count
<1>1. PICK b \in live : (\A c \in live : c.addr <= b.addr) /\ MEM_Free(b)
  BY DEF FreeTop
<1> DEFINE s == b.addr - HdrSize
           d == CombineBackward(CombineForward(Freed(Current, s), s), s)
<1>2. Holds(d, live \ {b}) /\ Left(d) >= Left(Current)
  BY <1>1, FreeKeeps
<1>3. /\ segs' = d.segs /\ g_HeapEnd' = d.end /\ g_LastHdr' = d.lastHdr
      /\ live' = live \ {b} /\ count' = count
  BY <1>1 DEF MEM_Free, Become, Freed
<1> HIDE DEF d
<1>4. DOMAIN d = {"segs", "end", "lastHdr"}
  BY <1>2, HoldsTypes DEF IsHeap
<1>5. /\ DOMAIN Current' = {"segs", "end", "lastHdr"} /\ Current'.segs = d.segs
      /\ Current'.end = d.end /\ Current'.lastHdr = d.lastHdr
  BY <1>3 DEF Current
<1>6. Holds(d, live')
  BY <1>2, <1>3
<1>7. Holds(Current', live') /\ Left(Current') = Left(d)
  BY <1>4, <1>5, <1>6, SameHeap
<1> QED BY <1>2, <1>3, <1>7

\* Nothing but the blocks and the three variables of the heap matters.
LEMMA StutterKeeps ==
  ASSUME UNCHANGED vars
  PROVE  Current' = Current /\ live' = live /\ count' = count
BY DEF vars, Current

-------------------------------------------------------------------------------
(***************************************************************************)
(* Callers that free in the reverse order of allocation                    *)
(***************************************************************************)

Bound(M) == M \in Nat /\ \A size \in Sizes : size <= M

\* All blocks ever allocated fit in a page, with one to spare.
Few == \E M : Bound(M) /\ (MaxBlocks + 1) * (M + HdrSize) <= PageSize

\* What is left behind the last header suffices for the blocks still to come.
StackInv(M) ==
  /\ Holds(Current, live)
  /\ count \in 0 .. MaxBlocks
  /\ Left(Current) >= (MaxBlocks + 1 - count) * (M + HdrSize)

LEMMA StackInit ==
  ASSUME NEW M, Bound(M), (MaxBlocks + 1) * (M + HdrSize) <= PageSize, Init
  PROVE  StackInv(M)
<1> DEFINE R == (MaxBlocks + 1) * (M + HdrSize)
<1>1. Holds(Current, live) /\ Left(Current) >= PageSize /\ count = 0
  BY InitHolds
<1>2. M \in Nat /\ R \in Nat /\ PageSize \in Nat /\ MaxBlocks \in Nat
  BY HeapAssumption DEF Bound
<1>3. Left(Current) \in Nat /\ MaxBlocks + 1 - count = MaxBlocks + 1
  BY <1>1, <1>2, HoldsTypes
<1>4. Left(Current) >= R
  <2> HIDE DEF R
  <2>1. R <= PageSize
    BY DEF R
  <2> QED BY <1>1, <1>2, <1>3, <2>1
<1> QED BY <1>1, <1>2, <1>3, <1>4 DEF StackInv

LEMMA StackMalloc ==
  ASSUME NEW M, Bound(M), (MaxBlocks + 1) * (M + HdrSize) <= PageSize, StackInv(M), Malloc
  PROVE  StackInv(M)'
<1> DEFINE Room == M + HdrSize
           left == MaxBlocks + 1 - count
<1>1. PICK size \in Sizes : MEM_Malloc(size)
  BY DEF Malloc
<1>2. count < MaxBlocks /\ count' = count + 1 /\ count \in Nat /\ MaxBlocks \in Nat
  BY <1>1, HeapAssumption DEF MEM_Malloc, StackInv
<1>3. M \in Nat /\ size \in Nat /\ size <= M /\ HdrSize \in Nat
  BY HeapAssumption DEF Bound
<1>4. Room \in Nat /\ size + HdrSize <= Room
  BY <1>3
<1>5. left \in Nat /\ left >= 2 /\ left <= MaxBlocks + 1 /\ MaxBlocks + 1 - count' = left - 1
  BY <1>2
<1> DEFINE r == RoomFor(Current, size)
<1>6. Holds(r, live) /\ (r = Current \/ Left(r) >= PageSize) /\ Left(r) \in Nat
  <2>1. Holds(Current, live)
    BY DEF StackInv
  <2>2. Holds(r, live) /\ (r = Current \/ Left(r) >= PageSize)
    BY <2>1, RoomIs
  <2> QED BY <2>2, HoldsTypes
<1> HIDE DEF r
<1>7. Left(Current) >= left * Room /\ (MaxBlocks + 1) * Room <= PageSize
  BY DEF StackInv
<1> HIDE DEF Room, left
<1>8. left * Room \in Nat /\ (left - 1) * Room \in Nat /\ left * Room = (left - 1) * Room + Room
      /\ left * Room <= (MaxBlocks + 1) * Room /\ 2 * Room <= left * Room
      /\ (MaxBlocks + 1) * Room \in Nat
  BY <1>2, <1>4, <1>5
<1>9. Left(r) >= left * Room
  <2>1. CASE r = Current
    BY <1>7, <2>1
  <2>2. CASE Left(r) >= PageSize
    BY <1>6, <1>7, <1>8, <2>2, HeapAssumption
  <2> QED BY <1>6, <2>1, <2>2
<1>10. 2 * (size + HdrSize) <= Left(r)
  BY <1>3, <1>4, <1>6, <1>8, <1>9
<1>11. /\ Holds(Current', live')
       /\ Left(Current') = Left(r) \/ Left(Current') = Left(r) - (size + HdrSize)
  <2>1. Holds(Current, live)
    BY DEF StackInv
  <2> QED BY <1>1, <1>10, <2>1, MallocKeeps DEF r
<1>12. Left(Current') >= (left - 1) * Room
  BY <1>3, <1>4, <1>6, <1>8, <1>9, <1>11
<1>13. count' \in 0 .. MaxBlocks
  BY <1>2
<1> QED BY <1>5, <1>11, <1>12, <1>13 DEF StackInv, Room

LEMMA StackFree ==
  ASSUME NEW M, Bound(M), StackInv(M), FreeTop
  PROVE  StackInv(M)'
<1> DEFINE R == (MaxBlocks + 1 - count) * (M + HdrSize)
<1>1. Holds(Current, live) /\ count \in 0 .. MaxBlocks /\ Left(Current) >= R
  BY DEF StackInv
<1>2. Holds(Current', live') /\ Left(Current') >= Left(Current) /\ count' = count
  BY <1>1, FreeTopKeeps
<1>3. R \in Int
  BY <1>1, HeapAssumption DEF Bound
<1>4. Left(Current) \in Nat /\ Left(Current') \in Nat
  BY <1>1, <1>2, HoldsTypes
<1>5. Left(Current') >= R
  <2> HIDE DEF R
  <2> QED BY <1>1, <1>2, <1>3, <1>4
<1> QED BY <1>1, <1>2, <1>5 DEF StackInv

LEMMA StackNext ==
  ASSUME NEW M, Bound(M), (MaxBlocks + 1) * (M + HdrSize) <= PageSize, StackInv(M),
         [Malloc \/ FreeTop]_vars
  PROVE  StackInv(M)'
<1>1. CASE Malloc
  BY <1>1, StackMalloc
<1>2. CASE FreeTop
  BY <1>2, StackFree
<1>3. CASE UNCHANGED vars
  BY <1>3, StutterKeeps DEF StackInv
<1> QED BY <1>1, <1>2, <1>3

HeapOK ==
  /\ TypeOK /\ ListWellFormed /\ MallocTerminates
  /\ LiveBlocksDisjoint /\ LiveBlocksInsideHeap /\ HeadersUntouched

LEMMA StackShows ==
  ASSUME NEW M, StackInv(M)
  PROVE  HeapOK
BY HeldTypes, HeldApart, HeldFormed DEF StackInv, HeapOK

LEMMA StackOK ==
  ASSUME Few
  PROVE  StackSpec => []HeapOK
<1>1. PICK M : Bound(M) /\ (MaxBlocks + 1) * (M + HdrSize) <= PageSize
  BY DEF Few
<1>2. Init => StackInv(M)
  BY <1>1, StackInit
<1>3. StackInv(M) /\ [Malloc \/ FreeTop]_vars => StackInv(M)'
  BY <1>1, StackNext
<1>4. StackInv(M) => HeapOK
  BY StackShows
<1> QED BY <1>2, <1>3, <1>4, PTL DEF StackSpec

\* TypeOK: a header never holds a length or a link that is no number of units,
\* through every split and join of MEM_Malloc and MEM_Free.
THEOREM TypeCorrect ==
  ASSUME Few
  PROVE  StackSpec => []TypeOK
<1>1. HeapOK => TypeOK
  BY DEF HeapOK
<1> QED BY <1>1, StackOK, PTL

\* ListWellFormed: MEM_HeapSegHdrSplit and the two Combine functions keep the
\* list linked both ways, in the order of the addresses, and g_LastHdr at its
\* end, where MEM_ExpandHeap continues it.
THEOREM ListStaysFormed ==
  ASSUME Few
  PROVE  StackSpec => []ListWellFormed
<1>1. HeapOK => ListWellFormed
  BY DEF HeapOK
<1> QED BY <1>1, StackOK, PTL

\* LiveBlocksDisjoint: MEM_Malloc never gives out memory that another caller has.
THEOREM BlocksApart ==
  ASSUME Few
  PROVE  StackSpec => []LiveBlocksDisjoint
<1>1. HeapOK => LiveBlocksDisjoint
  BY DEF HeapOK
<1> QED BY <1>1, StackOK, PTL

\* LiveBlocksInsideHeap: what MEM_Malloc gives out has been mapped, although the
\* lengths in the headers behind a cut are wrong.
THEOREM BlocksMapped ==
  ASSUME Few
  PROVE  StackSpec => []LiveBlocksInsideHeap
<1>1. HeapOK => LiveBlocksInsideHeap
  BY DEF HeapOK
<1> QED BY <1>1, StackOK, PTL

\* HeadersUntouched: a caller that stays within its block leaves the list alone.
THEOREM HeadersApart ==
  ASSUME Few
  PROVE  StackSpec => []HeadersUntouched
<1>1. HeapOK => HeadersUntouched
  BY DEF HeapOK
<1> QED BY <1>1, StackOK, PTL

\* MallocTerminates: whatever the size, MEM_Malloc calls itself at most twice.
THEOREM TwoExpansionsSuffice ==
  ASSUME Few
  PROVE  StackSpec => []MallocTerminates
<1>1. HeapOK => MallocTerminates
  BY DEF HeapOK
<1> QED BY <1>1, StackOK, PTL

-------------------------------------------------------------------------------
(***************************************************************************)
(* Callers that never free.  Each cut shortens the length in the last      *)
(* header by more than a header, so a stretch of cuts ends, and with it    *)
(* the memory they use up, before the heap is expanded by a new page.      *)
(***************************************************************************)

NeverFreeSpec == Init /\ [][Malloc]_vars

\* A block is small against a page: for the kernel's blocks of up to 18 units,
\* 3 * (256 - 40) >= 20 * 18.
Small ==
  \E M : Bound(M) /\ (HdrSize + 1) * (PageSize - 2 * (M + HdrSize)) >= (M + HdrSize) * M

\* What is left behind the last header suffices for the cuts its length allows.
Enough(h, M) ==
  \/ Left(h) >= PageSize
  \/ (HdrSize + 1) * Left(h) >= (M + HdrSize) * (Last(h).lenght + HdrSize + 1)

NeverFreeInv(M) ==
  /\ Holds(Current, live)
  /\ count \in 0 .. MaxBlocks
  /\ Last(Current).free => Enough(Current, M)

LEMMA TimesMono ==
  ASSUME NEW a \in Int, NEW b \in Int, NEW c \in Nat, a <= b
  PROVE  c * a <= c * b
<1>1. c * (b - a) >= 0
  OBVIOUS
<1>2. c * (b - a) = c * b - c * a
  OBVIOUS
<1> QED BY <1>1, <1>2

LEMMA TimesLess ==
  ASSUME NEW a \in Int, NEW b \in Int, NEW c \in Nat, c >= 1, c * a <= c * b
  PROVE  a <= b
<1> SUFFICES ASSUME a >= b + 1 PROVE FALSE
  OBVIOUS
<1>1. c * (b + 1) <= c * a
  BY TimesMono
<1>2. c * (b + 1) = c * b + c
  OBVIOUS
<1>3. c * a \in Int /\ c * b \in Int
  OBVIOUS
<1> QED BY <1>1, <1>2, <1>3

\* A cut leaves enough: where len and left are the last length and what is left.
LEMMA CutEnough ==
  ASSUME NEW M \in Nat, NEW size \in Nat, size <= M, NEW len \in Nat, size + HdrSize < len,
         NEW left \in Nat,
         (HdrSize + 1) * (PageSize - 2 * (M + HdrSize)) >= (M + HdrSize) * M,
         \/ left >= PageSize
         \/ (HdrSize + 1) * left >= (M + HdrSize) * (len + HdrSize + 1)
  PROVE  /\ 2 * (size + HdrSize) <= left
         /\ (HdrSize + 1) * (left - (size + HdrSize)) >= (M + HdrSize) * (size + HdrSize + 1)
<1> DEFINE c == HdrSize + 1
           Room == M + HdrSize
           used == size + HdrSize
<1>1. c \in Nat /\ c >= 1 /\ Room \in Nat /\ used \in Nat /\ used <= Room /\ PageSize \in Nat
      /\ used + 1 <= len /\ size + c = used + 1 /\ M + c = Room + 1 /\ Room + c \in Nat
  BY HeapAssumption
<1>2. c * (PageSize - 2 * Room) >= Room * M /\ size <= M
  OBVIOUS
<1>3. left >= PageSize \/ c * left >= Room * (len + c)
  <2>1. len + HdrSize + 1 = len + c
    BY HeapAssumption
  <2> QED BY <2>1
<1> HIDE DEF c, Room, used
<1>4. c * left \in Nat /\ Room * (len + c) \in Nat /\ Room * M \in Nat /\ c * Room \in Nat
      /\ c * PageSize \in Nat /\ c * used \in Nat /\ Room * (size + c) \in Nat
      /\ Room * (M + c) \in Nat
  BY <1>1
<1>5. c * (PageSize - 2 * Room) = c * PageSize - 2 * (c * Room)
      /\ c * (left - used) = c * left - c * used /\ c * (2 * used) = 2 * (c * used)
      /\ Room * (M + c) = Room * M + c * Room
      /\ Room * ((size + c) + c) = Room * (size + c) + c * Room
  BY <1>1
<1>6. c * used <= c * Room /\ Room * (size + c) <= Room * (M + c)
  <2>1. size + c <= M + c /\ size + c \in Nat /\ M + c \in Nat
    BY <1>1, <1>2
  <2> QED BY <1>1, <2>1, TimesMono
<1>7. c * left >= Room * (size + c) + c * Room
  <2>1. CASE left >= PageSize
    <3>1. c * PageSize <= c * left
      BY <1>1, <2>1, TimesMono
    <3> QED BY <1>2, <1>4, <1>5, <1>6, <3>1
  <2>2. CASE c * left >= Room * (len + c)
    <3>1. (size + c) + c <= len + c /\ (size + c) + c \in Nat /\ len + c \in Nat
      BY <1>1
    <3>2. Room * ((size + c) + c) <= Room * (len + c)
      BY <1>1, <3>1, TimesMono
    <3> QED BY <1>4, <1>5, <2>2, <3>2
  <2> QED BY <1>3, <2>1, <2>2
<1>8. c * (left - used) >= Room * (size + c)
  BY <1>4, <1>5, <1>6, <1>7
<1>9. 2 * used <= left
  <2>1. Room * (size + c) >= Room * c
    BY <1>1, TimesMono
  <2>2. Room * c = c * Room
    BY <1>1
  <2>3. c * (2 * used) <= c * left
    BY <1>4, <1>5, <1>6, <1>7, <2>1, <2>2
  <2> QED BY <1>1, <2>3, TimesLess
<1>10. size + c = size + HdrSize + 1
  BY HeapAssumption DEF c
<1> QED BY <1>8, <1>9, <1>10 DEF c, Room, used

LEMMA NeverFreeMalloc ==
  ASSUME NEW M, Bound(M), (HdrSize + 1) * (PageSize - 2 * (M + HdrSize)) >= (M + HdrSize) * M,
         NeverFreeInv(M), Malloc
  PROVE  NeverFreeInv(M)'
<1>1. PICK size \in Sizes : MEM_Malloc(size)
  BY DEF Malloc
<1>2. count' \in 0 .. MaxBlocks
  BY <1>1, HeapAssumption DEF MEM_Malloc, NeverFreeInv
<1>3. M \in Nat /\ size \in Nat /\ size <= M /\ HdrSize \in Nat
  BY HeapAssumption DEF Bound
<1> DEFINE r == RoomFor(Current, size)
<1>4. Holds(Current, live)
  BY DEF NeverFreeInv
<1>5. Holds(r, live) /\ Last(r).free /\ (r = Current \/ Left(r) >= PageSize)
  BY <1>4, RoomIs
<1>6. Left(r) \in Nat /\ Last(r).lenght \in Nat
  BY <1>5, HoldsTypes
<1>7. Enough(r, M)
  <2>1. CASE r = Current
    <3>1. Last(Current).free
      BY <1>5, <2>1
    <3>2. Enough(Current, M)
      BY <3>1 DEF NeverFreeInv
    <3> QED BY <2>1, <3>2
  <2>2. CASE Left(r) >= PageSize
    BY <2>2 DEF Enough
  <2> QED BY <1>5, <2>1, <2>2
<1> HIDE DEF r
<1>8. size + HdrSize < Last(r).lenght =>
        /\ 2 * (size + HdrSize) <= Left(r)
        /\ (HdrSize + 1) * (Left(r) - (size + HdrSize)) >= (M + HdrSize) * (size + HdrSize + 1)
  BY <1>3, <1>6, <1>7, CutEnough DEF Enough
<1>9. /\ Holds(Current', live')
      /\ \/ Left(Current') = Left(r) /\ ~Last(Current').free
         \/ /\ size + HdrSize < Last(r).lenght
            /\ Left(Current') = Left(r) - (size + HdrSize) /\ Last(Current').lenght = size
  BY <1>1, <1>4, <1>8, MallocKeeps DEF r
<1>10. Last(Current').free => Enough(Current', M)
  <2>1. CASE ~Last(Current').free
    BY <2>1
  <2>2. CASE /\ size + HdrSize < Last(r).lenght
             /\ Left(Current') = Left(r) - (size + HdrSize) /\ Last(Current').lenght = size
    BY <1>8, <2>2 DEF Enough
  <2> QED BY <1>9, <2>1, <2>2
<1> QED BY <1>2, <1>9, <1>10 DEF NeverFreeInv

\* HeapOK: callers that never free, as those of the kernel at this commit, each
\* have memory of their own, inside the heap and apart from its headers, and a
\* list MEM_Malloc can walk, however many blocks they ask for.
THEOREM NeverFreeSafe ==
  ASSUME Small
  PROVE  NeverFreeSpec => []HeapOK
<1>1. PICK M : /\ Bound(M)
               /\ (HdrSize + 1) * (PageSize - 2 * (M + HdrSize)) >= (M + HdrSize) * M
  BY DEF Small
<1>2. Init => NeverFreeInv(M)
  <2> SUFFICES ASSUME Init PROVE NeverFreeInv(M)
    OBVIOUS
  <2>1. Holds(Current, live) /\ Left(Current) >= PageSize /\ count = 0
    BY InitHolds
  <2> QED BY <2>1, HeapAssumption DEF NeverFreeInv, Enough
<1>3. NeverFreeInv(M) /\ [Malloc]_vars => NeverFreeInv(M)'
  <2> SUFFICES ASSUME NeverFreeInv(M), [Malloc]_vars PROVE NeverFreeInv(M)'
    OBVIOUS
  <2>1. CASE Malloc
    BY <1>1, <2>1, NeverFreeMalloc
  <2>2. CASE UNCHANGED vars
    BY <2>2, StutterKeeps DEF NeverFreeInv, Enough
  <2> QED BY <2>1, <2>2
<1>4. NeverFreeInv(M) => HeapOK
  BY HeldTypes, HeldApart, HeldFormed DEF NeverFreeInv, HeapOK
<1> QED BY <1>2, <1>3, <1>4, PTL DEF NeverFreeSpec
===============================================================================
