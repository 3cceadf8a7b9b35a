-------------------------- MODULE KernelMemoryProofs --------------------------
(***************************************************************************)
(* Theorems about KernelMemory, for machines of any size whose memory has  *)
(* no holes, tables of any size and a heap and a disk driver that go on    *)
(* requesting frames: as long as no request is refused, everything the     *)
(* kernel touches is mapped, and no frame serves two purposes.             *)
(***************************************************************************)
EXTENDS KernelMemory, MemoryMapProofs

-------------------------------------------------------------------------------
(***************************************************************************)
(* The map the loader takes.  The regions follow one another: each begins  *)
(* where the one before it ends, so that their sizes add up to memory's,   *)
(* if memory has no holes.                                                 *)
(***************************************************************************)

\* The parts of MapOf.
Run(types, f, g) == f .. g \subseteq DOMAIN types /\ \A h \in f .. g : types[h] = types[f]
Firsts(types) == {f \in DOMAIN types : ~Run(types, f - 1, f)}
Region(types, f) ==
  [type |-> types[f], start |-> f,
   numPages |-> Cardinality({g \in DOMAIN types : f <= g /\ Run(types, f, g)})]
Rank(types, f) == Cardinality({g \in Firsts(types) : g <= f})
First(types, n) == CHOOSE f \in Firsts(types) : Rank(types, f) = n

LEMMA MapIs ==
  ASSUME NEW types
  PROVE  MapOf(types) = [n \in 1 .. Cardinality(Firsts(types)) |-> Region(types, First(types, n))]
BY DEF MapOf, Run, Firsts, Region, Rank, First

\* The types of a memory of n frames without holes.
Memories(n) == [0 .. (n - 1) -> 0 .. 14]

\* Every region has a last frame e.
LastOf(types, n, f, e) ==
  /\ e \in f .. (n - 1)
  /\ \A h \in f .. e : types[h] = types[f]
  /\ Region(types, f) = [type |-> types[f], start |-> f, numPages |-> e - f + 1]
  /\ \A g \in (f + 1) .. e : g \notin Firsts(types)
  /\ e < n - 1 => e + 1 \in Firsts(types)

LEMMA EveryRegionEnds ==
  ASSUME NEW n \in Nat, NEW types \in Memories(n), NEW f \in 0 .. (n - 1)
  PROVE  \E e : LastOf(types, n, f, e)
<1> DEFINE S == {g \in f .. (n - 1) : types[g] # types[f]}
<1>0. DOMAIN types = 0 .. (n - 1) /\ f \in Nat
  BY DEF Memories
<1>1. \E e \in f .. (n - 1) :
        /\ \A h \in f .. e : types[h] = types[f]
        /\ e < n - 1 => types[e + 1] # types[f]
  <2>1. CASE S = {}
    <3>1. n - 1 \in f .. (n - 1) /\ \A h \in f .. (n - 1) : types[h] = types[f]
      BY <2>1
    <3> QED BY <3>1
  <2>2. CASE S # {}
    <3>1. S \in SUBSET Nat
      BY <1>0
    <3>2. PICK s \in S : \A g \in S : s <= g
      BY <2>2, <3>1, Least
    <3>3. s \in f .. (n - 1) /\ types[s] # types[f] /\ s # f
      BY <3>2
    <3>4. s - 1 \in f .. (n - 1) /\ (s - 1) + 1 = s
      BY <1>0, <3>3
    <3>5. \A h \in f .. (s - 1) : types[h] = types[f]
      <4> SUFFICES ASSUME NEW h \in f .. (s - 1), types[h] # types[f] PROVE FALSE
        OBVIOUS
      <4>1. h \in S /\ ~(s <= h)
        BY <1>0, <3>3
      <4> QED BY <3>2, <4>1
    <3> QED BY <3>3, <3>4, <3>5
  <2> QED BY <2>1, <2>2
<1>2. PICK e \in f .. (n - 1) : /\ \A h \in f .. e : types[h] = types[f]
                                /\ e < n - 1 => types[e + 1] # types[f]
  BY <1>1
<1> DEFINE R == {g \in DOMAIN types : f <= g /\ Run(types, f, g)}
<1>3. R = f .. e
  <2>1. ASSUME NEW g \in f .. e PROVE g \in R
    <3>1. g \in 0 .. (n - 1) /\ f .. g \subseteq 0 .. (n - 1) /\ f .. g \subseteq f .. e /\ f <= g
      BY <1>0
    <3> QED BY <1>0, <1>2, <3>1 DEF Run
  <2>2. ASSUME NEW g \in R, g \notin f .. e PROVE FALSE
    <3>1. g \in 0 .. (n - 1) /\ f <= g /\ \A h \in f .. g : types[h] = types[f]
      BY <1>0 DEF Run
    <3>2. e + 1 \in f .. g /\ e < n - 1
      BY <1>0, <2>2, <3>1
    <3> QED BY <1>2, <3>1, <3>2
  <2> QED BY <2>1, <2>2
<1>4. Cardinality(R) = e - f + 1
  <2>1. f \in Int /\ e \in Int /\ ~(f > e)
    BY <1>0
  <2> QED BY <1>3, <2>1, FS_Interval
<1>5. Region(types, f) = [type |-> types[f], start |-> f, numPages |-> e - f + 1]
  BY <1>4 DEF Region
<1>6. ASSUME NEW g \in (f + 1) .. e PROVE g \notin Firsts(types)
  <2>1. g - 1 \in f .. e /\ g \in f .. e /\ (g - 1) .. g = {g - 1, g}
        /\ g \in 0 .. (n - 1) /\ g - 1 \in 0 .. (n - 1)
    BY <1>0
  <2>2. types[g - 1] = types[f] /\ types[g] = types[f]
    BY <1>2, <2>1
  <2>3. Run(types, g - 1, g)
    BY <1>0, <2>1, <2>2 DEF Run
  <2> QED BY <2>3 DEF Firsts
<1>7. ASSUME e < n - 1 PROVE e + 1 \in Firsts(types)
  <2>1. e + 1 \in 0 .. (n - 1) /\ (e + 1) - 1 = e /\ e + 1 \in e .. (e + 1) /\ e \in f .. e
    BY <1>0, <1>7
  <2>2. types[e] = types[f] /\ types[e + 1] # types[f]
    BY <1>2, <1>7, <2>1
  <2>3. ~Run(types, e, e + 1)
    BY <2>1, <2>2 DEF Run
  <2> QED BY <1>0, <2>1, <2>3 DEF Firsts
<1> QED BY <1>2, <1>5, <1>6, <1>7 DEF LastOf

\* The first frames of the regions are numbered from one, in order.
LEMMA Ranks ==
  ASSUME NEW n \in Nat \ {0}, NEW types \in Memories(n)
  PROVE  /\ IsFiniteSet(Firsts(types)) /\ Firsts(types) \subseteq 0 .. (n - 1)
         /\ 0 \in Firsts(types) /\ Rank(types, 0) = 1
         /\ \A f, g \in Firsts(types) : Rank(types, f) = Rank(types, g) => f = g
         /\ \A f \in Firsts(types) : \A e : LastOf(types, n, f, e) =>
              /\ Rank(types, f) \in Nat
              /\ e < n - 1 => /\ e + 1 \in Firsts(types)
                              /\ Rank(types, e + 1) = Rank(types, f) + 1
              /\ e = n - 1 => Rank(types, f) = Cardinality(Firsts(types))
<1> DEFINE F == Firsts(types)
           Below(f) == {g \in F : g <= f}
<1>1. DOMAIN types = 0 .. (n - 1)
  BY DEF Memories
<1>2. F \subseteq 0 .. (n - 1) /\ 0 .. (n - 1) \subseteq Nat
  BY <1>1 DEF Firsts
<1>3. IsFiniteSet(F)
  <2>1. IsFiniteSet(0 .. (n - 1))
    BY FS_Interval
  <2> QED BY <1>2, <2>1, FS_Subset
<1>4. 0 \in F
  <2>1. 0 \in 0 .. (n - 1) /\ -1 \in (0 - 1) .. 0 /\ -1 \notin 0 .. (n - 1)
    OBVIOUS
  <2> QED BY <1>1, <2>1 DEF Firsts, Run
<1> HIDE DEF F
<1>5. \A f \in F : IsFiniteSet(Below(f)) /\ Rank(types, f) = Cardinality(Below(f))
  <2> SUFFICES ASSUME NEW f \in F PROVE IsFiniteSet(Below(f)) /\ Rank(types, f) = Cardinality(Below(f))
    OBVIOUS
  <2>1. Below(f) \in SUBSET F
    OBVIOUS
  <2>2. IsFiniteSet(Below(f))
    BY <1>3, <2>1, FS_Subset
  <2> QED BY <2>2 DEF Rank, F
<1>6. Rank(types, 0) = 1
  <2>1. Below(0) = {0}
    <3>1. \A g \in F : g \in Nat
      BY <1>2
    <3>2. \A g \in F : g <= 0 => g = 0
      BY <3>1
    <3> QED BY <1>4, <3>2
  <2> QED BY <1>4, <1>5, <2>1, FS_Singleton
<1>7. ASSUME NEW f \in F, NEW g \in F, Rank(types, f) = Rank(types, g), f < g PROVE FALSE
  <2>1. Below(f) \in SUBSET Below(g)
    <3>1. \A h \in F : h \in Nat
      BY <1>2
    <3>2. \A h \in F : h <= f => h <= g
      BY <1>7, <3>1
    <3> QED BY <3>2
  <2>2. g \in Below(g) /\ g \notin Below(f)
    BY <1>2, <1>7
  <2>3. Below(g) = Below(f)
    <3> HIDE DEF Below
    <3> QED BY <1>5, <1>7, <2>1, FS_Subset
  <2> QED BY <2>2, <2>3
<1>8. \A f, g \in F : Rank(types, f) = Rank(types, g) => f = g
  BY <1>2, <1>7
<1>9. ASSUME NEW f \in F, NEW e, LastOf(types, n, f, e)
      PROVE  /\ Rank(types, f) \in Nat
             /\ e < n - 1 => /\ e + 1 \in F
                             /\ Rank(types, e + 1) = Rank(types, f) + 1
             /\ e = n - 1 => Rank(types, f) = Cardinality(F)
  <2>1. e \in f .. (n - 1) /\ f \in Nat /\ \A g \in (f + 1) .. e : g \notin F
    BY <1>2, <1>9 DEF LastOf, F
  <2>2. Rank(types, f) \in Nat
    BY <1>5, FS_CardinalityType
  <2>3. ASSUME e < n - 1
        PROVE  e + 1 \in F /\ Rank(types, e + 1) = Rank(types, f) + 1
    <3>1. e + 1 \in F
      BY <1>9, <2>3 DEF LastOf, F
    <3>2. Below(e + 1) = Below(f) \cup {e + 1}
      <4>1. ASSUME NEW g \in F, g <= e + 1, g # e + 1 PROVE g <= f
        <5>1. g \in Nat /\ g \notin (f + 1) .. e
          BY <1>2, <2>1
        <5> QED BY <2>1, <4>1, <5>1
      <4>2. \A g \in F : g <= f => g <= e + 1
        BY <1>2, <2>1
      <4>3. e + 1 <= e + 1
        BY <2>1
      <4>4. \A g : g \in Below(e + 1) <=> g \in Below(f) \cup {e + 1}
        BY <3>1, <4>1, <4>2, <4>3
      <4> HIDE DEF Below
      <4> QED BY <4>4
    <3>3. e + 1 \notin Below(f)
      BY <2>1
    <3>4. Cardinality(Below(f) \cup {e + 1}) = Cardinality(Below(f)) + 1
      <4> HIDE DEF Below
      <4> QED BY <1>5, <3>3, FS_AddElement
    <3> QED BY <1>5, <3>1, <3>2, <3>4
  <2>4. ASSUME e = n - 1 PROVE Rank(types, f) = Cardinality(F)
    <3>1. Below(f) = F
      <4>1. ASSUME NEW g \in F PROVE g <= f
        <5>1. g \in 0 .. (n - 1) /\ g \notin (f + 1) .. e
          BY <1>2, <2>1
        <5> QED BY <2>1, <2>4, <5>1
      <4> QED BY <4>1
    <3> QED BY <1>5, <3>1
  <2> QED BY <2>2, <2>3, <2>4
<1> QED BY <1>2, <1>3, <1>4, <1>6, <1>8, <1>9 DEF F

\* So MapOf finds a first frame for every number, and where its region ends the
\* next one begins.
LEMMA Numbered ==
  ASSUME NEW n \in Nat \ {0}, NEW types \in Memories(n)
  PROVE  LET last == Cardinality(Firsts(types))
         IN  /\ last \in Nat \ {0}
             /\ \A k \in 1 .. last : First(types, k) \in Firsts(types)
             /\ First(types, 1) = 0
             /\ \A k \in 1 .. last : \A e : LastOf(types, n, First(types, k), e) =>
                  IF k = last THEN e = n - 1 ELSE First(types, k + 1) = e + 1
<1> DEFINE F == Firsts(types)
           last == Cardinality(F)
           T == {k \in 1 .. last : \A f \in F : Rank(types, f) # k}
<1>1. /\ IsFiniteSet(F) /\ F \subseteq 0 .. (n - 1) /\ 0 \in F /\ Rank(types, 0) = 1
      /\ \A f, g \in F : Rank(types, f) = Rank(types, g) => f = g
  BY Ranks
<1>2. \A f \in F : \A e : LastOf(types, n, f, e) =>
        /\ e \in 0 .. (n - 1)
        /\ Rank(types, f) \in Nat
        /\ e < n - 1 => e + 1 \in F /\ Rank(types, e + 1) = Rank(types, f) + 1
        /\ e = n - 1 => Rank(types, f) = last
  <2> SUFFICES ASSUME NEW f \in F, NEW e, LastOf(types, n, f, e)
               PROVE  /\ e \in 0 .. (n - 1)
                      /\ Rank(types, f) \in Nat
                      /\ e < n - 1 => e + 1 \in F /\ Rank(types, e + 1) = Rank(types, f) + 1
                      /\ e = n - 1 => Rank(types, f) = last
    OBVIOUS
  <2>1. e \in 0 .. (n - 1)
    <3>1. f \in Nat /\ e \in f .. (n - 1)
      BY <1>1 DEF LastOf
    <3> QED BY <3>1
  <2> QED BY <2>1, Ranks
<1>3. last \in Nat \ {0}
  <2>1. last \in Nat
    BY <1>1, FS_CardinalityType
  <2>2. last # 0
    BY <1>1, FS_EmptySet
  <2> QED BY <2>1, <2>2
<1>4. \A f \in F : \E e : LastOf(types, n, f, e)
  BY <1>1, EveryRegionEnds
<1> HIDE DEF F, last
<1>5. T = {}
  <2> SUFFICES ASSUME T # {} PROVE FALSE
    OBVIOUS
  <2>1. T \in SUBSET Nat
    BY <1>3
  <2>2. PICK k \in T : \A j \in T : k <= j
    BY <2>1, Least
  <2>3. k \in 1 .. last /\ \A f \in F : Rank(types, f) # k
    BY <2>2
  <2>4. k # 1 /\ k - 1 \in 1 .. last /\ k - 1 # last /\ ~(k <= k - 1)
    BY <1>1, <1>3, <2>3
  <2>5. k - 1 \notin T
    BY <2>2, <2>4
  <2>6. PICK f \in F : Rank(types, f) = k - 1
    BY <2>4, <2>5
  <2>7. PICK e : LastOf(types, n, f, e)
    BY <1>4
  <2>8. e \in 0 .. (n - 1) /\ e # n - 1
    BY <1>2, <2>4, <2>6, <2>7
  <2>9. e < n - 1
    BY <2>8
  <2>10. e + 1 \in F /\ Rank(types, e + 1) = (k - 1) + 1
    BY <1>2, <2>6, <2>7, <2>9
  <2>11. (k - 1) + 1 = k
    BY <2>3
  <2> QED BY <2>3, <2>10, <2>11
<1>6. \A k \in 1 .. last : \E f \in F : Rank(types, f) = k
  BY <1>5
<1>7. \A k \in 1 .. last : First(types, k) \in F /\ Rank(types, First(types, k)) = k
  BY <1>6 DEF First, F
<1>8. First(types, 1) = 0
  <2>1. 1 \in 1 .. last
    BY <1>3
  <2> QED BY <1>1, <1>7, <2>1
<1>9. ASSUME NEW k \in 1 .. last, NEW e, LastOf(types, n, First(types, k), e)
      PROVE  IF k = last THEN e = n - 1 ELSE First(types, k + 1) = e + 1
  <2>1. First(types, k) \in F /\ Rank(types, First(types, k)) = k
    BY <1>7
  <2>2. /\ e \in 0 .. (n - 1)
        /\ e < n - 1 => e + 1 \in F /\ Rank(types, e + 1) = k + 1
        /\ e = n - 1 => k = last
    BY <1>2, <1>9, <2>1
  <2>3. CASE e = n - 1
    BY <2>2, <2>3
  <2>4. CASE e # n - 1
    <3>1. e + 1 \in F /\ Rank(types, e + 1) = k + 1
      BY <2>2, <2>4
    <3>2. k # last
      <4>1. PICK d : LastOf(types, n, e + 1, d)
        BY <1>4, <3>1
      <4>2. IsFiniteSet(F) /\ {g \in F : g <= e + 1} \in SUBSET F
        BY <1>1
      <4>3. Cardinality({g \in F : g <= e + 1}) <= last
        BY <4>2, FS_Subset DEF last
      <4>4. k + 1 <= last
        BY <3>1, <4>3 DEF Rank, F
      <4> QED BY <1>3, <4>4
    <3>3. k + 1 \in 1 .. last
      BY <1>3, <3>2
    <3>4. First(types, k + 1) \in F /\ Rank(types, First(types, k + 1)) = k + 1
      BY <1>7, <3>3
    <3>5. First(types, k + 1) = e + 1
      BY <1>1, <3>1, <3>4
    <3> QED BY <3>2, <3>5
  <2> QED BY <2>3, <2>4
<1> QED BY <1>3, <1>7, <1>8, <1>9 DEF F, last

\* What the kernel is handed: sizes that add up to the size of memory, regions
\* within it, and no frame called conventional that is not.
LEMMA MapOfMemory ==
  ASSUME NEW n \in Nat \ {0}, NEW types \in Memories(n)
  PROVE  /\ MapOf(types) \in Seq(Descriptor)
         /\ TotalPages(MapOf(types)) = n
         /\ \A k \in DOMAIN MapOf(types) : FramesOf(MapOf(types)[k]) \subseteq 0 .. (n - 1)
         /\ Conventional(MapOf(types)) \subseteq
              {f \in 0 .. (n - 1) : types[f] = EfiConventionalMemory}
<1> DEFINE last == Cardinality(Firsts(types))
           m == MapOf(types)
           first(k) == First(types, k)
<1>1. /\ last \in Nat \ {0}
      /\ \A k \in 1 .. last : first(k) \in Firsts(types)
      /\ first(1) = 0
      /\ \A k \in 1 .. last : \A e : LastOf(types, n, first(k), e) =>
           IF k = last THEN e = n - 1 ELSE first(k + 1) = e + 1
  BY Numbered
<1>2. m = [k \in 1 .. last |-> Region(types, first(k))]
  BY MapIs
<1> HIDE DEF last, m, first
<1>3. \A k \in 1 .. last : \E e :
        /\ LastOf(types, n, first(k), e)
        /\ first(k) \in Nat /\ e \in first(k) .. (n - 1)
        /\ m[k] = [type |-> types[first(k)], start |-> first(k), numPages |-> e - first(k) + 1]
        /\ \A h \in first(k) .. e : types[h] = types[first(k)]
  <2> SUFFICES ASSUME NEW k \in 1 .. last
               PROVE  \E e :
        /\ LastOf(types, n, first(k), e)
        /\ first(k) \in Nat /\ e \in first(k) .. (n - 1)
        /\ m[k] = [type |-> types[first(k)], start |-> first(k), numPages |-> e - first(k) + 1]
        /\ \A h \in first(k) .. e : types[h] = types[first(k)]
    OBVIOUS
  <2>1. first(k) \in 0 .. (n - 1)
    BY <1>1, Ranks
  <2>2. PICK e : LastOf(types, n, first(k), e)
    BY <2>1, EveryRegionEnds
  <2> DEFINE f == first(k)
  <2>3. m[k] = Region(types, f)
    BY <1>2
  <2> HIDE DEF f
  <2>4. /\ e \in f .. (n - 1)
        /\ Region(types, f) = [type |-> types[f], start |-> f, numPages |-> e - f + 1]
        /\ \A h \in f .. e : types[h] = types[f]
    BY <2>2 DEF LastOf, f
  <2>5. f \in Nat
    BY <2>1 DEF f
  <2> QED BY <2>2, <2>3, <2>4, <2>5 DEF f
<1>4. m \in Seq(Descriptor) /\ Len(m) = last /\ DOMAIN m = 1 .. last
  <2>1. ASSUME NEW k \in 1 .. last PROVE m[k] \in Descriptor
    <3>1. PICK e : /\ first(k) \in Nat /\ e \in first(k) .. (n - 1)
                   /\ m[k] = [type |-> types[first(k)], start |-> first(k), numPages |-> e - first(k) + 1]
      BY <1>3
    <3>2. first(k) \in 0 .. (n - 1) /\ e - first(k) + 1 \in Nat
      BY <3>1
    <3>3. types[first(k)] \in 0 .. 14
      BY <3>2 DEF Memories
    <3> QED BY <3>1, <3>2, <3>3 DEF Descriptor
  <2>2. m \in [1 .. last -> Descriptor]
    BY <1>2, <2>1
  <2> QED BY <1>1, <2>2
<1>5. TotalPages(m) = n
  <2>1. PICK sum \in [0 .. last -> Nat] : IsSum(m, last, sum) /\ TotalPages(m) = sum[last]
    BY <1>4, TotalIsSum
  <2>2. \A k \in 0 .. last : sum[k] = IF k = 0 THEN 0 ELSE sum[k - 1] + m[k].numPages
    BY <2>1 DEF IsSum
  <2> DEFINE T == {k \in 1 .. last : sum[k - 1] # first(k)}
  <2>3. T = {}
    <3> SUFFICES ASSUME T # {} PROVE FALSE
      OBVIOUS
    <3>1. T \in SUBSET Nat
      BY <1>1
    <3>2. PICK k \in T : \A j \in T : k <= j
      BY <3>1, Least
    <3>3. k \in 1 .. last /\ sum[k - 1] # first(k)
      BY <3>2
    <3>4. k # 1
      <4>1. sum[0] = 0 /\ 1 - 1 = 0
        BY <1>1, <2>2
      <4> QED BY <1>1, <3>3, <4>1
    <3> DEFINE j == k - 1
    <3>5. j \in 1 .. last /\ j # last /\ j \in 0 .. last /\ j # 0 /\ j + 1 = k /\ ~(k <= j)
      BY <1>1, <3>3, <3>4
    <3> HIDE DEF j
    <3>6. sum[j - 1] = first(j)
      BY <3>2, <3>5
    <3>7. PICK e : /\ LastOf(types, n, first(j), e)
                   /\ first(j) \in Nat /\ e \in first(j) .. (n - 1)
                   /\ m[j] = [type |-> types[first(j)], start |-> first(j), numPages |-> e - first(j) + 1]
      BY <1>3, <3>5
    <3>8. first(k) = e + 1
      BY <1>1, <3>5, <3>7
    <3>9. m[j].numPages = e - first(j) + 1
      BY <3>7
    <3>10. sum[j] = sum[j - 1] + m[j].numPages
      BY <2>2, <3>5
    <3>11. sum[j] = first(k)
      BY <3>6, <3>7, <3>8, <3>9, <3>10
    <3> QED BY <3>3, <3>11 DEF j
  <2>4. last \in 1 .. last /\ last \in 0 .. last /\ last # 0
    BY <1>1
  <2>5. sum[last - 1] = first(last)
    BY <2>3, <2>4
  <2>6. PICK e : /\ LastOf(types, n, first(last), e)
                 /\ first(last) \in Nat /\ e \in first(last) .. (n - 1)
                 /\ m[last] = [type |-> types[first(last)], start |-> first(last),
                               numPages |-> e - first(last) + 1]
    BY <1>3, <2>4
  <2>7. e = n - 1
    BY <1>1, <2>4, <2>6
  <2>8. m[last].numPages = e - first(last) + 1
    BY <2>6
  <2>9. sum[last] = sum[last - 1] + m[last].numPages
    BY <2>2, <2>4
  <2> QED BY <2>1, <2>5, <2>6, <2>7, <2>8, <2>9
<1>6. ASSUME NEW k \in 1 .. last, NEW f \in FramesOf(m[k])
      PROVE  f \in 0 .. (n - 1) /\ types[f] = m[k].type
  <2>1. PICK e : /\ first(k) \in Nat /\ e \in first(k) .. (n - 1)
                 /\ m[k] = [type |-> types[first(k)], start |-> first(k), numPages |-> e - first(k) + 1]
                 /\ \A h \in first(k) .. e : types[h] = types[first(k)]
    BY <1>3
  <2>2. m[k].start = first(k) /\ m[k].numPages = e - first(k) + 1 /\ m[k].type = types[first(k)]
    BY <2>1
  <2>3. f \in first(k) .. e
    <3>1. f \in first(k) .. (first(k) + (e - first(k) + 1) - 1)
      BY <2>2 DEF FramesOf
    <3> QED BY <2>1, <3>1
  <2>4. f \in 0 .. (n - 1)
    BY <2>1, <2>3
  <2> QED BY <2>1, <2>2, <2>3, <2>4
<1>7. Conventional(m) \subseteq {f \in 0 .. (n - 1) : types[f] = EfiConventionalMemory}
  BY <1>4, <1>6 DEF Conventional
<1> QED BY <1>4, <1>5, <1>6, <1>7 DEF m

-------------------------------------------------------------------------------
(***************************************************************************)
(* Virtual pages: division with a remainder, and that it is unique.        *)
(***************************************************************************)

LEMMA Division ==
  ASSUME NEW d \in Nat \ {0}, NEW n \in Nat
  PROVE  /\ n \div d \in Nat /\ n % d \in 0 .. (d - 1)
         /\ n = d * (n \div d) + (n % d)
OBVIOUS

LEMMA Quotient ==
  ASSUME NEW d \in Nat \ {0}, NEW q \in Nat, NEW r \in 0 .. (d - 1)
  PROVE  (d * q + r) \div d = q
<1>1. \A n \in Nat : n = d * q + r => n \div d = q
  OBVIOUS
<1>2. d * q + r \in Nat
  OBVIOUS
<1> QED BY <1>1, <1>2

LEMMA Floor ==
  ASSUME NEW d \in Nat \ {0}, NEW n \in Nat
  PROVE  d * (n \div d) <= n
OBVIOUS

LEMMA SameNumber ==
  ASSUME NEW d \in Nat \ {0}, NEW n \in Nat, NEW m \in Nat,
         n \div d = m \div d, n % d = m % d
  PROVE  n = m
<1> PICK q, r : q = n \div d /\ r = n % d
  OBVIOUS
<1>1. n = d * q + r
  OBVIOUS
<1>2. m = d * q + r
  OBVIOUS
<1> QED BY <1>1, <1>2

\* Dividing by a product is dividing twice.
LEMMA DivisionTwice ==
  ASSUME NEW d \in Nat \ {0}, NEW c \in Nat \ {0}, NEW n \in Nat
  PROVE  n \div (d * c) = (n \div d) \div c
<1> DEFINE a == n \div d
           r == n % d
           b == a \div c
           s == a % c
<1>1. a \in Nat /\ r \in 0 .. (d - 1) /\ n = d * a + r
  BY Division
<1>2. b \in Nat /\ s \in 0 .. (c - 1) /\ a = c * b + s
  BY <1>1, Division
<1> HIDE DEF a, b, r, s
<1>3. d * c \in Nat \ {0}
  OBVIOUS
<1>4. n = (d * c) * b + (d * s + r)
  BY <1>1, <1>2
<1>5. d * s + r \in 0 .. (d * c - 1)
  <2>1. PICK k \in Nat : c = s + 1 + k
    <3>1. c - s - 1 \in Nat /\ c = s + 1 + (c - s - 1)
      BY <1>2
    <3> QED BY <3>1
  <2>2. d * c = d * s + d + d * k
    BY <1>2, <2>1
  <2>3. d * s \in Nat /\ d * k \in Nat
    BY <1>2, <2>1
  <2> QED BY <1>1, <2>2, <2>3
<1>6. n \div (d * c) = b
  <2> DEFINE e == d * c
             t == d * s + r
  <2>1. e \in Nat \ {0} /\ t \in 0 .. (e - 1) /\ n = e * b + t
    BY <1>3, <1>4, <1>5
  <2> HIDE DEF e, t
  <2>2. (e * b + t) \div e = b
    BY <1>2, <2>1, Quotient
  <2> QED BY <2>1, <2>2 DEF e
<1> QED BY <1>6 DEF a, b

\* A virtual page has four indices, and they tell it from any other.
VirtualPages == 0 .. (Fanout * Fanout * Fanout * Fanout - 1)
Entries == 0 .. (Fanout - 1)

LEMMA PageIndices ==
  ASSUME Fanout \in Nat \ {0}, NEW n \in Nat
  PROVE  /\ VirtualPage(n) \in Entries \X Entries \X Entries \X Entries
         /\ VirtualPage(n) = <<(((n \div Fanout) \div Fanout) \div Fanout) % Fanout,
                               ((n \div Fanout) \div Fanout) % Fanout,
                               (n \div Fanout) % Fanout, n % Fanout>>
<1> PICK d : d = Fanout
  OBVIOUS
<1>1. d \in Nat \ {0} /\ d * d \in Nat \ {0}
  OBVIOUS
<1> DEFINE a == n \div d
           b == a \div d
           c == b \div d
<1>2. a \in Nat /\ b \in Nat /\ c \in Nat
  <2>1. a \in Nat
    BY <1>1, Division
  <2>2. b \in Nat
    BY <1>1, <2>1, Division
  <2> QED BY <1>1, <2>1, <2>2, Division
<1>3. n \div (d * d) = b
  BY <1>1, DivisionTwice
<1>4. n \div (d * d * d) = c
  <2>1. n \div ((d * d) * d) = (n \div (d * d)) \div d
    BY <1>1, DivisionTwice
  <2> QED BY <1>3, <2>1
<1>5. VirtualPage(n) = <<c % d, b % d, a % d, n % d>>
  BY <1>3, <1>4 DEF VirtualPage
<1> HIDE DEF a, b, c
<1>6. /\ c % d \in 0 .. (d - 1) /\ b % d \in 0 .. (d - 1)
      /\ a % d \in 0 .. (d - 1) /\ n % d \in 0 .. (d - 1)
  BY <1>1, <1>2, Division
<1>7. VirtualPage(n) \in Entries \X Entries \X Entries \X Entries
  BY <1>5, <1>6 DEF Entries
<1> QED BY <1>5, <1>7 DEF a, b, c

LEMMA Multiples ==
  ASSUME NEW d \in Nat, NEW e \in Nat, NEW f \in Nat, e <= f
  PROVE  d * e <= d * f
<1>1. PICK k \in Nat : f = e + k
  <2>1. f - e \in Nat /\ f = e + (f - e)
    OBVIOUS
  <2> QED BY <2>1
<1>2. d * f = d * e + d * k /\ d * k \in Nat /\ d * e \in Nat
  BY <1>1
<1> QED BY <1>2

LEMMA OnePageEach ==
  ASSUME Fanout \in Nat \ {0}, NEW n \in VirtualPages, NEW m \in VirtualPages,
         VirtualPage(n) = VirtualPage(m)
  PROVE  n = m
<1> PICK d : d = Fanout
  OBVIOUS
<1>0. d \in Nat \ {0} /\ n \in Nat /\ m \in Nat
  BY DEF VirtualPages
<1> DEFINE a(k) == k \div d
           b(k) == a(k) \div d
           c(k) == b(k) \div d
<1>1. ASSUME NEW k \in VirtualPages
      PROVE  /\ a(k) \in Nat /\ b(k) \in Nat /\ c(k) \in 0 .. (d - 1)
             /\ c(k) % d = c(k)
             /\ VirtualPage(k) = <<c(k) % d, b(k) % d, a(k) % d, k % d>>
  <2>1. k \in Nat /\ k < d * d * d * d
    <3>1. d * d * d * d \in Int
      BY <1>0
    <3> QED BY <3>1 DEF VirtualPages
  <2>2. a(k) \in Nat /\ k % d \in 0 .. (d - 1)
    BY <1>0, <2>1, Division
  <2>3. b(k) \in Nat /\ a(k) % d \in 0 .. (d - 1)
    BY <1>0, <2>2, Division
  <2>4. c(k) \in Nat /\ b(k) % d \in 0 .. (d - 1)
    BY <1>0, <2>3, Division
  <2>5. VirtualPage(k) = <<c(k) % d, b(k) % d, a(k) % d, k % d>>
    BY <2>1, PageIndices
  <2> HIDE DEF a, b, c
  <2>6. c(k) < d
    <3> SUFFICES ASSUME d <= c(k) PROVE FALSE
      BY <1>0, <2>4
    <3> PICK w, x, y : w = a(k) /\ x = b(k) /\ y = c(k)
      OBVIOUS
    <3>1. w \in Nat /\ x \in Nat /\ y \in Nat
      BY <2>2, <2>3, <2>4
    <3>2. d * w <= k
      BY <1>0, <2>1, Floor DEF a
    <3>3. d * x <= w
      BY <1>0, <2>2, Floor DEF b
    <3>4. d * y <= x
      BY <1>0, <2>3, Floor DEF c
    <3>5. d <= y
      OBVIOUS
    <3> PICK dd, ddd : dd = d * d /\ ddd = d * dd
      OBVIOUS
    <3>6. dd \in Nat /\ ddd \in Nat /\ d * ddd \in Nat /\ d * d * d * d = d * ddd
      BY <1>0
    <3>7. dd <= d * y /\ d * y \in Nat
      BY <1>0, <3>1, <3>5, Multiples
    <3>8. dd <= x
      BY <3>1, <3>4, <3>6, <3>7
    <3>9. ddd <= d * x /\ d * x \in Nat
      BY <1>0, <3>1, <3>6, <3>8, Multiples
    <3>10. ddd <= w
      BY <3>1, <3>3, <3>6, <3>9
    <3>11. d * ddd <= d * w /\ d * w \in Nat
      BY <1>0, <3>1, <3>6, <3>10, Multiples
    <3>12. d * ddd <= k
      BY <2>1, <3>2, <3>6, <3>11
    <3> QED BY <2>1, <3>6, <3>12
  <2>7. c(k) % d = c(k)
    <3>1. \A q \in 0 .. (d - 1) : q % d = q
      BY <1>0
    <3> QED BY <2>4, <2>6, <3>1
  <2> QED BY <2>2, <2>3, <2>4, <2>5, <2>6, <2>7
<1> HIDE DEF a, b, c
<1>2. c(n) % d = c(m) % d /\ b(n) % d = b(m) % d /\ a(n) % d = a(m) % d /\ n % d = m % d
  BY <1>1
<1>3. c(n) = c(m)
  BY <1>1, <1>2
<1>4. b(n) = b(m)
  <2>1. b(n) \div d = b(m) \div d
    BY <1>3 DEF c
  <2> QED BY <1>0, <1>1, <1>2, <2>1, SameNumber
<1>5. a(n) = a(m)
  <2>1. a(n) \div d = a(m) \div d
    BY <1>4 DEF b
  <2> QED BY <1>0, <1>1, <1>2, <2>1, SameNumber
<1>6. n \div d = m \div d
  BY <1>5 DEF a
<1> QED BY <1>0, <1>2, <1>6, SameNumber

-------------------------------------------------------------------------------
(***************************************************************************)
(* The page tables: what is proved of PageTableManager holds here.         *)
(***************************************************************************)

T == INSTANCE PageTableManagerProofs WITH
       TableFrames <- 1 .. LastFrame,
       Pages       <- {VirtualPage(n) : n \in 0 .. (Fanout * Fanout * Fanout * Fanout - 1)},
       Targets     <- 0 .. LastFrame,
       Garbage     <- {Garbage},
       requested   <- [v \in {} |-> NoTable]

LEMMA TablesFit == T!PTMAssumption
<1>1. {VirtualPage(n) : n \in VirtualPages} \subseteq T!Index \X T!Index \X T!Index \X T!Index
  <2>1. ASSUME NEW n \in VirtualPages
        PROVE  VirtualPage(n) \in T!Index \X T!Index \X T!Index \X T!Index
    <3>1. n \in Nat /\ Fanout \in Nat \ {0}
      BY KernelMemoryAssumption DEF VirtualPages
    <3> QED BY <3>1, PageIndices DEF T!Index, Entries
  <2> QED BY <2>1
<1>2. /\ Fanout \in Nat /\ Fanout >= 4 /\ LastFrame \in Nat
      /\ Fanout <= (LastFrame + 1) * T!FlagBits
      /\ 1 .. LastFrame # {}
      /\ {Garbage} \subseteq 0 .. (LastFrame * T!FlagBits + T!FlagBits - 1)
      /\ NoTable \notin 0 .. LastFrame
  BY KernelMemoryAssumption DEF PTM!FlagBits, T!FlagBits
<1> QED BY <1>1, <1>2 DEF T!PTMAssumption, T!Frames, VirtualPages

\* The two instances say the same.
LEMMA SameMap ==
  /\ \A v, p : PTM!PTM_MapMemory(v, p) => T!PTM_MapMemory(v, p)
  /\ \A start, p : PTM!WalkAndMap(start, p) => T!WalkAndMap(start, p)
  /\ \A m, v : PTM!PMI_Create(m, v) = T!PMI_Create(m, v)
BY DEF PTM!PTM_MapMemory, T!PTM_MapMemory, PTM!WalkAndMap, T!WalkAndMap, PTM!Descend, T!Descend,
       PTM!PMI_Create, T!PMI_Create, PTM!Entry, T!Entry, PTM!Answers, T!Answers,
       PTM!ClearTable, T!ClearTable, PTM!ZeroPage, T!ZeroPage, PTM!PDE_GetFlag, T!PDE_GetFlag,
       PTM!PDE_GetAddress, T!PDE_GetAddress, PTM!PT_PRESENT, T!PT_PRESENT,
       PTM!PT_READWRITE, T!PT_READWRITE, PTM!FlagBits, T!FlagBits, PTM!NULL, T!NULL,
       PTM!Index, T!Index

-------------------------------------------------------------------------------
(***************************************************************************)
(* The loader: the map is that of memory as it was left, and the font and  *)
(* the map have a frame each that the firmware took from PoolFrames.       *)
(***************************************************************************)

\* Memory without holes, and everything the machine has among the frames.
Fits(m) ==
  /\ \E n \in Nat \ {0} : DOMAIN m.memory = 0 .. (n - 1) /\ (n \div 8 + 1) * 8 <= LastFrame + 1
  /\ m.framebuffer[1] + m.framebuffer[2] <= LastFrame + 1
  /\ m.devices \subseteq 0 .. LastFrame

NoHoles == \A m \in Machines : Fits(m)

GivenOut(f) == f \in PoolFrames \cap DOMAIN owner /\ owner[f] = EfiLoaderData

BootInv ==
  /\ machine \in Machines
  /\ loader \in {"headers", "segments", "font", "map", "kernel"}
  /\ segment \in 1 .. (Len(machine.segments) + 1)
  /\ owner \in [DOMAIN machine.memory -> 0 .. 14]
  /\ IF loader \in {"map", "kernel"} THEN \E f : GivenOut(f) /\ font = {f} ELSE font = {}
  /\ IF loader = "kernel"
     THEN map = MapOf(owner) /\ \E f : GivenOut(f) /\ mapFrame = {f} /\ f \notin font
     ELSE map = <<>> /\ mapFrame = {}

LEMMA MachineIs ==
  ASSUME BootInv
  PROVE  /\ machine.segments \in Seq([start : Nat, pages : Nat \ {0}])
         /\ machine.segments # <<>> /\ Len(machine.segments) \in Nat \ {0}
         /\ machine.framebuffer[1] \in Nat /\ machine.framebuffer[2] \in Nat
<1>1. MachineType(machine)
  BY BootloaderAssumption DEF BootInv
<1> QED BY <1>1 DEF MachineType

LEMMA BootInit == InitBoot => BootInv
<1> SUFFICES ASSUME InitBoot PROVE BootInv
  OBVIOUS
<1>1. MachineType(machine) /\ machine \in Machines
  BY BootloaderAssumption DEF InitBoot
<1>2. machine.memory \in [DOMAIN machine.memory -> 0 .. 14] /\ Len(machine.segments) \in Nat
  BY <1>1 DEF MachineType
<1> QED BY <1>1, <1>2 DEF InitBoot, BootInv

\* Memory that is taken stays taken.
LEMMA TakenStays ==
  ASSUME BootInv, NEW frames
  PROVE  /\ Taken(frames) \in [DOMAIN machine.memory -> 0 .. 14]
         /\ DOMAIN Taken(frames) = DOMAIN owner
         /\ \A f : GivenOut(f) => Taken(frames)[f] = EfiLoaderData
         /\ \A f \in frames \cap DOMAIN owner : Taken(frames)[f] = EfiLoaderData
BY DEF BootInv, Taken, GivenOut, EfiLoaderData

LEMMA BootStep ==
  ASSUME BootInv, Loader
  PROVE  BootInv' /\ machine' = machine /\ loader # "kernel"
<1>1. machine' = machine /\ loader # "kernel"
  BY DEF Loader, ReadElfProgramHeader, LoadSegment, EndSegments, LoadPSF1Font, LibMemoryMap
<1>2. Len(machine.segments) \in Nat \ {0}
  BY MachineIs
<1>3. CASE ReadElfProgramHeader
  <2>1. PICK f : owner' = Taken({f})
    BY <1>3 DEF ReadElfProgramHeader
  <2>2. owner' \in [DOMAIN machine.memory -> 0 .. 14]
    BY <2>1, TakenStays
  <2> QED BY <1>1, <1>3, <2>2 DEF ReadElfProgramHeader, BootInv
<1>4. CASE LoadSegment
  <2>1. PICK pages : owner' = Taken(pages) \/ owner' = owner
    BY <1>4 DEF LoadSegment
  <2>2. owner' \in [DOMAIN machine.memory -> 0 .. 14]
    BY <2>1, TakenStays DEF BootInv
  <2>3. segment' \in 1 .. (Len(machine.segments) + 1)
    BY <1>2, <1>4 DEF LoadSegment, BootInv
  <2> QED BY <1>1, <1>4, <2>2, <2>3 DEF LoadSegment, BootInv
<1>5. CASE EndSegments
  BY <1>1, <1>5 DEF EndSegments, BootInv
<1>6. CASE LoadPSF1Font
  <2>1. PICK f \in PoolFrames \cap Free : font' = {f} /\ owner' = Taken({f})
    BY <1>6 DEF LoadPSF1Font
  <2>2. owner' \in [DOMAIN machine.memory -> 0 .. 14] /\ DOMAIN owner' = DOMAIN owner
    BY <2>1, TakenStays
  <2>3. GivenOut(f)'
    BY <2>1, <2>2, TakenStays DEF GivenOut, Free
  <2> QED BY <1>1, <1>6, <2>1, <2>2, <2>3 DEF LoadPSF1Font, BootInv
<1>7. CASE LibMemoryMap
  <2>1. PICK f \in PoolFrames \cap Free :
          mapFrame' = {f} /\ owner' = Taken({f}) /\ map' = MapOf(owner')
    BY <1>7 DEF LibMemoryMap, MapWithBuffer
  <2>2. owner' \in [DOMAIN machine.memory -> 0 .. 14] /\ DOMAIN owner' = DOMAIN owner
    BY <2>1, TakenStays
  <2>3. GivenOut(f)'
    BY <2>1, <2>2, TakenStays DEF GivenOut, Free
  <2>4. PICK g : GivenOut(g) /\ font = {g}
    BY <1>7 DEF LibMemoryMap, BootInv
  <2>5. GivenOut(g)' /\ font' = {g}
    BY <1>7, <2>1, <2>2, <2>4, TakenStays DEF LibMemoryMap, GivenOut
  <2>6. f # g
    BY <2>1, <2>4 DEF Free, GivenOut, EfiLoaderData, EfiConventionalMemory
  <2> QED BY <1>1, <1>7, <2>1, <2>2, <2>3, <2>5, <2>6 DEF LibMemoryMap, BootInv
<1> QED BY <1>1, <1>3, <1>4, <1>5, <1>6, <1>7 DEF Loader

\* What is known of the map when the kernel has it.
LEMMA MapKnown ==
  ASSUME NoHoles, BootInv, loader = "kernel"
  PROVE  \E n \in Nat \ {0} :
           /\ DOMAIN owner = 0 .. (n - 1) /\ (n \div 8 + 1) * 8 <= LastFrame + 1 /\ n <= LastFrame
           /\ map \in Seq(Descriptor) /\ TotalPages(map) = n
           /\ MemoryFrames \subseteq 0 .. (n - 1)
           /\ Conventional(map) \subseteq {f \in 0 .. (n - 1) : owner[f] = EfiConventionalMemory}
<1>1. PICK n \in Nat \ {0} : /\ DOMAIN machine.memory = 0 .. (n - 1)
                             /\ (n \div 8 + 1) * 8 <= LastFrame + 1
  BY DEF NoHoles, Fits, BootInv
<1>2. owner \in Memories(n)
  BY <1>1 DEF BootInv, Memories
<1>3. map = MapOf(owner)
  BY DEF BootInv
<1>4. n <= LastFrame
  BY <1>1, KernelMemoryAssumption
<1>5. /\ map \in Seq(Descriptor) /\ TotalPages(map) = n
      /\ \A k \in DOMAIN map : FramesOf(map[k]) \subseteq 0 .. (n - 1)
      /\ Conventional(map) \subseteq {f \in 0 .. (n - 1) : owner[f] = EfiConventionalMemory}
  BY <1>2, <1>3, MapOfMemory
<1>6. MemoryFrames \subseteq 0 .. (n - 1)
  BY <1>5 DEF MemoryFrames
<1>7. DOMAIN owner = 0 .. (n - 1)
  BY <1>2 DEF Memories
<1> QED BY <1>1, <1>4, <1>5, <1>6, <1>7

-------------------------------------------------------------------------------
(***************************************************************************)
(* Types, and how far the kernel has come.                                 *)
(***************************************************************************)

\* What InitFrames fills the pool with.
FirstPool ==
  (0 .. (BitmapSize(map) * 8 - 1))
    \ (Reserved(map) \cup Self(map) \cup Kernel
         \cup FrameRange(machine.framebuffer[1], machine.framebuffer[2] + 1))

\* The first frame is reserved, and conventional memory is all that is given
\* away below the end of memory.
LEMMA FirstPoolType ==
  ASSUME NoHoles, BootInv, loader = "kernel"
  PROVE  FirstPool \subseteq 1 .. LastFrame
<1>1. PICK n \in Nat \ {0} : (n \div 8 + 1) * 8 <= LastFrame + 1 /\ TotalPages(map) = n
  BY MapKnown
<1> DEFINE size == BitmapSize(map)
<1>2. size \in Nat /\ size * 8 <= LastFrame + 1 /\ 0 \in Settable(size)
  <2>1. n \div 8 \in Nat
    OBVIOUS
  <2> QED BY <1>1, <2>1, KernelMemoryAssumption DEF BitmapSize, Settable
<1>3. 0 \in LowPages
  BY KernelMemoryAssumption, MemoryMapAssumption DEF LowPages
<1>4. 0 \in Reserved(map)
  BY <1>2, <1>3 DEF Reserved, Low, ToSet
<1> HIDE DEF size
<1>5. ASSUME NEW f \in FirstPool PROVE f \in 1 .. LastFrame
  <2>1. f \in 0 .. (size * 8 - 1) /\ f # 0
    BY <1>4 DEF FirstPool, size
  <2> QED BY <1>2, <2>1, KernelMemoryAssumption
<1> QED BY <1>5

Fb == machine.framebuffer

KernelInv ==
  /\ pc \in {"init", "root", "memory", "framebuffer", "heap", "running"}
  /\ pc # "init" => loader = "kernel"
  /\ mem \in T!Memory
  /\ pool \in SUBSET (1 .. LastFrame)
  /\ exhausted \in BOOLEAN
  /\ exhausted => pool = {}
  /\ IF pc \in {"init", "root"} THEN PML4 = NoTable ELSE PML4 \in 0 .. LastFrame
  /\ pc \in {"init", "root"} => ~exhausted
  /\ pc = "init" => pool = {}
  /\ pc = "root" => pool = FirstPool
  /\ pc \in {"init", "root"} => i = 0
  /\ pc = "memory" => i \in 0 .. TotalPages(map)
  /\ pc \in {"framebuffer", "heap", "running"} => i \in Fb[1] .. (Fb[1] + Fb[2])
  /\ cr3 = IF pc \in {"heap", "running"} THEN PML4 ELSE NoTable
  /\ heapPages \in 0 .. MaxHeap
  /\ pc \notin {"heap", "running"} => heapPages = 0
  /\ dma \in SUBSET (0 .. LastFrame)
  /\ pc # "running" => dma = {}

LEMMA KernelTypes ==
  ASSUME NoHoles, BootInv, KernelInv
  PROVE  TypeOK
<1>1. PICK n \in Nat \ {0} : DOMAIN machine.memory = 0 .. (n - 1) /\ Fb[1] + Fb[2] <= LastFrame + 1
  BY DEF NoHoles, Fits, BootInv, Fb
<1>2. BootTypeOK
  <2>1. map \in Seq(Descriptor)
    <3>1. CASE loader = "kernel"
      BY <3>1, MapKnown
    <3>2. CASE loader # "kernel"
      BY <3>2 DEF BootInv
    <3> QED BY <3>1, <3>2
  <2>2. font \subseteq DOMAIN owner /\ mapFrame \subseteq DOMAIN owner
    BY DEF BootInv, GivenOut
  <2> QED BY <2>1, <2>2 DEF BootTypeOK, BootInv
<1>3. i \in 0 .. (LastFrame + 1)
  <2>1. CASE pc \in {"init", "root"}
    BY <2>1, KernelMemoryAssumption DEF KernelInv
  <2>2. CASE pc = "memory"
    <3>1. loader = "kernel" /\ i \in 0 .. TotalPages(map)
      BY <2>2 DEF KernelInv
    <3>2. TotalPages(map) \in Nat /\ TotalPages(map) <= LastFrame
      BY <3>1, MapKnown
    <3> QED BY <3>1, <3>2, KernelMemoryAssumption
  <2>3. CASE pc \in {"framebuffer", "heap", "running"}
    <3>1. Fb[1] \in Nat /\ Fb[2] \in Nat
      BY MachineIs DEF Fb
    <3> QED BY <1>1, <2>3, <3>1, KernelMemoryAssumption DEF KernelInv
  <2> QED BY <2>1, <2>2, <2>3 DEF KernelInv
<1>4. PTM!TypeOK
  <2>1. mem \in [PTM!Frames -> [PTM!Index -> 0 .. (LastFrame * PTM!FlagBits + PTM!FlagBits - 1)]]
    BY DEF KernelInv, T!Memory, T!Word, T!Frames, T!Index, T!FlagBits, PTM!Frames, PTM!Index, PTM!FlagBits
  <2>2. PML4 \in PTM!Frames \cup {NoTable}
    BY DEF KernelInv, PTM!Frames
  <2> QED BY <2>1, <2>2 DEF PTM!TypeOK, KernelInv
<1>5. cr3 \in {NoTable, PML4} /\ heapPages \in 0 .. MaxHeap /\ dma \subseteq 0 .. LastFrame
  BY DEF KernelInv
<1> QED BY <1>2, <1>3, <1>4, <1>5 DEF TypeOK, KernelInv

-------------------------------------------------------------------------------
(***************************************************************************)
(* What the kernel has mapped, and which frame it uses for what.           *)
(***************************************************************************)

\* The virtual pages of the heap are numbered behind every frame, and the four
\* indices reach them: in the code, memory ends below 16 TiB.
HeapAbove == LastFrame < HeapPage /\ HeapPage + MaxHeap <= Fanout * Fanout * Fanout * Fanout

HeapFrame(k) == T!Found(mem, PML4, VirtualPage(HeapPage + k))

\* The frames that must not become tables.
Others == ((0 .. LastFrame) \ FirstPool) \cup {HeapFrame(k) : k \in 0 .. (heapPages - 1)} \cup dma

\* There are tables, and no request was refused.
Mapping == pc \notin {"init", "root"} /\ ~exhausted

UseInv ==
  /\ pc # "init" => T!Lower(FirstPool, pool)
  /\ Mapping =>
       /\ T!Tree(mem, PML4, pool, Others)
       /\ dma \subseteq FirstPool \ pool
       /\ \A k \in 0 .. (heapPages - 1) : HeapFrame(k) \in FirstPool \ (pool \cup dma)
       /\ \A k, l \in 0 .. (heapPages - 1) : HeapFrame(k) = HeapFrame(l) => k = l

\* The frames mapped to themselves so far.
Covered(f) ==
  IF pc = "memory" THEN f < i
  ELSE f < TotalPages(map) \/ (f \in FramebufferFrames /\ (pc = "framebuffer" => f < i))

MapInv ==
  Mapping => \A f \in 0 .. LastFrame : Covered(f) => T!Found(mem, PML4, VirtualPage(f)) = f

Inv == BootInv /\ KernelInv /\ UseInv /\ MapInv

\* A walk: T!WalkMaps, and what it takes from the pool.
LEMMA Walked ==
  ASSUME NEW m \in T!Memory, NEW root \in 0 .. LastFrame, NEW free \in SUBSET (1 .. LastFrame),
         NEW refused \in BOOLEAN, refused => free = {},
         NEW others \in SUBSET (0 .. LastFrame), others \cap free = {},
         ~refused => T!Tree(m, root, free, others),
         NEW all \in SUBSET Int, T!Lower(all, free),
         NEW n \in Nat, NEW p \in 0 .. LastFrame,
         T!WalkAndMap([mem |-> T!PMI_Create(m, VirtualPage(n)), free |-> free,
                       table |-> root, refused |-> refused], p)
  PROVE  /\ mem' \in T!Memory /\ pool' \in SUBSET (1 .. LastFrame) /\ exhausted' \in BOOLEAN
         /\ exhausted' => pool' = {}
         /\ T!Lower(all, pool') /\ others \cap pool' = {}
         /\ ~exhausted' => /\ ~refused
                           /\ T!Tree(mem', root, pool', others)
                           /\ T!MapsOnly(m, mem', root, VirtualPage(n), p)
<1> DEFINE v == VirtualPage(n)
<1> PICK start : start = [mem |-> T!PMI_Create(m, v), free |-> free,
                          table |-> root, refused |-> refused]
  OBVIOUS
<1>1. v \in T!Index \X T!Index \X T!Index \X T!Index
  <2>1. Fanout \in Nat \ {0}
    BY KernelMemoryAssumption
  <2> QED BY <2>1, PageIndices DEF T!Index, Entries
<1> HIDE DEF v
<1>2. T!Frames = 0 .. LastFrame
  BY DEF T!Frames
<1>3. T!At(start, m, root, others, v, 1)
  BY <1>1, <1>2, TablesFit, T!Started
<1>4. T!WalkAndMap(start, p)
  BY DEF v
<1>5. start.free = free /\ start.refused = refused
  OBVIOUS
<1>6. T!Lower(all, pool')
  BY <1>4, <1>5, TablesFit, T!WalkLower
<1>7. /\ mem' \in T!Memory /\ pool' \in SUBSET (1 .. LastFrame) /\ exhausted' \in BOOLEAN
      /\ exhausted' => pool' = {}
      /\ others \cap pool' = {}
  BY <1>1, <1>2, <1>3, <1>4, TablesFit, T!WalkMaps
<1>8. ~exhausted' => /\ ~start.refused
                     /\ T!Tree(mem', root, pool', others)
                     /\ T!MapsOnly(m, mem', root, v, p)
  BY <1>1, <1>2, <1>3, <1>4, TablesFit, T!WalkMaps
<1> QED BY <1>5, <1>6, <1>7, <1>8 DEF v

LEMMA PagesApart ==
  ASSUME HeapAbove, NEW n \in 0 .. (HeapPage + MaxHeap - 1), NEW k \in 0 .. (HeapPage + MaxHeap - 1)
  PROVE  /\ VirtualPage(n) \in T!Index \X T!Index \X T!Index \X T!Index
         /\ VirtualPage(n) = VirtualPage(k) => n = k
<1>1. Fanout \in Nat \ {0} /\ HeapPage \in Nat /\ MaxHeap \in Nat
  BY KernelMemoryAssumption
<1> PICK all : all = Fanout * Fanout * Fanout * Fanout
  OBVIOUS
<1>2. all \in Int
  BY <1>1
<1>3. HeapPage + MaxHeap <= all
  BY DEF HeapAbove
<1>4. n \in Nat /\ k \in Nat /\ n \in 0 .. (all - 1) /\ k \in 0 .. (all - 1)
  BY <1>1, <1>2, <1>3
<1>5. n \in VirtualPages /\ k \in VirtualPages
  BY <1>4 DEF VirtualPages
<1>6. VirtualPage(n) = VirtualPage(k) => n = k
  BY <1>1, <1>5, OnePageEach
<1> QED BY <1>1, <1>4, <1>6, PageIndices DEF T!Index, Entries

\* The frames that are no tables are apart from the pool.
LEMMA OthersType ==
  ASSUME NoHoles, Inv, Mapping
  PROVE  /\ FirstPool \in SUBSET (1 .. LastFrame) /\ FirstPool \in SUBSET Int
         /\ pool \subseteq FirstPool
         /\ Others \in SUBSET (0 .. LastFrame) /\ Others \cap pool = {}
<1>1. loader = "kernel" /\ pc # "init"
  BY DEF Inv, KernelInv, Mapping
<1>2. FirstPool \subseteq 1 .. LastFrame
  BY <1>1, FirstPoolType DEF Inv
<1>3. pool \subseteq FirstPool
  BY <1>1 DEF Inv, UseInv, T!Lower
<1>4. 1 .. LastFrame \subseteq 0 .. LastFrame /\ 1 .. LastFrame \subseteq Int
  BY KernelMemoryAssumption
<1>5. dma \subseteq FirstPool \ pool
      /\ \A k \in 0 .. (heapPages - 1) : HeapFrame(k) \in FirstPool \ (pool \cup dma)
  BY DEF Inv, UseInv
<1> QED BY <1>2, <1>3, <1>4, <1>5 DEF Others

\* A frame is mapped to itself: nothing else is disturbed.
LEMMA IdentityMapped ==
  ASSUME NoHoles, HeapAbove, Inv, pc \notin {"init", "root"}, pc' = pc,
         NEW n \in 0 .. LastFrame, PTM!PTM_MapMemory(VirtualPage(n), n),
         UNCHANGED <<boot, cr3, heapPages, dma>>
  PROVE  /\ mem' \in T!Memory /\ pool' \in SUBSET (1 .. LastFrame) /\ exhausted' \in BOOLEAN
         /\ exhausted' => pool' = {}
         /\ PML4' = PML4
         /\ UseInv'
         /\ ~exhausted' =>
              /\ ~exhausted
              /\ \A f \in 0 .. LastFrame :
                   f = n \/ T!Found(mem, PML4, VirtualPage(f)) = f
                     => T!Found(mem', PML4, VirtualPage(f)) = f
<1> PICK m, root, free, refused, first, others, h :
      /\ m = mem /\ root = PML4 /\ free = pool /\ refused = exhausted
      /\ first = FirstPool /\ others = (IF exhausted THEN {} ELSE Others)
      /\ h = [k \in 0 .. (heapPages - 1) |-> HeapFrame(k)]
  OBVIOUS
<1>1. /\ m \in T!Memory /\ root \in 0 .. LastFrame /\ free \in SUBSET (1 .. LastFrame)
      /\ refused \in BOOLEAN /\ (refused => free = {})
      /\ first \in SUBSET Int /\ T!Lower(first, free)
  <2>1. loader = "kernel"
    BY DEF Inv, KernelInv
  <2>2. FirstPool \in SUBSET Int
    <3>1. 1 .. LastFrame \subseteq Int
      BY KernelMemoryAssumption
    <3> QED BY <2>1, <3>1, FirstPoolType DEF Inv
  <2>3. T!Lower(FirstPool, pool)
    BY DEF Inv, UseInv
  <2> QED BY <2>2, <2>3 DEF Inv, KernelInv
<1>2. /\ others \in SUBSET (0 .. LastFrame) /\ others \cap free = {}
      /\ ~refused => T!Tree(m, root, free, others)
  <2>1. CASE exhausted
    BY <2>1
  <2>2. CASE ~exhausted
    <3>1. Mapping
      BY <2>2 DEF Mapping
    <3>2. others = Others
      BY <2>2
    <3> QED BY <3>1, <3>2, OthersType DEF Inv, UseInv
  <2> QED BY <2>1, <2>2
<1>3. PML4' = PML4 /\ T!PTM_MapMemory(VirtualPage(n), n)
  BY SameMap DEF PTM!PTM_MapMemory
<1>4. T!WalkAndMap([mem |-> T!PMI_Create(m, VirtualPage(n)), free |-> free,
                    table |-> root, refused |-> refused], n)
  BY <1>3 DEF T!PTM_MapMemory
<1>5. n \in Nat
  OBVIOUS
<1>6. /\ mem' \in T!Memory /\ pool' \in SUBSET (1 .. LastFrame) /\ exhausted' \in BOOLEAN
      /\ exhausted' => pool' = {}
      /\ T!Lower(first, pool') /\ others \cap pool' = {}
  BY <1>1, <1>2, <1>4, <1>5, Walked
<1>7. ~exhausted' => /\ ~refused
                     /\ T!Tree(mem', root, pool', others)
                     /\ T!MapsOnly(m, mem', root, VirtualPage(n), n)
  BY <1>1, <1>2, <1>4, <1>5, Walked
<1>8. FirstPool' = first
  BY DEF FirstPool, boot, Kernel
<1>9. ASSUME ~exhausted'
      PROVE  /\ ~exhausted
             /\ \A f \in 0 .. LastFrame :
                  f = n \/ T!Found(mem, PML4, VirtualPage(f)) = f
                    => T!Found(mem', PML4, VirtualPage(f)) = f
             /\ \A k \in 0 .. (heapPages - 1) : HeapFrame(k)' = h[k]
  <2>1. \A u \in T!Index \X T!Index \X T!Index \X T!Index :
          T!Found(mem', root, u) = IF u = VirtualPage(n) THEN n ELSE T!Found(m, root, u)
    BY <1>7, <1>9 DEF T!MapsOnly
  <2>2. /\ HeapPage \in Nat /\ MaxHeap \in Nat /\ LastFrame \in Nat /\ LastFrame < HeapPage
        /\ heapPages \in 0 .. MaxHeap
    BY KernelMemoryAssumption DEF HeapAbove, Inv, KernelInv
  <2>3. n \in 0 .. (HeapPage + MaxHeap - 1)
    BY <2>2
  <2>4. ASSUME NEW f \in 0 .. LastFrame, f = n \/ T!Found(mem, PML4, VirtualPage(f)) = f
        PROVE  T!Found(mem', PML4, VirtualPage(f)) = f
    <3>1. f \in 0 .. (HeapPage + MaxHeap - 1)
      BY <2>2
    <3>2. VirtualPage(f) \in T!Index \X T!Index \X T!Index \X T!Index
          /\ (VirtualPage(f) = VirtualPage(n) => f = n)
      BY <2>3, <3>1, PagesApart
    <3> QED BY <2>1, <2>4, <3>2
  <2>5. ASSUME NEW k \in 0 .. (heapPages - 1) PROVE HeapFrame(k)' = h[k]
    <3> DEFINE w == HeapPage + k
    <3>1. w \in 0 .. (HeapPage + MaxHeap - 1) /\ w # n
      BY <2>2
    <3> HIDE DEF w
    <3>2. VirtualPage(w) \in T!Index \X T!Index \X T!Index \X T!Index
          /\ VirtualPage(w) # VirtualPage(n)
      BY <2>3, <3>1, PagesApart
    <3>3. T!Found(mem', root, VirtualPage(w)) = T!Found(m, root, VirtualPage(w))
      BY <2>1, <3>2
    <3>4. HeapFrame(k)' = T!Found(mem', root, VirtualPage(w))
      BY <1>3 DEF HeapFrame, w
    <3>5. h[k] = T!Found(m, root, VirtualPage(w))
      BY DEF HeapFrame, w
    <3> QED BY <3>3, <3>4, <3>5
  <2> QED BY <1>7, <1>9, <2>4, <2>5
<1>10. UseInv'
  <2>1. T!Lower(FirstPool', pool')
    BY <1>6, <1>8
  <2>2. ASSUME ~exhausted'
        PROVE  /\ T!Tree(mem', PML4', pool', Others')
               /\ dma' \subseteq FirstPool' \ pool'
               /\ \A k \in 0 .. (heapPages' - 1) : HeapFrame(k)' \in FirstPool' \ (pool' \cup dma')
               /\ \A k, l \in 0 .. (heapPages' - 1) : HeapFrame(k)' = HeapFrame(l)' => k = l
    <3>1. ~exhausted /\ \A k \in 0 .. (heapPages - 1) : HeapFrame(k)' = h[k]
      BY <1>9, <2>2
    <3>2. /\ heapPages' = heapPages /\ dma' = dma
      OBVIOUS
    <3>3. Others' = others
      BY <1>8, <3>1, <3>2 DEF Others
    <3>4. Mapping /\ others = Others
      BY <3>1 DEF Mapping
    <3>5. /\ dma \subseteq FirstPool \ pool
          /\ \A k \in 0 .. (heapPages - 1) : HeapFrame(k) \in FirstPool \ (pool \cup dma)
          /\ \A k, l \in 0 .. (heapPages - 1) : HeapFrame(k) = HeapFrame(l) => k = l
      BY <3>4 DEF Inv, UseInv
    <3>6. dma \subseteq others /\ \A k \in 0 .. (heapPages - 1) : HeapFrame(k) \in others
      BY <3>4 DEF Others
    <3>7. \A k \in 0 .. (heapPages - 1) : HeapFrame(k)' = HeapFrame(k)
      BY <3>1
    <3>8. dma' \subseteq FirstPool' \ pool'
      BY <1>6, <1>8, <3>2, <3>5, <3>6
    <3>9. \A k \in 0 .. (heapPages - 1) : HeapFrame(k)' \in FirstPool' \ (pool' \cup dma')
      BY <1>6, <1>8, <3>2, <3>5, <3>6, <3>7
    <3>10. \A k, l \in 0 .. (heapPages - 1) : HeapFrame(k)' = HeapFrame(l)' => k = l
      BY <3>5, <3>7
    <3>11. T!Tree(mem', PML4', pool', Others')
      BY <1>3, <1>7, <2>2, <3>3
    <3> QED BY <3>2, <3>8, <3>9, <3>10, <3>11
  <2> QED BY <2>1, <2>2 DEF UseInv, Mapping
<1> QED BY <1>3, <1>6, <1>9, <1>10

LEMMA MapInit == Init => Inv
<1> SUFFICES ASSUME Init PROVE Inv
  OBVIOUS
<1>1. BootInv
  BY BootInit DEF Init
<1>2. mem \in T!Memory
  <2>1. Garbage \in T!Word
    BY KernelMemoryAssumption DEF T!Word, T!FlagBits, PTM!FlagBits
  <2> QED BY <2>1 DEF Init, T!Memory, T!Frames, T!Index
<1>3. KernelInv
  <2>1. heapPages \in 0 .. MaxHeap
    BY KernelMemoryAssumption DEF Init
  <2>2. pool = {} /\ dma = {} /\ ~exhausted /\ exhausted \in BOOLEAN
    BY DEF Init
  <2>3. pc = "init" /\ i = 0 /\ PML4 = NoTable /\ cr3 = NoTable /\ heapPages = 0
    BY DEF Init
  <2> QED BY <1>2, <2>1, <2>2, <2>3 DEF KernelInv
<1> QED BY <1>1, <1>3 DEF Init, Inv, UseInv, MapInv, Mapping

LEMMA LoadStep ==
  ASSUME Inv, Load
  PROVE  Inv'
<1>1. BootInv' /\ loader # "kernel"
  BY BootStep DEF Inv, Load
<1>2. pc = "init" /\ pc' = "init" /\ UNCHANGED <<i, mem, PML4, pool, exhausted, cr3, heapPages, dma>>
  BY <1>1 DEF Inv, KernelInv, Load
<1>3. KernelInv'
  BY <1>2 DEF Inv, KernelInv
<1> QED BY <1>1, <1>2, <1>3 DEF Inv, UseInv, MapInv, Mapping

LEMMA InitFramesStep ==
  ASSUME NoHoles, Inv, InitFrames
  PROVE  Inv'
<1>1. /\ loader = "kernel" /\ pc = "init" /\ pc' = "root" /\ pool' = FirstPool
      /\ UNCHANGED <<boot, i, mem, PML4, exhausted, cr3, heapPages, dma>>
  BY DEF InitFrames, FirstPool
<1>2. BootInv' /\ loader' = "kernel" /\ FirstPool' = FirstPool
  BY <1>1 DEF Inv, BootInv, GivenOut, boot, FirstPool, Kernel
<1>3. pool' \in SUBSET (1 .. LastFrame)
  BY <1>1, FirstPoolType DEF Inv
<1>4. KernelInv'
  BY <1>1, <1>2, <1>3 DEF Inv, KernelInv
<1>5. UseInv'
  BY <1>1, <1>2 DEF UseInv, Mapping, T!Lower
<1> QED BY <1>1, <1>2, <1>4, <1>5 DEF Inv, MapInv, Mapping

LEMMA CreateRootStep ==
  ASSUME NoHoles, Inv, CreateRoot
  PROVE  Inv'
<1>1. /\ pc = "root" /\ pc' = "memory" /\ i' = 0 /\ UNCHANGED <<boot, cr3, heapPages, dma>>
      /\ exhausted' = (exhausted \/ pool = {})
  BY DEF CreateRoot, PTM!PTM_Create
<1>2. PICK f \in T!Answers(pool) :
        mem' = T!ClearTable(mem, f) /\ pool' = pool \ {f} /\ PML4' = f
  BY DEF CreateRoot, PTM!PTM_Create, PTM!Answers, T!Answers, PTM!NULL, T!NULL,
         PTM!ClearTable, T!ClearTable, PTM!ZeroPage, T!ZeroPage, PTM!Index, T!Index
<1>3. /\ loader = "kernel" /\ BootInv /\ mem \in T!Memory /\ pool = FirstPool
      /\ pool \in SUBSET (1 .. LastFrame) /\ ~exhausted /\ cr3 = NoTable /\ heapPages = 0 /\ dma = {}
      /\ T!Lower(FirstPool, pool)
  BY <1>1 DEF Inv, KernelInv, UseInv
<1>4. f \in 0 .. LastFrame /\ (pool # {} => f \in pool)
  BY <1>2, <1>3, TablesFit, T!AnswersType DEF T!Frames
<1>5. /\ mem' \in T!Memory /\ \A j \in T!Index : mem'[f][j] = 0
  BY <1>2, <1>3, <1>4, TablesFit, T!Clearing DEF T!Frames
<1>6. BootInv' /\ loader' = "kernel" /\ FirstPool' = FirstPool /\ TotalPages(map') = TotalPages(map)
  BY <1>1, <1>3 DEF BootInv, GivenOut, boot, FirstPool, Kernel
<1>7. TotalPages(map) \in Nat
  BY <1>3, MapKnown
<1>8. KernelInv'
  <2>1. pool' \in SUBSET (1 .. LastFrame) /\ (exhausted' => pool' = {}) /\ exhausted' \in BOOLEAN
    BY <1>1, <1>2, <1>3
  <2>2. i' \in 0 .. TotalPages(map')
    BY <1>1, <1>6, <1>7
  <2>3. heapPages' \in 0 .. MaxHeap
    BY <1>1, <1>3, KernelMemoryAssumption
  <2> QED BY <1>1, <1>2, <1>3, <1>4, <1>5, <1>6, <2>1, <2>2, <2>3 DEF KernelInv
<1>9. UseInv'
  <2>1. T!Lower(FirstPool', pool')
    <3> PICK first, free : first = FirstPool /\ free = pool
      OBVIOUS
    <3>1. first \in SUBSET Int /\ T!Lower(first, free) /\ f \in T!Answers(free)
      <4>1. 1 .. LastFrame \subseteq Int
        BY KernelMemoryAssumption
      <4> QED BY <1>2, <1>3, <4>1
    <3>2. T!Lower(first, free \ {f})
      BY <3>1, TablesFit, T!AnswerLower
    <3> QED BY <1>2, <1>6, <3>2
  <2>2. ASSUME ~exhausted'
        PROVE  /\ T!Tree(mem', PML4', pool', Others')
               /\ 0 .. (heapPages' - 1) = {} /\ dma' = {}
    <3>1. 0 .. (heapPages' - 1) = {} /\ dma' = {}
      BY <1>1, <1>3
    <3>2. Others' = (0 .. LastFrame) \ FirstPool
      <4> DEFINE heap == {T!Found(mem', PML4', VirtualPage(HeapPage + k)) : k \in 0 .. (heapPages' - 1)}
      <4>1. Others' = ((0 .. LastFrame) \ FirstPool') \cup heap \cup dma'
        BY DEF Others, HeapFrame
      <4>2. heap = {}
        BY <3>1
      <4> HIDE DEF heap
      <4> QED BY <1>6, <3>1, <4>1, <4>2
    <3>3. f \in pool /\ f # 0
      <4>1. pool # {}
        BY <1>1, <2>2
      <4>2. f \in pool
        BY <1>4, <4>1
      <4> QED BY <1>3, <4>2
    <3> PICK m, free, others : m = mem' /\ free = pool' /\ others = Others'
      OBVIOUS
    <3>4. /\ m \in T!Memory /\ \A j \in T!Index : m[f][j] = 0
          /\ free \subseteq T!Frames /\ f \notin free /\ others \subseteq T!Frames /\ f \notin others
          /\ f \in T!Frames /\ f # T!NULL
      <4>1. 1 .. LastFrame \subseteq 0 .. LastFrame
        OBVIOUS
      <4> QED BY <1>2, <1>3, <1>4, <1>5, <3>2, <3>3, <4>1 DEF T!Frames, T!NULL
    <3>5. T!Tree(m, f, free, others)
      BY <3>4, TablesFit, T!RootAlone
    <3> QED BY <1>2, <3>1, <3>5
  <2> QED BY <2>1, <2>2 DEF UseInv, Mapping
<1>10. MapInv'
  <2>1. \A f0 \in 0 .. LastFrame : ~(f0 < i')
    BY <1>1
  <2> QED BY <1>1, <2>1 DEF MapInv, Covered
<1> QED BY <1>6, <1>8, <1>9, <1>10 DEF Inv

LEMMA SameBoot ==
  ASSUME BootInv, UNCHANGED boot
  PROVE  /\ BootInv' /\ loader' = loader /\ Fb' = Fb /\ FirstPool' = FirstPool
         /\ TotalPages(map)' = TotalPages(map) /\ FramebufferFrames' = FramebufferFrames
BY DEF BootInv, GivenOut, boot, Fb, FirstPool, Kernel, FramebufferFrames

\* The frames mapped to themselves, one more than before.
LEMMA OneMore ==
  ASSUME NoHoles, HeapAbove, Inv, pc \notin {"init", "root"}, pc' = pc,
         NEW n \in 0 .. LastFrame, PTM!PTM_MapMemory(VirtualPage(n), n),
         UNCHANGED <<boot, cr3, heapPages, dma>>,
         \A f \in 0 .. LastFrame : Covered(f)' => Covered(f) \/ f = n,
         KernelInv'
  PROVE  Inv'
<1>1. UseInv' /\ PML4' = PML4
  BY IdentityMapped
<1>2. BootInv'
  BY SameBoot DEF Inv
<1>3. ASSUME ~exhausted', NEW f \in 0 .. LastFrame, Covered(f)'
      PROVE  T!Found(mem', PML4', VirtualPage(f)) = f
  <2>1. ~exhausted
    BY <1>3, IdentityMapped
  <2>2. Covered(f) => T!Found(mem, PML4, VirtualPage(f)) = f
    BY <2>1 DEF Inv, MapInv, Mapping
  <2>3. f = n \/ T!Found(mem, PML4, VirtualPage(f)) = f
    BY <1>3, <2>2
  <2> QED BY <1>1, <1>3, <2>3, IdentityMapped
<1>4. MapInv'
  BY <1>3 DEF MapInv, Mapping
<1> QED BY <1>1, <1>2, <1>4 DEF Inv

\* The types after a mapping.
LEMMA TypesAfterMap ==
  ASSUME NoHoles, HeapAbove, Inv, pc \notin {"init", "root"}, pc' = pc,
         NEW n \in 0 .. LastFrame, PTM!PTM_MapMemory(VirtualPage(n), n),
         UNCHANGED <<boot, cr3, heapPages, dma>>,
         pc = "memory" => i' \in 0 .. TotalPages(map),
         pc \in {"framebuffer", "heap", "running"} => i' \in Fb[1] .. (Fb[1] + Fb[2])
  PROVE  KernelInv'
<1>1. /\ mem' \in T!Memory /\ pool' \in SUBSET (1 .. LastFrame) /\ exhausted' \in BOOLEAN
      /\ exhausted' => pool' = {}
      /\ PML4' = PML4
  BY IdentityMapped
<1>2. loader' = loader /\ Fb' = Fb /\ TotalPages(map)' = TotalPages(map)
  BY SameBoot DEF Inv
<1> QED BY <1>1, <1>2 DEF Inv, KernelInv

LEMMA MapMemoryStep ==
  ASSUME NoHoles, HeapAbove, Inv, MapMemory
  PROVE  Inv'
<1>1. /\ pc = "memory" /\ i < TotalPages(map) /\ i' = i + 1 /\ pc' = pc
      /\ UNCHANGED <<boot, cr3, heapPages, dma>> /\ PTM!PTM_MapMemory(VirtualPage(i), i)
  BY DEF MapMemory, MemorySize
<1>2. loader = "kernel" /\ i \in 0 .. TotalPages(map)
  BY <1>1 DEF Inv, KernelInv
<1>3. TotalPages(map) \in Nat /\ TotalPages(map) <= LastFrame
  BY <1>2, MapKnown DEF Inv
<1> PICK n : n = i
  OBVIOUS
<1>4. /\ n \in 0 .. LastFrame /\ i' \in 0 .. TotalPages(map) /\ i' = n + 1
  BY <1>1, <1>2, <1>3, KernelMemoryAssumption
<1>5. KernelInv'
  BY <1>1, <1>4, TypesAfterMap
<1>6. ASSUME NEW f \in 0 .. LastFrame, Covered(f)' PROVE Covered(f) \/ f = n
  <2>1. f < n + 1
    BY <1>1, <1>4, <1>6 DEF Covered
  <2>2. f < n \/ f = n
    BY <1>4, <2>1
  <2> QED BY <1>1, <2>2 DEF Covered
<1> QED BY <1>1, <1>4, <1>5, <1>6, OneMore

LEMMA MapFramebufferStep ==
  ASSUME NoHoles, HeapAbove, Inv, MapFramebuffer
  PROVE  Inv'
<1>1. /\ pc = "framebuffer" /\ i \in FramebufferFrames /\ i' = i + 1 /\ pc' = pc
      /\ UNCHANGED <<boot, cr3, heapPages, dma>> /\ PTM!PTM_MapMemory(VirtualPage(i), i)
  BY DEF MapFramebuffer
<1>2. BootInv /\ Fb[1] \in Nat /\ Fb[2] \in Nat /\ Fb[1] + Fb[2] <= LastFrame + 1
  <2>1. BootInv
    BY DEF Inv
  <2> QED BY <2>1, MachineIs DEF Fb, NoHoles, Fits, BootInv
<1>3. i \in Fb[1] .. (Fb[1] + Fb[2] - 1)
  BY <1>1 DEF FramebufferFrames, FrameRange, Fb
<1> PICK n : n = i
  OBVIOUS
<1>4. /\ n \in 0 .. LastFrame /\ i' \in Fb[1] .. (Fb[1] + Fb[2]) /\ i' = n + 1
  BY <1>1, <1>2, <1>3, KernelMemoryAssumption
<1>5. KernelInv'
  BY <1>1, <1>4, TypesAfterMap
<1>6. TotalPages(map)' = TotalPages(map) /\ FramebufferFrames' = FramebufferFrames
  BY <1>1, <1>2, SameBoot
<1>7. ASSUME NEW f \in 0 .. LastFrame, Covered(f)' PROVE Covered(f) \/ f = n
  <2>1. f < TotalPages(map) \/ (f \in FramebufferFrames /\ f < n + 1)
    BY <1>1, <1>4, <1>6, <1>7 DEF Covered
  <2>2. f < n + 1 => f < n \/ f = n
    BY <1>4
  <2> QED BY <1>1, <2>1, <2>2 DEF Covered
<1> QED BY <1>1, <1>4, <1>5, <1>7, OneMore

LEMMA MapDeviceStep ==
  ASSUME NoHoles, HeapAbove, Inv, NEW n \in machine.devices, MapDevice(n)
  PROVE  Inv'
<1>1. /\ pc = "running" /\ pc' = pc /\ i' = i
      /\ UNCHANGED <<boot, cr3, heapPages, dma>> /\ PTM!PTM_MapMemory(VirtualPage(n), n)
  BY DEF MapDevice
<1>2. n \in 0 .. LastFrame
  BY DEF Inv, BootInv, NoHoles, Fits
<1>3. KernelInv'
  BY <1>1, <1>2, TypesAfterMap DEF Inv, KernelInv
<1>4. TotalPages(map)' = TotalPages(map) /\ FramebufferFrames' = FramebufferFrames
  BY <1>1, SameBoot DEF Inv
<1>5. \A f \in 0 .. LastFrame : Covered(f)' => Covered(f) \/ f = n
  BY <1>1, <1>4 DEF Covered
<1> QED BY <1>1, <1>2, <1>3, <1>5, OneMore

\* The kernel goes on, and maps nothing.
LEMMA NothingMapped ==
  ASSUME Inv, pc \notin {"init", "root"}, pc' \notin {"init", "root"},
         UNCHANGED <<boot, mem, PML4, pool, exhausted, heapPages, dma>>
  PROVE  /\ BootInv' /\ UseInv'
         /\ (\A f \in 0 .. LastFrame : Covered(f)' => Covered(f)) => MapInv'
<1>1. BootInv' /\ FirstPool' = FirstPool
  BY SameBoot DEF Inv
<1>2. UseInv'
  <2>1. T!Lower(FirstPool', pool')
    BY <1>1 DEF Inv, UseInv
  <2>2. ASSUME ~exhausted'
        PROVE  /\ T!Tree(mem', PML4', pool', Others')
               /\ dma' \subseteq FirstPool' \ pool'
               /\ \A k \in 0 .. (heapPages' - 1) : HeapFrame(k)' \in FirstPool' \ (pool' \cup dma')
               /\ \A k, l \in 0 .. (heapPages' - 1) : HeapFrame(k)' = HeapFrame(l)' => k = l
    <3>1. Mapping
      BY <2>2 DEF Mapping
    <3>2. \A k : HeapFrame(k)' = HeapFrame(k)
      BY DEF HeapFrame
    <3>3. Others' = Others
      BY <1>1, <3>2 DEF Others
    <3>4. T!Tree(mem', PML4', pool', Others')
      BY <3>1, <3>3 DEF Inv, UseInv
    <3> QED BY <1>1, <3>1, <3>2, <3>4 DEF Inv, UseInv
  <2> QED BY <2>1, <2>2 DEF UseInv, Mapping
<1>3. ASSUME \A f \in 0 .. LastFrame : Covered(f)' => Covered(f) PROVE MapInv'
  BY <1>3 DEF Inv, MapInv, Mapping
<1> QED BY <1>1, <1>2, <1>3

LEMMA EndMapMemoryStep ==
  ASSUME NoHoles, Inv, EndMapMemory
  PROVE  Inv'
<1>1. /\ pc = "memory" /\ pc' = "framebuffer" /\ i >= TotalPages(map) /\ i' = Fb[1]
      /\ UNCHANGED <<boot, mem, PML4, pool, exhausted, cr3, heapPages, dma>>
  BY DEF EndMapMemory, MemorySize, Fb
<1>2. Fb[1] \in Nat /\ Fb[2] \in Nat /\ loader = "kernel" /\ i \in 0 .. TotalPages(map)
  <2>1. BootInv
    BY DEF Inv
  <2> QED BY <1>1, <2>1, MachineIs DEF Fb, Inv, KernelInv
<1>3. Fb' = Fb /\ loader' = loader /\ TotalPages(map)' = TotalPages(map)
      /\ FramebufferFrames' = FramebufferFrames
  BY <1>1, SameBoot DEF Inv
<1>4. KernelInv'
  <2>1. i' \in Fb'[1] .. (Fb'[1] + Fb'[2])
    BY <1>1, <1>2, <1>3
  <2> QED BY <1>1, <1>2, <1>3, <2>1 DEF Inv, KernelInv
<1>5. TotalPages(map) \in Nat /\ i = TotalPages(map)
  <2>1. TotalPages(map) \in Nat
    BY <1>2, MapKnown DEF Inv
  <2> QED BY <1>1, <1>2, <2>1
<1>6. ASSUME NEW f \in 0 .. LastFrame, Covered(f)' PROVE Covered(f)
  <2>1. f < TotalPages(map) \/ (f \in FramebufferFrames /\ f < Fb[1])
    BY <1>1, <1>3, <1>6 DEF Covered
  <2>2. f \in FramebufferFrames => ~(f < Fb[1])
    BY <1>2 DEF FramebufferFrames, FrameRange, Fb
  <2> QED BY <1>1, <1>5, <2>1, <2>2 DEF Covered
<1> QED BY <1>1, <1>4, <1>6, NothingMapped DEF Inv

LEMMA LoadCr3Step ==
  ASSUME NoHoles, Inv, LoadCr3
  PROVE  Inv'
<1>1. /\ pc = "framebuffer" /\ pc' = "heap" /\ i \notin FramebufferFrames /\ i' = i /\ cr3' = PML4
      /\ UNCHANGED <<boot, mem, PML4, pool, exhausted, heapPages, dma>>
  BY DEF LoadCr3
<1>2. Fb[1] \in Nat /\ Fb[2] \in Nat /\ i \in Fb[1] .. (Fb[1] + Fb[2])
  <2>1. BootInv
    BY DEF Inv
  <2> QED BY <1>1, <2>1, MachineIs DEF Fb, Inv, KernelInv
<1>3. Fb' = Fb /\ loader' = loader /\ TotalPages(map)' = TotalPages(map)
      /\ FramebufferFrames' = FramebufferFrames
  BY <1>1, SameBoot DEF Inv
<1>4. KernelInv'
  BY <1>1, <1>3 DEF Inv, KernelInv
<1>5. ASSUME NEW f \in 0 .. LastFrame, Covered(f)' PROVE Covered(f)
  <2>1. f < TotalPages(map) \/ f \in FramebufferFrames
    BY <1>1, <1>3, <1>5 DEF Covered
  <2>2. f \in FramebufferFrames => f < i
    <3>1. FramebufferFrames = Fb[1] .. (Fb[1] + Fb[2] - 1)
      BY DEF FramebufferFrames, FrameRange, Fb
    <3> QED BY <1>1, <1>2, <3>1
  <2> QED BY <1>1, <2>1, <2>2 DEF Covered
<1> QED BY <1>1, <1>4, <1>5, NothingMapped DEF Inv

LEMMA EndInitializeHeapStep ==
  ASSUME Inv, EndInitializeHeap
  PROVE  Inv'
<1>1. /\ pc = "heap" /\ pc' = "running"
      /\ UNCHANGED <<boot, i, mem, PML4, pool, exhausted, cr3, heapPages, dma>>
  BY DEF EndInitializeHeap
<1>2. Fb' = Fb /\ loader' = loader /\ TotalPages(map)' = TotalPages(map)
      /\ FramebufferFrames' = FramebufferFrames
  BY <1>1, SameBoot DEF Inv
<1>3. KernelInv'
  BY <1>1, <1>2 DEF Inv, KernelInv
<1>4. \A f \in 0 .. LastFrame : Covered(f)' => Covered(f)
  BY <1>1, <1>2 DEF Covered
<1> QED BY <1>1, <1>3, <1>4, NothingMapped DEF Inv

LEMMA StutterStep ==
  ASSUME Inv, UNCHANGED vars
  PROVE  Inv'
<1>1. /\ Fb' = Fb /\ FirstPool' = FirstPool /\ TotalPages(map)' = TotalPages(map)
      /\ BootInv' /\ FramebufferFrames' = FramebufferFrames /\ loader' = loader
  BY SameBoot DEF Inv, vars
<1>2. KernelInv'
  BY <1>1 DEF Inv, KernelInv, vars
<1>3. CASE pc \in {"init", "root"}
  BY <1>1, <1>2, <1>3 DEF Inv, UseInv, MapInv, Mapping, vars
<1>4. CASE pc \notin {"init", "root"}
  <2>1. \A f \in 0 .. LastFrame : Covered(f)' => Covered(f)
    BY <1>1 DEF Covered, vars
  <2> QED BY <1>1, <1>2, <1>4, <2>1, NothingMapped DEF Inv, vars
<1> QED BY <1>3, <1>4

\* A frame is requested.
LEMMA Requested ==
  ASSUME NoHoles, Inv, pc \notin {"init", "root"}, NEW f \in PTM!Answers(pool)
  PROVE  /\ f \in 0 .. LastFrame /\ T!Lower(FirstPool, pool \ {f})
         /\ pool \ {f} \in SUBSET (1 .. LastFrame)
         /\ exhausted \/ pool = {} => pool \ {f} = {}
         /\ ~exhausted /\ pool # {} =>
              /\ f \in FirstPool /\ f \notin Others
              /\ Others \cup {f} \in SUBSET (0 .. LastFrame) /\ (Others \cup {f}) \cap (pool \ {f}) = {}
              /\ T!Tree(mem, PML4, pool \ {f}, Others \cup {f})
<1> PICK first, free, others, m, root :
      first = FirstPool /\ free = pool /\ others = Others /\ m = mem /\ root = PML4
  OBVIOUS
<1>1. /\ f \in T!Answers(free) /\ free \in SUBSET (1 .. LastFrame) /\ T!Lower(first, free)
      /\ first \in SUBSET Int /\ (exhausted => free = {}) /\ loader = "kernel"
  <2>1. loader = "kernel" /\ pool \in SUBSET (1 .. LastFrame) /\ (exhausted => pool = {})
        /\ T!Lower(FirstPool, pool)
    BY DEF Inv, KernelInv, UseInv
  <2>2. 1 .. LastFrame \subseteq Int
    BY KernelMemoryAssumption
  <2>3. FirstPool \in SUBSET Int
    BY <2>1, <2>2, FirstPoolType DEF Inv
  <2>4. f \in T!Answers(free)
    BY DEF PTM!Answers, T!Answers, PTM!NULL, T!NULL
  <2> QED BY <2>1, <2>3, <2>4
<1>2. f \in 0 .. LastFrame /\ (free # {} => f \in free)
  BY <1>1, TablesFit, T!AnswersType DEF T!Frames
<1>3. T!Lower(first, free \ {f})
  BY <1>1, TablesFit, T!AnswerLower
<1>4. ASSUME ~exhausted, free # {}
      PROVE  /\ f \in FirstPool /\ f \notin Others
             /\ Others \cup {f} \in SUBSET (0 .. LastFrame) /\ (Others \cup {f}) \cap (pool \ {f}) = {}
             /\ T!Tree(m, root, free \ {f}, others \cup {f})
  <2>1. Mapping /\ f \in free
    BY <1>2, <1>4 DEF Mapping
  <2>2. pool \subseteq FirstPool /\ Others \in SUBSET (0 .. LastFrame) /\ Others \cap pool = {}
    BY <2>1, OthersType
  <2>3. T!Tree(m, root, free, others)
    BY <2>1 DEF Inv, UseInv
  <2>4. T!Tree(m, root, free \ {f}, others \cup {f})
    BY <2>1, <2>3, TablesFit, T!TakenFromTree
  <2> QED BY <1>2, <2>1, <2>2, <2>4
<1> QED BY <1>1, <1>2, <1>3, <1>4

LEMMA RequestDmaFrameStep ==
  ASSUME NoHoles, Inv, RequestDmaFrame
  PROVE  Inv'
<1>1. PICK f \in PTM!Answers(pool) :
        /\ pool' = pool \ {f} /\ dma' = dma \cup {f} /\ exhausted' = (exhausted \/ pool = {})
  BY DEF RequestDmaFrame
<1>2. pc = "running" /\ UNCHANGED <<boot, pc, i, mem, PML4, cr3, heapPages>>
  BY DEF RequestDmaFrame
<1>3. /\ f \in 0 .. LastFrame /\ T!Lower(FirstPool, pool')
      /\ pool' \in SUBSET (1 .. LastFrame)
      /\ exhausted \/ pool = {} => pool' = {}
      /\ ~exhausted /\ pool # {} =>
           /\ f \in FirstPool /\ f \notin Others
           /\ T!Tree(mem, PML4, pool', Others \cup {f})
  BY <1>1, <1>2, Requested
<1>4. /\ Fb' = Fb /\ FirstPool' = FirstPool /\ TotalPages(map)' = TotalPages(map)
      /\ BootInv' /\ FramebufferFrames' = FramebufferFrames /\ loader' = loader
  BY <1>2, SameBoot DEF Inv
<1>5. KernelInv'
  <2>1. exhausted' \in BOOLEAN /\ (exhausted' => pool' = {})
    BY <1>1, <1>3 DEF Inv, KernelInv
  <2>2. dma' \in SUBSET (0 .. LastFrame)
    BY <1>1, <1>3 DEF Inv, KernelInv
  <2> QED BY <1>2, <1>3, <1>4, <2>1, <2>2 DEF Inv, KernelInv
<1>6. \A k : HeapFrame(k)' = HeapFrame(k)
  BY <1>2 DEF HeapFrame
<1>7. ASSUME ~exhausted'
      PROVE  /\ Mapping
             /\ T!Tree(mem', PML4', pool', Others')
             /\ dma' \subseteq FirstPool' \ pool'
             /\ \A k \in 0 .. (heapPages' - 1) : HeapFrame(k)' \in FirstPool' \ (pool' \cup dma')
             /\ \A k, l \in 0 .. (heapPages' - 1) : HeapFrame(k)' = HeapFrame(l)' => k = l
  <2>1. ~exhausted /\ pool # {} /\ Mapping
    BY <1>1, <1>2, <1>7 DEF Mapping
  <2>2. f \in FirstPool /\ f \notin Others
    BY <1>3, <2>1
  <2>3. Others' = Others \cup {f}
    BY <1>1, <1>2, <1>4, <1>6 DEF Others
  <2>4. /\ dma \subseteq FirstPool \ pool
        /\ \A k \in 0 .. (heapPages - 1) : HeapFrame(k) \in FirstPool \ (pool \cup dma)
        /\ \A k, l \in 0 .. (heapPages - 1) : HeapFrame(k) = HeapFrame(l) => k = l
    BY <2>1 DEF Inv, UseInv
  <2>5. \A k \in 0 .. (heapPages - 1) : HeapFrame(k) # f
    BY <2>2 DEF Others
  <2>6. dma' \subseteq FirstPool' \ pool'
    BY <1>1, <1>4, <2>2, <2>4
  <2>7. \A k \in 0 .. (heapPages' - 1) : HeapFrame(k)' \in FirstPool' \ (pool' \cup dma')
    BY <1>1, <1>2, <1>4, <1>6, <2>4, <2>5
  <2>8. \A k, l \in 0 .. (heapPages' - 1) : HeapFrame(k)' = HeapFrame(l)' => k = l
    BY <1>2, <1>6, <2>4
  <2>9. T!Tree(mem', PML4', pool', Others')
    BY <1>2, <1>3, <2>1, <2>3
  <2> QED BY <2>1, <2>6, <2>7, <2>8, <2>9
<1>8. UseInv'
  <2>1. T!Lower(FirstPool', pool')
    BY <1>3, <1>4
  <2> QED BY <1>7, <2>1 DEF UseInv, Mapping
<1>9. MapInv'
  <2>1. \A f0 \in 0 .. LastFrame : Covered(f0)' => Covered(f0)
    BY <1>2, <1>4 DEF Covered
  <2>2. ASSUME ~exhausted', NEW f0 \in 0 .. LastFrame, Covered(f0)'
        PROVE  T!Found(mem', PML4', VirtualPage(f0)) = f0
    BY <1>2, <1>7, <2>1, <2>2 DEF Inv, MapInv
  <2> QED BY <2>2 DEF MapInv, Mapping
<1> QED BY <1>4, <1>5, <1>8, <1>9 DEF Inv

LEMMA MapHeapPageStep ==
  ASSUME NoHoles, HeapAbove, Inv, MapHeapPage
  PROVE  Inv'
<1>1. /\ pc \in {"heap", "running"} /\ heapPages < MaxHeap /\ heapPages' = heapPages + 1
      /\ UNCHANGED <<boot, pc, i, PML4, cr3, dma>>
  BY DEF MapHeapPage
<1> DEFINE page == HeapPage + heapPages
<1>2. PICK f \in PTM!Answers(pool) :
        PTM!WalkAndMap([mem |-> PTM!PMI_Create(mem, VirtualPage(page)), free |-> pool \ {f},
                        table |-> PML4, refused |-> exhausted \/ pool = {}], f)
  BY DEF MapHeapPage
<1>3. /\ f \in 0 .. LastFrame /\ T!Lower(FirstPool, pool \ {f})
      /\ pool \ {f} \in SUBSET (1 .. LastFrame)
      /\ exhausted \/ pool = {} => pool \ {f} = {}
      /\ ~exhausted /\ pool # {} =>
           /\ f \in FirstPool /\ f \notin Others
           /\ Others \cup {f} \in SUBSET (0 .. LastFrame) /\ (Others \cup {f}) \cap (pool \ {f}) = {}
           /\ T!Tree(mem, PML4, pool \ {f}, Others \cup {f})
  BY <1>1, Requested
<1>names. PICK m, root, free, refused, first, others, n, h :
      /\ m = mem /\ root = PML4 /\ free = pool \ {f} /\ refused = (exhausted \/ pool = {})
      /\ first = FirstPool /\ others = (IF refused THEN {} ELSE Others \cup {f}) /\ n = page
      /\ h = [k \in 0 .. heapPages |-> IF k = heapPages THEN f ELSE HeapFrame(k)]
  OBVIOUS
<1> HIDE DEF page
<1>4. /\ Fb' = Fb /\ FirstPool' = FirstPool /\ TotalPages(map)' = TotalPages(map)
      /\ BootInv' /\ FramebufferFrames' = FramebufferFrames /\ loader' = loader
  BY <1>1, SameBoot DEF Inv
<1>5. /\ HeapPage \in Nat /\ MaxHeap \in Nat /\ LastFrame \in Nat /\ LastFrame < HeapPage
      /\ heapPages \in 0 .. MaxHeap /\ heapPages' \in 0 .. MaxHeap
      /\ n = HeapPage + heapPages /\ n \in 0 .. (HeapPage + MaxHeap - 1)
  <2>1. heapPages \in 0 .. MaxHeap
    BY DEF Inv, KernelInv
  <2>2. n = HeapPage + heapPages
    BY <1>names DEF page
  <2> QED BY <1>1, <2>1, <2>2, KernelMemoryAssumption DEF HeapAbove
<1>6. /\ m \in T!Memory /\ root \in 0 .. LastFrame /\ free \in SUBSET (1 .. LastFrame)
      /\ first \in SUBSET Int /\ T!Lower(first, free)
  <2>1. loader = "kernel" /\ mem \in T!Memory /\ PML4 \in 0 .. LastFrame
    BY <1>1 DEF Inv, KernelInv
  <2>2. FirstPool \in SUBSET Int
    <3>1. 1 .. LastFrame \subseteq Int
      BY KernelMemoryAssumption
    <3> QED BY <2>1, <3>1, FirstPoolType DEF Inv
  <2> QED BY <1>names, <1>3, <2>1, <2>2
<1>7. refused \in BOOLEAN /\ (refused => free = {})
  BY <1>names, <1>3 DEF Inv, KernelInv
<1>8. others \in SUBSET (0 .. LastFrame) /\ others \cap free = {}
      /\ (~refused => T!Tree(m, root, free, others))
  <2>1. CASE refused
    BY <1>names, <2>1
  <2>2. CASE ~refused
    <3>1. ~exhausted /\ pool # {} /\ others = Others \cup {f}
      BY <1>names, <2>2
    <3> QED BY <1>names, <1>3, <3>1
  <2> QED BY <2>1, <2>2
<1>9. T!WalkAndMap([mem |-> T!PMI_Create(m, VirtualPage(n)), free |-> free,
                    table |-> root, refused |-> refused], f)
  BY <1>names, <1>2, SameMap
<1>10. n \in Nat /\ f \in 0 .. LastFrame
  BY <1>3, <1>5
<1>11. /\ mem' \in T!Memory /\ pool' \in SUBSET (1 .. LastFrame) /\ exhausted' \in BOOLEAN
       /\ exhausted' => pool' = {}
       /\ T!Lower(first, pool') /\ others \cap pool' = {}
       /\ ~exhausted' => /\ ~refused
                         /\ T!Tree(mem', root, pool', others)
                         /\ T!MapsOnly(m, mem', root, VirtualPage(n), f)
  <2>1. mem' \in T!Memory /\ pool' \in SUBSET (1 .. LastFrame) /\ exhausted' \in BOOLEAN
    BY <1>6, <1>7, <1>8, <1>9, <1>10, Walked
  <2>2. exhausted' => pool' = {}
    BY <1>6, <1>7, <1>8, <1>9, <1>10, Walked
  <2>3. T!Lower(first, pool') /\ others \cap pool' = {}
    BY <1>6, <1>7, <1>8, <1>9, <1>10, Walked
  <2>4. ~exhausted' => /\ ~refused
                       /\ T!Tree(mem', root, pool', others)
                       /\ T!MapsOnly(m, mem', root, VirtualPage(n), f)
    BY <1>6, <1>7, <1>8, <1>9, <1>10, Walked
  <2> QED BY <2>1, <2>2, <2>3, <2>4
<1>12. ~exhausted' => /\ ~refused
                      /\ T!Tree(mem', root, pool', others)
                      /\ T!MapsOnly(m, mem', root, VirtualPage(n), f)
  BY <1>11
<1>13. KernelInv'
  BY <1>1, <1>4, <1>5, <1>11 DEF Inv, KernelInv
<1>14. ASSUME ~exhausted'
       PROVE  /\ Mapping /\ others = Others \cup {f} /\ f \in FirstPool /\ f \notin Others
              /\ \A k \in 0 .. heapPages : HeapFrame(k)' = h[k]
              /\ \A f0 \in 0 .. LastFrame :
                   T!Found(mem', PML4', VirtualPage(f0)) = T!Found(mem, PML4, VirtualPage(f0))
  <2>1. ~refused /\ ~exhausted /\ pool # {}
    BY <1>names, <1>12, <1>14
  <2>2. Mapping /\ others = Others \cup {f} /\ f \in FirstPool /\ f \notin Others
    BY <1>names, <1>1, <1>3, <2>1 DEF Mapping
  <2>3. \A u \in T!Index \X T!Index \X T!Index \X T!Index :
          T!Found(mem', root, u) = IF u = VirtualPage(n) THEN f ELSE T!Found(m, root, u)
    BY <1>12, <1>14 DEF T!MapsOnly
  <2>4. ASSUME NEW f0 \in 0 .. LastFrame
        PROVE  T!Found(mem', PML4', VirtualPage(f0)) = T!Found(mem, PML4, VirtualPage(f0))
    <3>1. f0 \in 0 .. (HeapPage + MaxHeap - 1) /\ f0 # n
      BY <1>5
    <3>2. VirtualPage(f0) \in T!Index \X T!Index \X T!Index \X T!Index
          /\ VirtualPage(f0) # VirtualPage(n)
      BY <1>5, <3>1, PagesApart
    <3>3. T!Found(mem', root, VirtualPage(f0)) = T!Found(m, root, VirtualPage(f0))
      BY <2>3, <3>2
    <3> QED BY <1>names, <1>1, <3>3
  <2>5. ASSUME NEW k \in 0 .. heapPages PROVE HeapFrame(k)' = h[k]
    <3> DEFINE w == HeapPage + k
    <3>1. w \in 0 .. (HeapPage + MaxHeap - 1) /\ (w = n <=> k = heapPages)
      BY <1>5
    <3> HIDE DEF w
    <3>2. VirtualPage(w) \in T!Index \X T!Index \X T!Index \X T!Index
          /\ (VirtualPage(w) = VirtualPage(n) <=> k = heapPages)
      BY <1>5, <3>1, PagesApart
    <3>3. T!Found(mem', root, VirtualPage(w)) =
            IF k = heapPages THEN f ELSE T!Found(m, root, VirtualPage(w))
      BY <2>3, <3>2
    <3>4. HeapFrame(k)' = T!Found(mem', root, VirtualPage(w))
      BY <1>names, <1>1 DEF HeapFrame, w
    <3>5. HeapFrame(k) = T!Found(m, root, VirtualPage(w))
      BY <1>names DEF HeapFrame, w
    <3> QED BY <1>names, <3>3, <3>4, <3>5
  <2> QED BY <2>2, <2>4, <2>5
<1>15. UseInv'
  <2>1. T!Lower(FirstPool', pool')
    BY <1>names, <1>4, <1>11
  <2>2. ASSUME ~exhausted'
        PROVE  /\ T!Tree(mem', PML4', pool', Others')
               /\ dma' \subseteq FirstPool' \ pool'
               /\ \A k \in 0 .. (heapPages' - 1) : HeapFrame(k)' \in FirstPool' \ (pool' \cup dma')
               /\ \A k, l \in 0 .. (heapPages' - 1) : HeapFrame(k)' = HeapFrame(l)' => k = l
    <3>1. /\ Mapping /\ others = Others \cup {f} /\ f \in FirstPool /\ f \notin Others
          /\ \A k \in 0 .. heapPages : HeapFrame(k)' = h[k]
      BY <1>14, <2>2
    <3>2. /\ 0 .. (heapPages' - 1) = 0 .. heapPages
          /\ \A k \in 0 .. heapPages : k # heapPages => k \in 0 .. (heapPages - 1)
          /\ \A k \in 0 .. (heapPages - 1) : k \in 0 .. heapPages /\ k # heapPages
          /\ heapPages \in 0 .. heapPages
      BY <1>1, <1>5
    <3>3. /\ dma \subseteq FirstPool \ pool
          /\ \A k \in 0 .. (heapPages - 1) : HeapFrame(k) \in FirstPool \ (pool \cup dma)
          /\ \A k, l \in 0 .. (heapPages - 1) : HeapFrame(k) = HeapFrame(l) => k = l
      BY <3>1 DEF Inv, UseInv
    <3>4. /\ dma \subseteq others /\ f \in others /\ f \notin dma
          /\ \A k \in 0 .. (heapPages - 1) : HeapFrame(k) \in others /\ HeapFrame(k) # f
      BY <3>1 DEF Others
    <3>5. /\ h[heapPages] = f
          /\ \A k \in 0 .. (heapPages - 1) : h[k] = HeapFrame(k)
      BY <1>names, <1>5, <3>2
    <3>6. \A k \in 0 .. heapPages : h[k] \in others /\ h[k] \in FirstPool /\ h[k] \notin dma
      BY <3>1, <3>2, <3>3, <3>4, <3>5
    <3>7. \A k, l \in 0 .. heapPages : h[k] = h[l] => k = l
      BY <3>2, <3>3, <3>4, <3>5
    <3>8. \A x \in others : x \notin pool'
      BY <1>11
    <3>9. dma' \subseteq FirstPool' \ pool'
      BY <1>1, <1>4, <3>3, <3>4, <3>8
    <3>10. \A k \in 0 .. (heapPages' - 1) : HeapFrame(k)' \in FirstPool' \ (pool' \cup dma')
      <4> SUFFICES ASSUME NEW k \in 0 .. (heapPages' - 1)
                   PROVE  HeapFrame(k)' \in FirstPool' /\ HeapFrame(k)' \notin pool'
                          /\ HeapFrame(k)' \notin dma'
        OBVIOUS
      <4>1. k \in 0 .. heapPages
        BY <3>2
      <4>2. HeapFrame(k)' = h[k]
        BY <3>1, <4>1
      <4> QED BY <1>1, <1>4, <3>6, <3>8, <4>1, <4>2
    <3>11. \A k, l \in 0 .. (heapPages' - 1) : HeapFrame(k)' = HeapFrame(l)' => k = l
      <4> SUFFICES ASSUME NEW k \in 0 .. (heapPages' - 1), NEW l \in 0 .. (heapPages' - 1),
                          HeapFrame(k)' = HeapFrame(l)'
                   PROVE  k = l
        OBVIOUS
      <4>1. k \in 0 .. heapPages /\ l \in 0 .. heapPages
        BY <3>2
      <4>2. HeapFrame(k)' = h[k] /\ HeapFrame(l)' = h[l]
        BY <3>1, <4>1
      <4> QED BY <3>7, <4>1, <4>2
    <3>12. Others' = others
      <4> DEFINE at(k) == T!Found(mem', PML4', VirtualPage(HeapPage + k))
                 after == {at(k) : k \in 0 .. (heapPages' - 1)}
                 before == {HeapFrame(k) : k \in 0 .. (heapPages - 1)}
      <4>1. /\ Others' = ((0 .. LastFrame) \ FirstPool') \cup after \cup dma'
            /\ Others = ((0 .. LastFrame) \ FirstPool) \cup before \cup dma
        BY DEF Others, HeapFrame
      <4>2. \A k \in 0 .. heapPages : at(k) = h[k]
        BY <3>1 DEF HeapFrame
      <4> HIDE DEF at
      <4>3. \A x : x \in after <=> \E k \in 0 .. heapPages : x = h[k]
        <5>1. \A x : x \in after <=> \E k \in 0 .. (heapPages' - 1) : x = at(k)
          OBVIOUS
        <5> HIDE DEF after
        <5>2. \A x : x \in after <=> \E k \in 0 .. heapPages : x = at(k)
          BY <3>2, <5>1
        <5> QED BY <4>2, <5>2
      <4>4. \A x : x \in before <=> \E k \in 0 .. (heapPages - 1) : x = h[k]
        <5>1. \A x : x \in before <=> \E k \in 0 .. (heapPages - 1) : x = HeapFrame(k)
          OBVIOUS
        <5> QED BY <3>5, <5>1
      <4> HIDE DEF after, before
      <4>5. \A x : x \in after <=> x \in before \/ x = f
        <5> SUFFICES ASSUME NEW x PROVE x \in after <=> x \in before \/ x = f
          OBVIOUS
        <5>1. x \in after => x \in before \/ x = f
          BY <3>2, <3>5, <4>3, <4>4
        <5>2. ASSUME x \in before PROVE x \in after
          <6>1. PICK k \in 0 .. (heapPages - 1) : x = h[k]
            BY <4>4, <5>2
          <6>2. k \in 0 .. heapPages
            BY <1>5
          <6> QED BY <4>3, <6>1, <6>2
        <5>3. ASSUME x = f PROVE x \in after
          <6>1. x = h[heapPages] /\ heapPages \in 0 .. heapPages
            BY <1>5, <3>5, <5>3
          <6> QED BY <4>3, <6>1
        <5> QED BY <5>1, <5>2, <5>3
      <4>6. after = before \cup {f}
        BY <4>5
      <4> QED BY <1>1, <1>4, <3>1, <4>1, <4>6
    <3>13. T!Tree(mem', PML4', pool', Others')
      BY <1>names, <1>1, <1>12, <2>2, <3>12
    <3> QED BY <3>9, <3>10, <3>11, <3>13
  <2> QED BY <2>1, <2>2 DEF UseInv, Mapping
<1>16. MapInv'
  <2>1. \A f0 \in 0 .. LastFrame : Covered(f0)' => Covered(f0)
    BY <1>1, <1>4 DEF Covered
  <2>2. ASSUME ~exhausted', NEW f0 \in 0 .. LastFrame, Covered(f0)'
        PROVE  T!Found(mem', PML4', VirtualPage(f0)) = f0
    <3>1. T!Found(mem, PML4, VirtualPage(f0)) = f0
      BY <1>14, <2>1, <2>2 DEF Inv, MapInv
    <3> QED BY <1>14, <2>2, <3>1
  <2> QED BY <2>2 DEF MapInv, Mapping
<1> QED BY <1>4, <1>13, <1>15, <1>16 DEF Inv

LEMMA MapNext ==
  ASSUME NoHoles, HeapAbove, Inv, [Next]_vars
  PROVE  Inv'
<1>1. CASE Load
  BY <1>1, LoadStep
<1>2. CASE InitFrames
  BY <1>2, InitFramesStep
<1>3. CASE CreateRoot
  BY <1>3, CreateRootStep
<1>4. CASE MapMemory
  BY <1>4, MapMemoryStep
<1>5. CASE EndMapMemory
  BY <1>5, EndMapMemoryStep
<1>6. CASE MapFramebuffer
  BY <1>6, MapFramebufferStep
<1>7. CASE LoadCr3
  BY <1>7, LoadCr3Step
<1>8. CASE MapHeapPage
  BY <1>8, MapHeapPageStep
<1>9. CASE EndInitializeHeap
  BY <1>9, EndInitializeHeapStep
<1>10. CASE \E f \in machine.devices : MapDevice(f)
  BY <1>10, MapDeviceStep
<1>11. CASE RequestDmaFrame
  BY <1>11, RequestDmaFrameStep
<1>12. CASE UNCHANGED vars
  BY <1>12, StutterStep
<1> QED BY <1>1, <1>2, <1>3, <1>4, <1>5, <1>6, <1>7, <1>8, <1>9, <1>10, <1>11, <1>12 DEF Next

LEMMA Invariance ==
  ASSUME NoHoles, HeapAbove
  PROVE  Spec => []Inv
<1>1. Init => Inv
  BY MapInit
<1>2. Inv /\ [Next]_vars => Inv'
  BY MapNext
<1> QED BY <1>1, <1>2, PTL DEF Spec

\* What the processor finds, in the words of the two modules.
LEMMA Seen ==
  ASSUME NEW v PROVE PTM!Lookup(v) = T!Found(mem, PML4, v)
<1>1. PTM!Lookup(v) = T!Lookup(v)
  BY DEF PTM!Lookup, T!Lookup, PTM!PDE_GetFlag, T!PDE_GetFlag, PTM!PDE_GetAddress,
         T!PDE_GetAddress, PTM!PT_PRESENT, T!PT_PRESENT, PTM!FlagBits, T!FlagBits
<1> QED BY <1>1, TablesFit, T!LookupIsFound

LEMMA SameTables == PTM!Tables = T!Tables
BY DEF PTM!Tables, T!Tables, PTM!Level1, T!Level1, PTM!Level2, T!Level2, PTM!Level3, T!Level3,
       PTM!Level4, T!Level4, PTM!Children, T!Children, PTM!References, T!References,
       PTM!PDE_GetFlag, T!PDE_GetFlag, PTM!PDE_GetAddress, T!PDE_GetAddress,
       PTM!PT_PRESENT, T!PT_PRESENT, PTM!FlagBits, T!FlagBits, PTM!Index, T!Index

\* Paging is on when the kernel has loaded cr3.
LEMMA PagingOn ==
  ASSUME Inv, cr3 # NoTable
  PROVE  pc \in {"heap", "running"} /\ loader = "kernel"
BY DEF Inv, KernelInv

\* Memory and the framebuffer are mapped to themselves.
LEMMA SeenAtItself ==
  ASSUME NoHoles, Inv, cr3 # NoTable, ~exhausted,
         NEW f \in 0 .. LastFrame, f < TotalPages(map) \/ f \in FramebufferFrames
  PROVE  Identity(f)
<1>1. Mapping /\ Covered(f)
  BY PagingOn DEF Mapping, Covered
<1>2. T!Found(mem, PML4, VirtualPage(f)) = f
  BY <1>1 DEF Inv, MapInv
<1> QED BY <1>2, Seen DEF Identity

\* The tables are frames of the first pool that were requested.
LEMMA TablesTaken ==
  ASSUME Inv, Mapping
  PROVE  /\ PTM!Tables \subseteq FirstPool \ pool
         /\ PTM!Tables \cap Others = {}
<1>1. mem \in T!Memory /\ T!Tree(mem, PML4, pool, Others)
  BY DEF Inv, KernelInv, UseInv
<1>2. PICK level : T!Shape(mem, PML4, pool, level) /\ \A g \in Others : level[g] = 0
  BY <1>1 DEF T!Tree
<1>3. T!Tables \in SUBSET (0 .. LastFrame) /\ \A t \in T!Tables : level[t] # 0
  <2>1. T!Frames = 0 .. LastFrame
    BY DEF T!Frames
  <2> QED BY <1>1, <1>2, <2>1, TablesFit, T!TablesHaveLevels
<1>4. \A f \in pool : level[f] = 0
  BY <1>2 DEF T!Shape
<1>5. (0 .. LastFrame) \ FirstPool \subseteq Others
  BY DEF Others
<1> QED BY <1>2, <1>3, <1>4, <1>5, SameTables

LEMMA OneHeapFrameEach ==
  ASSUME Inv, Mapping
  PROVE  /\ HeapFrames = {HeapFrame(k) : k \in 0 .. (heapPages - 1)}
         /\ Cardinality(HeapFrames) = heapPages
<1>1. /\ heapPages \in Nat
      /\ \A k, l \in 0 .. (heapPages - 1) : HeapFrame(k) = HeapFrame(l) => k = l
  BY KernelMemoryAssumption DEF Inv, KernelInv, UseInv
<1>2. HeapFrames = {HeapFrame(k) : k \in 0 .. (heapPages - 1)}
  BY Seen DEF HeapFrames, HeapFrame
<1> DEFINE frame == [k \in 1 .. heapPages |-> HeapFrame(k - 1)]
<1>3. \A k \in 1 .. heapPages : k - 1 \in 0 .. (heapPages - 1)
  BY <1>1
<1>4. \A k \in 0 .. (heapPages - 1) : k + 1 \in 1 .. heapPages /\ (k + 1) - 1 = k
  BY <1>1
<1>5. frame \in Bijection(1 .. heapPages, HeapFrames)
  <2>1. \A k \in 1 .. heapPages : frame[k] \in HeapFrames
    BY <1>2, <1>3
  <2>2. ASSUME NEW f \in HeapFrames PROVE \E k \in 1 .. heapPages : frame[k] = f
    <3>1. PICK k \in 0 .. (heapPages - 1) : f = HeapFrame(k)
      BY <1>2
    <3>2. k + 1 \in 1 .. heapPages /\ frame[k + 1] = f
      BY <1>4, <3>1
    <3> QED BY <3>2
  <2>3. ASSUME NEW k \in 1 .. heapPages, NEW l \in 1 .. heapPages, frame[k] = frame[l]
        PROVE  k = l
    <3>1. HeapFrame(k - 1) = HeapFrame(l - 1)
      BY <2>3
    <3>2. k - 1 = l - 1
      BY <1>1, <1>3, <3>1
    <3> QED BY <3>2
  <2> HIDE DEF HeapFrame
  <2> QED BY <2>1, <2>2, <2>3 DEF Bijection, Injection, Surjection, IsInjective
<1>6. ExistsBijection(1 .. heapPages, HeapFrames)
  BY <1>5 DEF ExistsBijection
<1> QED BY <1>1, <1>2, <1>6, FS_CountingElements

\* No frame of the first pool is the kernel's, lies on the screen or in low
\* memory, or was taken by the firmware.
LEMMA PoolIsFree ==
  ASSUME NoHoles, BootInv, loader = "kernel", NEW f \in FirstPool
  PROVE  f \notin Kernel \cup font \cup mapFrame \cup FramebufferFrames \cup (0 .. (LowFrames - 1))
<1>1. PICK n \in Nat \ {0} : /\ DOMAIN owner = 0 .. (n - 1) /\ TotalPages(map) = n
        /\ Conventional(map) \subseteq {g \in 0 .. (n - 1) : owner[g] = EfiConventionalMemory}
  BY MapKnown
<1> DEFINE size == BitmapSize(map)
<1>2. size \in Nat /\ f \in 0 .. (size * 8 - 1) /\ f \in Settable(size) /\ n <= size * 8
  <2>1. n \div 8 \in Nat /\ n <= (n \div 8 + 1) * 8
    BY <1>1
  <2>2. size \in Nat /\ f \in 0 .. (size * 8 - 1) /\ n <= size * 8
    BY <1>1, <2>1 DEF BitmapSize, FirstPool
  <2> QED BY <2>2 DEF Settable
<1> HIDE DEF size
<1>3. f \notin Kernel /\ f \notin Reserved(map)
  BY DEF FirstPool
<1>4. f \notin FramebufferFrames
  <2>1. machine.framebuffer[1] \in Nat /\ machine.framebuffer[2] \in Nat
    BY MachineIs
  <2>2. f \notin FrameRange(machine.framebuffer[1], machine.framebuffer[2] + 1)
    BY DEF FirstPool
  <2> QED BY <1>2, <2>1, <2>2 DEF FramebufferFrames, FrameRange
<1>5. f \notin 0 .. (LowFrames - 1)
  BY <1>2, <1>3 DEF Reserved, Low, ToSet, LowPages, size
<1>6. ASSUME NEW g, GivenOut(g) PROVE f # g
  <2> SUFFICES ASSUME f = g PROVE FALSE
    OBVIOUS
  <2>1. f \in 0 .. (n - 1) /\ f \notin Conventional(map)
    BY <1>1, <1>6 DEF GivenOut, EfiLoaderData, EfiConventionalMemory
  <2>2. f \in Cleared(map) \cup All(map)
    BY <1>1, <1>2, <2>1 DEF All, ToSet, size
  <2>3. f \notin Given(map)
    BY <2>1 DEF Given, ToClear
  <2> QED BY <1>3, <2>2, <2>3 DEF Reserved
<1>7. f \notin font /\ f \notin mapFrame
  BY <1>6 DEF BootInv
<1> QED BY <1>3, <1>4, <1>5, <1>7

\* The firmware allocates its pools away from where kernels are loaded.
PoolApart ==
  \A m \in Machines :
    LET last == m.segments[Len(m.segments)]
    IN  PoolFrames \cap (m.segments[1].start .. (last.start + last.pages - 1)) = {}

LEMMA LoadedApart ==
  ASSUME PoolApart, BootInv, loader = "kernel"
  PROVE  font \cap Kernel = {} /\ mapFrame \cap Kernel = {} /\ font \cap mapFrame = {}
<1>1. machine \in Machines
  BY DEF BootInv
<1>2. PoolFrames \cap Kernel = {}
  BY <1>1 DEF PoolApart, Kernel
<1>3. /\ \E f \in PoolFrames : font = {f}
      /\ \E f \in PoolFrames : mapFrame = {f} /\ f \notin font
  BY DEF BootInv, GivenOut
<1> QED BY <1>2, <1>3

\* Before there is a root, there is neither table nor heap.
LEMMA NothingUsed ==
  ASSUME Inv, pc = "root"
  PROVE  PTM!Tables = {} /\ HeapFrames = {} /\ heapPages = 0 /\ dma = {}
<1>1. PML4 = NoTable /\ heapPages = 0 /\ dma = {}
  BY DEF Inv, KernelInv
<1>2. PTM!Children({}) = {}
  BY DEF PTM!Children, PTM!References
<1>3. PTM!Level1 = {} /\ PTM!Level2 = {} /\ PTM!Level3 = {} /\ PTM!Level4 = {}
  BY <1>1, <1>2 DEF PTM!Level1, PTM!Level2, PTM!Level3, PTM!Level4
<1>4. 0 .. (heapPages - 1) = {}
  BY <1>1
<1>5. HeapFrames = {}
  BY <1>4 DEF HeapFrames
<1> QED BY <1>1, <1>3, <1>5 DEF PTM!Tables

\* The pool still has a frame that is not behind the first of the bitmap's.
BitmapAhead == \E f \in pool : \A b \in LargestFree(map) : f <= b

-------------------------------------------------------------------------------
(***************************************************************************)
(* Theorems                                                                *)
(***************************************************************************)

\* Every variable has its type whatever the loader and the kernel have done: in
\* particular the loops of InitializeMemory do not run past the frames there
\* are, and what is read from a table as an address is a frame.
THEOREM TypeCorrect ==
  ASSUME NoHoles, HeapAbove
  PROVE  Spec => []TypeOK
<1>1. Inv => TypeOK
  BY KernelTypes DEF Inv
<1> QED BY <1>1, Invariance, PTL

\* The loop over MEM_GetTotalSize maps every frame the firmware's map lists to
\* itself, and none of the later mappings, of the framebuffer, the heap or a
\* device, moves one of them.
THEOREM MemoryIsMapped ==
  ASSUME NoHoles, HeapAbove
  PROVE  Spec => [](~exhausted => AllMemoryMapped)
<1>1. ASSUME Inv PROVE ~exhausted => AllMemoryMapped
  <2> SUFFICES ASSUME ~exhausted, cr3 # NoTable, NEW f \in MemoryFrames PROVE Identity(f)
    BY DEF AllMemoryMapped
  <2>1. f \in 0 .. LastFrame /\ f < TotalPages(map)
    <3>1. PICK n \in Nat \ {0} :
            n <= LastFrame /\ TotalPages(map) = n /\ MemoryFrames \subseteq 0 .. (n - 1)
      BY <1>1, PagingOn, MapKnown DEF Inv
    <3> QED BY <3>1, KernelMemoryAssumption
  <2> QED BY <1>1, <2>1, SeenAtItself
<1> QED BY <1>1, Invariance, PTL

\* The framebuffer lies behind memory and is mapped by a loop of its own: the
\* screen can be drawn on from the load of cr3 on.
THEOREM ScreenIsMapped ==
  ASSUME NoHoles, HeapAbove
  PROVE  Spec => [](~exhausted => FramebufferMapped)
<1>1. ASSUME Inv PROVE ~exhausted => FramebufferMapped
  <2> SUFFICES ASSUME ~exhausted, cr3 # NoTable, NEW f \in FramebufferFrames PROVE Identity(f)
    BY DEF FramebufferMapped
  <2>1. f \in 0 .. LastFrame
    <3>1. machine.framebuffer[1] \in Nat /\ machine.framebuffer[2] \in Nat
      BY <1>1, MachineIs DEF Inv
    <3>2. machine.framebuffer[1] + machine.framebuffer[2] <= LastFrame + 1
      BY <1>1 DEF Inv, BootInv, NoHoles, Fits
    <3> QED BY <3>1, <3>2, KernelMemoryAssumption DEF FramebufferFrames, FrameRange
  <2> QED BY <1>1, <2>1, SeenAtItself
<1> QED BY <1>1, Invariance, PTL

\* PFA_RequestPage gives the lowest frame away: while one below the end of the
\* identity mapping is left, every table and every frame of the disk driver
\* lies below it, so that the kernel reaches them at their physical addresses.
THEOREM TablesAreReachable ==
  ASSUME NoHoles, HeapAbove
  PROVE  Spec => []UsedFramesReachable
<1>1. ASSUME Inv PROVE UsedFramesReachable
  <2> SUFFICES ASSUME cr3 # NoTable, MemoryLeft, NEW f \in PTM!Tables \cup dma PROVE Identity(f)
    BY DEF UsedFramesReachable
  <2>1. PICK g \in pool : g < TotalPages(map)
    BY DEF MemoryLeft
  <2>2. pc \in {"heap", "running"} /\ loader = "kernel" /\ ~exhausted /\ Mapping
    BY <1>1, <2>1, PagingOn DEF Inv, KernelInv, Mapping
  <2>3. f \in FirstPool \ pool
    BY <1>1, <2>2, TablesTaken DEF Inv, UseInv
  <2>4. f < g
    BY <1>1, <2>1, <2>2, <2>3 DEF Inv, UseInv, T!Lower
  <2>5. f \in 1 .. LastFrame /\ g \in 1 .. LastFrame
    BY <1>1, <2>1, <2>2, <2>3, FirstPoolType DEF Inv, KernelInv
  <2>6. TotalPages(map) \in Nat
    BY <1>1, <2>2, MapKnown DEF Inv
  <2>7. f \in 0 .. LastFrame /\ f < TotalPages(map)
    BY <2>1, <2>4, <2>5, <2>6, KernelMemoryAssumption
  <2> QED BY <1>1, <2>2, <2>7, SeenAtItself
<1> QED BY <1>1, Invariance, PTL

\* Tables, heap, disk driver, kernel, font, memory map, screen and low memory
\* have their frames for themselves.  The bitmap has not, for it is not its own
\* frames that PFA_InitEfiMemoryMap locks: it has them as long as requests have
\* not come up to it.
THEOREM FramesAreApart ==
  ASSUME NoHoles, HeapAbove, PoolApart
  PROVE  Spec => [](BitmapAhead => FramesHaveOneUse)
<1>1. ASSUME Inv, BitmapAhead, Mapping PROVE FramesHaveOneUse
  <2>1. PICK g \in pool : \A b \in LargestFree(map) : g <= b
    BY <1>1 DEF BitmapAhead
  <2>2. loader = "kernel" /\ BootInv
    BY <1>1 DEF Inv, KernelInv, Mapping
  <2>3. /\ HeapFrames = {HeapFrame(k) : k \in 0 .. (heapPages - 1)}
        /\ Cardinality(HeapFrames) = heapPages
    BY <1>1, OneHeapFrameEach
  <2>4. HeapFrames \subseteq FirstPool \ (pool \cup dma) /\ dma \subseteq FirstPool \ pool
    BY <1>1, <2>3 DEF Inv, UseInv
  <2>5. PTM!Tables \subseteq FirstPool \ pool /\ PTM!Tables \cap Others = {}
    BY <1>1, TablesTaken
  <2>6. HeapFrames \subseteq Others /\ dma \subseteq Others
    BY <2>3 DEF Others
  <2>7. ASSUME NEW f \in FirstPool \ pool PROVE f \notin BitmapFrames
    <3> SUFFICES ASSUME NEW b \in LargestFree(map), NEW n, f \in FrameRange(b, n) PROVE FALSE
      BY DEF BitmapFrames
    <3>1. f < g
      BY <1>1, <2>1, <2>7 DEF Inv, UseInv, Mapping, T!Lower
    <3>2. f \in 1 .. LastFrame /\ g \in 1 .. LastFrame
      BY <1>1, <2>1, <2>2, FirstPoolType DEF Inv, KernelInv
    <3>3. b \in Nat
      <4>1. map \in Seq(Descriptor)
        BY <2>2, MapKnown
      <4>2. \A k \in DOMAIN map : map[k] \in Descriptor
        BY <4>1
      <4>3. \A k \in DOMAIN map : map[k].start \in Nat
        BY <4>2 DEF Descriptor
      <4> QED BY <4>3 DEF LargestFree
    <3> QED BY <2>1, <3>1, <3>2, <3>3 DEF FrameRange
  <2>8. \A f \in FirstPool \ pool :
          f \notin Kernel \cup font \cup mapFrame \cup FramebufferFrames \cup (0 .. (LowFrames - 1))
                     \cup BitmapFrames
    BY <2>2, <2>7, PoolIsFree
  <2>9. font \cap Kernel = {} /\ mapFrame \cap Kernel = {} /\ font \cap mapFrame = {}
    BY <2>2, LoadedApart
  <2>10. PTM!Tables \cap HeapFrames = {} /\ dma \cap (PTM!Tables \cup HeapFrames) = {}
    BY <2>4, <2>5, <2>6
  <2>11. (PTM!Tables \cup HeapFrames \cup dma)
           \cap (Kernel \cup font \cup mapFrame \cup FramebufferFrames
                   \cup (0 .. (LowFrames - 1)) \cup BitmapFrames) = {}
    BY <2>4, <2>5, <2>8
  <2> QED BY <2>3, <2>9, <2>10, <2>11 DEF FramesHaveOneUse
<1>2. ASSUME Inv, BitmapAhead, ~Mapping PROVE FramesHaveOneUse
  <2>1. pc \in {"init", "root"} /\ pool # {}
    BY <1>2 DEF Inv, KernelInv, Mapping, BitmapAhead
  <2>2. pc = "root" /\ loader = "kernel" /\ BootInv
    BY <1>2, <2>1 DEF Inv, KernelInv
  <2>3. PTM!Tables = {} /\ HeapFrames = {} /\ heapPages = 0 /\ dma = {}
    BY <1>2, <2>2, NothingUsed
  <2>4. Cardinality(HeapFrames) = heapPages
    BY <2>3, FS_EmptySet
  <2>5. font \cap Kernel = {} /\ mapFrame \cap Kernel = {} /\ font \cap mapFrame = {}
    BY <2>2, LoadedApart
  <2> QED BY <2>3, <2>4, <2>5 DEF FramesHaveOneUse
<1>3. Inv => (BitmapAhead => FramesHaveOneUse)
  BY <1>1, <1>2
<1> QED BY <1>3, Invariance, PTL
===============================================================================
