------------------------- MODULE PageTableManagerProofs -------------------------
(***************************************************************************)
(* Theorems about PageTableManager, for tables of any size and any number  *)
(* of frames: the tables form a tree, and mapping a page changes that page *)
(* and no other, until a request for a table fails.                        *)
(***************************************************************************)
EXTENDS PageTableManager, FiniteSetTheorems, TLAPS

Word == 0 .. (LastFrame * FlagBits + FlagBits - 1)
Memory == [Frames -> [Index -> Word]]

-------------------------------------------------------------------------------
(***************************************************************************)
(* Entries, and writes of one word.                                        *)
(***************************************************************************)

Present(m, t, i) == PDE_GetFlag(m[t][i], PT_PRESENT)
Child(m, t, i) == PDE_GetAddress(m[t][i])

LEMMA Sizes ==
  /\ Fanout \in Nat /\ Fanout >= 4 /\ LastFrame \in Nat
  /\ NULL \in Frames /\ NULL \notin TableFrames /\ TableFrames \subseteq Frames
  /\ NoTable \notin Frames /\ Targets \subseteq Frames
  /\ Index \subseteq Nat /\ {0, 1, 2, 3} \subseteq Index
BY PTMAssumption DEF Frames, NULL, Index

LEMMA Words ==
  ASSUME NEW f \in Frames
  PROVE  /\ Entry(f) \in Word
         /\ PDE_GetFlag(Entry(f), PT_PRESENT) /\ PDE_GetAddress(Entry(f)) = f
BY PTMAssumption
   DEF Entry, Word, Frames, PDE_GetFlag, PDE_GetAddress, PT_PRESENT, PT_READWRITE, FlagBits

LEMMA ZeroWord ==
  0 \in Word /\ ~PDE_GetFlag(0, PT_PRESENT)
BY PTMAssumption DEF Word, PDE_GetFlag, PT_PRESENT, FlagBits

LEMMA AddressIsFrame ==
  ASSUME NEW pde \in Word
  PROVE  PDE_GetAddress(pde) \in Frames
BY PTMAssumption DEF Word, Frames, PDE_GetAddress, FlagBits

LEMMA ChildIsFrame ==
  ASSUME NEW m \in Memory, NEW t \in Frames, NEW i \in Index
  PROVE  m[t][i] \in Word /\ Child(m, t, i) \in Frames
<1>1. m[t][i] \in Word
  BY DEF Memory
<1> QED BY <1>1, AddressIsFrame DEF Child

\* A word is written.
LEMMA Store ==
  ASSUME NEW m \in Memory, NEW t \in Frames, NEW i \in Index, NEW word \in Word
  PROVE  LET n == [m EXCEPT ![t][i] = word]
         IN  /\ n \in Memory
             /\ n[t][i] = word
             /\ \A u \in Frames, j \in Index : u # t \/ j # i => n[u][j] = m[u][j]
BY DEF Memory

\* A frame is cleared.
LEMMA Clearing ==
  ASSUME NEW m \in Memory, NEW f \in Frames
  PROVE  /\ ClearTable(m, f) \in Memory
         /\ \A i \in Index : ClearTable(m, f)[f][i] = 0
         /\ \A u \in Frames : u # f => ClearTable(m, f)[u] = m[u]
<1>1. ZeroPage \in [Index -> Word] /\ \A i \in Index : ZeroPage[i] = 0
  BY ZeroWord DEF ZeroPage
<1> QED BY <1>1 DEF ClearTable, Memory

\* The four indices are stored.
LEMMA Indexing ==
  ASSUME NEW m \in Memory, NEW v \in Index \X Index \X Index \X Index
  PROVE  /\ PMI_Create(m, v) \in Memory
         /\ \A k \in 0 .. 3 : PMI_Create(m, v)[NULL][k] = v[k + 1] /\ v[k + 1] \in Index
         /\ \A u \in Frames : u # NULL => PMI_Create(m, v)[u] = m[u]
<1> DEFINE stored == [i \in Index |-> IF i < 4 THEN v[i + 1] ELSE m[NULL][i]]
<1>1. \A k \in 0 .. 3 : k \in Index /\ v[k + 1] \in Index
  BY Sizes
<1>2. Index \subseteq Word
  BY PTMAssumption DEF Index, Word, FlagBits
<1>3. stored \in [Index -> Word]
  <2>1. ASSUME NEW i \in Index PROVE (IF i < 4 THEN v[i + 1] ELSE m[NULL][i]) \in Word
    <3>1. CASE i < 4
      <4>1. i \in 0 .. 3
        BY <3>1, Sizes
      <4> QED BY <1>1, <1>2, <3>1, <4>1
    <3>2. CASE ~(i < 4)
      BY <3>2, Sizes, ChildIsFrame
    <3> QED BY <3>1, <3>2
  <2> QED BY <2>1
<1>4. \A k \in 0 .. 3 : stored[k] = v[k + 1]
  BY <1>1
<1> HIDE DEF stored
<1>5. PMI_Create(m, v) = [m EXCEPT ![NULL] = stored]
  BY DEF PMI_Create, stored
<1> QED BY <1>1, <1>3, <1>4, <1>5, Sizes DEF Memory

-------------------------------------------------------------------------------
(***************************************************************************)
(* The processor's walk: one hop, and the table it is at after two, three  *)
(* and four.                                                               *)
(***************************************************************************)

Hop(m, t, i) == IF t = NoTable \/ ~Present(m, t, i) THEN NoTable ELSE Child(m, t, i)

Second(m, r, v) == Hop(m, r, v[1])
Third(m, r, v) == Hop(m, Second(m, r, v), v[2])
Fourth(m, r, v) == Hop(m, Third(m, r, v), v[3])
Found(m, r, v) == Hop(m, Fourth(m, r, v), v[4])

\* Of the pages that m shows below the root r, n shows v at p and the others
\* where they were.
MapsOnly(m, n, r, v, p) ==
  \A u \in Index \X Index \X Index \X Index :
    Found(n, r, u) = IF u = v THEN p ELSE Found(m, r, u)

LEMMA LookupIsFound ==
  ASSUME NEW v PROVE Lookup(v) = Found(mem, PML4, v)
BY DEF Lookup, Found, Fourth, Third, Second, Hop, Present, Child

LEMMA HopType ==
  ASSUME NEW m \in Memory, NEW t \in Frames \cup {NoTable}, NEW i \in Index
  PROVE  Hop(m, t, i) \in Frames \cup {NoTable}
BY ChildIsFrame DEF Hop

-------------------------------------------------------------------------------
(***************************************************************************)
(* The shape of the tables: each table has a level, the root's is 1, an    *)
(* entry leads one level down, and no two entries lead to the same table.  *)
(* Frames that are no table have level 0, NULL and the free ones among     *)
(* them.                                                                   *)
(***************************************************************************)

Levels == [Frames -> 0 .. 4]

\* The entry i of the table t leads to a table.
Leads(m, level, t, i) == level[t] \in 1 .. 3 /\ Present(m, t, i)

Shape(m, root, free, level) ==
  /\ level \in Levels
  /\ level[NULL] = 0
  /\ \A f \in free : level[f] = 0
  /\ root \in Frames /\ level[root] = 1
  /\ \A f \in Frames : level[f] = 1 => f = root
  /\ \A t \in Frames, i \in Index :
       Leads(m, level, t, i) => level[Child(m, t, i)] = level[t] + 1
  /\ \A t, u \in Frames, i, j \in Index :
       Leads(m, level, t, i) /\ Leads(m, level, u, j) /\ Child(m, t, i) = Child(m, u, j)
         => t = u /\ i = j

\* The tables are such a tree, and the frames in others are no tables.
Tree(m, root, free, others) ==
  \E level : Shape(m, root, free, level) /\ \A g \in others : level[g] = 0

\* Where a hop from a table leads.
LEMMA HopDown ==
  ASSUME NEW m \in Memory, NEW root, NEW free, NEW level, Shape(m, root, free, level),
         NEW t \in Frames, level[t] \in 1 .. 3, NEW i \in Index
  PROVE  \/ Hop(m, t, i) = NoTable /\ ~Present(m, t, i)
         \/ /\ Present(m, t, i) /\ Hop(m, t, i) = Child(m, t, i)
            /\ Hop(m, t, i) \in Frames /\ level[Hop(m, t, i)] = level[t] + 1
BY Sizes, ChildIsFrame DEF Hop, Shape, Leads

\* A memory with the same tables shows the same pages.
LEMMA SameTables ==
  ASSUME NEW m \in Memory, NEW n \in Memory, NEW root, NEW free, NEW level,
         Shape(m, root, free, level),
         \A t \in Frames : level[t] # 0 => n[t] = m[t]
  PROVE  /\ Shape(n, root, free, level)
         /\ \A v \in Index \X Index \X Index \X Index :
              /\ Second(n, root, v) = Second(m, root, v)
              /\ Third(n, root, v) = Third(m, root, v)
              /\ Fourth(n, root, v) = Fourth(m, root, v)
              /\ Found(n, root, v) = Found(m, root, v)
<1>1. \A t \in Frames, i \in Index : level[t] # 0 =>
        /\ Present(n, t, i) <=> Present(m, t, i)
        /\ Child(n, t, i) = Child(m, t, i)
        /\ Hop(n, t, i) = Hop(m, t, i)
  BY Sizes DEF Present, Child, Hop
<1>2. Shape(n, root, free, level)
  BY <1>1 DEF Shape, Leads
<1>3. ASSUME NEW t \in Frames \cup {NoTable}, NEW i \in Index, NEW k \in 1 .. 3,
             t # NoTable => level[t] = k
      PROVE  /\ Hop(n, t, i) = Hop(m, t, i)
             /\ Hop(m, t, i) \in Frames \cup {NoTable}
             /\ Hop(m, t, i) # NoTable => level[Hop(m, t, i)] = k + 1
  <2>1. CASE t = NoTable
    BY <2>1 DEF Hop
  <2>2. CASE t # NoTable
    BY <1>1, <1>3, <2>2, HopDown
  <2> QED BY <2>1, <2>2
<1>4. ASSUME NEW v \in Index \X Index \X Index \X Index
      PROVE  /\ Second(n, root, v) = Second(m, root, v)
             /\ Third(n, root, v) = Third(m, root, v)
             /\ Fourth(n, root, v) = Fourth(m, root, v)
             /\ Found(n, root, v) = Found(m, root, v)
  <2> DEFINE A == Second(m, root, v)
             B == Third(m, root, v)
             C == Fourth(m, root, v)
  <2>0. v[1] \in Index /\ v[2] \in Index /\ v[3] \in Index /\ v[4] \in Index
    OBVIOUS
  <2>1. root \in Frames /\ level[root] = 1
    BY DEF Shape
  <2>2. /\ Second(n, root, v) = A /\ A \in Frames \cup {NoTable}
        /\ A # NoTable => level[A] = 2
    BY <1>3, <2>0, <2>1 DEF Second
  <2>3. /\ Third(n, root, v) = B /\ B \in Frames \cup {NoTable}
        /\ B # NoTable => level[B] = 3
    BY <1>3, <2>0, <2>2 DEF Third
  <2>4. /\ Fourth(n, root, v) = C /\ C \in Frames \cup {NoTable}
        /\ C # NoTable => level[C] = 4
    BY <1>3, <2>0, <2>3 DEF Fourth
  <2>5. Hop(n, C, v[4]) = Hop(m, C, v[4])
    BY <1>1, <2>0, <2>4 DEF Hop
  <2> QED BY <2>2, <2>3, <2>4, <2>5 DEF Found
<1> QED BY <1>2, <1>4

-------------------------------------------------------------------------------
(***************************************************************************)
(* A table is added: the free frame f is zeroed and put behind the absent  *)
(* entry i of the table t.                                                 *)
(***************************************************************************)

Added(m, n, t, i, f) ==
  /\ n[t][i] = Entry(f)
  /\ \A j \in Index : n[f][j] = 0
  /\ \A u \in Frames, j \in Index : u # f /\ (u # t \/ j # i) => n[u][j] = m[u][j]

\* The new table has the level below its parent's.
LEMMA AddedShape ==
  ASSUME NEW m \in Memory, NEW n \in Memory, NEW root, NEW free \in SUBSET TableFrames, NEW level,
         Shape(m, root, free, level),
         NEW t \in Frames, level[t] \in 1 .. 3, NEW i \in Index, ~Present(m, t, i),
         NEW f \in free, Added(m, n, t, i, f),
         NEW new \in Levels, new[f] = level[t] + 1,
         \A u \in Frames : u # f => new[u] = level[u]
  PROVE  Shape(n, root, free \ {f}, new)
<1>1. f \in Frames /\ level[f] = 0 /\ level \in Levels /\ f # t /\ f # NULL
      /\ root \in Frames /\ f # root
  BY Sizes DEF Shape
<1>2. new \in Levels /\ new[f] = level[t] + 1 /\ \A u \in Frames : u # f => new[u] = level[u]
  OBVIOUS
<1>3. Present(n, t, i) /\ Child(n, t, i) = f
  BY <1>1, Words DEF Added, Present, Child
<1>4. ASSUME NEW u \in Frames, NEW j \in Index, Leads(n, new, u, j), u # t \/ j # i
      PROVE  /\ u # f /\ new[u] = level[u] /\ Leads(m, level, u, j)
             /\ Child(n, u, j) = Child(m, u, j) /\ Child(m, u, j) # f
             /\ Child(m, u, j) \in Frames
  <2>1. u # f
    BY <1>4, ZeroWord DEF Leads, Present, Added
  <2>2. n[u][j] = m[u][j] /\ new[u] = level[u]
    BY <1>2, <1>4, <2>1 DEF Added
  <2>3. Leads(m, level, u, j) /\ Child(n, u, j) = Child(m, u, j)
    BY <1>4, <2>2 DEF Leads, Present, Child
  <2>4. Child(m, u, j) \in Frames
    BY ChildIsFrame
  <2>5. level[Child(m, u, j)] = level[u] + 1 /\ level[u] \in 1 .. 3
    BY <2>3 DEF Shape, Leads
  <2>6. Child(m, u, j) # f
    BY <1>1, <2>5
  <2> QED BY <2>1, <2>2, <2>3, <2>4, <2>6
<1>5. ASSUME NEW u \in Frames, NEW j \in Index, Leads(n, new, u, j)
      PROVE  new[Child(n, u, j)] = new[u] + 1
  <2>1. CASE u = t /\ j = i
    BY <1>1, <1>2, <1>3, <2>1
  <2>2. CASE u # t \/ j # i
    BY <1>2, <1>4, <1>5, <2>2 DEF Shape
  <2> QED BY <2>1, <2>2
<1>6. ASSUME NEW u \in Frames, NEW w \in Frames, NEW j \in Index, NEW k \in Index,
             Leads(n, new, u, j), Leads(n, new, w, k), Child(n, u, j) = Child(n, w, k)
      PROVE  u = w /\ j = k
  <2>1. CASE u = t /\ j = i
    BY <1>3, <1>4, <1>6, <2>1
  <2>2. CASE w = t /\ k = i
    BY <1>3, <1>4, <1>6, <2>2
  <2>3. CASE (u # t \/ j # i) /\ (w # t \/ k # i)
    BY <1>4, <1>6, <2>3 DEF Shape
  <2> QED BY <2>1, <2>2, <2>3
<1>7. new[NULL] = 0 /\ new[root] = 1 /\ (\A g \in free \ {f} : new[g] = 0)
  BY <1>1, <1>2, Sizes DEF Shape
<1>8. \A g \in Frames : new[g] = 1 => g = root
  BY <1>1, <1>2 DEF Shape
<1> QED BY <1>1, <1>2, <1>5, <1>6, <1>7, <1>8 DEF Shape

\* Two walks, before and after, that are at the same table of level k, or are
\* over, or one is over and the other at the new table.
Alike(x, y, level, k, f) ==
  \/ x = y /\ x \in Frames /\ level[x] = k
  \/ x = NoTable /\ y \in {NoTable, f}

\* Pages are found where they were: the new table maps none.  As far as a walk
\* came, it still comes.
LEMMA AddedPages ==
  ASSUME NEW m \in Memory, NEW n \in Memory, NEW root, NEW free \in SUBSET TableFrames, NEW level,
         Shape(m, root, free, level),
         NEW t \in Frames, level[t] \in 1 .. 3, NEW i \in Index, ~Present(m, t, i),
         NEW f \in free, Added(m, n, t, i, f)
  PROVE  \A v \in Index \X Index \X Index \X Index :
           /\ Found(n, root, v) = Found(m, root, v)
           /\ Second(m, root, v) # NoTable => Second(n, root, v) = Second(m, root, v)
           /\ Third(m, root, v) # NoTable => Third(n, root, v) = Third(m, root, v)
<1>1. f \in Frames /\ level[f] = 0 /\ f # t /\ root \in Frames /\ level[root] = 1
  BY Sizes DEF Shape
<1>2. \A j \in Index : Hop(n, f, j) = NoTable
  BY ZeroWord DEF Added, Hop, Present
<1>3. Hop(n, t, i) = f /\ Hop(m, t, i) = NoTable
  <2>1. Present(n, t, i) /\ Child(n, t, i) = f
    BY <1>1, Words DEF Added, Present, Child
  <2> QED BY <2>1, Sizes DEF Hop
<1>4. ASSUME NEW x \in Frames, NEW j \in Index, level[x] # 0, x # t \/ j # i
      PROVE  Hop(n, x, j) = Hop(m, x, j)
  <2>1. n[x][j] = m[x][j]
    BY <1>1, <1>4 DEF Added
  <2> QED BY <2>1 DEF Hop, Present, Child
<1>5. ASSUME NEW x, NEW y, NEW k \in 1 .. 3, Alike(x, y, level, k, f), NEW j \in Index
      PROVE  Alike(Hop(m, x, j), Hop(n, y, j), level, k + 1, f)
  <2>1. CASE x = NoTable
    <3>1. Hop(m, x, j) = NoTable /\ Hop(n, NoTable, j) = NoTable
      BY <2>1 DEF Hop
    <3>2. y \in {NoTable, f}
      BY <1>5, <2>1, Sizes DEF Alike
    <3>3. Hop(n, y, j) = NoTable
      BY <1>2, <3>1, <3>2
    <3> QED BY <3>1, <3>3 DEF Alike
  <2>2. CASE x # NoTable /\ x = t /\ j = i
    <3>1. y = x
      BY <1>5, <2>2 DEF Alike
    <3> QED BY <1>3, <2>2, <3>1 DEF Alike
  <2>3. CASE x # NoTable /\ (x # t \/ j # i)
    <3>1. y = x /\ x \in Frames /\ level[x] = k
      BY <1>5, <2>3 DEF Alike
    <3>2. Hop(n, y, j) = Hop(m, x, j)
      BY <1>4, <2>3, <3>1
    <3>3. \/ Hop(m, x, j) = NoTable
          \/ Hop(m, x, j) \in Frames /\ level[Hop(m, x, j)] = k + 1
      BY <3>1, HopDown
    <3> QED BY <3>2, <3>3 DEF Alike
  <2> QED BY <2>1, <2>2, <2>3
<1>6. ASSUME NEW x, NEW y, Alike(x, y, level, 4, f), NEW j \in Index
      PROVE  Hop(n, y, j) = Hop(m, x, j)
  <2>1. CASE x = NoTable
    <3>1. y \in {NoTable, f}
      BY <1>6, <2>1, Sizes DEF Alike
    <3>2. Hop(m, NoTable, j) = NoTable /\ Hop(n, NoTable, j) = NoTable
      BY DEF Hop
    <3> QED BY <1>2, <2>1, <3>1, <3>2
  <2>2. CASE x # NoTable
    <3>1. y = x /\ x \in Frames /\ level[x] = 4 /\ x # t
      BY <1>6, <2>2 DEF Alike
    <3> QED BY <1>4, <3>1
  <2> QED BY <2>1, <2>2
<1> SUFFICES ASSUME NEW v \in Index \X Index \X Index \X Index
             PROVE  /\ Found(n, root, v) = Found(m, root, v)
                    /\ Second(m, root, v) # NoTable => Second(n, root, v) = Second(m, root, v)
                    /\ Third(m, root, v) # NoTable => Third(n, root, v) = Third(m, root, v)
  OBVIOUS
<1>7. v[1] \in Index /\ v[2] \in Index /\ v[3] \in Index /\ v[4] \in Index
  OBVIOUS
<1>8. Alike(root, root, level, 1, f)
  BY <1>1 DEF Alike
<1>9. Alike(Second(m, root, v), Second(n, root, v), level, 2, f)
  BY <1>5, <1>7, <1>8 DEF Second
<1>10. Alike(Third(m, root, v), Third(n, root, v), level, 3, f)
  BY <1>5, <1>7, <1>9 DEF Third
<1>11. Alike(Fourth(m, root, v), Fourth(n, root, v), level, 4, f)
  BY <1>5, <1>7, <1>10 DEF Fourth
<1>12. Found(n, root, v) = Found(m, root, v)
  BY <1>6, <1>7, <1>11 DEF Found
<1> QED BY <1>9, <1>10, <1>12 DEF Alike

-------------------------------------------------------------------------------
(***************************************************************************)
(* The entry of a page is written.                                         *)
(***************************************************************************)

\* Only one page has its entry there: no other page's walk comes to it.
LEMMA WalksDiffer ==
  ASSUME NEW m \in Memory, NEW root, NEW free, NEW level, Shape(m, root, free, level),
         NEW u \in Index \X Index \X Index \X Index, NEW v \in Index \X Index \X Index \X Index,
         Fourth(m, root, v) # NoTable, Fourth(m, root, u) = Fourth(m, root, v)
  PROVE  u[1] = v[1] /\ u[2] = v[2] /\ u[3] = v[3]
<1>1. \A j \in 1 .. 4 : u[j] \in Index /\ v[j] \in Index
  OBVIOUS
<1>2. ASSUME NEW x, NEW y, NEW i \in Index, NEW j \in Index, NEW k \in 1 .. 3,
             x = NoTable \/ (x \in Frames /\ level[x] = k),
             y = NoTable \/ (y \in Frames /\ level[y] = k),
             Hop(m, x, i) # NoTable, Hop(m, x, i) = Hop(m, y, j)
      PROVE  x = y /\ i = j /\ x # NoTable
  <2>1. x # NoTable /\ y # NoTable /\ Present(m, x, i) /\ Present(m, y, j)
    BY <1>2 DEF Hop
  <2>2. Leads(m, level, x, i) /\ Leads(m, level, y, j) /\ Child(m, x, i) = Child(m, y, j)
    BY <1>2, <2>1 DEF Hop, Leads
  <2> QED BY <1>2, <2>1, <2>2 DEF Shape
<1>3. ASSUME NEW x, NEW i \in Index, NEW k \in 1 .. 3,
             x = NoTable \/ (x \in Frames /\ level[x] = k)
      PROVE  Hop(m, x, i) = NoTable
               \/ (Hop(m, x, i) \in Frames /\ level[Hop(m, x, i)] = k + 1)
  <2>1. CASE x = NoTable
    BY <2>1 DEF Hop
  <2>2. CASE x # NoTable
    BY <1>3, <2>2, HopDown
  <2> QED BY <2>1, <2>2
<1>4. root \in Frames /\ level[root] = 1
  BY DEF Shape
<1>5. \A w \in {u, v} : Second(m, root, w) = NoTable
                          \/ (Second(m, root, w) \in Frames /\ level[Second(m, root, w)] = 2)
  BY <1>1, <1>3, <1>4 DEF Second
<1>6. \A w \in {u, v} : Third(m, root, w) = NoTable
                          \/ (Third(m, root, w) \in Frames /\ level[Third(m, root, w)] = 3)
  BY <1>1, <1>3, <1>5 DEF Third
<1>7. Third(m, root, u) = Third(m, root, v) /\ u[3] = v[3] /\ Third(m, root, v) # NoTable
  BY <1>1, <1>2, <1>6 DEF Fourth
<1>8. Second(m, root, u) = Second(m, root, v) /\ u[2] = v[2] /\ Second(m, root, v) # NoTable
  BY <1>1, <1>2, <1>5, <1>7 DEF Third
<1>9. u[1] = v[1]
  BY <1>1, <1>2, <1>4, <1>8 DEF Second
<1> QED BY <1>7, <1>8, <1>9

\* The page is found at its frame, all others where they were.
LEMMA EntryWritten ==
  ASSUME NEW m \in Memory, NEW root, NEW free, NEW level, Shape(m, root, free, level),
         NEW v \in Index \X Index \X Index \X Index, NEW p \in Frames,
         NEW t \in Frames, Fourth(m, root, v) = t, level[t] = 4,
         NEW n \in Memory, n[t][v[4]] = Entry(p),
         \A u \in Frames, j \in Index : u # t \/ j # v[4] => n[u][j] = m[u][j]
  PROVE  /\ Shape(n, root, free, level)
         /\ \A u \in Index \X Index \X Index \X Index :
              Found(n, root, u) = IF u = v THEN p ELSE Found(m, root, u)
<1>1. v[4] \in Index
  OBVIOUS
<1>2. \A u \in Frames, j \in Index : u # t \/ j # v[4] => n[u][j] = m[u][j]
  OBVIOUS
<1>3. \A u \in Frames, j \in Index :
        u # t \/ j # v[4] => /\ Present(n, u, j) <=> Present(m, u, j)
                             /\ Child(n, u, j) = Child(m, u, j)
                             /\ Hop(n, u, j) = Hop(m, u, j)
  BY <1>2 DEF Present, Child, Hop
<1>4. \A u \in Frames : level[u] \in 1 .. 3 => u # t
  OBVIOUS
<1>5. Shape(n, root, free, level)
  <2>1. \A u \in Frames, j \in Index :
          /\ Leads(n, level, u, j) <=> Leads(m, level, u, j)
          /\ Leads(n, level, u, j) => Child(n, u, j) = Child(m, u, j)
    BY <1>3, <1>4 DEF Leads
  <2>2. \A u \in Frames, i \in Index :
          Leads(n, level, u, i) => level[Child(n, u, i)] = level[u] + 1
    BY <2>1 DEF Shape
  <2>3. \A x, u \in Frames, i, j \in Index :
          Leads(n, level, x, i) /\ Leads(n, level, u, j) /\ Child(n, x, i) = Child(n, u, j)
            => x = u /\ i = j
    BY <2>1 DEF Shape
  <2> QED BY <2>2, <2>3 DEF Shape
<1>6. ASSUME NEW x, NEW k \in 1 .. 3, x = NoTable \/ (x \in Frames /\ level[x] = k),
             NEW j \in Index
      PROVE  /\ Hop(n, x, j) = Hop(m, x, j)
             /\ Hop(m, x, j) = NoTable
                  \/ (Hop(m, x, j) \in Frames /\ level[Hop(m, x, j)] = k + 1)
  <2>1. CASE x = NoTable
    BY <2>1 DEF Hop
  <2>2. CASE x # NoTable
    <3>1. x \in Frames /\ level[x] = k /\ x # t
      BY <1>4, <1>6, <2>2
    <3> QED BY <1>3, <3>1, HopDown
  <2> QED BY <2>1, <2>2
<1>7. ASSUME NEW u \in Index \X Index \X Index \X Index
      PROVE  Found(n, root, u) = IF u = v THEN p ELSE Found(m, root, u)
  <2>1. u[1] \in Index /\ u[2] \in Index /\ u[3] \in Index /\ u[4] \in Index
    OBVIOUS
  <2>2. root \in Frames /\ level[root] = 1
    BY DEF Shape
  <2>3. /\ Second(n, root, u) = Second(m, root, u)
        /\ Second(m, root, u) = NoTable
             \/ (Second(m, root, u) \in Frames /\ level[Second(m, root, u)] = 2)
    BY <1>6, <2>1, <2>2 DEF Second
  <2>4. /\ Third(n, root, u) = Third(m, root, u)
        /\ Third(m, root, u) = NoTable
             \/ (Third(m, root, u) \in Frames /\ level[Third(m, root, u)] = 3)
    BY <1>6, <2>1, <2>3 DEF Third
  <2>5. /\ Fourth(n, root, u) = Fourth(m, root, u)
        /\ Fourth(m, root, u) = NoTable
             \/ (Fourth(m, root, u) \in Frames /\ level[Fourth(m, root, u)] = 4)
    BY <1>6, <2>1, <2>4 DEF Fourth
  <2>6. CASE u = v
    <3>1. Present(n, t, v[4]) /\ Child(n, t, v[4]) = p
      BY Words DEF Present, Child
    <3>2. Hop(n, t, v[4]) = p
      BY <3>1, Sizes DEF Hop
    <3> QED BY <2>5, <2>6, <3>2 DEF Found
  <2>7. CASE u # v
    <3>1. Fourth(m, root, u) = t => u[4] # v[4]
      <4>1. SUFFICES ASSUME Fourth(m, root, u) = t, u[4] = v[4] PROVE FALSE
        OBVIOUS
      <4>2. t # NoTable
        BY Sizes
      <4>3. u[1] = v[1] /\ u[2] = v[2] /\ u[3] = v[3]
        BY <4>1, <4>2, WalksDiffer
      <4>4. u = <<u[1], u[2], u[3], u[4]>> /\ v = <<v[1], v[2], v[3], v[4]>>
        OBVIOUS
      <4> QED BY <2>7, <4>1, <4>3, <4>4
    <3>2. Hop(n, Fourth(m, root, u), u[4]) = Hop(m, Fourth(m, root, u), u[4])
      <4>1. CASE Fourth(m, root, u) = NoTable
        BY <4>1 DEF Hop
      <4>2. CASE Fourth(m, root, u) # NoTable
        BY <1>3, <2>1, <2>5, <3>1, <4>2
      <4> QED BY <4>1, <4>2
    <3> QED BY <2>5, <2>7, <3>2 DEF Found
  <2> QED BY <2>6, <2>7
<1> QED BY <1>5, <1>7

-------------------------------------------------------------------------------
(***************************************************************************)
(* The walk of PTM_MapMemory.                                              *)
(***************************************************************************)

Walks == [mem : Memory, free : SUBSET TableFrames, table : Frames, refused : BOOLEAN]

\* The table of level k on the walk to the page v.
Table(k, m, r, v) ==
  CASE k = 1 -> r [] k = 2 -> Second(m, r, v) [] k = 3 -> Third(m, r, v) [] OTHER -> Fourth(m, r, v)

LEMMA TableHop ==
  ASSUME NEW k \in 1 .. 3, NEW m, NEW r, NEW v
  PROVE  Table(k + 1, m, r, v) = Hop(m, Table(k, m, r, v), v[k])
<1>1. CASE k = 1
  BY <1>1 DEF Table, Second
<1>2. CASE k = 2
  BY <1>2 DEF Table, Third
<1>3. CASE k = 3
  BY <1>3 DEF Table, Fourth
<1> QED BY <1>1, <1>2, <1>3

\* The walk w to the page v is at the table of level k.  It has not changed the
\* pages that were mapped in the memory m, and has made no table of the frames in
\* others, unless a request was refused.
At(w, m, root, others, v, k) ==
  /\ w \in Walks
  /\ others \subseteq Frames /\ others \cap w.free = {}
  /\ \A j \in 0 .. 3 : w.mem[NULL][j] \in Index
  /\ w.refused => w.free = {}
  /\ ~w.refused =>
       /\ \E level : /\ Shape(w.mem, root, w.free, level) /\ level[w.table] = k
                      /\ \A g \in others : level[g] = 0
       /\ Table(k, w.mem, root, v) = w.table
       /\ \A j \in 0 .. 3 : w.mem[NULL][j] = v[j + 1]
       /\ \A u \in Index \X Index \X Index \X Index : Found(w.mem, root, u) = Found(m, root, u)

LEMMA AnswersType ==
  ASSUME NEW free \in SUBSET TableFrames, NEW f \in Answers(free)
  PROVE  /\ f \in Frames
         /\ free = {} => f = NULL
         /\ free # {} => f \in free
BY Sizes DEF Answers

\* An entry that is there is followed.
LEMMA Followed ==
  ASSUME NEW m, NEW root, NEW others, NEW v \in Index \X Index \X Index \X Index, NEW k \in 1 .. 3,
         NEW w, At(w, m, root, others, v, k), NEW i, i = w.mem[NULL][k - 1], Present(w.mem, w.table, i)
  PROVE  At([w EXCEPT !.table = Child(w.mem, w.table, i)], m, root, others, v, k + 1)
<1> DEFINE x == [w EXCEPT !.table = Child(w.mem, w.table, i)]
<1>1. k - 1 \in 0 .. 3 /\ w \in Walks
  BY DEF At
<1>2. i \in Index /\ w.mem \in Memory /\ w.table \in Frames
  BY <1>1 DEF At, Walks
<1>3. Child(w.mem, w.table, i) \in Frames
  BY <1>2, ChildIsFrame
<1>4. /\ x \in Walks /\ x.mem = w.mem /\ x.free = w.free /\ x.refused = w.refused
      /\ x.table = Child(w.mem, w.table, i)
  BY <1>1, <1>3 DEF Walks
<1> HIDE DEF x
<1>5. ASSUME ~w.refused
      PROVE  /\ \E level : /\ Shape(w.mem, root, w.free, level) /\ level[x.table] = k + 1
                           /\ \A g \in others : level[g] = 0
             /\ Table(k + 1, w.mem, root, v) = x.table
  <2>1. PICK level : /\ Shape(w.mem, root, w.free, level) /\ level[w.table] = k
                     /\ \A g \in others : level[g] = 0
    BY <1>5 DEF At
  <2>2. i = v[k]
    <3>1. i = v[(k - 1) + 1]
      BY <1>1, <1>5 DEF At
    <3> QED BY <3>1
  <2>3. level[x.table] = k + 1
    BY <1>2, <1>4, <2>1 DEF Shape, Leads
  <2>4. Hop(w.mem, w.table, i) = x.table
    BY <1>2, <1>4, Sizes DEF Hop
  <2>5. Table(k, w.mem, root, v) = w.table
    BY <1>5 DEF At
  <2>6. Table(k + 1, w.mem, root, v) = x.table
    BY <2>2, <2>4, <2>5, TableHop
  <2> QED BY <2>1, <2>3, <2>6
<1>6. At(x, m, root, others, v, k + 1)
  <2>1. \A j \in 0 .. 3 : x.mem[NULL][j] \in Index
    BY <1>4 DEF At
  <2>2. x.refused => x.free = {}
    BY <1>4 DEF At
  <2>3. ~x.refused => \A j \in 0 .. 3 : x.mem[NULL][j] = v[j + 1]
    BY <1>4 DEF At
  <2>4. ~x.refused => \A u \in Index \X Index \X Index \X Index :
                        Found(x.mem, root, u) = Found(m, root, u)
    BY <1>4 DEF At
  <2>5. others \subseteq Frames /\ others \cap x.free = {}
    BY <1>4 DEF At
  <2> QED BY <1>4, <1>5, <2>1, <2>2, <2>3, <2>4, <2>5 DEF At
<1> QED BY <1>6 DEF x

\* What an absent entry makes of the walk, when the allocator answers f.
Grown(w, k, i, f) ==
  [mem     |-> [ClearTable(w.mem, f) EXCEPT
                  ![w.table][ClearTable(w.mem, f)[NULL][k - 1]] = Entry(f)],
   free    |-> w.free \ {f},
   table   |-> f,
   refused |-> w.refused \/ w.free = {}]

\* A table is put behind an entry that is not there.
LEMMA Extended ==
  ASSUME NEW m, NEW root, NEW others, NEW v \in Index \X Index \X Index \X Index, NEW k \in 1 .. 3,
         NEW w, At(w, m, root, others, v, k), NEW i, i = w.mem[NULL][k - 1], ~Present(w.mem, w.table, i),
         NEW f \in Answers(w.free)
  PROVE  At(Grown(w, k, i, f), m, root, others, v, k + 1)
<1> DEFINE zeroed == ClearTable(w.mem, f)
           c == zeroed[NULL][k - 1]
           x == Grown(w, k, i, f)
<1>1. k - 1 \in 0 .. 3 /\ k - 1 \in Index /\ w \in Walks /\ 0 \in Index
  BY Sizes DEF At
<1>2. /\ i \in Index /\ w.mem \in Memory /\ w.table \in Frames
      /\ w.free \in SUBSET TableFrames /\ w.refused \in BOOLEAN
  BY <1>1 DEF At, Walks
<1>3. f \in Frames /\ (w.free = {} => f = NULL) /\ (w.free # {} => f \in w.free)
  BY <1>2, AnswersType
<1>4. /\ zeroed \in Memory
      /\ \A j \in Index : zeroed[f][j] = 0
      /\ \A u \in Frames : u # f => zeroed[u] = w.mem[u]
  BY <1>2, <1>3, Clearing
<1>5. c \in Index /\ (f # NULL => c = i)
  BY <1>1, <1>2, <1>4, Sizes
<1> HIDE DEF zeroed, c
<1>6. /\ x.mem = [zeroed EXCEPT ![w.table][c] = Entry(f)]
      /\ x.free = w.free \ {f} /\ x.table = f /\ x.refused = (w.refused \/ w.free = {})
  BY DEF Grown, zeroed, c
<1>7. /\ x.mem \in Memory /\ x.mem[w.table][c] = Entry(f)
      /\ \A u \in Frames, j \in Index : u # w.table \/ j # c => x.mem[u][j] = zeroed[u][j]
  BY <1>2, <1>3, <1>4, <1>5, <1>6, Store, Words
<1>8. x \in Walks
  BY <1>2, <1>3, <1>6, <1>7 DEF Walks, Grown
<1> HIDE DEF x
<1>9. x.refused => x.free = {}
  BY <1>2, <1>6 DEF At
<1>10. ASSUME ~w.refused
       PROVE  w.table # NULL /\ i = v[k]
  <2>1. PICK level : Shape(w.mem, root, w.free, level) /\ level[w.table] = k
    BY <1>10 DEF At
  <2>2. w.table # NULL
    BY <2>1 DEF Shape
  <2>3. i = v[(k - 1) + 1]
    BY <1>1, <1>10 DEF At
  <2> QED BY <2>2, <2>3
<1>11. ASSUME NEW j \in 0 .. 3
       PROVE  x.mem[NULL][j] \in Index
  <2>1. j \in Index /\ NULL \in Frames
    BY Sizes
  <2>2. CASE f = NULL
    <3>1. zeroed[NULL][j] = 0
      BY <1>4, <2>1, <2>2
    <3>2. Entry(NULL) \in Index
      BY Sizes DEF Entry, NULL, PT_PRESENT, PT_READWRITE, FlagBits
    <3> QED BY <1>1, <1>7, <2>1, <2>2, <3>1, <3>2
  <2>3. CASE f # NULL
    <3>1. ~w.refused
      BY <1>3, <2>3 DEF At
    <3>2. x.mem[NULL][j] = zeroed[NULL][j]
      BY <1>7, <1>10, <2>1, <3>1
    <3>3. zeroed[NULL][j] = w.mem[NULL][j]
      BY <1>4, <2>1, <2>3
    <3> QED BY <3>2, <3>3 DEF At
  <2> QED BY <2>2, <2>3
<1>12. ASSUME ~x.refused
       PROVE  /\ \E level : /\ Shape(x.mem, root, x.free, level) /\ level[x.table] = k + 1
                            /\ \A g \in others : level[g] = 0
              /\ Table(k + 1, x.mem, root, v) = x.table
              /\ \A j \in 0 .. 3 : x.mem[NULL][j] = v[j + 1]
              /\ \A u \in Index \X Index \X Index \X Index :
                   Found(x.mem, root, u) = Found(m, root, u)
  <2>1. ~w.refused /\ w.free # {} /\ f \in w.free
    BY <1>3, <1>6, <1>12
  <2>2. f # NULL /\ c = i
    BY <1>2, <1>5, <2>1, Sizes
  <2>3. w.table # NULL /\ i = v[k]
    BY <1>10, <2>1
  <2>4. PICK level : /\ Shape(w.mem, root, w.free, level) /\ level[w.table] = k
                     /\ \A g \in others : level[g] = 0
    BY <2>1 DEF At
  <2>5. f # w.table
    BY <2>1, <2>4 DEF Shape
  <2>6. Added(w.mem, x.mem, w.table, i, f)
    <3>1. \A j \in Index : x.mem[f][j] = 0
      BY <1>3, <1>4, <1>7, <2>5
    <3>2. \A u \in Frames, j \in Index :
            u # f /\ (u # w.table \/ j # i) => x.mem[u][j] = w.mem[u][j]
      BY <1>4, <1>7, <2>2
    <3> QED BY <1>7, <2>2, <3>1, <3>2 DEF Added
  <2> DEFINE a == w.mem
             b == x.mem
             free == w.free
             t == w.table
             e == i
             new == [level EXCEPT ![f] = level[w.table] + 1]
  <2>7. /\ Shape(b, root, free \ {f}, new)
        /\ \A u \in Index \X Index \X Index \X Index :
             /\ Found(b, root, u) = Found(a, root, u)
             /\ Second(a, root, u) # NoTable => Second(b, root, u) = Second(a, root, u)
             /\ Third(a, root, u) # NoTable => Third(b, root, u) = Third(a, root, u)
    <3>1. /\ a \in Memory /\ b \in Memory /\ free \in SUBSET TableFrames
          /\ Shape(a, root, free, level)
          /\ t \in Frames /\ level[t] \in 1 .. 3 /\ e \in Index /\ ~Present(a, t, e)
          /\ f \in free /\ Added(a, b, t, e, f)
      BY <1>2, <1>7, <2>1, <2>4, <2>6
    <3>2. /\ new \in Levels /\ new[f] = level[t] + 1
          /\ \A u \in Frames : u # f => new[u] = level[u]
      BY <1>3, <2>4 DEF Shape, Levels
    <3> HIDE DEF a, b, free, t, e, new
    <3>3. Shape(b, root, free \ {f}, new)
      BY <3>1, <3>2, AddedShape
    <3>4. \A u \in Index \X Index \X Index \X Index :
             /\ Found(b, root, u) = Found(a, root, u)
             /\ Second(a, root, u) # NoTable => Second(b, root, u) = Second(a, root, u)
             /\ Third(a, root, u) # NoTable => Third(b, root, u) = Third(a, root, u)
      BY <3>1, AddedPages
    <3> QED BY <3>3, <3>4
  <2>8. /\ Shape(x.mem, root, w.free \ {f}, new)
        /\ \A u \in Index \X Index \X Index \X Index :
             /\ Found(x.mem, root, u) = Found(w.mem, root, u)
             /\ Second(w.mem, root, u) # NoTable => Second(x.mem, root, u) = Second(w.mem, root, u)
             /\ Third(w.mem, root, u) # NoTable => Third(x.mem, root, u) = Third(w.mem, root, u)
    BY <2>7
  <2>9. new[f] = k + 1
    BY <1>3, <2>4 DEF Shape, Levels
  <2>10. \E l : /\ Shape(x.mem, root, x.free, l) /\ l[x.table] = k + 1
                 /\ \A g \in others : l[g] = 0
    <3>1. \A g \in others : g \in Frames /\ g # f
      BY <2>1 DEF At
    <3>2. \A g \in others : new[g] = 0
      BY <2>4, <3>1 DEF Shape, Levels
    <3> HIDE DEF new
    <3> QED BY <1>6, <2>8, <2>9, <3>2
  <2>11. Table(k, w.mem, root, v) = w.table /\ w.table # NoTable
    BY <1>2, <2>1, Sizes DEF At
  <2>12. Table(k, x.mem, root, v) = w.table
    <3>1. CASE k = 1
      BY <2>11, <3>1 DEF Table
    <3>2. CASE k = 2
      BY <2>8, <2>11, <3>2 DEF Table
    <3>3. CASE k = 3
      BY <2>8, <2>11, <3>3 DEF Table
    <3> QED BY <3>1, <3>2, <3>3
  <2>13. Hop(x.mem, w.table, i) = f
    <3>1. Present(x.mem, w.table, i) /\ Child(x.mem, w.table, i) = f
      BY <1>3, <1>7, <2>2, Words DEF Present, Child
    <3> QED BY <2>11, <3>1 DEF Hop
  <2>14. Table(k + 1, x.mem, root, v) = x.table
    BY <1>6, <2>3, <2>12, <2>13, TableHop
  <2>15. ASSUME NEW j \in 0 .. 3 PROVE x.mem[NULL][j] = v[j + 1]
    <3>1. j \in Index /\ NULL \in Frames
      BY Sizes
    <3>2. x.mem[NULL][j] = w.mem[NULL][j]
      BY <1>4, <1>7, <2>2, <2>3, <3>1
    <3> QED BY <2>1, <3>2 DEF At
  <2>16. \A u \in Index \X Index \X Index \X Index : Found(x.mem, root, u) = Found(m, root, u)
    BY <2>1, <2>8 DEF At
  <2> QED BY <2>10, <2>14, <2>15, <2>16
<1>13. At(x, m, root, others, v, k + 1)
  <2>1. others \subseteq Frames /\ others \cap x.free = {}
    BY <1>6 DEF At
  <2> QED BY <1>8, <1>9, <1>11, <1>12, <2>1 DEF At
<1> QED BY <1>13 DEF x

LEMMA DescendStep ==
  ASSUME NEW m, NEW root, NEW others, NEW v \in Index \X Index \X Index \X Index, NEW k \in 1 .. 3,
         NEW w, At(w, m, root, others, v, k), NEW x \in Descend(w, k - 1)
  PROVE  At(x, m, root, others, v, k + 1)
<1> DEFINE i == w.mem[NULL][k - 1]
<1>1. CASE Present(w.mem, w.table, i)
  <2>1. x = [w EXCEPT !.table = Child(w.mem, w.table, i)]
    BY <1>1 DEF Descend, Present, Child
  <2> QED BY <1>1, <2>1, Followed
<1>2. CASE ~Present(w.mem, w.table, i)
  <2>1. PICK f \in Answers(w.free) : x = Grown(w, k, i, f)
    BY <1>2 DEF Descend, Present, Grown
  <2> QED BY <1>2, <2>1, Extended
<1> QED BY <1>1, <1>2

\* The walk starts at the root.
LEMMA Started ==
  ASSUME NEW m \in Memory, NEW root \in Frames, NEW free \in SUBSET TableFrames,
         NEW refused \in BOOLEAN, refused => free = {},
         NEW others \in SUBSET Frames, others \cap free = {},
         ~refused => Tree(m, root, free, others), NEW v \in Index \X Index \X Index \X Index
  PROVE  At([mem |-> PMI_Create(m, v), free |-> free, table |-> root, refused |-> refused],
            m, root, others, v, 1)
<1> DEFINE w == [mem |-> PMI_Create(m, v), free |-> free, table |-> root, refused |-> refused]
<1>1. /\ PMI_Create(m, v) \in Memory
      /\ \A k \in 0 .. 3 : PMI_Create(m, v)[NULL][k] = v[k + 1] /\ v[k + 1] \in Index
      /\ \A u \in Frames : u # NULL => PMI_Create(m, v)[u] = m[u]
  BY Indexing
<1>2. /\ w \in Walks /\ w.mem = PMI_Create(m, v) /\ w.free = free /\ w.table = root
      /\ w.refused = refused
  BY <1>1 DEF Walks
<1> HIDE DEF w
<1>3. ASSUME ~refused
      PROVE  /\ \E level : /\ Shape(w.mem, root, free, level) /\ level[root] = 1
                           /\ \A g \in others : level[g] = 0
             /\ \A u \in Index \X Index \X Index \X Index :
                  Found(w.mem, root, u) = Found(m, root, u)
  <2>1. PICK level : Shape(m, root, free, level) /\ \A g \in others : level[g] = 0
    BY <1>3 DEF Tree
  <2> DEFINE n == w.mem
  <2>2. n \in Memory /\ \A t \in Frames : level[t] # 0 => n[t] = m[t]
    BY <1>1, <1>2, <2>1 DEF Shape
  <2> HIDE DEF n
  <2>3. /\ Shape(n, root, free, level)
        /\ \A u \in Index \X Index \X Index \X Index : Found(n, root, u) = Found(m, root, u)
    BY <2>1, <2>2, SameTables
  <2>4. level[root] = 1
    BY <2>3 DEF Shape
  <2> QED BY <2>1, <2>3, <2>4 DEF n
<1>4. Table(1, w.mem, root, v) = w.table
  BY <1>2 DEF Table
<1>5. \A j \in 0 .. 3 : w.mem[NULL][j] \in Index /\ w.mem[NULL][j] = v[j + 1]
  BY <1>1, <1>2
<1>6. At(w, m, root, others, v, 1)
  BY <1>2, <1>3, <1>4, <1>5 DEF At
<1> QED BY <1>6 DEF w

\* A refusal is not forgotten.
LEMMA Remembered ==
  ASSUME NEW w \in Walks, NEW k, NEW x \in Descend(w, k), w.refused
  PROVE  x.refused
<1> DEFINE i == w.mem[NULL][k]
<1>1. CASE Present(w.mem, w.table, i)
  <2>1. x = [w EXCEPT !.table = Child(w.mem, w.table, i)]
    BY <1>1 DEF Descend, Present, Child
  <2> QED BY <2>1 DEF Walks
<1>2. CASE ~Present(w.mem, w.table, i)
  <2>1. PICK f \in Answers(w.free) :
          x = [mem     |-> [ClearTable(w.mem, f) EXCEPT
                              ![w.table][ClearTable(w.mem, f)[NULL][k]] = Entry(f)],
               free    |-> w.free \ {f},
               table   |-> f,
               refused |-> w.refused \/ w.free = {}]
    BY <1>2 DEF Descend, Present
  <2> QED BY <2>1
<1> QED BY <1>1, <1>2

\* PTM_MapMemory maps the page it is given and leaves the others, and makes tables
\* of free frames only, or finds no frame for a table.
LEMMA WalkMaps ==
  ASSUME NEW m \in Memory, NEW root \in Frames, NEW others,
         NEW v \in Index \X Index \X Index \X Index, NEW p \in Frames,
         NEW start, At(start, m, root, others, v, 1), WalkAndMap(start, p)
  PROVE  /\ mem' \in Memory /\ pool' \in SUBSET TableFrames /\ exhausted' \in BOOLEAN
         /\ exhausted' => pool' = {}
         /\ others \cap pool' = {}
         /\ ~exhausted' =>
              /\ ~start.refused
              /\ Tree(mem', root, pool', others)
              /\ MapsOnly(m, mem', root, v, p)
<1>4. PICK pdp \in Descend(start, 0) : \E pd \in Descend(pdp, 1) : \E pt \in Descend(pd, 2) :
        /\ mem' = [pt.mem EXCEPT ![pt.table][pt.mem[NULL][3]] = Entry(p)]
        /\ pool' = pt.free
        /\ exhausted' = pt.refused
  BY DEF WalkAndMap
<1>5. PICK pd \in Descend(pdp, 1) : \E pt \in Descend(pd, 2) :
        /\ mem' = [pt.mem EXCEPT ![pt.table][pt.mem[NULL][3]] = Entry(p)]
        /\ pool' = pt.free
        /\ exhausted' = pt.refused
  BY <1>4
<1>6. PICK pt \in Descend(pd, 2) :
        /\ mem' = [pt.mem EXCEPT ![pt.table][pt.mem[NULL][3]] = Entry(p)]
        /\ pool' = pt.free
        /\ exhausted' = pt.refused
  BY <1>5
<1>7. 0 = 1 - 1 /\ 1 = 2 - 1 /\ 2 = 3 - 1 /\ 2 = 1 + 1 /\ 3 = 2 + 1 /\ 4 = 3 + 1
  OBVIOUS
<1>8. At(pdp, m, root, others, v, 2)
  <2>1. pdp \in Descend(start, 1 - 1)
    BY <1>7
  <2>2. At(pdp, m, root, others, v, 1 + 1)
    BY <2>1, DescendStep
  <2> QED BY <1>7, <2>2
<1>9. At(pd, m, root, others, v, 3)
  <2>1. pd \in Descend(pdp, 2 - 1)
    BY <1>7
  <2>2. At(pd, m, root, others, v, 2 + 1)
    BY <1>8, <2>1, DescendStep
  <2> QED BY <1>7, <2>2
<1>10. At(pt, m, root, others, v, 4)
  <2>1. pt \in Descend(pd, 3 - 1)
    BY <1>7
  <2>2. At(pt, m, root, others, v, 3 + 1)
    BY <1>9, <2>1, DescendStep
  <2> QED BY <1>7, <2>2
<1>11. /\ pt.mem \in Memory /\ pt.table \in Frames /\ pt.free \in SUBSET TableFrames
       /\ pt.refused \in BOOLEAN /\ pt.mem[NULL][3] \in Index /\ (pt.refused => pt.free = {})
       /\ others \cap pt.free = {}
  BY <1>10 DEF At, Walks
<1>12. mem' \in Memory
  BY <1>6, <1>11, Store, Words
<1>13. ASSUME ~exhausted'
       PROVE  /\ ~start.refused
              /\ Tree(mem', root, pool', others)
              /\ MapsOnly(m, mem', root, v, p)
  <2>1. PICK level : /\ Shape(pt.mem, root, pt.free, level) /\ level[pt.table] = 4
                     /\ \A g \in others : level[g] = 0
    BY <1>6, <1>10, <1>13 DEF At
  <2>2. pt.mem[NULL][3] = v[4] /\ Fourth(pt.mem, root, v) = pt.table
    BY <1>6, <1>10, <1>13 DEF At, Table
  <2>3. \A u \in Index \X Index \X Index \X Index : Found(pt.mem, root, u) = Found(m, root, u)
    BY <1>6, <1>10, <1>13 DEF At
  <2>4. mem' = [pt.mem EXCEPT ![pt.table][v[4]] = Entry(p)]
    BY <1>6, <2>2
  <2> DEFINE n == pt.mem
             t == pt.table
             free == pt.free
  <2>5. /\ Shape(mem', root, free, level)
        /\ \A u \in Index \X Index \X Index \X Index :
             Found(mem', root, u) = IF u = v THEN p ELSE Found(n, root, u)
    <3>1. /\ n \in Memory /\ t \in Frames /\ Shape(n, root, free, level) /\ level[t] = 4
          /\ Fourth(n, root, v) = t
      BY <1>11, <2>1, <2>2
    <3>2. /\ mem' \in Memory /\ mem'[t][v[4]] = Entry(p)
          /\ \A u \in Frames, j \in Index : u # t \/ j # v[4] => mem'[u][j] = n[u][j]
      <4> DEFINE e == v[4]
                 word == Entry(p)
      <4>1. /\ n \in Memory /\ t \in Frames /\ e \in Index /\ word \in Word
            /\ mem' = [n EXCEPT ![t][e] = word]
        BY <1>11, <2>4, Words
      <4> HIDE DEF n, t, e, word
      <4>2. /\ mem' \in Memory /\ mem'[t][e] = word
            /\ \A u \in Frames, j \in Index : u # t \/ j # e => mem'[u][j] = n[u][j]
        <5>1. mem' \in Memory
          BY <4>1, Store
        <5>2. mem'[t][e] = word
          BY <4>1, Store
        <5>3. \A u \in Frames, j \in Index : u # t \/ j # e => mem'[u][j] = n[u][j]
          BY <4>1, Store
        <5> QED BY <5>1, <5>2, <5>3
      <4> QED BY <4>2 DEF e, word
    <3> HIDE DEF n, t, free
    <3> QED BY <3>1, <3>2, EntryWritten
  <2>6. ~start.refused
    <3>1. start \in Walks /\ pdp \in Walks /\ pd \in Walks
      BY <1>8, <1>9 DEF At
    <3>2. start.refused => pt.refused
      BY <1>4, <1>5, <1>6, <3>1, Remembered
    <3> QED BY <1>6, <1>13, <3>2
  <2>7. Tree(mem', root, pool', others)
    BY <1>6, <2>1, <2>5 DEF Tree
  <2>8. MapsOnly(m, mem', root, v, p)
    BY <2>3, <2>5 DEF MapsOnly
  <2> QED BY <2>6, <2>7, <2>8
<1> QED BY <1>6, <1>11, <1>12, <1>13

\* Of the frames in all, those that are not free any more come first.
Lower(all, free) == free \subseteq all /\ \A f \in all \ free, g \in free : f < g

\* PFA_RequestPage takes the lowest.
LEMMA AnswerLower ==
  ASSUME NEW all \in SUBSET Int, NEW free, Lower(all, free), NEW f \in Answers(free)
  PROVE  Lower(all, free \ {f})
<1> SUFFICES ASSUME NEW h \in all \ (free \ {f}), NEW g \in free \ {f} PROVE h < g
  BY DEF Lower
<1>1. h \in Int /\ g \in Int /\ f \in free /\ f <= g /\ f # g /\ f \in Int
  BY DEF Lower, Answers
<1>2. CASE h = f
  BY <1>1, <1>2
<1>3. CASE h # f
  BY <1>3 DEF Lower
<1> QED BY <1>2, <1>3

\* A frame that is taken from the pool for something else is no table.
LEMMA TakenFromTree ==
  ASSUME NEW m, NEW root, NEW free, NEW others, Tree(m, root, free, others), NEW f \in free
  PROVE  Tree(m, root, free \ {f}, others \cup {f})
<1>1. PICK level : Shape(m, root, free, level) /\ \A g \in others : level[g] = 0
  BY DEF Tree
<1>2. Shape(m, root, free \ {f}, level) /\ \A g \in others \cup {f} : level[g] = 0
  BY <1>1 DEF Shape
<1> QED BY <1>2 DEF Tree

LEMMA WalkLower ==
  ASSUME NEW all \in SUBSET Int, NEW start, Lower(all, start.free), NEW p, WalkAndMap(start, p)
  PROVE  Lower(all, pool')
<1>1. ASSUME NEW w, Lower(all, w.free), NEW k, NEW x \in Descend(w, k)
      PROVE  Lower(all, x.free)
  <2> DEFINE i == w.mem[NULL][k]
  <2>1. CASE Present(w.mem, w.table, i)
    <3>1. x = [w EXCEPT !.table = Child(w.mem, w.table, i)]
      BY <2>1 DEF Descend, Present, Child
    <3>2. x.free = w.free
      BY <3>1
    <3> QED BY <1>1, <3>2
  <2>2. CASE ~Present(w.mem, w.table, i)
    <3>1. PICK f \in Answers(w.free) :
            x = [mem     |-> [ClearTable(w.mem, f) EXCEPT
                                ![w.table][ClearTable(w.mem, f)[NULL][k]] = Entry(f)],
                 free    |-> w.free \ {f},
                 table   |-> f,
                 refused |-> w.refused \/ w.free = {}]
      BY <2>2 DEF Descend, Present
    <3>2. x.free = w.free \ {f}
      BY <3>1
    <3> QED BY <1>1, <3>1, <3>2, AnswerLower
  <2> QED BY <2>1, <2>2
<1>2. PICK pdp \in Descend(start, 0) : \E pd \in Descend(pdp, 1) : \E pt \in Descend(pd, 2) :
        pool' = pt.free
  BY DEF WalkAndMap
<1>3. PICK pd \in Descend(pdp, 1) : \E pt \in Descend(pd, 2) : pool' = pt.free
  BY <1>2
<1> QED BY <1>1, <1>2, <1>3

-------------------------------------------------------------------------------
(***************************************************************************)
(* The inductive invariant.                                                *)
(***************************************************************************)

TableInv ==
  /\ mem \in Memory
  /\ PML4 \in Frames \cup {NoTable}
  /\ pool \in SUBSET TableFrames
  /\ exhausted \in BOOLEAN
  /\ requested \in [Pages -> Targets \cup {NoTable}]
  /\ exhausted => pool = {}
  /\ PML4 = NoTable => /\ ~exhausted /\ pool = TableFrames
                       /\ requested = [v \in Pages |-> NoTable]
  /\ PML4 # NoTable /\ ~exhausted =>
       /\ \E level : Shape(mem, PML4, pool, level)
       /\ \A v \in Pages : Found(mem, PML4, v) = requested[v]

LEMMA TableInit == Init => TableInv
<1> SUFFICES ASSUME Init PROVE TableInv
  OBVIOUS
<1>1. PICK g \in Garbage : mem = [f \in Frames |-> [i \in Index |-> g]]
  BY DEF Init
<1>2. g \in Word
  BY PTMAssumption DEF Word
<1>3. mem \in Memory
  BY <1>1, <1>2 DEF Memory
<1> QED BY <1>3 DEF Init, TableInv

\* An empty root maps nothing.
LEMMA EmptyRoot ==
  ASSUME NEW m \in Memory, NEW r \in Frames, \A i \in Index : m[r][i] = 0,
         NEW v \in Index \X Index \X Index \X Index
  PROVE  Found(m, r, v) = NoTable
<1>1. v[1] \in Index
  OBVIOUS
<1>2. Second(m, r, v) = NoTable
  BY <1>1, ZeroWord DEF Second, Hop, Present
<1> QED BY <1>2 DEF Found, Fourth, Third, Hop

\* It is a tree by itself.
LEMMA RootAlone ==
  ASSUME NEW m \in Memory, NEW f \in Frames, f # NULL, \A i \in Index : m[f][i] = 0,
         NEW free, free \subseteq Frames, f \notin free,
         NEW others, others \subseteq Frames, f \notin others
  PROVE  Tree(m, f, free, others)
<1> DEFINE level == [u \in Frames |-> IF u = f THEN 1 ELSE 0]
<1>1. /\ level \in Levels /\ level[f] = 1
      /\ \A u \in Frames : u # f => level[u] = 0
  BY DEF Levels
<1> HIDE DEF level
<1>2. \A u \in Frames, i \in Index : ~Leads(m, level, u, i)
  BY <1>1, ZeroWord DEF Leads, Present
<1>3. Shape(m, f, free, level)
  BY <1>1, <1>2, Sizes DEF Shape
<1> QED BY <1>1, <1>3 DEF Tree

LEMMA CreateStep ==
  ASSUME TableInv, PTM_Create, UNCHANGED requested
  PROVE  /\ TableInv'
         /\ PML4' # NoTable /\ UNCHANGED exhausted
         /\ \A v \in Pages : Found(mem', PML4', v) = requested[v]
<1>1. PML4 = NoTable /\ ~exhausted /\ pool = TableFrames /\ pool # {}
      /\ requested = [v \in Pages |-> NoTable] /\ mem \in Memory /\ exhausted' = exhausted
  BY PTMAssumption DEF TableInv, PTM_Create
<1>2. PICK f \in Answers(pool) : mem' = ClearTable(mem, f) /\ pool' = pool \ {f} /\ PML4' = f
  BY DEF PTM_Create
<1>3. f \in Frames /\ f \in pool /\ f # NULL /\ f # NoTable
  BY <1>1, AnswersType, Sizes
<1>4. mem' \in Memory /\ \A i \in Index : mem'[f][i] = 0
  BY <1>1, <1>2, <1>3, Clearing
<1>5. pool' \subseteq Frames /\ f \notin pool'
  BY <1>1, <1>2, Sizes
<1>6. Tree(mem', f, pool', {})
  BY <1>3, <1>4, <1>5, RootAlone
<1>7. \A v \in Pages : Found(mem', f, v) = requested[v]
  BY <1>1, <1>3, <1>4, EmptyRoot, PTMAssumption
<1>8. TableInv'
  BY <1>1, <1>2, <1>3, <1>4, <1>6, <1>7 DEF TableInv, Tree
<1> QED BY <1>1, <1>2, <1>3, <1>7, <1>8

\* Another user of the allocator takes no table.
LEMMA RequestStep ==
  ASSUME TableInv, PFA_RequestPage, UNCHANGED requested
  PROVE  TableInv' /\ UNCHANGED <<mem, PML4, exhausted>>
<1>1. UNCHANGED <<mem, PML4, exhausted>> /\ PML4 # NoTable /\ pool' \subseteq pool
  BY DEF PFA_RequestPage
<1>2. \A level : Shape(mem, PML4, pool, level) => Shape(mem, PML4, pool', level)
  BY <1>1 DEF Shape
<1> QED BY <1>1, <1>2 DEF TableInv

\* PTM_MapMemory maps the page it is given and leaves the others, or finds no
\* frame for a table.
LEMMA MapStep ==
  ASSUME TableInv, NEW v \in Pages, NEW p \in Targets, PTM_MapMemory(v, p), Remember(v, p)
  PROVE  /\ TableInv'
         /\ PML4' # NoTable /\ PML4 # NoTable
         /\ exhausted' \/ (~exhausted /\ requested' = [requested EXCEPT ![v] = p])
         /\ exhausted' => UNCHANGED requested
<1> PICK start : start = [mem |-> PMI_Create(mem, v), free |-> pool,
                          table |-> PML4, refused |-> exhausted]
  OBVIOUS
<1>1. PML4 # NoTable /\ PML4' = PML4 /\ WalkAndMap(start, p)
  BY DEF PTM_MapMemory
<1>2. v \in Index \X Index \X Index \X Index /\ mem \in Memory /\ p \in Frames
      /\ PML4 \in Frames
  BY <1>1, PTMAssumption DEF TableInv
<1>3. At(start, mem, PML4, {}, v, 1) /\ start.refused = exhausted
  <2>1. ~exhausted => Tree(mem, PML4, pool, {})
    BY <1>1 DEF TableInv, Tree
  <2>2. pool \in SUBSET TableFrames /\ exhausted \in BOOLEAN /\ (exhausted => pool = {})
    BY DEF TableInv
  <2> QED BY <1>2, <2>1, <2>2, Started
<1>4. /\ mem' \in Memory /\ pool' \in SUBSET TableFrames /\ exhausted' \in BOOLEAN
      /\ exhausted' => pool' = {}
      /\ ~exhausted' => /\ ~exhausted
                        /\ Tree(mem', PML4, pool', {})
                        /\ MapsOnly(mem, mem', PML4, v, p)
  <2> PICK m, r : m = mem /\ r = PML4
    OBVIOUS
  <2>1. m \in Memory /\ r \in Frames /\ At(start, m, r, {}, v, 1) /\ WalkAndMap(start, p)
    BY <1>1, <1>2, <1>3
  <2>2. /\ mem' \in Memory /\ pool' \in SUBSET TableFrames /\ exhausted' \in BOOLEAN
        /\ exhausted' => pool' = {}
    BY <1>2, <2>1, WalkMaps
  <2>3. ~exhausted' => /\ ~start.refused
                       /\ Tree(mem', r, pool', {})
                       /\ MapsOnly(m, mem', r, v, p)
    BY <1>2, <2>1, WalkMaps
  <2> QED BY <1>3, <2>2, <2>3
<1>5. requested' \in [Pages -> Targets \cup {NoTable}]
  BY DEF TableInv, Remember
<1>6. ASSUME ~exhausted'
      PROVE  /\ ~exhausted
             /\ requested' = [requested EXCEPT ![v] = p]
             /\ \E level : Shape(mem', PML4, pool', level)
             /\ \A u \in Pages : Found(mem', PML4, u) = requested'[u]
  <2>1. requested' = [requested EXCEPT ![v] = p]
    BY <1>6 DEF Remember
  <2>2. ASSUME NEW u \in Pages PROVE Found(mem', PML4, u) = requested'[u]
    <3>1. u \in Index \X Index \X Index \X Index
      BY PTMAssumption
    <3>2. Found(mem, PML4, u) = requested[u]
      BY <1>1, <1>4, <1>6 DEF TableInv
    <3>3. requested'[u] = IF u = v THEN p ELSE requested[u]
      BY <2>1 DEF TableInv
    <3> QED BY <1>4, <1>6, <3>1, <3>2, <3>3 DEF MapsOnly
  <2>3. \E level : Shape(mem', PML4, pool', level)
    BY <1>4, <1>6 DEF Tree
  <2> QED BY <1>4, <1>6, <2>1, <2>2, <2>3
<1>7. exhausted' => UNCHANGED requested
  BY DEF Remember
<1>8. TableInv'
  BY <1>1, <1>2, <1>4, <1>5, <1>6 DEF TableInv
<1> QED BY <1>1, <1>6, <1>7, <1>8

LEMMA TableNext == TableInv /\ [Next]_vars => TableInv'
<1> SUFFICES ASSUME TableInv, [Next]_vars PROVE TableInv'
  OBVIOUS
<1>1. CASE PTM_Create /\ UNCHANGED requested
  BY <1>1, CreateStep
<1>2. CASE PFA_RequestPage /\ UNCHANGED requested
  BY <1>2, RequestStep
<1>3. ASSUME NEW v \in Pages, NEW p \in Targets, PTM_MapMemory(v, p), Remember(v, p)
      PROVE  TableInv'
  BY <1>3, MapStep
<1>4. CASE UNCHANGED vars
  BY <1>4 DEF vars, TableInv
<1> QED BY <1>1, <1>2, <1>3, <1>4 DEF Next

LEMMA Invariance == Spec => []TableInv
BY TableInit, TableNext, PTL DEF Spec

\* Words stay words and frames frames, even when tables are missing and entries
\* and indices are written over each other in frame NULL.
THEOREM TypeCorrect == Spec => []TypeOK
<1>1. TableInv => TypeOK
  BY DEF TableInv, TypeOK, Memory, Word
<1> QED BY <1>1, Invariance, PTL

-------------------------------------------------------------------------------
(***************************************************************************)
(* Mapping memory keeps the promise of AddressSpace.                       *)
(***************************************************************************)

LEMMA LookupType == TableInv => \A v \in Pages : Lookup(v) \in Frames \cup {NoTable}
<1> SUFFICES ASSUME TableInv, NEW v \in Pages PROVE Lookup(v) \in Frames \cup {NoTable}
  OBVIOUS
<1>1. v[1] \in Index /\ v[2] \in Index /\ v[3] \in Index /\ v[4] \in Index
  BY PTMAssumption
<1>2. mem \in Memory /\ PML4 \in Frames \cup {NoTable}
  BY DEF TableInv
<1>3. Second(mem, PML4, v) \in Frames \cup {NoTable}
  BY <1>1, <1>2, HopType DEF Second
<1>4. Third(mem, PML4, v) \in Frames \cup {NoTable}
  BY <1>1, <1>2, <1>3, HopType DEF Third
<1>5. Fourth(mem, PML4, v) \in Frames \cup {NoTable}
  BY <1>1, <1>2, <1>4, HopType DEF Fourth
<1> QED BY <1>1, <1>2, <1>5, HopType, LookupIsFound DEF Found

\* As long as nothing was refused, the processor finds what was requested.
LEMMA FoundAsRequested ==
  TableInv /\ ~exhausted => [v \in Pages |-> Lookup(v)] = requested
<1> SUFFICES ASSUME TableInv, ~exhausted PROVE [v \in Pages |-> Lookup(v)] = requested
  OBVIOUS
<1>1. ASSUME NEW v \in Pages PROVE Lookup(v) = requested[v]
  <2>1. CASE PML4 = NoTable
    BY <2>1, LookupIsFound DEF TableInv, Found, Fourth, Third, Second, Hop
  <2>2. CASE PML4 # NoTable
    BY <2>2, LookupIsFound DEF TableInv
  <2> QED BY <2>1, <2>2
<1> QED BY <1>1 DEF TableInv

LEMMA InitRefines == Init => Space!Init
<1>1. TableInv /\ ~exhausted => [v \in Pages |-> Lookup(v)] = requested
  BY FoundAsRequested
<1> QED BY <1>1, TableInit DEF Init, Space!Init

LEMMA NextRefines == TableInv /\ TableInv' /\ [Next]_vars => [Space!Next]_(Space!asVars)
<1> SUFFICES ASSUME TableInv, TableInv', [Next]_vars PROVE [Space!Next]_(Space!asVars)
  OBVIOUS
<1> DEFINE mapping == [v \in Pages |-> Lookup(v)]
<1>1. ~exhausted => mapping = requested
  BY FoundAsRequested
<1>2. ~exhausted' => mapping' = requested'
  <2>1. TableInv' /\ ~exhausted' => ([v \in Pages |-> Lookup(v)] = requested)'
    BY FoundAsRequested, PTL
  <2> QED BY <2>1
<1>3. mapping' \in [Pages -> Frames \cup {NoTable}]
  <2>1. TableInv' => (\A v \in Pages : Lookup(v) \in Frames \cup {NoTable})'
    BY LookupType, PTL
  <2> QED BY <2>1
<1>4. UNCHANGED <<mem, PML4>> => mapping' = mapping
  BY DEF Lookup
<1> HIDE DEF mapping
<1>5. CASE PTM_Create /\ UNCHANGED requested
  <2>1. ~exhausted /\ ~exhausted' /\ requested' = requested /\ exhausted' = exhausted
    BY <1>5, CreateStep DEF TableInv, PTM_Create
  <2>2. mapping' = mapping
    BY <1>1, <1>2, <2>1
  <2> QED BY <1>5, <2>1, <2>2 DEF Space!asVars, mapping
<1>6. CASE PFA_RequestPage /\ UNCHANGED requested
  BY <1>4, <1>6, RequestStep DEF Space!asVars, mapping
<1>7. ASSUME NEW v \in Pages, NEW p \in Targets, PTM_MapMemory(v, p), Remember(v, p)
      PROVE  Space!Next
  <2>1. CASE exhausted'
    <3>1. UNCHANGED requested /\ exhausted' = TRUE
      BY <1>7, <2>1, MapStep DEF TableInv
    <3>2. Space!Lose
      BY <1>3, <3>1 DEF Space!Lose, mapping
    <3> QED BY <3>2 DEF Space!Next
  <2>2. CASE ~exhausted'
    <3>1. ~exhausted /\ requested' = [requested EXCEPT ![v] = p] /\ exhausted' = exhausted
      BY <1>7, <2>2, MapStep DEF TableInv
    <3>2. Space!Map(v, p)
      BY <1>2, <2>2, <3>1 DEF Space!Map, mapping
    <3> QED BY <3>2, Sizes DEF Space!Next
  <2> QED BY <2>1, <2>2
<1>8. CASE UNCHANGED vars
  BY <1>4, <1>8 DEF vars, Space!asVars, mapping
<1> QED BY <1>5, <1>6, <1>7, <1>8 DEF Next

\* PTM_MapMemory gives the page its frame and leaves every other page alone,
\* whatever tables they share and wherever the new tables come from, until the
\* allocator has no frame for a table.
THEOREM Refinement == Spec => ImplementsAddressSpace
BY Invariance, InitRefines, NextRefines, PTL DEF Spec, ImplementsAddressSpace, Space!Spec

-------------------------------------------------------------------------------
(***************************************************************************)
(* The tables form a tree.                                                 *)
(***************************************************************************)

\* What the present entries of tables of one level refer to is one level down.
LEMMA ChildrenBelow ==
  ASSUME mem \in Memory, NEW root, NEW free, NEW level, Shape(mem, root, free, level),
         NEW k \in 1 .. 3, NEW tables \in SUBSET Frames, \A t \in tables : level[t] = k
  PROVE  /\ Children(tables) \in SUBSET Frames
         /\ \A c \in Children(tables) : level[c] = k + 1
<1> SUFFICES ASSUME NEW e \in References(tables)
             PROVE  LET c == PDE_GetAddress(mem[e[1]][e[2]]) IN c \in Frames /\ level[c] = k + 1
  BY DEF Children
<1>1. e[1] \in tables /\ e[1] \in Frames /\ e[2] \in Index /\ Present(mem, e[1], e[2])
  BY DEF References, Present
<1>2. Leads(mem, level, e[1], e[2])
  BY <1>1 DEF Leads
<1> QED BY <1>1, <1>2, ChildIsFrame DEF Shape, Child

LEMMA FinitelyManyReferences ==
  ASSUME NEW tables \in SUBSET Frames
  PROVE  IsFiniteSet(References(tables))
<1>1. IsFiniteSet(Frames) /\ IsFiniteSet(Index)
  <2>1. LastFrame \in Int /\ Fanout - 1 \in Int /\ 0 \in Int
    BY PTMAssumption
  <2> QED BY <2>1, FS_Interval DEF Frames, Index
<1>2. IsFiniteSet(tables)
  BY <1>1, FS_Subset
<1>3. IsFiniteSet(tables \X Index)
  BY <1>1, <1>2, FS_Product
<1> QED BY <1>3, FS_Subset DEF References

\* No two entries refer to the same table, so there are as many tables below the
\* root as entries that refer to one.
LEMMA OneEntryEach ==
  ASSUME mem \in Memory, NEW root, NEW free, NEW level, Shape(mem, root, free, level),
         NEW tables \in SUBSET Frames, \A t \in tables : level[t] \in 1 .. 3
  PROVE  /\ IsFiniteSet(Children(tables))
         /\ Cardinality(Children(tables)) = Cardinality(References(tables))
<1> DEFINE R == References(tables)
           C == Children(tables)
           f == [e \in R |-> PDE_GetAddress(mem[e[1]][e[2]])]
<1>1. \A e \in R : /\ e[1] \in Frames /\ e[2] \in Index /\ e = <<e[1], e[2]>>
                   /\ Leads(mem, level, e[1], e[2])
                   /\ PDE_GetAddress(mem[e[1]][e[2]]) = Child(mem, e[1], e[2])
  BY DEF References, Leads, Present, Child
<1>2. \A d, e \in R : f[d] = f[e] => d = e
  <2>1. SUFFICES ASSUME NEW d \in R, NEW e \in R, f[d] = f[e] PROVE d = e
    OBVIOUS
  <2>2. Child(mem, d[1], d[2]) = Child(mem, e[1], e[2])
    BY <1>1, <2>1
  <2>3. d[1] = e[1] /\ d[2] = e[2]
    BY <1>1, <2>2 DEF Shape
  <2> QED BY <1>1, <2>3
<1>3. f \in [R -> C] /\ \A c \in C : \E e \in R : f[e] = c
  BY DEF Children
<1> HIDE DEF R, C, f
<1>4. f \in Bijection(R, C)
  BY <1>2, <1>3 DEF Bijection, Injection, Surjection, IsInjective
<1>5. ExistsBijection(R, C)
  BY <1>4 DEF ExistsBijection
<1>6. IsFiniteSet(R)
  BY FinitelyManyReferences DEF R
<1>7. IsFiniteSet(C) /\ Cardinality(C) = Cardinality(R)
  BY <1>5, <1>6, FS_Bijection
<1> QED BY <1>7 DEF R, C

\* The frames the root leads to are tables.
LEMMA TablesHaveLevels ==
  ASSUME mem \in Memory, NEW free, NEW level, Shape(mem, PML4, free, level)
  PROVE  Tables \in SUBSET Frames /\ \A t \in Tables : level[t] # 0
<1>1. Level1 \in SUBSET Frames /\ \A t \in Level1 : level[t] = 1
  BY DEF Shape, Level1
<1>2. Level2 \in SUBSET Frames /\ \A t \in Level2 : level[t] = 2
  BY <1>1, ChildrenBelow DEF Level2
<1>3. Level3 \in SUBSET Frames /\ \A t \in Level3 : level[t] = 3
  BY <1>2, ChildrenBelow DEF Level3
<1>4. Level4 \in SUBSET Frames /\ \A t \in Level4 : level[t] = 4
  BY <1>3, ChildrenBelow DEF Level4
<1> QED BY <1>1, <1>2, <1>3, <1>4 DEF Tables

\* However the tables were allocated, as long as no request failed: every table
\* but the root is behind exactly one entry, and neither NULL nor a frame the
\* allocator may still give away is a table.
THEOREM TablesAreATree == Spec => []TablesFormATree
<1>1. TableInv => TablesFormATree
  <2> SUFFICES ASSUME TableInv, ~exhausted
               PROVE  /\ Cardinality(References(Level1 \cup Level2 \cup Level3))
                           + Cardinality(Level1) = Cardinality(Tables)
                      /\ Tables \cap (pool \cup {NULL}) = {}
    BY DEF TablesFormATree
  <2> DEFINE parents == Level1 \cup Level2 \cup Level3
  <2>1. Tables = Level1 \cup Children(parents)
    BY DEF Tables, Level2, Level3, Level4, Children, References
  <2>2. CASE PML4 = NoTable
    <3>1. Level1 = {}
      BY <2>2 DEF Level1
    <3>2. Level2 = {} /\ Level3 = {}
      BY <3>1 DEF Level2, Level3, Children, References
    <3>3. References(parents) = {} /\ Children(parents) = {}
      BY <3>1, <3>2 DEF Children, References
    <3>4. Cardinality({}) = 0
      BY FS_EmptySet
    <3> HIDE DEF parents
    <3>5. Tables = {} /\ Cardinality(References(parents)) + Cardinality(Level1) = 0
      BY <2>1, <3>1, <3>3, <3>4
    <3> QED BY <3>4, <3>5 DEF parents
  <2>3. CASE PML4 # NoTable
    <3>1. PICK level : Shape(mem, PML4, pool, level)
      BY <2>3 DEF TableInv
    <3>2. mem \in Memory /\ PML4 \in Frames /\ level[PML4] = 1
      BY <2>3, <3>1 DEF TableInv, Shape
    <3>3. Level1 = {PML4}
      BY <2>3 DEF Level1
    <3>4. Level2 \in SUBSET Frames /\ \A t \in Level2 : level[t] = 2
      BY <3>1, <3>2, <3>3, ChildrenBelow DEF Level2
    <3>5. Level3 \in SUBSET Frames /\ \A t \in Level3 : level[t] = 3
      BY <3>1, <3>2, <3>4, ChildrenBelow DEF Level3
    <3>6. Level4 \in SUBSET Frames /\ \A t \in Level4 : level[t] = 4
      BY <3>1, <3>2, <3>5, ChildrenBelow DEF Level4
    <3>7. Children(parents) = Level2 \cup Level3 \cup Level4
      BY DEF Level2, Level3, Level4, Children, References
    <3>8. PML4 \notin Children(parents)
      BY <3>2, <3>4, <3>5, <3>6, <3>7
    <3>9. parents \in SUBSET Frames /\ \A t \in parents : level[t] \in 1 .. 3
      BY <3>2, <3>3, <3>4, <3>5
    <3>10. Tables \cap (pool \cup {NULL}) = {}
      BY <2>1, <3>1, <3>2, <3>3, <3>4, <3>5, <3>6, <3>7 DEF Shape
    <3> HIDE DEF parents
    <3>11. /\ IsFiniteSet(Children(parents))
           /\ Cardinality(Children(parents)) = Cardinality(References(parents))
      BY <3>1, <3>2, <3>9, OneEntryEach
    <3>12. Cardinality(Children(parents) \cup {PML4}) = Cardinality(Children(parents)) + 1
      BY <3>8, <3>11, FS_AddElement
    <3>13. Cardinality(Level1) = 1
      BY <3>3, FS_Singleton
    <3>14. Tables = Children(parents) \cup {PML4}
      BY <2>1, <3>3
    <3> QED BY <3>10, <3>11, <3>12, <3>13, <3>14 DEF parents
  <2> QED BY <2>2, <2>3
<1> QED BY <1>1, Invariance, PTL
===============================================================================
