--------------------------- MODULE PageTableManager ---------------------------
(***************************************************************************)
(* The four-level page tables: paging/page_table_manager.c, the indexer    *)
(* that splits a virtual address (page_map_indexer.c) and the entries      *)
(* (paging.c).                                                             *)
(*                                                                         *)
(* Memory is kept as words, Fanout of them to a frame, for the frames that *)
(* can become page tables.  A word holds its two low flag bits and, above  *)
(* them, a frame number: the other ten flags of an entry are never set.    *)
(* Frame 0 is NULL: PFA_RequestPage returns it when no frame is left, and  *)
(* PMI_Create puts its four indices there, since the pointer it returns is *)
(* {0}.  Both kinds of words share the frame, as they do in the machine.   *)
(*                                                                         *)
(* Frames come from a pool that keeps the promise of FramePool, the lowest *)
(* frame first.                                                            *)
(***************************************************************************)
EXTENDS Integers, FiniteSets

CONSTANTS
  Fanout,       \* entries in a table (512 in the code)
  LastFrame,    \* frames are 0 .. LastFrame
  TableFrames,  \* the frames PFA_RequestPage can give away
  Pages,        \* the virtual pages callers map, each a tuple of four indices
  Targets,      \* the frames callers map them to
  Garbage,      \* what the words of a frame may hold before it becomes a table
  NoTable       \* g_pageTableManager.PML4 before PTM_Create

VARIABLES
  mem,        \* the words of every frame
  PML4,       \* g_pageTableManager.PML4
  pool,       \* the frames PFA_RequestPage still has
  exhausted,  \* history: has a request been answered with NULL?
  requested   \* history: the frame each page was last mapped to, until then

vars == <<mem, PML4, pool, exhausted, requested>>

Frames == 0 .. LastFrame
Index == 0 .. (Fanout - 1)
NULL == 0

-------------------------------------------------------------------------------
(***************************************************************************)
(* Page directory entries.                                                 *)
(***************************************************************************)

PT_PRESENT == 1
PT_READWRITE == 2
FlagBits == 4

ASSUME PTMAssumption ==
  /\ Fanout \in Nat /\ Fanout >= 4
  /\ LastFrame \in Nat
  /\ Fanout <= (LastFrame + 1) * FlagBits     \* an index fits into a word
  /\ TableFrames \subseteq 1 .. LastFrame /\ TableFrames # {}
  /\ Pages \subseteq Index \X Index \X Index \X Index
  /\ Targets \subseteq Frames
  /\ Garbage \subseteq 0 .. (LastFrame * FlagBits + FlagBits - 1)
  /\ NoTable \notin Frames

PDE_GetFlag(pde, flag) == (pde \div flag) % 2 = 1

PDE_GetAddress(pde) == pde \div FlagBits

\* Mutant: the address is shifted by PDE_SetAddress and by its caller.
EntryShiftedTwice(f) == f * FlagBits * FlagBits + PT_PRESENT + PT_READWRITE

\* PDE_SetAddress and the two calls of PDE_SetFlag: whatever the flags were,
\* both are set now.
Entry(f) == f * FlagBits + PT_PRESENT + PT_READWRITE

ZeroPage == [i \in Index |-> 0]

\* MEM_Set64 on a new table.
LeaveTable(m, f) == m                               \* mutant: not cleared
ClearTable(m, f) == [m EXCEPT ![f] = ZeroPage]

-------------------------------------------------------------------------------
(***************************************************************************)
(* PTM_MapMemory.  A walk is a record: the memory so far, the frames left, *)
(* the table the walk stands at, whether a request failed.                 *)
(***************************************************************************)

\* Mutant: the indices are stored from the last to the first.
PMI_CreateReversed(m, v) ==
  [m EXCEPT ![NULL] = [i \in Index |-> IF i < 4 THEN v[4 - i] ELSE m[NULL][i]]]

\* PMI_Create writes the four indices through a NULL pointer.
PMI_Create(m, v) ==
  [m EXCEPT ![NULL] = [i \in Index |-> IF i < 4 THEN v[i + 1] ELSE m[NULL][i]]]

\* PFA_RequestPage answers with the lowest free frame, or with NULL.
Answers(free) ==
  IF free = {} THEN {NULL} ELSE {f \in free : \A g \in free : f <= g}

\* One level: follow the entry that index number k selects, or put a zeroed
\* table behind it.  The index is read from the indexer again for the write,
\* after the table was zeroed.
Descend(w, k) ==
  LET pde == w.mem[w.table][w.mem[NULL][k]]
  IN  IF PDE_GetFlag(pde, PT_PRESENT)
      THEN {[w EXCEPT !.table = PDE_GetAddress(pde)]}
      ELSE {LET zeroed == ClearTable(w.mem, f)
            IN  [mem     |-> [zeroed EXCEPT ![w.table][zeroed[NULL][k]] = Entry(f)],
                 free    |-> w.free \ {f},
                 table   |-> f,
                 refused |-> w.refused \/ w.free = {}] : f \in Answers(w.free)}

Init ==
  /\ \E g \in Garbage : mem = [f \in Frames |-> [i \in Index |-> g]]
  /\ PML4 = NoTable
  /\ pool = TableFrames
  /\ exhausted = FALSE
  /\ requested = [v \in Pages |-> NoTable]

\* InitializeMemory requests and zeroes the root table before it creates the
\* manager; it does so once.
PTM_Create ==
  /\ PML4 = NoTable
  /\ \E f \in Answers(pool) :
       /\ mem' = ClearTable(mem, f)
       /\ pool' = pool \ {f}
       /\ PML4' = f
  /\ exhausted' = (exhausted \/ pool = {})

\* The walk down three levels, and the entry of the page at the fourth.
WalkAndMap(start, p) ==
  \E pdp \in Descend(start, 0) : \E pd \in Descend(pdp, 1) : \E pt \in Descend(pd, 2) :
    /\ mem' = [pt.mem EXCEPT ![pt.table][pt.mem[NULL][3]] = Entry(p)]
    /\ pool' = pt.free
    /\ exhausted' = pt.refused

PTM_MapMemory(v, p) ==
  /\ PML4 # NoTable
  /\ WalkAndMap([mem |-> PMI_Create(mem, v), free |-> pool,
                 table |-> PML4, refused |-> exhausted], p)
  /\ UNCHANGED PML4

\* Another user of the allocator gets a frame.
PFA_RequestPage ==
  /\ PML4 # NoTable
  /\ \E f \in Answers(pool) : pool' = pool \ {f}
  /\ UNCHANGED <<mem, PML4, exhausted>>

Remember(v, p) ==
  requested' = IF exhausted' THEN requested ELSE [requested EXCEPT ![v] = p]

Next ==
  \/ PTM_Create /\ UNCHANGED requested
  \/ PFA_RequestPage /\ UNCHANGED requested
  \/ \E v \in Pages, p \in Targets : PTM_MapMemory(v, p) /\ Remember(v, p)

Spec == Init /\ [][Next]_vars

-------------------------------------------------------------------------------
(***************************************************************************)
(* Properties                                                              *)
(***************************************************************************)

TypeOK ==
  /\ mem \in [Frames -> [Index -> 0 .. (LastFrame * FlagBits + FlagBits - 1)]]
  /\ PML4 \in Frames \cup {NoTable}
  /\ pool \subseteq TableFrames
  /\ exhausted \in BOOLEAN
  /\ \A v \in DOMAIN requested : requested[v] \in Targets \cup {NoTable}

\* The present entries of a set of tables, and the frames they refer to.
References(tables) ==
  {e \in tables \X Index : PDE_GetFlag(mem[e[1]][e[2]], PT_PRESENT)}

Children(tables) == {PDE_GetAddress(mem[e[1]][e[2]]) : e \in References(tables)}

Level1 == {PML4} \ {NoTable}
Level2 == Children(Level1)
Level3 == Children(Level2)
Level4 == Children(Level3)

Tables == Level1 \cup Level2 \cup Level3 \cup Level4

\* As long as no request fails, the tables form a tree below the root: every
\* table but the root is referred to by exactly one entry, no table is still
\* in the pool, and none is NULL.  A frame in two places of the tree would let
\* one page's mapping change another's.
TablesFormATree ==
  ~exhausted =>
    /\ Cardinality(References(Level1 \cup Level2 \cup Level3)) + Cardinality(Level1)
         = Cardinality(Tables)
    /\ Tables \cap (pool \cup {NULL}) = {}

\* What the processor finds behind a virtual page.
Lookup(v) ==
  LET step(t, i) == IF t = NoTable \/ ~PDE_GetFlag(mem[t][i], PT_PRESENT)
                    THEN NoTable ELSE PDE_GetAddress(mem[t][i])
  IN  step(step(step(step(PML4, v[1]), v[2]), v[3]), v[4])

\* Mapping a page gives that page its frame and leaves every other page alone,
\* whatever tables they share, until a request for a table fails.
Space == INSTANCE AddressSpace WITH
           Unmapped <- NoTable,
           mapping  <- [v \in Pages |-> Lookup(v)],
           lost     <- exhausted

ImplementsAddressSpace == Space!Spec
===============================================================================
