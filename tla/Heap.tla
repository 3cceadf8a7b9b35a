--------------------------------- MODULE Heap ---------------------------------
(***************************************************************************)
(* The kernel heap: memory/heap.c.  A list of segments, each behind a      *)
(* header (CurrentSegHdr), grown page by page at its end.                     *)
(*                                                                         *)
(* Addresses and lengths count units of 0x10 bytes, the granularity        *)
(* MEM_Malloc rounds a size up to; the heap starts at unit 0.  A header    *)
(* that was merged away stays in memory, as it does in the code: whoever   *)
(* still holds the block behind it passes it to MEM_Free.                  *)
(*                                                                         *)
(* MEM_ExpandHeap maps each page it adds (PageTableManager); here the      *)
(* pages are there when they are asked for.  MEM_HeapSegHdrSplit stores to *)
(* next->last even if next is NULL: that store lands in the indexer        *)
(* PMI_Create keeps at address 0 and is overwritten before it is read.     *)
(***************************************************************************)
EXTENDS Integers, FiniteSets

CONSTANTS
  HdrSize,      \* sizeof(CurrentSegHdr), 2 units
  PageSize,     \* MEM_FRAME_SIZE, 256 units
  StartPages,   \* the pages MEM_InitializeHeap maps, 0x10
  Sizes,        \* the sizes callers ask for, rounded up to units
  MaxBlocks,    \* bound: the blocks ever allocated
  NULL

VARIABLES
  segs,       \* the headers in memory, by address
  g_HeapEnd,
  g_LastHdr,
  live,       \* history: the blocks allocated and not freed
  count       \* the number of blocks allocated so far, up to MaxBlocks

vars == <<segs, g_HeapEnd, g_LastHdr, live, count>>

g_HeapStart == 0

ASSUME HeapAssumption ==
  /\ HdrSize \in Nat \ {0}
  /\ PageSize \in Nat /\ PageSize > HdrSize
  /\ StartPages \in Nat \ {0}
  /\ Sizes \subseteq Nat \ {0}
  /\ MaxBlocks \in Nat
  /\ NULL \notin Nat

HeapSegHdr == [lenght : Nat, next : Nat \cup {NULL}, last : Nat \cup {NULL}, free : BOOLEAN]

-------------------------------------------------------------------------------
(***************************************************************************)
(* The list.  A heap h is a record of the three variables it lives in.     *)
(***************************************************************************)

Current == [segs |-> segs, end |-> g_HeapEnd, lastHdr |-> g_LastHdr]

\* The headers in the order the list gives them, NULL behind the last.
Walk(h) ==
  LET at[n \in 0 .. Cardinality(DOMAIN h.segs)] ==
        IF n = 0 THEN g_HeapStart
        ELSE LET s == at[n - 1] IN IF s = NULL THEN NULL ELSE h.segs[s].next
  IN  at

Listed(h) == LET at == Walk(h) IN {at[n] : n \in DOMAIN at} \ {NULL}

\* The last header after segment s took in its successor n.
LastStays(h, s, n) == h.lastHdr                     \* mutant: not updated
LastAfter(h, s, n) == IF h.lastHdr = n THEN s ELSE h.lastHdr

\* MEM_HeapSegHdrCombineForward: takes in the next segment, free or not.
CombineForward(h, s) ==
  LET n  == h.segs[s].next
      nn == h.segs[n].next
      relinked == IF nn = NULL THEN h.segs ELSE [h.segs EXCEPT ![nn].last = s]
  IN  IF n = NULL \/ ~h.segs[s].free THEN h
      ELSE [h EXCEPT !.lastHdr = LastAfter(h, s, n),
                     !.segs = [relinked EXCEPT ![s].lenght = @ + h.segs[n].lenght + HdrSize,
                                               ![s].next = nn]]

\* MEM_HeapSegHdrCombineBackward.
CombineBackward(h, s) ==
  LET l == h.segs[s].last
  IN  IF l # NULL /\ h.segs[l].free THEN CombineForward(h, l) ELSE h

\* Where the second part of a split starts.
BehindNoHeader(s, len) == s + len                   \* mutant: the header is forgotten
Behind(s, len) == s + len + HdrSize

\* MEM_HeapSegHdrSplit: the new segment is given the length of the first part,
\* not of the rest.
Split(h, s, len) ==
  LET hdr  == h.segs[s]
      rest == hdr.lenght - len - HdrSize
      new  == Behind(s, len)
      newHdr == [lenght |-> len, next |-> hdr.next, last |-> s, free |-> hdr.free]
      relinked == IF hdr.next = NULL THEN h.segs ELSE [h.segs EXCEPT ![hdr.next].last = new]
  IN  IF len < 1 \/ rest < 1 THEN h
      ELSE [h EXCEPT
              !.lastHdr = IF @ = s THEN new ELSE @,
              !.segs = [a \in DOMAIN h.segs \cup {new} |->
                          IF a = new THEN newHdr
                          ELSE IF a = s THEN [hdr EXCEPT !.next = new, !.lenght = len]
                          ELSE relinked[a]]]

\* MEM_ExpandHeap: whole pages, as one free segment, joined to a free last one.
PagesDown(len) == len \div PageSize                 \* mutant: rounded down
Pages(len) == (len + PageSize - 1) \div PageSize

EndByCount(h, len) == h.end + Pages(len)            \* mutant: pages, not units
EndAfter(h, len) == h.end + Pages(len) * PageSize

Expand(h, len) ==
  LET new == h.end
      newHdr == [lenght |-> Pages(len) * PageSize - HdrSize, next |-> NULL,
                 last |-> h.lastHdr, free |-> TRUE]
      linked == [h.segs EXCEPT ![h.lastHdr].next = new]
  IN  CombineBackward(
        [segs |-> [a \in DOMAIN h.segs \cup {new} |-> IF a = new THEN newHdr ELSE linked[a]],
         end |-> EndAfter(h, len),
         lastHdr |-> new],
        new)

\* The positions in the list of the free segments that are long enough.
Fitting(h, size) ==
  LET at == Walk(h)
  IN  {n \in DOMAIN at : at[n] # NULL /\ h.segs[at[n]].free /\ h.segs[at[n]].lenght >= size}

\* MEM_Malloc takes the first of them.
FirstFit(h, size) ==
  LET fits == Fitting(h, size)
  IN  Walk(h)[CHOOSE n \in fits : \A m \in fits : n <= m]

\* Mutant: the segment stays free.
UseLeftFree(h, s, size) == IF h.segs[s].lenght > size THEN Split(h, s, size) ELSE h

\* Splits the segment unless it fits exactly, and marks it in use.
Use(h, s, size) ==
  LET cut == IF h.segs[s].lenght > size THEN Split(h, s, size) ELSE h
  IN  [cut EXCEPT !.segs[s].free = FALSE]

\* The heap MEM_Malloc finds room in: it expands and starts over until a
\* segment fits.  MallocTerminates states that two expansions are enough.
RoomFor(h, size) ==
  LET once == Expand(h, size) IN
  IF Fitting(h, size) # {} THEN h
  ELSE IF Fitting(once, size) # {} THEN once
  ELSE Expand(once, size)

-------------------------------------------------------------------------------

\* What MEM_InitializeHeap leaves in g_LastHdr.
NoLastHdr == NULL                                   \* mutant: never set
FirstLastHdr == g_HeapStart

Init ==
  /\ g_HeapEnd = StartPages * PageSize
  /\ segs = [a \in {g_HeapStart} |->
               [lenght |-> StartPages * PageSize - HdrSize,
                next |-> NULL, last |-> NULL, free |-> TRUE]]
  /\ g_LastHdr = FirstLastHdr
  /\ live = {}
  /\ count = 0

Become(h) ==
  /\ segs' = h.segs
  /\ g_HeapEnd' = h.end
  /\ g_LastHdr' = h.lastHdr

MEM_Malloc(size) ==
  LET room == RoomFor(Current, size)
      s    == FirstFit(room, size)
  IN
  /\ count < MaxBlocks
  /\ Become(Use(room, s, size))
  /\ live' = live \cup {[addr |-> s + HdrSize, size |-> size]}
  /\ count' = count + 1

MEM_Free(b) ==
  LET s == b.addr - HdrSize
      freed == [Current EXCEPT !.segs[s].free = TRUE]
  IN
  /\ Become(CombineBackward(CombineForward(freed, s), s))
  /\ live' = live \ {b}
  /\ UNCHANGED count

Malloc == \E size \in Sizes : MEM_Malloc(size)

Free == \E b \in live : MEM_Free(b)

\* The block allocated last among those in use, the one with the highest address.
FreeTop == \E b \in live : (\A c \in live : c.addr <= b.addr) /\ MEM_Free(b)

Next == Malloc \/ Free

\* Callers that allocate and free in any order.
Spec == Init /\ [][Next]_vars

\* Callers that free in the reverse order of allocation, or, as the kernel of
\* this commit, not at all.
StackSpec == Init /\ [][Malloc \/ FreeTop]_vars

-------------------------------------------------------------------------------
(***************************************************************************)
(* Properties                                                              *)
(***************************************************************************)

TypeOK ==
  /\ DOMAIN segs \subseteq Nat
  /\ segs \in [DOMAIN segs -> HeapSegHdr]
  /\ g_HeapEnd \in Nat
  /\ g_LastHdr \in DOMAIN segs
  /\ live \subseteq [addr : Nat, size : Sizes]
  /\ count \in 0 .. MaxBlocks

\* The units from a up to b, and those from c up to d, have none in common.
Apart(a, b, c, d) == b <= c \/ d <= a

\* No two callers share memory.
LiveBlocksDisjoint ==
  \A b, c \in live :
    b = c \/ Apart(b.addr, b.addr + b.size, c.addr, c.addr + c.size)

\* A caller's memory is memory the heap has mapped.
LiveBlocksInsideHeap ==
  \A b \in live : b.addr >= g_HeapStart + HdrSize /\ b.addr + b.size <= g_HeapEnd

\* A caller cannot overwrite a header the list goes through.
HeadersUntouched ==
  \A b \in live, s \in Listed(Current) : Apart(b.addr, b.addr + b.size, s, s + HdrSize)

\* The list is linked both ways, in the order of the addresses, and ends at
\* g_LastHdr, where the heap grows.
ListWellFormed ==
  /\ segs[g_HeapStart].last = NULL
  /\ g_LastHdr \in Listed(Current)
  /\ \A s \in Listed(Current) :
       /\ s = g_LastHdr <=> segs[s].next = NULL
       /\ segs[s].next # NULL =>
            /\ segs[segs[s].next].last = s
            /\ segs[s].next >= s + HdrSize + segs[s].lenght

\* MEM_Malloc's recursion ends: it never expands the heap a third time.
MallocTerminates ==
  \A size \in Sizes : Fitting(RoomFor(Current, size), size) # {}
===============================================================================
