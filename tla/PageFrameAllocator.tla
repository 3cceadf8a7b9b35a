-------------------------- MODULE PageFrameAllocator --------------------------
(***************************************************************************)
(* The physical page frame allocator: paging/page_frame_allocator.c.       *)
(* MemoryMap has what it computes from the memory map and the bitmap.      *)
(*                                                                         *)
(* Addresses are frame numbers: the code divides every address by          *)
(* MEM_FRAME_SIZE before it looks at it.  The three byte counters only     *)
(* ever move by MEM_FRAME_SIZE, so they are kept in frames, as integers: a *)
(* negative one is what uint64_t wraps.                                    *)
(*                                                                         *)
(* A loop over pages whose body touches one bit per page is one operator   *)
(* on the set of pages.                                                    *)
(***************************************************************************)
EXTENDS MemoryMap

CONSTANTS
  MemMaps,   \* the memory maps the firmware may pass
  Ranges,    \* the <<first frame, count>> pairs callers lock and free
  NULL,      \* no frame
  NoAnswer   \* nothing was requested

VARIABLES
  mmap,              \* the memory map of this machine
  g_initialized,     \* has PFA_InitEfiMemoryMap run?
  size,              \* g_pageBitmap.size, in bytes
  buffer,            \* g_pageBitmap.buffer: the frame the bitmap starts in
  bitmap,            \* the indices whose bit is 1
  g_freeMemory,
  g_reservedMemory,
  g_usedMemory,
  g_lastReservedPage,
  owned,             \* history: frames requested or locked, and not freed since
  released,          \* history: frames freed that nobody held
  result             \* what the last call returned, if it was PFA_RequestPage

vars == <<mmap, g_initialized, size, buffer, bitmap, g_freeMemory,
          g_reservedMemory, g_usedMemory, g_lastReservedPage, owned, released, result>>

ASSUME PFAAssumption ==
  /\ MemMaps \subseteq Seq(Descriptor)
  /\ Ranges \subseteq Nat \X Nat
  /\ NULL \notin Nat
  /\ NoAnswer \notin Nat \cup {NULL}

\* The bits PFA_RequestPage looks at.
Scannable == 0 .. (size * 8 - 1)

-------------------------------------------------------------------------------

Init ==
  /\ mmap \in MemMaps
  /\ g_initialized = FALSE
  /\ size = 0
  /\ buffer = 0
  /\ bitmap = {}
  /\ g_freeMemory = 0
  /\ g_reservedMemory = 0
  /\ g_usedMemory = 0
  /\ g_lastReservedPage = 0
  /\ owned = {}
  /\ released = {}
  /\ result = NoAnswer

\* A second call returns at once.
PFA_InitEfiMemoryMap ==
  /\ ~g_initialized
  /\ g_initialized' = TRUE
  /\ size' = BitmapSize(mmap)
  /\ buffer' \in LargestFree(mmap)
  /\ bitmap' = Reserved(mmap) \cup Self(mmap)
  /\ g_freeMemory' = TotalPages(mmap) - Cardinality(All(mmap)) + Cardinality(Given(mmap))
                       - Cardinality(Low(mmap)) - Cardinality(Self(mmap))
  /\ g_reservedMemory' = Cardinality(All(mmap)) - Cardinality(Given(mmap))
                           + Cardinality(Low(mmap))
  /\ g_usedMemory' = Cardinality(Self(mmap))
  /\ g_lastReservedPage' = 0
  /\ owned' = Self(mmap)
  /\ UNCHANGED <<mmap, released, result>>

\* Mutant: the bit of a locked frame stays clear.
CountWithoutMarking(frames) ==
  /\ g_freeMemory' = g_freeMemory - Cardinality(ToSet(bitmap, size, frames))
  /\ g_usedMemory' = g_usedMemory + Cardinality(ToSet(bitmap, size, frames))
  /\ owned' = owned \cup ToSet(bitmap, size, frames)
  /\ UNCHANGED bitmap

\* PFA_LockPage for every frame of a set.
LockFrames(frames) ==
  LET new == ToSet(bitmap, size, frames)
  IN  /\ bitmap' = bitmap \cup new
      /\ g_freeMemory' = g_freeMemory - Cardinality(new)
      /\ g_usedMemory' = g_usedMemory + Cardinality(new)
      /\ owned' = owned \cup new

PFA_LockPages(first, count) ==
  /\ g_initialized
  /\ LockFrames(FrameRange(first, count))
  /\ result' = NoAnswer
  /\ UNCHANGED <<mmap, g_initialized, size, buffer, g_reservedMemory, g_lastReservedPage,
                 released>>

\* Mutant: the scan stops one frame early.
NoneFreeButLast ==
  \A i \in Scannable : i >= g_lastReservedPage /\ i < size * 8 - 1 => i \in bitmap

\* The loop of PFA_RequestPage found every bit from the hint on set.
NoneFree == \A i \in Scannable : i >= g_lastReservedPage => i \in bitmap

\* The scan starts at the hint and takes the first clear bit.
PFA_RequestPage ==
  /\ g_initialized
  /\ \/ \E index \in Scannable \ bitmap :
          /\ g_lastReservedPage <= index
          /\ \A i \in g_lastReservedPage .. (index - 1) : i \in bitmap
          /\ LockFrames({index})
          /\ g_lastReservedPage' = index
          /\ result' = index
     \/ /\ NoneFree
        /\ result' = NULL
        /\ UNCHANGED <<bitmap, g_freeMemory, g_usedMemory, g_lastReservedPage, owned>>
  /\ UNCHANGED <<mmap, g_initialized, size, buffer, g_reservedMemory, released>>

\* The hint follows the lowest frame freed.
HintStays(freed) == UNCHANGED g_lastReservedPage    \* mutant: not lowered
HintFollows(freed) ==
  /\ g_lastReservedPage' \in freed \cup {g_lastReservedPage}
  /\ \A i \in freed \cup {g_lastReservedPage} : g_lastReservedPage' <= i

\* A frame of the range that is free already is skipped; any other is freed,
\* whether the caller holds it, somebody else does, or it is reserved.
PFA_FreePages(first, count) ==
  LET freed == ToClear(bitmap, size, FrameRange(first, count))
  IN
  /\ g_initialized
  /\ bitmap' = bitmap \ freed
  /\ g_freeMemory' = g_freeMemory + Cardinality(freed)
  /\ g_usedMemory' = g_usedMemory - Cardinality(freed)
  /\ HintFollows(freed)
  /\ owned' = owned \ freed
  /\ released' = released \cup (freed \ owned)
  /\ result' = NoAnswer
  /\ UNCHANGED <<mmap, g_initialized, size, buffer, g_reservedMemory>>

Next ==
  \/ PFA_InitEfiMemoryMap
  \/ PFA_RequestPage
  \/ \E r \in Ranges : PFA_LockPages(r[1], r[2])
  \/ \E r \in Ranges : PFA_FreePages(r[1], r[2])

Spec == Init /\ [][Next]_vars

-------------------------------------------------------------------------------
(***************************************************************************)
(* Properties                                                              *)
(***************************************************************************)

TypeOK ==
  /\ mmap \in MemMaps
  /\ g_initialized \in BOOLEAN
  /\ size \in Nat
  /\ buffer \in Nat
  /\ bitmap \subseteq Settable(size)
  /\ g_freeMemory \in Int
  /\ g_reservedMemory \in Int
  /\ g_usedMemory \in Int
  /\ g_lastReservedPage \in Nat
  /\ owned \subseteq Nat
  /\ released \subseteq Settable(size)
  /\ result \in Nat \cup {NULL, NoAnswer}

\* No frame below the hint is free.  PFA_RequestPage never looks below it, so
\* this is what makes its NULL mean that memory is exhausted.
HintIsBelowFreeFrames ==
  \A i \in Scannable \ bitmap : g_lastReservedPage <= i

\* A frame somebody holds is marked: the scan of PFA_RequestPage cannot give
\* it to a second caller, whatever order frames are locked and freed in.
OwnedFramesAreMarked == owned \subseteq bitmap

\* The bits the reserving loop does not come to: it stops at total + 1 bits and
\* the bitmap has up to seven more.  If the memory map has no hole, no descriptor
\* stands for them; the total is a sum of sizes, so behind a hole they may as well
\* be frames the firmware keeps.
NeverReserved == (TotalPages(mmap) + 1) .. (size * 8 - 1)

\* What PFA_InitEfiMemoryMap puts into circulation.
Allocatable ==
  ((Conventional(mmap) \cup NeverReserved) \cap Scannable) \ (0 .. (LowFrames - 1))

\* What circulates, free or held, is what the initialisation put there and the
\* reserved frames some caller has freed, which PFA_FreePage does not refuse: no
\* order of requests, locks and frees, of whatever frames, loses a frame, and
\* none but a free of a reserved frame itself adds one.
FramesConserved ==
  g_initialized =>
    /\ (Scannable \ bitmap) \cup (owned \cap Scannable)
         = Allocatable \cup (released \cap Scannable)
    /\ released \cap Allocatable = {}

\* The bits ReservePages did not count when g_freeMemory was the size of memory.
Uncounted == size * 8 + 1 - Cardinality(ClearedBitmap(size)) - TotalPages(mmap)

\* The counters follow the bitmap: every transition of a bit moves exactly two
\* of them, so free memory is the number of clear bits short of the bits
\* beyond the memory map, and the three add up to the memory of the machine.
\* The free of a reserved frame is counted as one of a used frame, never as one
\* of a reserved frame: with nothing held, g_usedMemory falls below 0.
CountersFollowBitmap ==
  g_initialized =>
    /\ g_freeMemory = Cardinality(Settable(size) \ bitmap) - Uncounted
    /\ g_usedMemory = Cardinality(owned) - Cardinality(released)
    /\ g_freeMemory + g_reservedMemory + g_usedMemory = TotalPages(mmap)

\* The allocator implements the pool of frames: a request takes a frame out of
\* the pool and is refused only when the pool is empty.
Pool == INSTANCE FramePool WITH
          ready <- g_initialized,
          pool  <- IF g_initialized THEN Scannable \ bitmap ELSE {},
          owned <- owned \cap Scannable

ImplementsFramePool == Pool!Spec

\* What PFA_InitEfiMemoryMap locks g_pageBitmap for: the frames the bitmap
\* occupies are never given to a caller, who would overwrite it.
BitmapNeverHandedOut ==
  result \notin FrameRange(buffer, (size - 1) \div FrameSize + 1)
===============================================================================
