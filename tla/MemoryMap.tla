------------------------------ MODULE MemoryMap ------------------------------
(***************************************************************************)
(* What the kernel computes from the firmware's memory map: its size       *)
(* (memory.c), the bitmap for that size (utils/bitmap.c) and the bits      *)
(* PFA_InitEfiMemoryMap leaves set (paging/page_frame_allocator.c).        *)
(* Frames are numbered; a bitmap is the set of the indices whose bit is 1. *)
(***************************************************************************)
EXTENDS Integers, Sequences, FiniteSets

CONSTANTS
  LowFrames,   \* frames reserved at address 0 (0x100 in the code)
  FrameSize,   \* MEM_FRAME_SIZE, in bytes
  BitmapVar,   \* the frame that holds the variable g_pageBitmap.buffer
  PastBit      \* content of the bit behind the bitmap before it is cleared

ASSUME MemoryMapAssumption ==
  /\ LowFrames \in Nat
  /\ FrameSize \in Nat \ {0}
  /\ BitmapVar \in Nat
  /\ PastBit \in BOOLEAN

-------------------------------------------------------------------------------
(***************************************************************************)
(* The memory map (EFIMemoryDescriptor) and what the code reads off it.    *)
(***************************************************************************)

Descriptor == [type : 0..14, start : Nat, numPages : Nat]

EfiConventionalMemory == 7

FramesOf(d) == d.start .. (d.start + d.numPages - 1)

\* The frames the firmware gives away.
Conventional(m) ==
  UNION {FramesOf(m[i]) : i \in {j \in DOMAIN m : m[j].type = EfiConventionalMemory}}

\* MEM_GetTotalSize: the sum of the sizes, not the highest address.
TotalPages(m) ==
  LET sum[i \in 0..Len(m)] == IF i = 0 THEN 0 ELSE sum[i - 1] + m[i].numPages
  IN  sum[Len(m)]

\* Where the first of the largest free regions starts; frame 0 without one.
LargestFree(m) ==
  LET free == {i \in DOMAIN m : m[i].type = EfiConventionalMemory /\ m[i].numPages > 0}
  IN  IF free = {} THEN {0}
      ELSE {m[i].start : i \in {k \in free : \A j \in free :
               \/ m[j].numPages < m[k].numPages
               \/ m[j].numPages = m[k].numPages /\ k <= j}}

-------------------------------------------------------------------------------
(***************************************************************************)
(* The bitmap.  Bitmap_Set refuses an index above size * 8, so it accepts  *)
(* one bit behind the bitmap; PFA_RequestPage stops before that bit.       *)
(***************************************************************************)

BitmapSize(m) == TotalPages(m) \div 8 + 1

Settable(bytes) == 0 .. bytes * 8

\* InitBitmap: MEM_Set64 clears whole 8-byte words, so the bit behind the
\* bitmap survives only if the size is a multiple of 8.
ClearedBitmap(bytes) == IF bytes % 8 = 0 /\ PastBit THEN {bytes * 8} ELSE {}

FrameRange(first, count) == first .. (first + count - 1)

\* The frames of a range the loop really changes: it skips the bits that
\* already have the value, and Bitmap_Set refuses the indices it cannot hold.
ToSetUnbounded(bits, bytes, frames) == frames \ bits        \* mutant: no bound
ToSetAgain(bits, bytes, frames) == frames \cap Settable(bytes)  \* mutant: no skip
ToSet(bits, bytes, frames) == (frames \cap Settable(bytes)) \ bits
ToClear(bits, bytes, frames) == frames \cap Settable(bytes) \cap bits

\* The low frames are reserved again after conventional memory is given back.
NoLowPages == {}                                    \* mutant: never reserved
LowPages == 0 .. (LowFrames - 1)

-------------------------------------------------------------------------------
(***************************************************************************)
(* PFA_InitEfiMemoryMap, one call after the other: everything is reserved, *)
(* conventional memory is given back, the low frames are reserved again    *)
(* and the bitmap is locked -- at the address of the variable that points  *)
(* to it.                                                                  *)
(***************************************************************************)

Cleared(m) == ClearedBitmap(BitmapSize(m))

All(m) == ToSet(Cleared(m), BitmapSize(m), 0 .. TotalPages(m))

Given(m) == ToClear(Cleared(m) \cup All(m), BitmapSize(m), Conventional(m))

Low(m) == ToSet((Cleared(m) \cup All(m)) \ Given(m), BitmapSize(m), LowPages)

Reserved(m) == ((Cleared(m) \cup All(m)) \ Given(m)) \cup Low(m)

Self(m) ==
  ToSet(Reserved(m), BitmapSize(m), FrameRange(BitmapVar, BitmapSize(m) \div FrameSize + 1))
===============================================================================
