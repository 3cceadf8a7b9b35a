------------------------ MODULE MCPageFrameAllocator ------------------------
(***************************************************************************)
(* PageFrameAllocator on every small memory map: up to three regions of    *)
(* two types with and without holes, and one map whose bitmap fills a      *)
(* whole number of 8-byte words.                                           *)
(***************************************************************************)
EXTENDS PageFrameAllocator

EfiLoaderData == 2

Region(type, start, n) == [type |-> type, start |-> start, numPages |-> n]

\* Two or three regions, some free, the last one behind a hole or not.
SmallMaps ==
  {<<Region(t1, 0, n1), Region(EfiConventionalMemory, n1 + gap, n2)>> :
     t1 \in {EfiLoaderData, EfiConventionalMemory},
     n1 \in {3, 4}, n2 \in {2, 4}, gap \in {0, 2}}
  \cup
  {<<Region(EfiConventionalMemory, 0, 4), Region(EfiLoaderData, 4, 2),
     Region(t3, 6 + gap, 3)>> :
     t3 \in {EfiLoaderData, EfiConventionalMemory}, gap \in {0, 3}}

\* 58 frames need an 8-byte bitmap: the bit behind it is not cleared.
WordMap ==
  <<Region(EfiLoaderData, 0, 55), Region(EfiConventionalMemory, 55, 3)>>

MCMemMaps == SmallMaps \cup {WordMap}

\* Callers lock low memory, frames across the end of a small bitmap, and
\* frames across the end of the 8-byte one.
MCRanges == {<<1, 2>>, <<4, 3>>, <<7, 2>>, <<56, 1>>, <<62, 4>>}
=============================================================================
