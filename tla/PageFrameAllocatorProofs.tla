----------------------- MODULE PageFrameAllocatorProofs -----------------------
(***************************************************************************)
(* The page frame allocator for every memory map, every frame size and     *)
(* every history of requests, locks and frees: its invariants, and that it *)
(* implements FramePool.                                                   *)
(***************************************************************************)
EXTENDS PageFrameAllocator, MemoryMapProofs

-------------------------------------------------------------------------------
(***************************************************************************)
(* Sets of bits and their sizes                                            *)
(***************************************************************************)

\* The bits Bitmap_Set can reach form a finite set: size * 8 + 1 of them.
LEMMA SettableFinite ==
  ASSUME NEW bytes \in Nat
  PROVE  /\ IsFiniteSet(Settable(bytes))
         /\ Cardinality(Settable(bytes)) = bytes * 8 + 1
BY FS_Interval, bytes * 8 \in Nat DEF Settable

\* The size of a set of bits is a number.
LEMMA BitsFinite ==
  ASSUME NEW bytes \in Nat, NEW B \in SUBSET Settable(bytes)
  PROVE  IsFiniteSet(B) /\ Cardinality(B) \in Nat
BY SettableFinite, FS_Subset, FS_CardinalityType

\* Setting bits that are clear adds as many set bits.
LEMMA SetBits ==
  ASSUME NEW bytes \in Nat, NEW B \in SUBSET Settable(bytes),
         NEW F \in SUBSET Settable(bytes), B \cap F = {}
  PROVE  /\ B \cup F \subseteq Settable(bytes)
         /\ Cardinality(B \cup F) = Cardinality(B) + Cardinality(F)
<1>1. IsFiniteSet(B) /\ IsFiniteSet(F)
  BY BitsFinite
<1>2. Cardinality(B) \in Nat /\ Cardinality(F) \in Nat
  BY BitsFinite
<1>3. Cardinality(B \cup F)
        = Cardinality(B) + Cardinality(F) - Cardinality(B \cap F)
  BY <1>1, FS_Union
<1> QED
  BY <1>2, <1>3, FS_EmptySet

\* Clearing bits that are set removes as many set bits.
LEMMA ClearBits ==
  ASSUME NEW bytes \in Nat, NEW B \in SUBSET Settable(bytes),
         NEW F \in SUBSET B
  PROVE  /\ B \ F \subseteq Settable(bytes)
         /\ Cardinality(B \ F) = Cardinality(B) - Cardinality(F)
<1>1. IsFiniteSet(B)
  BY BitsFinite
<1>2. B \cap F = F
  OBVIOUS
<1> QED
  BY <1>1, <1>2, FS_Difference

\* The number of clear bits and the number of set ones add up.
LEMMA ClearCount ==
  ASSUME NEW bytes \in Nat, NEW B \in SUBSET Settable(bytes)
  PROVE  Cardinality(Settable(bytes) \ B) = bytes * 8 + 1 - Cardinality(B)
<1>1. B \cap Settable(bytes) = B /\ Settable(bytes) \cap B = B
  OBVIOUS
<1>2. Cardinality(Settable(bytes) \ B)
        = Cardinality(Settable(bytes)) - Cardinality(Settable(bytes) \cap B)
  BY SettableFinite, FS_Difference
<1>3. Cardinality(B) \in Nat
  BY BitsFinite
<1> QED
  BY <1>1, <1>2, <1>3, SettableFinite

-------------------------------------------------------------------------------
(***************************************************************************)
(* The inductive invariant                                                 *)
(***************************************************************************)

\* The counters in terms of the set bits, which is how a step changes them.
CountersCountBits ==
  g_initialized =>
    /\ g_freeMemory = size * 8 + 1 - Cardinality(bitmap) - Uncounted
    /\ g_usedMemory = Cardinality(owned) - Cardinality(released)
    /\ g_freeMemory + g_reservedMemory + g_usedMemory = TotalPages(mmap)

\* A frame released while it was reserved is free from then on, or held.
ReleasedCirculate ==
  /\ ~g_initialized => released = {}
  /\ released \cap bitmap \subseteq owned

\* What every operation keeps: the invariants in the form a step preserves, and where
\* released frames are.
IInv ==
  /\ TypeOK
  /\ HintIsBelowFreeFrames
  /\ OwnedFramesAreMarked
  /\ FramesConserved
  /\ ReleasedCirculate
  /\ CountersCountBits

\* The bitmap PFA_InitEfiMemoryMap sizes has at least one byte and a bit for every
\* page of the memory map.
LEMMA MapTypes ==
  ASSUME NEW m \in MemMaps
  PROVE  /\ TotalPages(m) \in Nat
         /\ BitmapSize(m) \in Nat \ {0}
         /\ BitmapSize(m) * 8 > TotalPages(m)
<1>1. TotalPages(m) \in Nat
  BY PFAAssumption, TotalIsNatural
<1> QED
  BY <1>1 DEF BitmapSize

\* The bitmap is put at some frame.
LEMMA LargestFreeType ==
  ASSUME NEW m \in MemMaps
  PROVE  LargestFree(m) \subseteq Nat
<1>1. \A i \in DOMAIN m : m[i].start \in Nat
  <2>1. m \in Seq(Descriptor)
    BY PFAAssumption
  <2>2. \A i \in DOMAIN m : m[i] \in Descriptor
    BY <2>1
  <2> QED
    BY <2>2 DEF Descriptor
<1> QED
  BY <1>1 DEF LargestFree

\* The bits left by the clearing loop are bits of the bitmap.
LEMMA ClearedType ==
  ASSUME NEW bytes \in Nat
  PROVE  ClearedBitmap(bytes) \subseteq Settable(bytes)
BY bytes * 8 \in 0 .. bytes * 8 DEF ClearedBitmap, Settable

-------------------------------------------------------------------------------
(***************************************************************************)
(* The initial states                                                      *)
(***************************************************************************)

\* The statics of the allocator, before PFA_InitEfiMemoryMap runs, satisfy the
\* invariant: nothing is held and nothing is counted.
LEMMA InitIInv == Init => IInv
<1> SUFFICES ASSUME Init PROVE IInv
  OBVIOUS
<1> USE DEF Init
<1>1. TypeOK
  <2>1. g_initialized \in BOOLEAN
    BY Zenon
  <2>2. /\ mmap \in MemMaps /\ bitmap \subseteq Settable(size) /\ owned \subseteq Nat
        /\ released \subseteq Settable(size)
    OBVIOUS
  <2>3. result \in Nat \cup {NULL, NoAnswer} /\ g_lastReservedPage \in Nat
    OBVIOUS
  <2> QED
    BY <2>1, <2>2, <2>3 DEF TypeOK
<1>2. HintIsBelowFreeFrames
  BY DEF HintIsBelowFreeFrames, Scannable
<1>3. OwnedFramesAreMarked /\ FramesConserved /\ ReleasedCirculate /\ CountersCountBits
  BY DEF OwnedFramesAreMarked, FramesConserved, ReleasedCirculate, CountersCountBits
<1> QED
  BY <1>1, <1>2, <1>3 DEF IInv

-------------------------------------------------------------------------------
(***************************************************************************)
(* PFA_InitEfiMemoryMap                                                    *)
(***************************************************************************)

\* PFA_InitEfiMemoryMap establishes the invariant: each of its four passes over
\* the bitmap moves as many frames between the counters as it changes bits.
LEMMA InitEfiIInv ==
  ASSUME IInv, PFA_InitEfiMemoryMap
  PROVE  IInv'
<1> DEFINE total   == TotalPages(mmap)
           bytes   == BitmapSize(mmap)
           cleared == Cleared(mmap)
           all     == All(mmap)
           full    == cleared \cup all
           given   == Given(mmap)
           low     == Low(mmap)
           marked  == (full \ given) \cup low
           self    == Self(mmap)
<1>1. mmap \in MemMaps /\ TypeOK /\ released = {}
  BY DEF IInv, TypeOK, ReleasedCirculate, PFA_InitEfiMemoryMap
<1>2. /\ size' = bytes
      /\ buffer' \in LargestFree(mmap)
      /\ bitmap' = marked \cup self
      /\ g_freeMemory' = total - Cardinality(all) + Cardinality(given)
                               - Cardinality(low) - Cardinality(self)
      /\ g_reservedMemory' = Cardinality(all) - Cardinality(given) + Cardinality(low)
      /\ g_usedMemory' = Cardinality(self)
      /\ g_lastReservedPage' = 0
      /\ owned' = self
      /\ mmap' = mmap /\ result' = result
      /\ released' = {} /\ g_initialized'
  BY <1>1 DEF PFA_InitEfiMemoryMap, Reserved
<1>3. total \in Nat /\ bytes \in Nat \ {0} /\ bytes * 8 > total
  BY <1>1, MapTypes
<1>4. /\ cleared \subseteq Settable(bytes)
      /\ all \subseteq Settable(bytes) /\ cleared \cap all = {}
      /\ given \subseteq full
      /\ low \subseteq Settable(bytes) /\ (full \ given) \cap low = {}
      /\ self \subseteq Settable(bytes) /\ marked \cap self = {}
  BY <1>3, ClearedType DEF ToSet, ToClear, Cleared, All, Given, Low, Self, Reserved
<1> HIDE DEF total, bytes, cleared, all, given, low, self
<1>5. /\ full \subseteq Settable(bytes)
      /\ Cardinality(full) = Cardinality(cleared) + Cardinality(all)
  BY <1>3, <1>4, SetBits
<1>6. /\ full \ given \subseteq Settable(bytes)
      /\ Cardinality(full \ given) = Cardinality(full) - Cardinality(given)
  BY <1>3, <1>4, <1>5, ClearBits
<1>7. /\ marked \subseteq Settable(bytes)
      /\ Cardinality(marked) = Cardinality(full \ given) + Cardinality(low)
  BY <1>3, <1>4, <1>6, SetBits
<1>8. /\ marked \cup self \subseteq Settable(bytes)
      /\ Cardinality(marked \cup self) = Cardinality(marked) + Cardinality(self)
  BY <1>3, <1>4, <1>7, SetBits
<1>9. /\ Cardinality(cleared) \in Nat /\ Cardinality(all) \in Nat
      /\ Cardinality(given) \in Nat /\ Cardinality(low) \in Nat
      /\ Cardinality(self) \in Nat
  BY <1>3, <1>4, <1>5, BitsFinite
<1>10. TypeOK'
  <2>1. self \subseteq Nat /\ bitmap' \subseteq Settable(size')
    BY <1>2, <1>4, <1>8 DEF Settable
  <2>2. buffer' \in Nat
    BY <1>1, <1>2, LargestFreeType
  <2>3. result' \in Nat \cup {NULL, NoAnswer}
    BY <1>1, <1>2 DEF TypeOK
  <2>4. g_freeMemory' \in Int /\ g_reservedMemory' \in Int /\ g_usedMemory' \in Int
    BY <1>2, <1>3, <1>9
  <2>5. g_initialized' \in BOOLEAN
    BY DEF PFA_InitEfiMemoryMap
  <2>6. size' \in Nat /\ g_lastReservedPage' \in Nat /\ owned' \subseteq Nat
    BY <1>2, <1>3, <2>1
  <2> QED
    BY <1>1, <1>2, <2>1, <2>2, <2>3, <2>4, <2>5, <2>6 DEF TypeOK
<1>11. HintIsBelowFreeFrames'
  BY <1>2, <1>3 DEF HintIsBelowFreeFrames, Scannable
<1>12. OwnedFramesAreMarked'
  BY <1>2 DEF OwnedFramesAreMarked
<1>13. FramesConserved'
  <2>1. \A i \in 0 .. (bytes * 8 - 1) :
           i \in marked <=> i \in LowPages \/ (i <= total /\ i \notin Conventional(mmap))
    BY <1>3 DEF total, bytes, cleared, all, given, low, Cleared, All, Given, Low,
                ToSet, ToClear, ClearedBitmap, Settable
  <2>2. (Scannable \ bitmap)' \cup (owned \cap Scannable)'
          = (0 .. (bytes * 8 - 1)) \ marked
    BY <1>2, <1>4 DEF Scannable
  <2>3. Allocatable'
          = ((Conventional(mmap) \cup ((total + 1) .. (bytes * 8 - 1)))
               \cap (0 .. (bytes * 8 - 1))) \ LowPages
    BY <1>2 DEF Allocatable, NeverReserved, Scannable, total, LowPages
  <2> HIDE DEF marked
  <2> QED
    BY <1>2, <1>3, <2>1, <2>2, <2>3 DEF FramesConserved
<1>14. CountersCountBits'
  <2>1. Uncounted' = bytes * 8 + 1 - Cardinality(cleared) - total
    BY <1>2 DEF Uncounted, Cleared, cleared, total, bytes
  <2>2. Cardinality(bitmap')
          = Cardinality(cleared) + Cardinality(all) - Cardinality(given)
              + Cardinality(low) + Cardinality(self)
    BY <1>2, <1>5, <1>6, <1>7, <1>8, <1>9
  <2>3. TotalPages(mmap') = total
    BY <1>2 DEF total
  <2>4. g_freeMemory' = bytes * 8 + 1 - Cardinality(bitmap') - Uncounted'
    BY <1>2, <1>3, <1>9, <2>1, <2>2
  <2>5. g_freeMemory' + g_reservedMemory' + g_usedMemory' = total
    BY <1>2, <1>3, <1>9
  <2>6. g_usedMemory' = Cardinality(owned') - Cardinality(released')
    BY <1>2, <1>9, FS_EmptySet
  <2> QED
    BY <1>2, <2>3, <2>4, <2>5, <2>6 DEF CountersCountBits
<1>15. ReleasedCirculate'
  BY <1>2 DEF ReleasedCirculate
<1> QED
  BY <1>10, <1>11, <1>12, <1>13, <1>14, <1>15 DEF IInv

-------------------------------------------------------------------------------
(***************************************************************************)
(* Locking, requesting and freeing                                         *)
(***************************************************************************)

\* The bits ReservePages did not count are a whole number of frames.
LEMMA UncountedType == TypeOK => Uncounted \in Int
<1> SUFFICES ASSUME TypeOK PROVE Uncounted \in Int
  OBVIOUS
<1>1. mmap \in MemMaps /\ size \in Nat
  BY DEF TypeOK
<1>2. TotalPages(mmap) \in Nat
  BY <1>1, MapTypes
<1>3. Cardinality(ClearedBitmap(size)) \in Nat
  BY <1>1, ClearedType, BitsFinite
<1> QED
  BY <1>1, <1>2, <1>3 DEF Uncounted

\* What PFA_LockPage does to the bitmap and the counters, for any set of
\* frames: the part of the invariant that does not speak of the hint.
LEMMA LockFramesKeeps ==
  ASSUME IInv, g_initialized, NEW frames, LockFrames(frames),
         UNCHANGED <<mmap, g_initialized, size, buffer, g_reservedMemory, released>>
  PROVE  /\ bitmap \subseteq bitmap' /\ bitmap' \subseteq Settable(size)
         /\ owned' \subseteq Nat
         /\ g_freeMemory' \in Int /\ g_usedMemory' \in Int
         /\ OwnedFramesAreMarked'
         /\ FramesConserved'
         /\ ReleasedCirculate'
         /\ CountersCountBits'
<1> DEFINE new == ToSet(bitmap, size, frames)
<1>1. TypeOK /\ OwnedFramesAreMarked /\ FramesConserved /\ ReleasedCirculate /\ CountersCountBits
  BY DEF IInv
<1>2. /\ size \in Nat /\ bitmap \subseteq Settable(size) /\ owned \subseteq bitmap
      /\ g_freeMemory \in Int /\ g_usedMemory \in Int /\ g_reservedMemory \in Int
      /\ released \subseteq Settable(size)
  BY <1>1 DEF TypeOK, OwnedFramesAreMarked
<1>3. new \subseteq Settable(size) /\ bitmap \cap new = {} /\ owned \cap new = {}
  BY <1>2 DEF ToSet
<1>4. /\ bitmap' = bitmap \cup new /\ owned' = owned \cup new
      /\ g_freeMemory' = g_freeMemory - Cardinality(new)
      /\ g_usedMemory' = g_usedMemory + Cardinality(new)
  BY DEF LockFrames
<1> HIDE DEF new
<1>5. /\ bitmap' \subseteq Settable(size)
      /\ Cardinality(bitmap') = Cardinality(bitmap) + Cardinality(new)
  BY <1>2, <1>3, <1>4, SetBits
<1>6. Cardinality(owned') = Cardinality(owned) + Cardinality(new)
  BY <1>2, <1>3, <1>4, SetBits
<1>7. /\ Cardinality(bitmap) \in Nat /\ Cardinality(new) \in Nat
      /\ Cardinality(owned) \in Nat /\ Cardinality(released) \in Nat
  BY <1>2, <1>3, BitsFinite
<1>8. OwnedFramesAreMarked'
  BY <1>2, <1>4 DEF OwnedFramesAreMarked
<1>9. FramesConserved'
  <2>1. Scannable' = Scannable /\ Allocatable' = Allocatable
    BY DEF Scannable, Allocatable, NeverReserved
  <2>2. (Scannable \ bitmap') \cup (owned' \cap Scannable)
          = (Scannable \ bitmap) \cup (owned \cap Scannable)
    BY <1>3, <1>4
  <2>3. /\ (Scannable \ bitmap) \cup (owned \cap Scannable)
               = Allocatable \cup (released \cap Scannable)
        /\ released \cap Allocatable = {}
    BY <1>1 DEF FramesConserved
  <2> QED
    BY <2>1, <2>2, <2>3 DEF FramesConserved
<1>10. CountersCountBits'
  <2>1. Uncounted' = Uncounted /\ TotalPages(mmap') = TotalPages(mmap)
    BY DEF Uncounted
  <2>2. /\ g_freeMemory = size * 8 + 1 - Cardinality(bitmap) - Uncounted
        /\ g_usedMemory = Cardinality(owned) - Cardinality(released)
        /\ g_freeMemory + g_reservedMemory + g_usedMemory = TotalPages(mmap)
    BY <1>1 DEF CountersCountBits
  <2>3. Uncounted \in Int
    BY <1>1, UncountedType
  <2>4. g_freeMemory' = size' * 8 + 1 - Cardinality(bitmap') - Uncounted'
    BY <1>2, <1>4, <1>5, <1>7, <2>1, <2>2, <2>3
  <2>5. g_usedMemory' = Cardinality(owned') - Cardinality(released')
    BY <1>4, <1>6, <1>7, <2>2
  <2>6. g_freeMemory' + g_reservedMemory' + g_usedMemory' = TotalPages(mmap')
    BY <1>2, <1>4, <1>7, <2>1, <2>2
  <2> QED
    BY <2>4, <2>5, <2>6 DEF CountersCountBits
<1>11. owned' \subseteq Nat
  BY <1>2, <1>3, <1>4 DEF Settable
<1>12. g_freeMemory' \in Int /\ g_usedMemory' \in Int
  BY <1>2, <1>4, <1>7
<1>13. ReleasedCirculate'
  BY <1>1, <1>4 DEF ReleasedCirculate
<1> QED
  BY <1>4, <1>5, <1>8, <1>9, <1>10, <1>11, <1>12, <1>13

\* PFA_LockPages keeps the invariant: it moves no hint and sets bits only.
LEMMA LockPagesIInv ==
  ASSUME IInv, NEW first, NEW count, PFA_LockPages(first, count)
  PROVE  IInv'
<1>1. /\ g_initialized /\ LockFrames(FrameRange(first, count))
      /\ result' = NoAnswer
      /\ UNCHANGED <<mmap, g_initialized, size, buffer, g_reservedMemory,
                     g_lastReservedPage, released>>
  BY Zenon DEF PFA_LockPages
<1>2. /\ bitmap \subseteq bitmap' /\ bitmap' \subseteq Settable(size)
      /\ owned' \subseteq Nat
      /\ g_freeMemory' \in Int /\ g_usedMemory' \in Int
      /\ OwnedFramesAreMarked' /\ FramesConserved' /\ ReleasedCirculate' /\ CountersCountBits'
  BY <1>1, LockFramesKeeps
<1>3. TypeOK'
  BY <1>1, <1>2 DEF IInv, TypeOK
<1>4. HintIsBelowFreeFrames'
  BY <1>1, <1>2 DEF IInv, HintIsBelowFreeFrames, Scannable
<1> QED
  BY <1>2, <1>3, <1>4 DEF IInv

\* PFA_RequestPage keeps the invariant: when it takes a frame and moves the hint
\* there, every frame it passed is in use.
LEMMA RequestPageIInv ==
  ASSUME IInv, PFA_RequestPage
  PROVE  IInv'
<1>1. /\ g_initialized
      /\ UNCHANGED <<mmap, g_initialized, size, buffer, g_reservedMemory, released>>
  BY DEF PFA_RequestPage
<1>2. TypeOK /\ HintIsBelowFreeFrames
  BY DEF IInv
<1>3. CASE NoneFree /\ result' = NULL
           /\ UNCHANGED <<bitmap, g_freeMemory, g_usedMemory, g_lastReservedPage, owned>>
  <2>1. TypeOK'
    BY <1>1, <1>2, <1>3 DEF TypeOK
  <2>2. HintIsBelowFreeFrames' /\ OwnedFramesAreMarked'
    BY <1>1, <1>3 DEF IInv, HintIsBelowFreeFrames, OwnedFramesAreMarked, Scannable
  <2>3. FramesConserved' /\ ReleasedCirculate' /\ CountersCountBits'
    BY <1>1, <1>3 DEF IInv, FramesConserved, ReleasedCirculate, CountersCountBits, Uncounted,
                      Allocatable, NeverReserved, Scannable
  <2> QED
    BY <2>1, <2>2, <2>3 DEF IInv
<1>4. ASSUME NEW index \in Scannable \ bitmap,
             g_lastReservedPage <= index,
             \A i \in g_lastReservedPage .. (index - 1) : i \in bitmap,
             LockFrames({index}), g_lastReservedPage' = index, result' = index
      PROVE  IInv'
  <2>1. /\ bitmap \subseteq bitmap' /\ bitmap' \subseteq Settable(size)
        /\ owned' \subseteq Nat
        /\ g_freeMemory' \in Int /\ g_usedMemory' \in Int
        /\ OwnedFramesAreMarked' /\ FramesConserved' /\ ReleasedCirculate' /\ CountersCountBits'
    BY <1>1, <1>4, LockFramesKeeps
  <2>2. index \in Nat
    BY <1>2 DEF TypeOK, Scannable
  <2>3. TypeOK'
    BY <1>1, <1>2, <1>4, <2>1, <2>2 DEF TypeOK
  <2>4. HintIsBelowFreeFrames'
    <3> SUFFICES ASSUME NEW i \in Scannable \ bitmap' PROVE index <= i
      BY <1>1, <1>4 DEF HintIsBelowFreeFrames, Scannable
    <3>1. g_lastReservedPage <= i /\ i \notin bitmap
      BY <1>2, <2>1 DEF HintIsBelowFreeFrames
    <3>2. i \notin g_lastReservedPage .. (index - 1)
      BY <1>4, <3>1
    <3> QED
      BY <1>2, <2>2, <3>1, <3>2 DEF TypeOK, Scannable
  <2> QED
    BY <2>1, <2>3, <2>4 DEF IInv
<1> QED
  BY <1>3, <1>4 DEF PFA_RequestPage

\* PFA_FreePages keeps the invariant: the hint falls to the lowest frame freed,
\* and what nobody held is new in circulation.
LEMMA FreePagesIInv ==
  ASSUME IInv, NEW first, NEW count, PFA_FreePages(first, count)
  PROVE  IInv'
<1> DEFINE freed == ToClear(bitmap, size, FrameRange(first, count))
           mine  == freed \cap owned
           new   == freed \ owned
<1>1. /\ g_initialized
      /\ bitmap' = bitmap \ freed /\ owned' = owned \ freed
      /\ released' = released \cup new
      /\ g_freeMemory' = g_freeMemory + Cardinality(freed)
      /\ g_usedMemory' = g_usedMemory - Cardinality(freed)
      /\ HintFollows(freed)
      /\ result' = NoAnswer
      /\ UNCHANGED <<mmap, g_initialized, size, buffer, g_reservedMemory>>
  BY Zenon DEF PFA_FreePages
<1>2. TypeOK /\ HintIsBelowFreeFrames /\ OwnedFramesAreMarked /\ FramesConserved
      /\ ReleasedCirculate /\ CountersCountBits
  BY DEF IInv
<1>3. /\ size \in Nat /\ bitmap \subseteq Settable(size) /\ owned \subseteq bitmap
      /\ g_freeMemory \in Int /\ g_usedMemory \in Int /\ g_reservedMemory \in Int
      /\ g_lastReservedPage \in Nat /\ owned \subseteq Nat
      /\ released \subseteq Settable(size) /\ released \cap bitmap \subseteq owned
  BY <1>2 DEF TypeOK, OwnedFramesAreMarked, ReleasedCirculate
<1>4. freed \subseteq bitmap /\ freed \subseteq Nat
  BY <1>3 DEF ToClear, Settable
<1> HIDE DEF freed
<1>5. /\ bitmap' \subseteq Settable(size)
      /\ Cardinality(bitmap') = Cardinality(bitmap) - Cardinality(freed)
  BY <1>1, <1>3, <1>4, ClearBits
<1>6. Cardinality(owned') = Cardinality(owned) - Cardinality(mine)
  <2>1. owned' = owned \ mine /\ mine \subseteq owned /\ owned \subseteq Settable(size)
    BY <1>1, <1>3
  <2> HIDE DEF mine
  <2> QED
    BY <1>3, <2>1, ClearBits
<1>7. Cardinality(released') = Cardinality(released) + Cardinality(new)
  <2>1. new \subseteq Settable(size) /\ released \cap new = {}
    BY <1>3, <1>4
  <2> HIDE DEF new
  <2> QED
    BY <1>1, <1>3, <2>1, SetBits
<1>8. Cardinality(freed) = Cardinality(mine) + Cardinality(new)
  <2>1. /\ mine \subseteq Settable(size) /\ new \subseteq Settable(size)
        /\ mine \cap new = {} /\ freed = mine \cup new
    BY <1>3, <1>4
  <2> HIDE DEF mine, new
  <2> QED
    BY <1>3, <2>1, SetBits
<1>9. /\ Cardinality(bitmap) \in Nat /\ Cardinality(freed) \in Nat
      /\ Cardinality(owned) \in Nat /\ Cardinality(released) \in Nat
      /\ Cardinality(mine) \in Nat /\ Cardinality(new) \in Nat
  <2>1. /\ freed \subseteq Settable(size) /\ owned \subseteq Settable(size)
        /\ mine \subseteq Settable(size) /\ new \subseteq Settable(size)
    BY <1>3, <1>4
  <2> HIDE DEF mine, new
  <2> QED
    BY <1>3, <2>1, BitsFinite
<1>10. g_lastReservedPage' \in Nat
      /\ \A i \in freed \cup {g_lastReservedPage} : g_lastReservedPage' <= i
  BY <1>1, <1>3, <1>4 DEF HintFollows
<1>11. TypeOK'
  <2>1. g_freeMemory' \in Int /\ g_usedMemory' \in Int
    BY <1>1, <1>3, <1>9
  <2>2. released' \subseteq Settable(size)
    BY <1>1, <1>3, <1>4
  <2> QED
    BY <1>1, <1>2, <1>3, <1>5, <1>10, <2>1, <2>2 DEF TypeOK
<1>12. HintIsBelowFreeFrames'
  <2> SUFFICES ASSUME NEW i \in Scannable \ bitmap' PROVE g_lastReservedPage' <= i
    BY <1>1 DEF HintIsBelowFreeFrames, Scannable
  <2>1. CASE i \in freed
    BY <1>10, <2>1
  <2>2. CASE i \notin freed
    <3>1. g_lastReservedPage <= i
      BY <1>1, <1>2, <2>2 DEF HintIsBelowFreeFrames
    <3> QED
      BY <1>3, <1>10, <3>1 DEF Scannable
  <2> QED
    BY <2>1, <2>2
<1>13. OwnedFramesAreMarked'
  BY <1>1, <1>3 DEF OwnedFramesAreMarked
<1>14. FramesConserved'
  <2>1. Scannable' = Scannable /\ Allocatable' = Allocatable
    BY <1>1 DEF Scannable, Allocatable, NeverReserved
  <2>2. /\ (Scannable \ bitmap) \cup (owned \cap Scannable)
               = Allocatable \cup (released \cap Scannable)
        /\ released \cap Allocatable = {} /\ Allocatable \subseteq Scannable
    BY <1>1, <1>2 DEF FramesConserved, Allocatable
  <2>3. (Scannable \ bitmap') \cup (owned' \cap Scannable)
          = (Scannable \ bitmap) \cup (owned \cap Scannable) \cup (new \cap Scannable)
    BY <1>1, <1>3, <1>4
  <2>4. new \cap Allocatable = {}
    BY <1>4, <2>2
  <2> HIDE DEF new
  <2> QED
    BY <1>1, <2>1, <2>2, <2>3, <2>4 DEF FramesConserved
<1>15. ReleasedCirculate'
  BY <1>1, <1>3 DEF ReleasedCirculate
<1>16. CountersCountBits'
  <2>1. Uncounted' = Uncounted /\ TotalPages(mmap') = TotalPages(mmap)
    BY <1>1 DEF Uncounted
  <2>2. /\ g_freeMemory = size * 8 + 1 - Cardinality(bitmap) - Uncounted
        /\ g_usedMemory = Cardinality(owned) - Cardinality(released)
        /\ g_freeMemory + g_reservedMemory + g_usedMemory = TotalPages(mmap)
    BY <1>1, <1>2 DEF CountersCountBits
  <2>3. Uncounted \in Int
    BY <1>2, UncountedType
  <2> HIDE DEF mine, new
  <2>4. g_freeMemory' = size' * 8 + 1 - Cardinality(bitmap') - Uncounted'
    BY <1>1, <1>3, <1>5, <1>9, <2>1, <2>2, <2>3
  <2>5. g_usedMemory' = Cardinality(owned') - Cardinality(released')
    BY <1>1, <1>6, <1>7, <1>8, <1>9, <2>2
  <2>6. g_freeMemory' + g_reservedMemory' + g_usedMemory' = TotalPages(mmap')
    BY <1>1, <1>3, <1>9, <2>1, <2>2
  <2> QED
    BY <2>4, <2>5, <2>6 DEF CountersCountBits
<1> QED
  BY <1>11, <1>12, <1>13, <1>14, <1>15, <1>16 DEF IInv

-------------------------------------------------------------------------------
(***************************************************************************)
(* The invariant holds in every state                                      *)
(***************************************************************************)

\* Every operation of the allocator keeps the invariant.
LEMMA NextIInv == IInv /\ [Next]_vars => IInv'
<1> SUFFICES ASSUME IInv, [Next]_vars PROVE IInv'
  OBVIOUS
<1>1. CASE PFA_InitEfiMemoryMap
  BY <1>1, InitEfiIInv
<1>2. CASE PFA_RequestPage
  BY <1>2, RequestPageIInv
<1>3. ASSUME NEW r \in Ranges, PFA_LockPages(r[1], r[2]) PROVE IInv'
  BY <1>3, LockPagesIInv
<1>4. ASSUME NEW r \in Ranges, PFA_FreePages(r[1], r[2]) PROVE IInv'
  BY <1>4, FreePagesIInv
<1>5. CASE UNCHANGED vars
  <2>1. TypeOK'
    BY <1>5 DEF vars, IInv, TypeOK
  <2>2. HintIsBelowFreeFrames' /\ OwnedFramesAreMarked'
    BY <1>5 DEF vars, IInv, HintIsBelowFreeFrames, OwnedFramesAreMarked, Scannable
  <2>3. FramesConserved' /\ ReleasedCirculate' /\ CountersCountBits'
    BY <1>5 DEF vars, IInv, FramesConserved, ReleasedCirculate, CountersCountBits, Uncounted,
                Allocatable, NeverReserved, Scannable
  <2> QED
    BY <2>1, <2>2, <2>3 DEF IInv
<1> QED
  BY <1>1, <1>2, <1>3, <1>4, <1>5 DEF Next

\* The inductive invariant holds in every state, whatever the order in which
\* frames are requested, locked and freed.
THEOREM Invariance == Spec => []IInv
<1> QED
  BY InitIInv, NextIInv, PTL DEF Spec

\* Every variable keeps its type, for any memory map.
THEOREM TypeCorrectness == Spec => []TypeOK
<1>1. IInv => TypeOK
  BY DEF IInv
<1> QED
  BY <1>1, Invariance, PTL

\* PFA_RequestPage never overlooks a free frame: none is below its hint.
THEOREM HintCorrectness == Spec => []HintIsBelowFreeFrames
<1>1. IInv => HintIsBelowFreeFrames
  BY DEF IInv
<1> QED
  BY <1>1, Invariance, PTL

\* A held frame is never handed out again.
THEOREM NoDoubleAllocation == Spec => []OwnedFramesAreMarked
<1>1. IInv => OwnedFramesAreMarked
  BY DEF IInv
<1> QED
  BY <1>1, Invariance, PTL

\* Frames are neither lost nor conjured up: the free and the held ones are those
\* the memory map and the size of the bitmap make allocatable, and the reserved
\* ones that callers have freed, whatever is requested, locked and freed.
THEOREM Conservation == Spec => []FramesConserved
<1>1. IInv => FramesConserved
  BY DEF IInv
<1> QED
  BY <1>1, Invariance, PTL

\* The three counters are functions of the bitmap and of who holds what.
THEOREM CounterCorrectness == Spec => []CountersFollowBitmap
<1>1. IInv => CountersFollowBitmap
  <2> SUFFICES ASSUME IInv, g_initialized PROVE CountersFollowBitmap
    BY DEF CountersFollowBitmap
  <2>1. size \in Nat /\ bitmap \in SUBSET Settable(size)
    BY DEF IInv, TypeOK
  <2>2. Cardinality(Settable(size) \ bitmap) = size * 8 + 1 - Cardinality(bitmap)
    BY <2>1, ClearCount
  <2>3. /\ g_freeMemory = size * 8 + 1 - Cardinality(bitmap) - Uncounted
        /\ g_usedMemory = Cardinality(owned) - Cardinality(released)
        /\ g_freeMemory + g_reservedMemory + g_usedMemory = TotalPages(mmap)
    BY DEF IInv, CountersCountBits
  <2>4. Uncounted \in Int /\ Cardinality(bitmap) \in Nat
    BY <2>1, UncountedType, BitsFinite DEF IInv
  <2>5. g_freeMemory = Cardinality(Settable(size) \ bitmap) - Uncounted
    BY <2>1, <2>2, <2>3, <2>4
  <2> QED
    BY <2>3, <2>5, Zenon DEF CountersFollowBitmap
<1> QED
  BY <1>1, Invariance, PTL

-------------------------------------------------------------------------------
(***************************************************************************)
(* The allocator implements the pool of frames                             *)
(***************************************************************************)

\* Before PFA_InitEfiMemoryMap the pool is empty and not ready.
LEMMA InitRefines == Init => Pool!Init
BY DEF Init, Pool!Init, Scannable

\* Every operation is one of the pool's, or changes nothing the pool has: the
\* scan of PFA_RequestPage gives up only when no bit at all is clear.
LEMMA NextRefines ==
  IInv /\ IInv' /\ [Next]_vars => [Pool!Next]_(Pool!poolVars)
<1> SUFFICES ASSUME IInv, IInv', [Next]_vars
             PROVE  Pool!Next \/ UNCHANGED Pool!poolVars
  OBVIOUS
<1> DEFINE free == Scannable \ bitmap
           held == owned \cap Scannable
<1>1. TypeOK /\ OwnedFramesAreMarked /\ HintIsBelowFreeFrames
  BY DEF IInv
<1>2. CASE PFA_InitEfiMemoryMap
  <2>1. ~g_initialized /\ g_initialized' /\ result' = result
    BY <1>2 DEF PFA_InitEfiMemoryMap
  <2>2. (Scannable \ bitmap)' \cap (owned \cap Scannable)' = {}
    BY DEF IInv, OwnedFramesAreMarked
  <2>3. (Scannable \ bitmap)' \subseteq Nat /\ (owned \cap Scannable)' \subseteq Nat
    <3>1. TypeOK'
      BY DEF IInv
    <3>2. size' \in Nat /\ owned' \subseteq Nat
      BY <3>1 DEF TypeOK
    <3>3. \A n \in Int : 0 .. n \subseteq Nat
      OBVIOUS
    <3>4. Scannable' = 0 .. (size' * 8 - 1) /\ size' * 8 - 1 \in Int
      BY <3>2 DEF Scannable
    <3> QED
      BY <3>2, <3>3, <3>4
  <2>4. Pool!Fill
    BY <2>1, <2>2, <2>3 DEF Pool!Fill
  <2> QED
    BY <2>4 DEF Pool!Next
<1>3. ASSUME NEW r \in Ranges, PFA_LockPages(r[1], r[2])
      PROVE  Pool!Next
  <2>1. g_initialized /\ g_initialized' /\ size' = size /\ result' = NoAnswer
    BY <1>3 DEF PFA_LockPages
  <2> DEFINE new == ToSet(bitmap, size, FrameRange(r[1], r[2]))
  <2>2. bitmap' = bitmap \cup new /\ owned' = owned \cup new
    BY <1>3 DEF PFA_LockPages, LockFrames
  <2>3. new \cap bitmap = {}
    BY DEF ToSet
  <2>4. Pool!Claim
    BY <2>1, <2>2, <2>3 DEF Pool!Claim, Scannable
  <2> QED
    BY <2>4 DEF Pool!Next
<1>4. ASSUME NEW r \in Ranges, PFA_FreePages(r[1], r[2])
      PROVE  Pool!Next
  <2>1. g_initialized /\ g_initialized' /\ size' = size /\ result' = NoAnswer
    BY <1>4 DEF PFA_FreePages
  <2> DEFINE freed == ToClear(bitmap, size, FrameRange(r[1], r[2]))
  <2>2. bitmap' = bitmap \ freed /\ owned' = owned \ freed
    BY <1>4 DEF PFA_FreePages
  <2>3. owned \subseteq bitmap /\ Scannable' = Scannable /\ size \in Nat
    BY <1>1, <2>1 DEF OwnedFramesAreMarked, Scannable, TypeOK
  <2>4. Scannable \subseteq Nat
    BY <2>3 DEF Scannable
  <2>5. /\ owned \ (owned \ freed) \subseteq freed
        /\ freed \subseteq bitmap
    BY DEF ToClear
  <2> HIDE DEF freed
  <2>6. /\ (owned \cap Scannable)' \subseteq owned \cap Scannable
        /\ (Scannable \ bitmap)' \subseteq Nat
        /\ (Scannable \ bitmap) \cup ((owned \cap Scannable) \ (owned \cap Scannable)')
              \subseteq (Scannable \ bitmap)'
        /\ (Scannable \ bitmap)' \cap (owned \cap Scannable)' = {}
    BY <2>2, <2>3, <2>4, <2>5
  <2>7. Pool!GiveBack
    BY <2>1, <2>6 DEF Pool!GiveBack
  <2> QED
    BY <2>7 DEF Pool!Next
<1>5. CASE PFA_RequestPage
  <2>1. g_initialized /\ g_initialized' /\ size' = size
    BY <1>5 DEF PFA_RequestPage
  <2>2. CASE NoneFree /\ result' = NULL
             /\ UNCHANGED <<bitmap, g_freeMemory, g_usedMemory, g_lastReservedPage, owned>>
    <3>1. Scannable \ bitmap = {}
      BY <1>1, <2>2 DEF NoneFree, HintIsBelowFreeFrames
    <3>2. Pool!Refuse
      BY <2>1, <2>2, <3>1 DEF Pool!Refuse, Scannable
    <3> QED
      BY <3>2 DEF Pool!Next
  <2>3. ASSUME NEW index \in Scannable \ bitmap,
               LockFrames({index}), result' = index
        PROVE  Pool!Next
    <3>1. ToSet(bitmap, size, {index}) = {index}
      BY <1>1 DEF ToSet, Scannable, Settable, TypeOK
    <3>2. bitmap' = bitmap \cup {index} /\ owned' = owned \cup {index}
      BY <2>3, <3>1 DEF LockFrames
    <3>3. Pool!Take
      BY <2>1, <2>3, <3>2 DEF Pool!Take, Scannable
    <3> QED
      BY <3>3 DEF Pool!Next
  <2> QED
    BY <1>5, <2>2, <2>3 DEF PFA_RequestPage
<1>6. CASE UNCHANGED vars
  BY <1>6 DEF vars, Pool!poolVars, Scannable
<1> QED
  BY <1>2, <1>3, <1>4, <1>5, <1>6 DEF Next

\* Every behaviour of the allocator is one of the pool: a request is refused
\* only when no frame is free, and a frame given out comes from the pool.
THEOREM Refinement == Spec => ImplementsFramePool
<1> QED
  BY Invariance, InitRefines, NextRefines, PTL DEF Spec, ImplementsFramePool, Pool!Spec
===============================================================================
