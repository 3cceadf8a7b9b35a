----------------------------- MODULE KernelMemory -----------------------------
(***************************************************************************)
(* How the kernel sets its memory up: InitializeMemory and the call of     *)
(* MEM_InitializeHeap in kernel.c, and the mappings made later, when the   *)
(* heap grows (memory/heap.c) and a disk controller is found (ahci/ahci.c).*)
(* It composes the loader and the memory map it leaves, the pool of frames *)
(* PageFrameAllocator is shown to implement, and PageTableManager.         *)
(*                                                                         *)
(* Interrupts are off until all of this has happened: each action is one   *)
(* mapping, and they follow one another as in the code.  From the load of  *)
(* cr3 on, page tables are reached through the mappings they hold.         *)
(***************************************************************************)
EXTENDS Bootloader

CONSTANTS
  Fanout,      \* entries in a table (512 in the code)
  LastFrame,   \* frames are 0 .. LastFrame, those of devices included
  HeapPage,    \* the virtual page of the heap, 0x100000000
  StartPages,  \* the pages MEM_InitializeHeap maps, 0x10
  MaxHeap,     \* bound: the pages the heap can grow to
  MaxDma,      \* bound: the frames the disk driver requests
  Garbage,     \* what a word of memory holds at first
  NoTable

VARIABLES
  pc,         \* the loop or call the kernel has reached
  i,          \* the page that loop has reached
  mem, PML4, pool, exhausted,   \* see PageTableManager
  cr3,        \* the root the processor translates with, NoTable before
  heapPages,  \* the pages of the heap mapped so far
  dma         \* the frames the disk driver has requested

vars == <<boot, pc, i, mem, PML4, pool, exhausted, cr3, heapPages, dma>>

\* The indices of a virtual page.
VirtualPage(n) ==
  <<(n \div (Fanout * Fanout * Fanout)) % Fanout, (n \div (Fanout * Fanout)) % Fanout,
    (n \div Fanout) % Fanout, n % Fanout>>

PTM == INSTANCE PageTableManager WITH
         TableFrames <- 1 .. LastFrame,
         Pages       <- {VirtualPage(n) : n \in 0 .. (Fanout * Fanout * Fanout * Fanout - 1)},
         Targets     <- 0 .. LastFrame,
         requested   <- [v \in {} |-> NoTable]

ASSUME KernelMemoryAssumption ==
  /\ LowFrames > 0
  /\ Fanout \in Nat /\ Fanout >= 4
  /\ LastFrame \in Nat \ {0}
  /\ Fanout <= (LastFrame + 1) * PTM!FlagBits     \* see PTMAssumption
  /\ HeapPage \in Nat /\ StartPages \in Nat /\ MaxHeap \in Nat /\ MaxDma \in Nat
  /\ Garbage \in 0 .. (LastFrame * PTM!FlagBits + PTM!FlagBits - 1)
  /\ NoTable \notin 0 .. LastFrame

FramebufferFrames == FrameRange(machine.framebuffer[1], machine.framebuffer[2])

-------------------------------------------------------------------------------

Init ==
  /\ InitBoot
  /\ pc = "init"
  /\ i = 0
  /\ mem = [f \in 0 .. LastFrame |-> [k \in 0 .. (Fanout - 1) |-> Garbage]]
  /\ PML4 = NoTable
  /\ pool = {}
  /\ exhausted = FALSE
  /\ cr3 = NoTable
  /\ heapPages = 0
  /\ dma = {}

\* PFA_InitEfiMemoryMap, and the two calls of PFA_LockPages behind it: one more
\* frame than the framebuffer has is locked.
InitFrames ==
  /\ loader = "kernel" /\ pc = "init"
  /\ pool' = (0 .. (BitmapSize(map) * 8 - 1))
               \ (Reserved(map) \cup Self(map) \cup Kernel
                    \cup FrameRange(machine.framebuffer[1], machine.framebuffer[2] + 1))
  /\ pc' = "root"
  /\ UNCHANGED <<boot, i, mem, PML4, exhausted, cr3, heapPages, dma>>

\* Mutant: the loop over memory is left out.
CreateRootOnly ==
  /\ pc = "root"
  /\ PTM!PTM_Create
  /\ pc' = "framebuffer"
  /\ i' = 0
  /\ UNCHANGED <<boot, cr3, heapPages, dma>>

CreateRoot ==
  /\ pc = "root"
  /\ PTM!PTM_Create
  /\ pc' = "memory"
  /\ i' = 0
  /\ UNCHANGED <<boot, cr3, heapPages, dma>>

\* MEM_GetTotalSize, the bound of the loop over memory.
MemorySizeInBytes == TotalPages(map) * FrameSize    \* mutant: wrong unit
MemorySizeShort == TotalPages(map) - 1              \* mutant: last page missed
MemorySize == TotalPages(map)

\* for (i = 0; i < memorySize; i += MEM_FRAME_SIZE) PTM_MapMemory(i, i)
MapMemory ==
  /\ pc = "memory" /\ i < MemorySize
  /\ PTM!PTM_MapMemory(VirtualPage(i), i)
  /\ i' = i + 1
  /\ UNCHANGED <<boot, pc, cr3, heapPages, dma>>

EndMapMemory ==
  /\ pc = "memory" /\ i >= MemorySize
  /\ pc' = "framebuffer"
  /\ i' = machine.framebuffer[1]
  /\ UNCHANGED <<boot, mem, PML4, pool, exhausted, cr3, heapPages, dma>>

\* Mutant: the framebuffer is mapped at page 0.
MapFramebufferAtZero ==
  /\ pc = "framebuffer" /\ i \in FramebufferFrames
  /\ PTM!PTM_MapMemory(VirtualPage(i - machine.framebuffer[1]), i)
  /\ i' = i + 1
  /\ UNCHANGED <<boot, pc, cr3, heapPages, dma>>

MapFramebuffer ==
  /\ pc = "framebuffer" /\ i \in FramebufferFrames
  /\ PTM!PTM_MapMemory(VirtualPage(i), i)
  /\ i' = i + 1
  /\ UNCHANGED <<boot, pc, cr3, heapPages, dma>>

LoadCr3 ==
  /\ pc = "framebuffer" /\ i \notin FramebufferFrames
  /\ cr3' = PML4
  /\ pc' = "heap"
  /\ UNCHANGED <<boot, i, mem, PML4, pool, exhausted, heapPages, dma>>

\* One turn of the loops of MEM_InitializeHeap and MEM_ExpandHeap: a frame is
\* requested, then mapped behind the heap's last page.
MapHeapPage ==
  /\ pc \in {"heap", "running"}
  /\ pc = "heap" => heapPages < StartPages
  /\ heapPages < MaxHeap
  /\ \E f \in PTM!Answers(pool) :
       PTM!WalkAndMap([mem |-> PTM!PMI_Create(mem, VirtualPage(HeapPage + heapPages)),
                       free |-> pool \ {f}, table |-> PML4,
                       refused |-> exhausted \/ pool = {}], f)
  /\ heapPages' = heapPages + 1
  /\ UNCHANGED <<boot, pc, i, PML4, cr3, dma>>

EndInitializeHeap ==
  /\ pc = "heap" /\ heapPages = StartPages
  /\ pc' = "running"
  /\ UNCHANGED <<boot, i, mem, PML4, pool, exhausted, cr3, heapPages, dma>>

\* The pages of PCI configuration space and of a controller's registers are
\* mapped to themselves when the kernel is about to read them.
MapDevice(f) ==
  /\ pc = "running"
  /\ PTM!PTM_MapMemory(VirtualPage(f), f)
  /\ UNCHANGED <<boot, pc, i, cr3, heapPages, dma>>

\* AHCI_Port_Configure and AHCI_AHCIDriver request frames for the controller
\* and clear them at their physical address.
RequestDmaFrame ==
  /\ pc = "running"
  /\ Cardinality(dma) < MaxDma
  /\ \E f \in PTM!Answers(pool) :
       /\ pool' = pool \ {f}
       /\ dma' = dma \cup {f}
       /\ exhausted' = (exhausted \/ pool = {})
  /\ UNCHANGED <<boot, pc, i, mem, PML4, cr3, heapPages>>

Load == Loader /\ UNCHANGED <<pc, i, mem, PML4, pool, exhausted, cr3, heapPages, dma>>

Next ==
  \/ Load
  \/ InitFrames \/ CreateRoot
  \/ MapMemory \/ EndMapMemory
  \/ MapFramebuffer \/ LoadCr3
  \/ MapHeapPage \/ EndInitializeHeap
  \/ \E f \in machine.devices : MapDevice(f)
  \/ RequestDmaFrame

Spec == Init /\ [][Next]_vars

-------------------------------------------------------------------------------
(***************************************************************************)
(* Properties                                                              *)
(***************************************************************************)

TypeOK ==
  /\ BootTypeOK
  /\ pc \in {"init", "root", "memory", "framebuffer", "heap", "running"}
  /\ i \in 0 .. (LastFrame + 1)
  /\ PTM!TypeOK
  /\ cr3 \in {NoTable, PML4}
  /\ heapPages \in 0 .. MaxHeap
  /\ dma \subseteq 0 .. LastFrame

MemoryFrames == UNION {FramesOf(map[k]) : k \in DOMAIN map}

\* Is a frame seen at its own address?
Identity(f) == PTM!Lookup(VirtualPage(f)) = f

\* When paging is on, every frame of memory is seen at its own address.
AllMemoryMapped == cr3 # NoTable => \A f \in MemoryFrames : Identity(f)

\* The screen can be drawn on after cr3 is loaded, and stays so however the
\* tables grow for the heap and for devices.
FramebufferMapped == cr3 # NoTable => \A f \in FramebufferFrames : Identity(f)

\* Does the pool still have a frame below the end of the identity mapping?
\* Frames are given out lowest first.
MemoryLeft == \E f \in pool : f < TotalPages(map)

\* Once paging is on, PTM_MapMemory reads and clears tables, and the disk
\* driver its frames, at their physical addresses: each of them must be mapped
\* to itself, or the access faults with no handler installed.
UsedFramesReachable ==
  cr3 # NoTable /\ MemoryLeft => \A f \in PTM!Tables \cup dma : Identity(f)

HeapFrames == {PTM!Lookup(VirtualPage(HeapPage + k)) : k \in 0 .. (heapPages - 1)}

BitmapFrames ==
  UNION {FrameRange(b, (BitmapSize(map) - 1) \div FrameSize + 1) :
           b \in LargestFree(map)}

\* No frame serves two purposes: the heap's pages have a frame each, and the
\* frames of the tables, the heap and the controller are apart from each other
\* and from those of the kernel, what the loader left for it, the screen, low
\* memory and the bitmap; and the loader put nothing over the kernel.
FramesHaveOneUse ==
  /\ Cardinality(HeapFrames) = heapPages
  /\ PTM!Tables \cap HeapFrames = {}
  /\ dma \cap (PTM!Tables \cup HeapFrames) = {}
  /\ (PTM!Tables \cup HeapFrames \cup dma)
       \cap (Kernel \cup font \cup mapFrame \cup FramebufferFrames \cup (0 .. (LowFrames - 1)) \cup BitmapFrames) = {}
  /\ (font \cup mapFrame) \cap Kernel = {} /\ font \cap mapFrame = {}
===============================================================================
