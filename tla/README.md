# A verification development for RizzOS

RizzOS (`src/`) is a small x86-64 kernel booted by its own UEFI loader. This
directory models it in TLA+, checks the models with TLC and proves theorems
about them with TLAPS. All paths below are relative to `src/rizzos/src/`
unless they start with `src/`.

## 1. The system

The kernel runs on one processor, without processes. `_start` (`kernel.c:81`)
initialises one component after the other with interrupts off, enables
interrupts (`kernel.c:104`), prints a line and halts in a loop; from then on
everything happens in interrupt handlers. So there are two kinds of difficulty:
long *sequences* of calls against shared data (memory), and *interleavings* of
handlers with the end of `_start` and with the devices.

| Component | State | Operations | Used by | What makes it correct |
|---|---|---|---|---|
| Memory map (`memory.c`) | cached total size | `MEM_GetTotalSize`, `MEM_Set*` | frames, `kernel.c` | the size covers what is later accessed |
| Bitmap (`utils/bitmap.c`) | size, buffer | `Bitmap_Get`, `Bitmap_Set` | frames | no bit outside is changed |
| Page frame allocator (`paging/page_frame_allocator.c`) | bitmap, three counters, hint | init, request, lock, free | page tables, heap, IDT, AHCI | no frame given out twice, none lost, refusal only when exhausted, counters right, its own bitmap safe |
| Page tables (`paging/page_table_manager.c`, `page_map_indexer.c`, `paging.c`) | the tables in memory, root | `PTM_Create`, `PTM_MapMemory` | `kernel.c`, heap, PCI, AHCI | mapping one page changes no other; tables form a tree |
| Memory set-up (`kernel.c:24`, `:94`) | progress, cr3 | `InitializeMemory`, `MEM_InitializeHeap` | `_start` | all memory used later is reachable; no frame has two uses |
| Heap (`memory/heap.c`) | segment list, end, last header | malloc, free, expand, split, merge | AHCI, FAT | blocks disjoint, inside the heap, list intact, malloc ends |
| Interrupts, PIC (`interrupts/`) | IDT, masks | handlers, remap, EOI | hardware | every interrupt acknowledged once; masks as intended |
| Keyboard (`userinput/keyboard.c`) | shift flags | scan codes | handler 0x21 | keys appear as typed; the table is not overrun |
| Mouse (`userinput/mouse.c`) | cycle, packet, ready flag, position | bytes | handler 0x2C | packets stay in step, position on the screen |
| Console (`graphics/basic_graphics.c`) | cursor, pixels, saved pixels | put, next line, clear, pointer | `print`, keyboard, mouse | cursor on the screen; text survives the pointer |
| Timer (`scheduling/pit.c`) | divisor, time | set, tick, sleep | handler 0x20 | time advances as the device ticks; sleep ends |
| ACPI, PCI (`acpi.c`, `pci.c`) | none | enumeration | `_start` | every function of every bus visited, mapped before it is read |
| AHCI (`ahci/ahci.c`) | driver, ports, command lists | probe, configure, read | PCI | command engine stopped while it is changed; a read ends |
| FAT (`filesystems/fat.c`) | none | one parser | AHCI | accepts boot sectors, refuses others |
| Bootloader (`src/bootloader/bootloader.c`) | boot data | load, map, exit | firmware | what it passes to the kernel is initialised and current |

Calls are direct; there are no messages. Shared state is global: the bitmap is
written by everyone who needs a frame, physical memory is reached at its own address
once paging is on, and the console cursor is moved by `print`, by the keyboard
handler and by `Panic`. Nothing is persisted, so there is no crash recovery. Nothing
is retried; the timeouts are the polling loops of the mouse and the disk, after
which the code goes on as if the wait had succeeded. `PROJECT.json` lists the
hazards line by line with the properties aimed at each.

## 2. Modules

| Module | Models | Kind |
|---|---|---|
| `MemoryMap` | what is computed from the firmware's map; the bitmap's bounds | operators |
| `FramePool` | what a frame allocator promises | abstract specification |
| `PageFrameAllocator` | `page_frame_allocator.c` | component, refines `FramePool` |
| `AddressSpace` | what mapping a page promises | abstract specification |
| `PageTableManager` | `page_table_manager.c`, `page_map_indexer.c`, `paging.c` | component, refines `AddressSpace` |
| `Heap` | `heap.c` | component |
| `Bootloader` | `src/bootloader/bootloader.c`: its allocations and the memory map | component |
| `KernelMemory` | `kernel.c:24-55`, `:94` and the mappings made afterwards | composition of `Bootloader`, `MemoryMap`, the pool and `PageTableManager` |
| `Console` | `graphics/basic_graphics.c` | operators on a record |
| `KernelConsole` | the end of `_start`, `print`, `keyboard.c`, `kb_scancode_translation.c`, the drawing of the pointer | composition of everybody who uses `Console` |
| `Bytes` | bits of a byte | operators |
| `Interrupts` | `interrupts/interrupts.c`, the gates, the two interrupt controllers | component with its device |
| `PS2Controller` | the controller of keyboard and mouse, and the two devices | device |
| `Mouse` | the handler of `userinput/mouse.c` | component |
| `Pointer` | what a mouse driver promises | abstract specification |
| `Timer` | `scheduling/pit.c` and the divisor of the device | component with its device |
| `Input` | `_start` from `InitializeInterrupts` on, `UI_PS2Mouse_Init`, the handlers | composition of `Interrupts`, `PS2Controller`, `Mouse` and `Timer`; refines `Pointer` |
| `Clock` | a caller of `PIT_Sleep` | composition with `Timer` |
| `AHCI` | `ahci/ahci.c`, `filesystems/fat.c`, the controllers | component with its device |
| `PCI` | `acpi.c`, `pci.c`, the loader's search for the tables | component |
| `Devices` | the enumeration calling the driver | composition of `PCI` and `AHCI` |
| `MemoryMapProofs` | the lemma that the sizes of a map have a sum | proofs |
| `PageFrameAllocatorProofs`, `PageTableManagerProofs`, `KernelMemoryProofs`, `HeapProofs`, `KernelConsoleProofs`, `InputProofs`, `DevicesProofs` | their theorems | proofs |
| `MC*` | constants for TLC | instances |

### The frame allocator

Addresses are frame numbers, the bitmap is the set of the indices whose bit is
1, counters count frames. `PFA_InitEfiMemoryMap` is one action, since nothing
can come between its passes; each pass is an operator of `MemoryMap`
(`All`, `Given`, `Low`, `Self`), because each counts only the bits it really
changes. `ToSet` carries the two reasons why a bit is skipped: it has the value
already, or `Bitmap_Set` refuses its index. An index beyond the bitmap makes
`Bitmap_Get` read foreign memory; whatever it reads, the bit is skipped, so the
read needs no variable. `PastBit` is the one bit behind the bitmap that
`Bitmap_Set` accepts (`>` for `>=`) and that `MEM_Set64` leaves alone if the
size is a multiple of eight.

Nothing limits what callers free. `PFA_FreePage` frees any set bit
(`page_frame_allocator.c:83`), of a frame the caller holds, of one somebody else
holds, and of a reserved one; the kernel calls it nowhere at present. Two history
variables tell these apart: `owned` are the frames requested or locked and not freed
since, `released` those freed although nobody held them. `FramesConserved` says what
circulates: what the initialisation put there and what was so released.

What the initialisation puts there is not only conventional memory. The loop that
reserves stops behind total + 1 bits, and the bitmap has up to seven more
(`NeverReserved`), which stay free and are given out. The total is a sum of sizes: on a
machine without holes these bits stand for no memory, but behind a hole they can
stand for the firmware's. With conventional memory in 0 to 3, the loader's in 4 and 5
and more of the loader's from 9 on, which is one of the maps of the run, frames 10
and 11 are the firmware's and are given out. Only on a map without holes, and with
callers that free what they hold, do conventional frames and bits beyond memory alone
circulate.

### The page tables

Memory is words. A word is a frame number and the two flags the code sets.
Frame 0 plays its double role: it is what a failed request returns and where
`PMI_Create` stores the four indices, its pointer being `{0}`. (The build has
no optimisation flags, so the store is made.) One `PTM_MapMemory` is one
action; `Descend` is one level, and it reads the index a second time after the
table was zeroed, as the code does, which is what goes wrong when that table is
frame 0. `AddressSpace` promises nothing after a request failed, since the code
promises nothing either.

### The heap

Units of 16 bytes, to which `MEM_Malloc` rounds sizes. The list is the headers
by address. The recursion of `MEM_Malloc` is unrolled to two expansions
(`RoomFor`), and `MallocTerminates` states that it needs no third. The store of
`MEM_HeapSegHdrSplit` through a NULL `next` lands in the words at address 0 the
next `PMI_Create` overwrites and is left out.

Two specifications differ in the callers: `StackSpec` frees in the reverse order
of allocation, or not at all, as the kernel at this commit does; `Spec` frees in
any order.

### The loader and the set-up of memory

`Bootloader` keeps the type of every frame, as the firmware does. Its statuses
are printed or dropped, so a call that fails changes nothing and the loader goes
on. `(memsz + 7) / 8` counts eight bytes as a page: 512 times the pages a segment
has (`Excess`). The pages of the second segment are therefore always among those
the first has taken, its allocation fails, and it is loaded all the same, into
pages that are the loader's already. `LibMemoryMap` allocates its buffer before
it takes the map, which is what keeps the map itself out of the kernel's pool.

A program counter follows `InitializeMemory`, with one action per mapping, then
the heap's pages, then the steps of a running kernel: the heap grows, devices
are mapped, the disk driver requests frames. It uses `FramePool`'s promise for
frames (the lowest first, as the allocator's scan gives them when nothing is
freed) and the actions of `PageTableManager`.

Four things lie outside what can be stated and are hazards without a property:
`ExitBootServices` is called without `uefi_call_wrapper` and its status ignored
(`bootloader.c:289`); only `p_filesz` bytes of a segment are read, so nobody clears
the kernel's `.bss` (`:239`); and `header` and `uefiBootData` are written through
without having been set. The models start the kernel's statics at the values C
gives them, take its boot data to lie somewhere of their own, and interrupts to be
off until `_start` enables them.

### The console

A pixel is the set of the inks drawn on it since it was cleared, so "a glyph over
another glyph" is visible as a pixel with two; a glyph is taken to fill its cell
and a space draws nothing. `text` is a history variable, the pixels as they would
be without the pointer. `Console` holds the operations as functions of the whole
console, for handlers (interrupts stay off in them), and is built of the smaller
ones from which `KernelConsole` composes the last print of `_start`.

That print (`kernel.c:106`) is modelled access by access: the build does not
optimise, so `x += 8` is a read and a write, and `BG_PutChar` reads the cursor
again for every row and every pixel of a row. A handler may run between any two of
these steps. When one moves the cursor, `BG_PutChar` may shift by less than 0 or by
more than an `int` has (`basic_graphics.c:32`), which is undefined: the pixel is then set
or not (`MaySet`). Prints with interrupts off are a character at a time, in any
order. Keys wait in the keyboard; `held` and `meant` are what the user did,
against which the handler's shift flags are compared. The translation table has
its 58 entries of `char`, which is signed (`AsChar`); code 58 passes the test of its length and reads the byte behind
it (`BehindTable`), and an entry 0 with shift becomes -32, which is drawn.

Things the model shows that no property forbids. The width itself is a column the
cursor may stand in (`>` at `basic_graphics.c:39`), so the glyph drawn there begins
the next scan line, and in the last line of a screen without spare rows it would
leave the frame buffer; `RowsAt` cuts it off there. Before the pointer is first
drawn, its saved pixels are black, so the first movement leaves a black corner at
the top left. Text drawn while the pointer lies over its place is lost when the
pointer moves (`stale` excludes it).

### Interrupts, mouse and keyboard

`Input` runs from `InitializeInterrupts` to the idle loop, with the devices at
their own pace beside it. One step of the kernel is one access to a port, or one
third of a handler: it is entered, it works (reading port 0x60), it acknowledges.
The timer's handler is one step, as it touches nothing a device changes.

`Interrupts` has both controllers with masks, requests and services, the
second behind line 2 of the first. `INT_PIC_Remap` saves both masks in `a1` and
gives the second controller an `a2` nobody set (`Leftovers`), until
`kernel.c:103` writes both masks. A line without a gate enters whatever the page of
the interrupt table held; `OnlyGatesEntered` says that none is let through.
Controllers differ in whether a request survives when its line falls
(`KeepsRequests`).

`PS2Controller` has one byte in each direction, the configuration, and what the
devices still have to send. `UI_PS2Mouse_Init` (`Steps`) writes and reads through it;
both waits can be given up, after which the code writes or reads anyway. The code
has no defence against a byte in the wrong place, so the properties about bytes
hold until the first of these, which `disturbed` remembers: a wait given up, a key
or a movement while the initialisation talks to the controller, a byte that arrives
while a request that has lost its byte is still to be served. What needs no such
condition, because a kernel must survive it, is stated without: `TypeOK`,
`OnlyGatesEntered` and `BytesAreRead`.

The mouse's handler drops its first byte, and looks at a packet only when the
byte behind it arrives (`mouse.c:73`). So the pointer is one report behind the
mouse, and the byte to drop must be one that is no report's. It is there by luck:
the acknowledgement of the last command raises a request before interrupts are
enabled, and the handler reads the same byte again. With a controller that forgets
the request (`KeepsRequests = FALSE`) the first byte of the first report is dropped
instead and `PacketsInStep` is violated. `Pointer` promises that each movement is
carried out once, in order, by its distance. The movement -256 is not among those
of the run, since `mouse.c:121` negates its byte to 0 and the pointer stays; a
mouse needs a movement of 256 within one sample for it.

### Timer

`PIT_SetDivisor` casts before it shifts, so the high byte the device gets is 0
(`Written`), while `g_Divisor` keeps the whole. `Clock` is a caller of `PIT_Sleep`:
the test of `TimeSinceBoot` and the `hlt` are two steps, a tick between them wakes
nobody, and the caller then sleeps one tick longer. `TimeSinceBoot` is a sum of
equal doubles; the model counts the terms.

### The disks

`PCI` looks at one header in a step. The loader's search (`bootloader.c:270`)
advances a pointer it also indexes and takes `CompareGuid`'s 0 for a difference, so
entry k is judged by the identifier of entry 2k - 1: the tables of ACPI 2.0 are not
found when they come first, and `PCIAssumption` lets some entry be found. Without a
table `MCFG` the caller reads the length of table 0 at address 4, where an index of
the page table walk has its zero upper half, and counts -3 segments
(`Entries`). The last bus of a segment is left out (`pci.c:66`); `Listed` says so.
`headerType` is not looked at: the devices of the run decode their function number.

The registers of a port (`hba`) are written by the driver and by the controller;
one step of the driver is one access to a register both use. The controllers, all
at once, may be slow to become ready, complete, fail before, within or after the
transfer of some sectors, and start from whatever the firmware left
(`InitAHCI`); at any time they may fall silent. The content of a sector is its number, that of a buffer is a sector,
zeroes, or what its frame held before. `FAT_ParseFat16_12` appears as what it
decides (`Parsed`): it takes the first sector of a disk in `TakenDisks`, and refuses
zeroes, which is what the driver relies on since it ignores the result of a
read (`ahci.c:69`). Which disks these are is left open. The parser refuses a sector for
its signature 0x28 or 0x29, but reads the signature through a structure that is not packed
(`fat.h:6-21`), so it looks at another byte and takes first sectors of exFAT
or NTFS as well. `RootDirectory` is whatever sector `ahci.c:72-78` computes.

There are three ways in which the kernel does not get past its disks, and
`EnumerationEnds` says that there are no others:

- a fault (`pc = "fault"`), for which no gate has been set (`kernel.c:60-65`): the bytes
  per sector the driver divides by (`ahci.c:74-76`) are checked by nobody and may be 0,
  and one page of registers is mapped (`ahci.c:57`), behind which those of ports 30
  and 31 lie;
- a controller that falls silent while the driver polls it (`Owes`);
- a second command to a port that has stopped: a read that fails after its first
  sector leaves that sector in the buffer, which is parsed, and the completion of the
  command that follows is polled for ever (`partial`, by which
  `HaltedPortsNotUsed` is limited too).

`portCount` lies in memory `MEM_Malloc` does not clear (`ahci.c:96`) and is taken
to be 0.

## 3. Runs

| Run | Question | Bounds |
|---|---|---|
| `frames` | is a frame ever lost, given twice, overlooked or miscounted, whatever is freed? which frames circulate? does the allocator implement the pool? | 21 memory maps of two or three regions, with and without holes, plus one whose bitmap is a whole number of words; ranges inside, across and beyond the bitmap |
| `frames_bitmap` | is the bitmap safe from its own allocator? **No** | the same |
| `tables` | does mapping a page leave the others alone? do the tables stay a tree? | 5 pages that share 0 to 3 tables, 7 frames for tables, so that the pool runs out |
| `heap` | are blocks disjoint and mapped across expansions, splits and merges? does malloc end? | the kernel's three sizes, its page size and its 16 first pages, 6 blocks |
| `heap_free` | can blocks be freed in any order? **No** | the kernel's sizes, 8 blocks |
| `kernel_memory` | from the loader's first allocation on: is everything the kernel touches after `mov cr3` mapped, and used once? | 8 machines of 55 frames, tables of 8 entries, `PoolFrames` {5, 50, 51, 52}, `Excess` 2 (512 in the code), 3 heap pages, 2 DMA frames |
| `kernel_hole` | and with a hole in memory? **No** | one machine |
| `console` | what do handlers do to the print they interrupt? are shift keys right? do text and pointer restore each other? does the print end? | a screen of 4 by 7 pixels with cells of 1 by 2, that is two lines; any 3 characters of letter, tab, newline before a last print of 2; 3 keys or mouse moves |
| `console_race` | is a glyph ever drawn over another? **Yes** | the same |
| `input` | is every key and movement handled once, in order? are only gates entered? is every byte read? | the firmware leaves configuration 97; one key, 2 movements (one with bit 3 set in both data bytes, the mark of a first byte), one tick, a line nobody handles; 1.4 million states |
| `devices` | is each controller driven once? are ports reprogrammed only while stopped? does a read return what the disk did? does it all end, and if not, why? | 4 controllers, with 2 disks, an empty port, none, and a port 30; 5 machines (one segment or two, a controller on a last bus, one behind an absent device, no `MCFG`, one with the port 30); 2 devices of 2 functions (32 of 8), 2 sectors a read (4), 2 polls (1000000) |
| `clock` | does a sleep last as long as asked? **No** | the kernel's divisor 2000; 10 and 20 ms; 20 ticks |

The small tables and machines lose nothing the properties speak of: four levels
with shared and separate tables, several tables per level, exhaustion, and
memory that does not fill its last table all occur. The bits of the allocator
are only compared with the borders 0, `LowFrames`, total + 1 and size * 8, and
the maps put regions on both sides of each; besides, its properties are proved.
On the small screen every border is reached by an early print, by a key within the
last print, and by both together; a second line suffices to see lines collide, and
that the cursor ends on the screen is proved for every size. The driver's
count of polls only decides whether the port becomes ready in time, which two
polls leave open. `Excess` only has to make the pages of one segment reach over the
next. Two movements are as many as can be outstanding, and with the
initialisation's bytes, a key and a tick every pair of sources meets; what the
masks let through is proved for every configuration.

`CHECK_DEADLOCK FALSE` is set where a bound stops the model (`MaxBlocks`,
`MaxTicks`, `MaxKeys`) or the set-up ends.

**Preconditions worth knowing.** `heap` passes because
its sizes are small against the segments they split: a split gives its second part
the length of the first (`heap.c:98`), so with sizes over half a page it claims
memory the heap does not have, and `LiveBlocksInsideHeap` fails.
It passes, too, because the block freed is the topmost. The kernel at this
commit frees nothing and asks for 0x20, 0x50 and 0x120 bytes.
`UsedFramesReachable` is claimed as long as frames below the end of the
identity mapping are left: frames are given out lowest first, and above that
border lie only the few bits the bitmap has more than memory has pages.
`FramesHaveOneUse` includes the bitmap's frames, which are safe only while the
largest region lies behind the frames the kernel has used so far
(`frames_bitmap` shows the other case), and what the loader left for the kernel.

**Fairness.** It is weak throughout, and asked only of what the machine does by
itself; nobody has to press a key, move the mouse, or start a disk.
Memory has no liveness properties: `_start` is sequential and every
operation of memory ends by a bound, so what could hang is stated as a safety
property (`MallocTerminates`).
- `KernelConsole`, `WF(PrintLast)`: the processor goes on with the last print after
  every handler. Keys within the print are bounded by `MaxEvents`; an endless
  stream of keys could delay it for ever.
- `Input`, `WF(Kernel)` and `WF(Controller)`: the processor executes, also out of
  `hlt` when a line is asked for, and the keyboard controller takes what was
  written to it and gives its answers. `BytesAreRead` needs both.
- `Devices`, `WF(Kernel)`: the driver runs on with interrupts off. Nothing is asked of
  the controllers. What a port has to do, to follow its switches or to complete or fail a
  command, may never come, and `EnumerationEnds` claims the end only where no poll of the
  driver waits for ever for something a port owes (`WaitsFor`).
- `Clock`: the device ticks and the caller runs. The run checks a safety property;
  it fails for finite reasons.

## 4. Findings

Shown by a run that violates what the repository says of itself:

- `page_frame_allocator.c:53` locks the page of the variable
  `g_pageBitmap.buffer` and not the pages the bitmap lies in (`frames_bitmap`).
- `heap.c:106` merges a segment in use into the one freed before it (`heap_free`).
- `kernel.c:44` maps less than "All the Pages of Memory" if memory has holes
  (`kernel_hole`).
- `kernel.c:104` enables interrupts before the last print, whose characters a key
  may overwrite, since `BG_PutChar` draws first and moves the cursor later
  (`console_race`).
- `pit.c:27` writes 0 as the high byte of every divisor: the timer ticks ten times
  as fast as the kernel counts, and a sleep returns early (`clock`).

Met while modelling, and followed by the models as the code has it: the split at
`heap.c:98`; the masks of `interrupts.c:67`; the movement -256 (`mouse.c:121`); the
first byte of the mouse; the last bus (`pci.c:66`); a missing `MCFG`
(`acpi.c:23`); the second command after a partial transfer (`ahci.c:69`);
`portCount` (`ahci.c:96`); the division by the bytes per sector (`ahci.c:74-76`); the
registers of ports 30 and 31 (`ahci.c:57`); the signature `fat.c:12` tests; the free of a
reserved frame (`page_frame_allocator.c:83`) and the bits behind total + 1 (`:44`); and in the loader the pages of a segment
(`bootloader.c:237`), the search for the RSDP (`:270`) and the pointers nobody sets.

## 5. Proofs

`PageFrameAllocatorProofs` proves, for every memory map, frame size, number of
low frames and content of the bit behind the bitmap:

- `TypeCorrectness`, `HintCorrectness`, `NoDoubleAllocation`, `Conservation`,
  `CounterCorrectness`: the five invariants of the run `frames`;
- `Refinement`: `Spec => ImplementsFramePool`.

The inductive invariant `IInv` is the five and `ReleasedCirculate`, with the
counters in the form `CountersCountBits`: free memory is expressed by the number
of *set* bits, which is what one step changes, and `CounterCorrectness` turns it
into clear bits at the end (`ClearCount`). The hint needs only itself: a request
moves it over set bits, a free lowers it. `FramesConserved` is inductive only
together with `OwnedFramesAreMarked` (freeing turns held frames into clear bits,
so held frames must have been set) and `ReleasedCirculate`: nothing is released before
the initialisation, and a released frame that is marked again is held by somebody, so
it is counted once in `released`, however often it comes back. No caller is assumed to
free only what it holds. The counters rest on four lemmas about
finite sets (`SetBits`, `ClearBits`, `BitsFinite`, `ClearCount`), the same for
reserving, locking and freeing. Refinement needs the hint invariant: the scan
reports exhaustion after looking only at bits from the hint on.

Assumptions: `MemoryMapAssumption` and `PFAAssumption` give the constants their
types. That the total size of a map, a recursive sum, is a natural number is
`TotalIsNatural` of `MemoryMapProofs`. Induction as the library states it is out of the provers' reach, but
its least element of a set (`Least`) is a fact about sets: were there a map without a
sum, or with another, there would be a first region at which it goes wrong.

`KernelConsoleProofs` proves `CursorStaysOnScreen`,
`Spec => []CursorOnScreen`: for every size of screen, cell and pointer, every
sequence of early prints, every last line and all keys and mouse moves, however
they fall between the accesses of the last print, the kernel halts with the
cursor in a cell. `CursorOnScreen` speaks of the halt only, because within the
print the cursor does leave the screen. The inductive invariant says where: it is
always on the grid of cells (`OnGrid`; a backspace could otherwise step in front
of the first column), beyond the last column only before the steps that test it
(`PastLine`), below the last line only before those (`PastPage`), and a coordinate
that was read and not yet written back is one from which a step to the right or
down is harmless (`Pending`), although a handler has moved the cursor since. Every
operation has a lemma that says where it leaves the cursor, and those of the
handlers give `Moved`, which keeps the invariant at every step of the print.
The assumption is `ConsoleAssumption`: the screen has two cells in each direction
and its width is a multiple of a cell's.

It also proves `ShiftsAreRight`, `Spec => []ShiftAsWhenPressed`, for any number of
keys waiting. `ShiftInv` carries, for each shift key, that the kernel's flag,
brought up to date with the codes that wait (`Track`), is whether the key is held,
and for each waiting code that its entry in `meant` is what the flags will be when
it is handled (`Agree`). The assumption is `KernelConsoleAssumption`: keys are codes
other than those of the shift keys.

It goes on from there to the pixels, under the same assumptions:

- `TypeCorrect`: `Spec => []TypeOK`, whatever bytes `UI_KB_QWERTY_Translate` reads
  behind its table;
- `GlyphsApart`: `Spec => []GlyphsDoNotOverlap`;
- `TextUnderPointer`: `Spec => []PointerLeavesNoTrace`.

A cell is drawn pixel by pixel while handlers run. `GlyphInv` says which part of the text
is the cells before the cursor and which rows, and pixels of the last row, of the next
cell may hold ink (`Neat`, `Before`, `Upto`, `UptoColumn`): at each step of `BG_PutChar` one, with the values it has read still
those of the cursor (`Unmoved`), for only the keyboard's handler moves it, and that
clears `quiet`. Each operation has a lemma that says which pixels it changes
(`Writes`, `Moves`). `PointerInv` needs one thing more than the property: before the
first movement the screen shows the text and the pointer is in the corner, so the
first restoration puts back what nobody saved. That what is saved goes back to where
it came from is `AreaPixel`.

`PageTableManagerProofs` proves, for every fanout, pool, set of pages and content
of uncleared memory:

- `TypeCorrect` and `TablesAreATree`: the invariants of the run `tables`;
- `Refinement`: `Spec => ImplementsAddressSpace`.

The inductive invariant `TableInv` gives each frame a level: the root has 1, a frame
that is no table has 0 (frame 0 and those of the pool among them), an entry leads
from a table to one of the next level, and no two entries lead to the same table
(`Shape`). From it follow the three things a request does. A new table is zeroed, so
putting it into an empty entry maps nothing (`AddedShape`, `AddedPages`); the
descent meets a table of the right level at each step, with the indices in frame 0
still those it started with, since frame 0 is no table while the pool lasts
(`DescendStep`); and two pages that differ have different entries at the last level,
so writing one changes one page (`WalksDiffer`, `EntryWritten`). Each table but the
root has exactly one entry that leads to it (`OneEntryEach`), which gives the
cardinalities `TablesFormATree` speaks of. `PTMAssumption` gives the constants their
types, asks for four entries, which `PMI_Create` stores in frame 0, and for words
wide enough for an index.

`KernelMemoryProofs` proves, for machines and tables of any size, and a heap and a disk
driver that request frames up to any bound:

- `TypeCorrect`: `Spec => []TypeOK`;
- `MemoryIsMapped` and `ScreenIsMapped`: `Spec => [](~exhausted => AllMemoryMapped)`, and
  the same of `FramebufferMapped`;
- `TablesAreReachable`: `Spec => []UsedFramesReachable`;
- `FramesAreApart`: `Spec => [](BitmapAhead => FramesHaveOneUse)`.

The invariant `Inv` has four parts. `BootInv` follows the loader: the map is that of the
memory as the last allocation left it, font and map have a frame each that the firmware
took. `MapOfMemory` says what such a map is: its regions are numbered in the order of
their addresses (`Numbered`), each begins where the one before it ends, and so
`MEM_GetTotalSize`, which adds up sizes, is the address at which memory ends, if memory has
no holes. `KernelInv` says how far the kernel has come. `UseInv` says who has which frame:
the tables are a tree (`Shape`, taken over from `PageTableManagerProofs` with the lemma
`WalkMaps` for one mapping), no table is a frame of the heap, of the disk driver or one
that was never in the pool, the heap's pages have different frames, and what was given away
lies below what is left (`Lower`). `MapInv` says which frames are mapped to themselves so
far (`Covered`): those the loop of `InitializeMemory` has passed. A mapping made later
keeps them because its page is another (`OnePageEach`: four indices tell two pages apart)
or the same page with the same frame. A page of the heap never is theirs.

`UsedFramesReachable` needs `Lower`: while a frame below the end of memory is left, the
tables and the driver's frames are below it, hence mapped. `FramesHaveOneUse` needs that
the frames `PFA_InitEfiMemoryMap` leaves in the pool are neither the kernel's nor low ones
nor on the screen nor taken by the loader (`PoolIsFree`).

The hypotheses: `NoHoles` (memory starts at 0, has no hole, and it, the framebuffer
and the devices are among the frames; `kernel_hole` shows what happens otherwise),
`HeapAbove` (the heap's virtual pages are behind all frames: with memory of more than
16 TiB in the real kernel, the heap's pages would be mapped over memory's) and, for
`FramesAreApart`, `PoolApart` (the firmware's pools are not where a kernel is loaded). The
machines of the run `kernel_memory` satisfy all three. A refused request is outside: the
code then writes tables to frame 0 (`exhausted`). `BitmapAhead` is where requests have not
yet come up to the bitmap, whose frames nobody reserves, since it is the frame of the
variable that is locked (`frames_bitmap`): beyond it, `FramesHaveOneUse` need not hold.
`KernelMemoryAssumption` gives the constants their types, and asks for a reserved frame at
address 0, four entries in a table and words wide enough for an index.

`InputProofs` proves `GatesAreSet`, `Spec => []OnlyGatesEntered`, with no assumption
on the constants: whatever masks the firmware and `INT_PIC_Remap` leave, and whether
or not requests are kept. The invariant `GateInv` is that only four lines ever rise,
that the vectors start at 32 and 40 from `INT_PIC_Remap` on, that the masks are
`Masks` when interrupts are enabled, and that a handler is one of three. It also
proves `TypeCorrect`, `Spec => []TypeOK`: what the mouse code computes with bytes
stays within bytes, the pointer stays on the screen, and no tick is counted that was
not raised (a tick raised is counted, requested or being handled: `ClockTypeOK`).

About the bytes it proves, as long as nothing has been disturbed, for every configuration the firmware leaves, any codes and
movements, and any number of them:

- `MouseIsEnabled`: `Spec => []MouseEnabled`;
- `KeysAreHandled`: `Spec => []KeysHandledOnce`;
- `PacketsStayInStep`: `KeepsRequests => (Spec => []PacketsInStep)`;
- `PointerFollows`: if requests are kept and -256 is no movement, `Spec => MovesPointer`,
  that is, the handler implements `Pointer`.

Until interrupts are enabled, a table (`At`) says for each of the eleven steps of
`UI_PS2Mouse_Init` where its bytes can be: a command in the input buffer or taken, an
answer with the controller, with the mouse or in the output buffer. `SetUp` is that
table; every read finds the byte it is for because a read not given up waits for one.
Afterwards `Idle` says whose byte a handler finds that is due (`Wanted`): the
keyboard's finds a code, or a byte that is no code, and none is read twice; the lemmas
`MovedCode`, `ReadCode` and `TypedCode` move a code along. For the mouse, `Packets` says
where the three bytes of the report being sent are: the first ones in the packet, one
in the buffer, the rest with the mouse (`SentAs`); that a report is waiting to be
carried out, or that the next has been made while the last byte of one is in the
buffer (`NoneSent`, `OneSent`, `TwoSent`). The first byte the handler drops is none of
these (`FirstIsStray`), because the acknowledgement read in step 8 leaves its request
behind (`Acknowledged`): that is the place where `KeepsRequests` is needed.
`PlaceOfReport` is the arithmetic of `UI_PS2Mouse_ProcessPacket`: it undoes the nine-bit
encoding for every movement but -256.

`DevicesProofs` proves, for every set of controllers, ports and tables, and every way
in which the controllers fail or lag behind:

- `TypeCorrect`: the types of the enumeration, the driver and the controllers;
- `ListsChangeWhileStopped`: `Spec => BasesChangeWhileStopped`;
- `ReadsAreGood`, `ParserSeesBootSectors`, `FailedPortsAreLeft`: `SuccessMeansRead`,
  `OnlyBootSectorsParsed`, `HaltedPortsNotUsed`;
- `ControllersAreDriven`: `Firmware => (Spec => []ControllersDrivenOnce)`.

The invariant follows one port through the driver. From the end of its waits until
it sets `ST` again, the engines of the port stand still (`Stopped`), so a command of
an earlier owner does not survive: a port that carries out a command, or has halted
on one, has that command issued and its engine on, and while the driver prepares a
read nothing is under way at its port (`Commands`). Buffer and table are therefore
nobody's while they change, and the sectors counted as transferred are in the buffer
(`Transfers`); a read whose first sector never came leaves the buffer zeroed, which
the parser refuses (`BootSector`). `Linked` and `Walk` say where enumeration and
driver stand to each other. `DrivenOnce` follows the enumeration: a controller is among
those the driver was called for if and only if the loops have gone past its address
(`Visited`: in an earlier segment, or in this one on an earlier bus, device or
function), and what answers at `(bus, 0, 0)` and `(bus, dev, 0)` is what let the inner
loops start (`Within`). Each step keeps this: the loops skip only what has no
controller behind it (`InsidePasses`, `BusesPass`), and a look at a function passes
that one alone (`FunctionPasses`), since no bus belongs to two segments. At the end
every segment has been visited. `Firmware` is the hypothesis: ACPI 2.0 is listed once
and last of the RSDPs, of which the loader keeps the last; there is at most one
`MCFG`, of which the kernel reads the first; no bus is in two of its segments, or its
controllers would be driven twice; and controllers have addresses the loops run over.
All machines of the run satisfy it. The assumptions `AHCIAssumption`, `PCIAssumption` and
`DevicesAssumption` give the constants their types and let some RSDP be found.

`HeapProofs` proves, for every page size, header size and set of sizes:

- for callers that free in the reverse order of allocation or not at all
  (`StackSpec`), under `Few`: `TypeCorrect`, `ListStaysFormed`, `BlocksApart`,
  `BlocksMapped`, `HeadersApart`, `TwoExpansionsSuffice`, the six invariants of the
  run `heap`;
- for callers that never free, as the kernel, under `Small`: `NeverFreeSafe`, the same
  six for any number of blocks.

`Good` describes the heap as `MEM_Malloc` finds it: headers linked both ways in the
order of their addresses, none reaching into the next or, the last, beyond the heap,
and all but the last in use; `Blocks` lays the blocks in use over the headers. That a
walk along the list, a recursive function, meets just these headers is
`WalkUnique`, again by the least number at which two walks would differ. `UseKeeps`, `ExpandKeeps` and `FreeKeeps` take
`Good` through a cut, an expansion and a free with its joins.

The hypotheses are about the length of the split (`heap.c:98`). The segment behind the
cut gets too large a length, so what the last header claims may exceed what the heap
has; `MEM_Malloc` then does not expand when it should. `Few` bounds the damage by the
number of blocks: all of them, and one more, fit in a page, which is what every
expansion leaves (`StackInv`: as much is left behind the last header as the blocks to
come can need). The run's sizes and number satisfy it. It is needed even for callers in
stack order: with sizes of 9, 12 and 15 units, many allocations and frees in turn let
the heap outgrow its memory. `Small` needs no such bound: every cut costs at
least a header and a unit of the length, so the length runs out before the memory does
(`Enough`), if a block is small against a page: `3 * (256 - 40) >= 20 * 18` for the
kernel's.

Every safety invariant of a passing run is stated by a theorem. Only model-checked is what
the theorems' hypotheses leave out, and, out of the provers' reach for good, liveness
(`EnumerationEnds`, `BytesAreRead`, `PrintEnds`) and ENABLED.

## 6. Plan

Done: frames, tables, heap, loader and memory set-up, console with keyboard and
pointer, interrupts with mouse, keyboard and timer, sleep, enumeration with the disk
driver; the proofs above.

Left: what is still true of `KernelMemory` after a request has been refused, and which
other orders of freeing the heap stands. With a hole in memory there is nothing to prove:
the sum of the sizes is then less than the last address.

## 7. Not modelled

- The GDT: a constant table and its loading, no behaviour to check.
- CPU information (`sysinfo/`): a cached read of `CPUID` that nothing calls.
- Vendored code: `gnu-efi`, `stb_sprintf.h` and the legacy boot sector, which
  the build leaves out. It is some 29000 of the repository's 33400 lines of
  implementation; of the kernel's and the loader's own code, about 2500 lines,
  half are mapped. Most of the rest is register and table layouts, declarations, and output.
- Of the loader: the file and graphics protocols it reads from, and the conversion of calling
  conventions.
- Of the interrupts: the fault handlers, which draw `Panic`'s screen and stop;
  `INT_PIC_Disable`, which nobody calls; `PIT_SetFrequency`, likewise.
- Of the memory code: the access
  bits of page table entries the code never sets, the processor's translation
  cache (a page is mapped before its first use, and no mapping is ever changed to
  another frame), the contents of pages, the names of memory types, and the store of `heap.c` through NULL.
- Of the console: colours, the shapes of glyphs, and the formatting of numbers.
- Of the disks: the layout of command lists and tables, the interrupts of the
  controllers, which the driver does not enable, and the computation of the root
  directory's sector beyond its result and its division.
