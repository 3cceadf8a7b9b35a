------------------------------ MODULE Bootloader ------------------------------
(***************************************************************************)
(* The loader, bootloader/bootloader.c, on the firmware's memory: it loads *)
(* the segments of the kernel and the font, takes the memory map and       *)
(* starts the kernel.  The status of nearly every call is only printed, or *)
(* ignored: a call that fails changes nothing, and the loader goes on.     *)
(*                                                                         *)
(* The firmware keeps the type of every frame; it takes the frames of      *)
(* AllocatePool from PoolFrames.                                           *)
(***************************************************************************)
EXTENDS MemoryMap

CONSTANTS
  Machines,    \* the machines: their memory, and where things are
  Excess,      \* pages asked for a page of a segment: (memsz + 7) / 8 makes 512
  PoolFrames   \* bound: where AllocatePool finds memory

VARIABLES
  machine,     \* the machine that is started
  loader,      \* where efi_main is
  segment,     \* the next segment of the kernel
  owner,       \* the type of each frame of memory
  font,        \* the frame of the font, {} before it is loaded
  map,         \* the memory map, <<>> before it is taken
  mapFrame     \* the frame the map lies in

boot == <<machine, loader, segment, owner, font, map, mapFrame>>

EfiLoaderData == 2

\* The types of a machine's frames before the loader runs, the segments of the
\* kernel, the framebuffer (first frame and number) and the pages of devices.
MachineType(m) ==
  /\ DOMAIN m.memory \subseteq Nat /\ m.memory \in [DOMAIN m.memory -> 0 .. 14]
  /\ m.segments \in Seq([start : Nat, pages : Nat \ {0}]) /\ m.segments # <<>>
  /\ m.framebuffer \in Nat \X Nat
  /\ m.devices \subseteq Nat

ASSUME BootloaderAssumption ==
  /\ \A m \in Machines : MachineType(m)
  /\ Excess \in Nat \ {0}
  /\ PoolFrames \subseteq Nat

\* From _KernelStart to _KernelEnd.
Kernel ==
  LET last == machine.segments[Len(machine.segments)]
  IN  machine.segments[1].start .. (last.start + last.pages - 1)

InitBoot ==
  /\ machine \in Machines
  /\ loader = "headers" /\ segment = 1
  /\ owner = machine.memory
  /\ font = {} /\ map = <<>> /\ mapFrame = {}

-------------------------------------------------------------------------------

Free == {f \in DOMAIN owner : owner[f] = EfiConventionalMemory}

Taken(frames) == [f \in DOMAIN owner |-> IF f \in frames THEN EfiLoaderData ELSE owner[f]]

\* The memory map: the runs of frames of one type.
MapOf(types) ==
  LET Run(f, g) == f .. g \subseteq DOMAIN types /\ \A h \in f .. g : types[h] = types[f]
      firsts == {f \in DOMAIN types : ~Run(f - 1, f)}
      Region(f) == [type |-> types[f], start |-> f,
                    numPages |-> Cardinality({g \in DOMAIN types : f <= g /\ Run(f, g)})]
  IN  [n \in 1 .. Cardinality(firsts) |->
         Region(CHOOSE f \in firsts : Cardinality({g \in firsts : g <= f}) = n)]

ReadElfProgramHeader ==
  /\ loader = "headers"
  /\ \E f \in PoolFrames \cap Free : owner' = Taken({f})
  /\ loader' = "segments"
  /\ UNCHANGED <<machine, segment, font, map, mapFrame>>

\* The pages asked for; if they are not all free, none is taken and the segment
\* is loaded all the same.
SegmentPages(s) == FrameRange(s.start, Excess * s.pages)

LoadSegment ==
  /\ loader = "segments" /\ segment <= Len(machine.segments)
  /\ LET pages == SegmentPages(machine.segments[segment])
     IN  owner' = IF pages \subseteq Free THEN Taken(pages) ELSE owner
  /\ segment' = segment + 1
  /\ UNCHANGED <<machine, loader, font, map, mapFrame>>

EndSegments ==
  /\ loader = "segments" /\ segment > Len(machine.segments)
  /\ loader' = "font"
  /\ UNCHANGED <<machine, segment, owner, font, map, mapFrame>>

LoadPSF1Font ==
  /\ loader = "font"
  /\ \E f \in PoolFrames \cap Free : font' = {f} /\ owner' = Taken({f})
  /\ loader' = "map"
  /\ UNCHANGED <<machine, segment, map, mapFrame>>

\* The buffer is allocated before the map that is put into it is taken.
MapBeforeBuffer(f) == MapOf(owner)                  \* mutant: the other way round
MapWithBuffer(f) == MapOf(Taken({f}))

LibMemoryMap ==
  /\ loader = "map"
  /\ \E f \in PoolFrames \cap Free :
       /\ mapFrame' = {f}
       /\ owner' = Taken({f})
       /\ map' = MapWithBuffer(f)
  /\ loader' = "kernel"
  /\ UNCHANGED <<machine, segment, font>>

Loader ==
  \/ ReadElfProgramHeader \/ LoadSegment \/ EndSegments \/ LoadPSF1Font \/ LibMemoryMap

BootTypeOK ==
  /\ machine \in Machines
  /\ loader \in {"headers", "segments", "font", "map", "kernel"}
  /\ segment \in 1 .. (Len(machine.segments) + 1)
  /\ owner \in [DOMAIN machine.memory -> 0 .. 14]
  /\ font \subseteq DOMAIN owner /\ mapFrame \subseteq DOMAIN owner
  /\ map \in Seq(Descriptor)
===============================================================================
