---------------------------- MODULE MCKernelMemory ----------------------------
(***************************************************************************)
(* Booting on machines of some fifty frames, with tables of eight entries. *)
(***************************************************************************)
EXTENDS KernelMemory

EfiBootServicesData == 4

\* Memory without the frames of its holes; the firmware has the last ones.
Machine(frames, firmware, kernel, framebuffer, devices) ==
  [memory |-> [f \in frames |-> IF f \in firmware THEN EfiBootServicesData ELSE EfiConventionalMemory],
   segments |-> <<[start |-> kernel, pages |-> 2], [start |-> kernel + 2, pages |-> 1]>>,
   framebuffer |-> framebuffer,
   devices |-> devices]

\* The framebuffer lies right behind memory, or in tables of its own.
Contiguous ==
  {Machine(0 .. 54, firmware, kernel, fb, {57, 62}) :
     kernel \in {21, 22}, firmware \in {{}, 53 .. 54}, fb \in {<<55, 2>>, <<59, 1>>}}

\* A machine with a hole of eight frames in its memory.
Holed == {Machine((0 .. 54) \ (30 .. 37), {}, 22, <<56, 1>>, {62})}
===============================================================================
