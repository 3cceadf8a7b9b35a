------------------------------ MODULE Interrupts ------------------------------
(***************************************************************************)
(* The two cascaded interrupt controllers (8259), as interrupts.c sets     *)
(* them up and acknowledges them, and the gates of the interrupt table.    *)
(* A line is its number, 0 to 7 at the first controller and 8 to 15 at the *)
(* second, which asks the first through line 2.                            *)
(*                                                                         *)
(* A line that rises is remembered in irr, masked or not.  Whether the     *)
(* controller forgets it when the line falls before it was served differs: *)
(* the original chip does, emulated ones may keep it (KeepsRequests).      *)
(***************************************************************************)
EXTENDS Integers, FiniteSets

CONSTANTS
  FirmwareMasks,  \* the masks the firmware may leave
  Leftovers,      \* what the uninitialised a2 may hold, as masked lines
  KeepsRequests

VARIABLES
  imr,       \* the masked lines of both controllers
  irr,       \* the lines with a request
  isr,       \* the lines in service
  vectors    \* where the vectors of the controllers start, <<first, second>>

interruptVars == <<imr, irr, isr, vectors>>

Master == 0 .. 7
Slave == 8 .. 15
CASCADE == 2

ASSUME InterruptsAssumption ==
  /\ FirmwareMasks \subseteq SUBSET (Master \cup Slave)
  /\ Leftovers \subseteq SUBSET Slave
  /\ KeepsRequests \in BOOLEAN

Highest(lines) == CHOOSE l \in lines : \A k \in lines : l <= k

-------------------------------------------------------------------------------
(***************************************************************************)
(* The controllers                                                         *)
(***************************************************************************)

\* The lines a controller may ask for: neither masked nor behind one in service.
Open(chip, lines) ==
  {l \in lines \cap chip : l \notin imr /\ \A s \in isr \cap chip : l < s}

SlaveRequests == Open(Slave, irr)

MasterRequests ==
  Open(Master, irr \cup IF SlaveRequests = {} THEN {} ELSE {CASCADE})

\* The line the processor is given when it takes an interrupt.
Delivered ==
  IF Highest(MasterRequests) = CASCADE THEN Highest(SlaveRequests) ELSE Highest(MasterRequests)

Acknowledge(l) ==
  /\ irr' = irr \ {l}
  /\ isr' = isr \cup {l} \cup IF l \in Slave THEN {CASCADE} ELSE {}
  /\ UNCHANGED <<imr, vectors>>

\* The requests after the lines in before become those in after.
Requests(before, after) ==
  (irr \cup (after \ before)) \ IF KeepsRequests THEN {} ELSE before \ after

Vector(l) == IF l \in Master THEN vectors[1] + l ELSE vectors[2] + l - 8

\* The end of the interrupt in service with the highest priority.
EndOf(chip, lines) ==
  IF lines \cap chip = {} THEN lines ELSE lines \ {Highest(lines \cap chip)}

-------------------------------------------------------------------------------
(***************************************************************************)
(* interrupts.c                                                            *)
(***************************************************************************)

INT_PIC_EndMaster == isr' = EndOf(Master, isr)

EndSlaveOnly == isr' = EndOf(Slave, isr)            \* mutant: the first is not told
INT_PIC_EndSlave == isr' = EndOf(Master, EndOf(Slave, isr))

\* a1 ends up with the mask of the second controller, a2 with none.
MaskAfterRemap(a2) == {l - 8 : l \in imr \cap Slave} \cup a2

\* The initialisation words make the controllers forget requests and services.
INT_PIC_Remap(offset1, offset2) ==
  /\ vectors' = <<offset1, offset2>>
  /\ irr' = {} /\ isr' = {}
  /\ \E a2 \in Leftovers : imr' = MaskAfterRemap(a2)

\* The gates InitializeInterrupts sets for lines.
KeyboardAndMouse(v, keyboard, mouse) ==
  CASE v = 32 -> "timer" [] v = keyboard -> "keyboard" [] v = mouse -> "mouse" [] OTHER -> "none"
Swapped(v) == KeyboardAndMouse(v, 44, 33)           \* mutant: the gates are exchanged
Gate(v) == KeyboardAndMouse(v, 33, 44)

\* The masks _start sets.
AllOpen == {}                                       \* mutant: nothing is masked
Masks == (Master \ {0, 1, 2}) \cup (Slave \ {12})
===============================================================================
