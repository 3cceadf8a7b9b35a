-------------------------------- MODULE Devices --------------------------------
(***************************************************************************)
(* Finding the disks: the enumeration of PCI functions calls the driver    *)
(* for every AHCI controller it meets, and goes on when the driver is      *)
(* through with it; only then does the kernel enable interrupts.           *)
(***************************************************************************)
EXTENDS AHCI, PCI, FiniteSets, Functions

ASSUME DevicesAssumption ==
  \A m \in Machines : \A a \in DOMAIN m.functions : m.functions[a] = "ahci" => a \in Controllers

VARIABLE driven   \* history: the controllers the driver was called for

vars == <<ahci, firmware, enumeration, driven>>

Init == InitAHCI /\ InitPCI /\ driven = <<>>

Enumerate ==
  /\ EnumerationStep
  /\ UNCHANGED <<ahci, driven>>

\* A function that is not for the driver, and one that is.
Pass ==
  /\ EnumerateFunction /\ Header(Function) # "ahci"
  /\ UNCHANGED <<ahci, driven>>

Drive ==
  /\ EnumerateFunction /\ Header(Function) = "ahci"
  /\ AHCI_AHCIDriver(Function)
  /\ driven' = Append(driven, Function)

RunDriver ==
  /\ level = "driver"
  /\ Driver
  /\ UNCHANGED <<firmware, enumeration, driven>>

\* The call returns when all ports are through.
Return ==
  /\ level = "driver" /\ pc = "done"
  /\ level' = "function"
  /\ UNCHANGED <<ahci, firmware, mcfg, i_entry, bus, dev, func, driven>>

Kernel == Enumerate \/ Pass \/ Drive \/ RunDriver \/ Return

Work(p) == Device(p) /\ UNCHANGED <<firmware, enumeration, driven>>

Next == Kernel \/ \E p \in Disks : Work(p)

\* The kernel runs on; a controller may fall silent at any time.
Spec == Init /\ [][Next]_vars /\ WF_vars(Kernel)

-------------------------------------------------------------------------------
TypeOK == AHCITypeOK /\ PCITypeOK /\ driven \in Seq(Controllers)

\* The controllers that can be met by the tables of ACPI 2.0: those in a device
\* whose first function answers, on a bus whose first device does, but the last
\* of a segment.
Listed(a) ==
  \E conf \in Range(machine.configuration) : conf.guid = "acpi2" /\
    \E t \in Range(conf.tables) : t.signature = "MCFG" /\
      \E s \in Range(t.segments) : s.baseAddress = a[1] /\ s.startBus <= a[2] /\ a[2] < s.endBus

Found ==
  {a \in Controllers :
     /\ Header(a) = "ahci"
     /\ Listed(a)
     /\ Header(<<a[1], a[2], 0, 0>>) # "absent"
     /\ Header(<<a[1], a[2], a[3], 0>>) # "absent"}

\* Wherever the controllers lie, each that can be met has been driven when the
\* enumeration is through, and none was driven twice; without a table MCFG the
\* kernel goes on without disks.
ControllersDrivenOnce ==
  level = "end" =>
    /\ Len(driven) = Cardinality(Found)
    /\ Range(driven) = Found

\* What a controller has yet to do for the port p: follow its engines' switches,
\* or carry out a command.
Owes(p) ==
  \/ hba[p].FR # hba[p].FRE
  \/ hba[p].CR # hba[p].ST
  \/ hba[p].CR /\ hba[p].CI /\ ~halted[p]

\* The driver is in one of its loops without a limit, for something the port p
\* owes, or with a command for a port that stopped at an earlier error.
WaitsFor(p) ==
  /\ level = "driver" /\ port = p
  /\ pc \in {"FR?", "CR?", "stopped?", "complete?", "error?"}
  /\ Owes(p) \/ (halted[p] /\ partial /\ ~hba[p].TFES)

\* However disks fail, and however long they are busy, the kernel gets to the end
\* of the enumeration, except in three cases: a fault, of the division in the
\* driver or behind its page of registers; a controller that falls silent with
\* something owed; a command for a port that has stopped in the middle of the one
\* before.
EnumerationEnds ==
  \/ <>(level = "end" \/ pc = "fault")
  \/ \E p \in Disks : <>[]WaitsFor(p)
===============================================================================
