---------------------------------- MODULE PCI ----------------------------------
(***************************************************************************)
(* The enumeration of PCI functions, acpi.c and pci.c: the loader finds    *)
(* the firmware's tables, InitializeACPI of kernel.c looks for MCFG among  *)
(* them, and PCI_EnumeratePCI walks the segments it lists, bus by bus,     *)
(* device by device, function by function.                                 *)
(* One step is one header looked at, or the end of one loop.  Every header *)
(* is mapped at its own address before it is read (MapDevice of            *)
(* KernelMemory).                                                          *)
(*                                                                         *)
(* A header is "absent" (a deviceID of 0 or 0xFFFF), an AHCI controller    *)
(* (class 1, subclass 6, interface 1) or something else.                   *)
(***************************************************************************)
EXTENDS Integers, Sequences

CONSTANTS
  Machines,      \* the firmware's tables, and the functions that answer
  DeviceCount,   \* the devices of a bus, 32
  FunctionCount  \* the functions of a device, 8

VARIABLES
  machine,
  xsdt,          \* the tables the RSDP leads to
  mcfg,          \* the table InitializeACPI found, or 0
  level,         \* the loop the enumeration is in
  i_entry,       \* PCI_EnumeratePCI's i, from 1
  bus, dev, func

firmware == <<machine, xsdt>>
enumeration == <<mcfg, level, i_entry, bus, dev, func>>

NULL == 0

MCFG_HEADER == 44
DEVICE_CONFIG == 16

\* machine.functions: the functions that answer, by their addresses.
Header(a) == IF a \in DOMAIN machine.functions THEN machine.functions[a] ELSE "absent"

\* machine.configuration: the entries of the firmware's configuration table; one
\* that is an RSDP leads to the tables of its XSDT.  While it looks at entry k the
\* loader compares the identifier of entry 2k - 1, which may lie behind the end,
\* and takes entry k if they differ; the last one stays.
Compared(conf, k) == IF 2 * k - 1 \in DOMAIN conf THEN conf[2 * k - 1].guid ELSE "none"

RSDPs(conf) == {k \in DOMAIN conf : conf[k].isRSDP /\ Compared(conf, k) # "acpi2"}

SegmentType == [baseAddress : Nat, startBus : 0 .. 255, endBus : 0 .. 255]

TableType == [signature : STRING, segments : Seq(SegmentType)]
EntryType == [guid : {"acpi1", "acpi2", "other"}, isRSDP : BOOLEAN, tables : Seq(TableType)]

MachineType(m) ==
  /\ m.configuration \in Seq(EntryType)
  /\ RSDPs(m.configuration) # {}

ASSUME PCIAssumption ==
  /\ DeviceCount \in Nat \ {0} /\ FunctionCount \in Nat \ {0}
  /\ \A m \in Machines : MachineType(m)

\* ACPI_FindTable: the first table with the signature.
FindTable(signature) ==
  LET matches == {n \in DOMAIN xsdt : xsdt[n].signature = signature}
  IN  IF matches = {} THEN {NULL} ELSE {n \in matches : \A k \in matches : n <= k}

\* The caller reads the length of the table it was given, even that of none: at
\* address 4 lies the upper half of an index of the page table walk, which is 0.
Length(table) ==
  IF table = NULL THEN 0 ELSE MCFG_HEADER + DEVICE_CONFIG * Len(xsdt[table].segments)

\* enteries; 2^64 - 44 by 16, in an int, is -3.
Entries(table) == (Length(table) - MCFG_HEADER) \div DEVICE_CONFIG

InitPCI ==
  /\ machine \in Machines
  /\ \E k \in RSDPs(machine.configuration) :
       /\ \A j \in RSDPs(machine.configuration) : j <= k
       /\ xsdt = machine.configuration[k].tables
  /\ mcfg = NULL /\ level = "start"
  /\ i_entry = 0 /\ bus = 0 /\ dev = 0 /\ func = 0

\* The next turn of the loop over the segments of a table.
Turn(table, n) ==
  /\ i_entry' = n
  /\ IF n <= Entries(table)
     THEN level' = "bus" /\ bus' = xsdt[table].segments[n].startBus
     ELSE level' = "end" /\ UNCHANGED bus
  /\ UNCHANGED <<firmware, dev, func>>

InitializeACPI ==
  /\ level = "start"
  /\ \E table \in FindTable("MCFG") : mcfg' = table /\ Turn(table, 1)

Segment == xsdt[mcfg].segments[i_entry]

Buses == Segment.startBus .. Segment.endBus - 1              \* the last one is left out

WrongShift(b, d, f) == <<Segment.baseAddress, b, d + f, 0>>   \* mutant: func << 15
AddressOf(b, d, f) == <<Segment.baseAddress, b, d, f>>

BusesDone ==
  /\ level = "bus" /\ bus \notin Buses
  /\ UNCHANGED mcfg
  /\ Turn(mcfg, i_entry + 1)

\* A bus, or a device, whose first function does not answer is passed over.
EnumerateBus ==
  /\ level = "bus" /\ bus \in Buses
  /\ IF Header(AddressOf(bus, 0, 0)) = "absent"
     THEN bus' = bus + 1 /\ UNCHANGED <<level, dev>>
     ELSE level' = "device" /\ dev' = 0 /\ UNCHANGED bus
  /\ UNCHANGED <<firmware, mcfg, i_entry, func>>

DevicesDone ==
  /\ level = "device" /\ dev = DeviceCount
  /\ level' = "bus" /\ bus' = bus + 1
  /\ UNCHANGED <<firmware, mcfg, i_entry, dev, func>>

EnumerateDevice ==
  /\ level = "device" /\ dev < DeviceCount
  /\ IF Header(AddressOf(bus, dev, 0)) = "absent"
     THEN dev' = dev + 1 /\ UNCHANGED <<level, func>>
     ELSE level' = "function" /\ func' = 0 /\ UNCHANGED dev
  /\ UNCHANGED <<firmware, mcfg, i_entry, bus>>

FunctionsDone ==
  /\ level = "function" /\ func = FunctionCount
  /\ level' = "device" /\ dev' = dev + 1
  /\ UNCHANGED <<firmware, mcfg, i_entry, bus, func>>

Function == AddressOf(bus, dev, func)

\* A controller is left to its driver; the enumeration goes on after it.
EnumerateFunction ==
  /\ level = "function" /\ func < FunctionCount
  /\ IF Header(Function) = "ahci" THEN level' = "driver" ELSE UNCHANGED level
  /\ func' = func + 1
  /\ UNCHANGED <<firmware, mcfg, i_entry, bus, dev>>

EnumerationStep ==
  \/ InitializeACPI \/ BusesDone \/ EnumerateBus \/ DevicesDone \/ EnumerateDevice \/ FunctionsDone

PCITypeOK ==
  /\ machine \in Machines
  /\ mcfg \in {NULL} \cup DOMAIN xsdt
  /\ level \in {"start", "bus", "device", "function", "driver", "end"}
  /\ i_entry \in Nat /\ bus \in 0 .. 256
  /\ dev \in 0 .. DeviceCount /\ func \in 0 .. FunctionCount
===============================================================================
