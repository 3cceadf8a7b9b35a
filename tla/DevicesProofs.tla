----------------------------- MODULE DevicesProofs -----------------------------
(***************************************************************************)
(* Theorems about Devices: whatever the firmware left behind, and however  *)
(* the controllers interleave with the driver and fail, a port gets its    *)
(* lists while it is stopped, a read that reports success delivered the    *)
(* sectors asked for, and each controller is driven once.                  *)
(*                                                                         *)
(* The argument follows one port through the driver.  From "CR?" to        *)
(* "set ST" its engines stand still (Stopped), so no command of an earlier *)
(* owner survives (Commands); from there to "issue" and again at "read"    *)
(* nothing is under way for it (Transfers), so the buffer and the table    *)
(* that change there are nobody's; what a finished command left in the     *)
(* buffer is therefore what the table of that command asked for.           *)
(***************************************************************************)
EXTENDS Devices, TLAPS, FiniteSetTheorems

\* A step of the driver and the controllers, and none of the enumeration.
AHCIStep ==
  \/ pc = "done" /\ \E c \in Controllers : AHCI_AHCIDriver(c)
  \/ Driver
  \/ \E p \in Disks : Device(p)

\* The driver works only while the enumeration waits for it.
Linked ==
  /\ machine \in Machines
  /\ level # "driver" => pc = "done"

-------------------------------------------------------------------------------
(***************************************************************************)
(* Devices by its parts                                                    *)
(***************************************************************************)

\* A function that reports to be a controller is one.
LEMMA ControllersAreListed ==
  ASSUME Linked, NEW a, Header(a) = "ahci"
  PROVE  a \in Controllers
BY DevicesAssumption DEF Linked, Header

LEMMA LinkedInit == Init => Linked
BY DEF Init, InitAHCI, InitPCI, Linked

\* A step of the composition is a step of the disks, or leaves them alone.
LEMMA StepsOfParts ==
  ASSUME Linked, [Next]_vars
  PROVE  Linked' /\ (AHCIStep \/ UNCHANGED ahci)
<1> USE DEF Linked
<1>1. CASE Enumerate
  <2>1. UNCHANGED <<machine, ahci>>
    BY <1>1 DEF Enumerate, EnumerationStep, InitializeACPI, Turn, BusesDone, EnumerateBus,
      DevicesDone, EnumerateDevice, FunctionsDone, firmware
  <2>2. level # "driver"
    BY <1>1 DEF Enumerate, EnumerationStep, InitializeACPI, BusesDone, EnumerateBus,
      DevicesDone, EnumerateDevice, FunctionsDone
  <2> QED BY <2>1, <2>2 DEF ahci, driver
<1>2. CASE Pass
  BY <1>2 DEF Pass, EnumerateFunction, firmware, ahci, driver
<1>3. CASE Drive
  <2>1. level # "driver" /\ level' = "driver" /\ machine' = machine
    BY <1>3 DEF Drive, EnumerateFunction, firmware
  <2>2. AHCI_AHCIDriver(Function) /\ Function \in Controllers
    BY <1>3, ControllersAreListed DEF Drive
  <2> QED BY <2>1, <2>2 DEF AHCIStep
<1>4. CASE RunDriver
  BY <1>4 DEF RunDriver, AHCIStep, firmware, enumeration
<1>5. CASE Return
  BY <1>5 DEF Return, firmware, ahci, driver
<1>6. ASSUME NEW p \in Disks, Work(p) PROVE Linked' /\ AHCIStep
  <2>1. UNCHANGED <<machine, level>>
    BY <1>6 DEF Work, firmware, enumeration
  <2>2. UNCHANGED pc
    BY <1>6 DEF Work, Device, FollowFRE, StartEngine, StopEngine, Ready, Take, Transfer,
      Complete, Fail, driver
  <2>3. AHCIStep
    BY <1>6 DEF Work, AHCIStep
  <2> QED BY <2>1, <2>2, <2>3
<1>7. CASE UNCHANGED vars
  BY <1>7 DEF vars, ahci, driver, firmware, enumeration
<1> QED BY <1>1, <1>2, <1>3, <1>4, <1>5, <1>6, <1>7 DEF Next, Kernel

-------------------------------------------------------------------------------
(***************************************************************************)
(* Types                                                                   *)
(***************************************************************************)

\* The contents a buffer may have.
Contents == [0 .. SectorCount - 1 -> Sectors \cup {Zero, Old}]

LEMMA Disks31 ==
  ASSUME NEW c \in Controllers, NEW p \in ProbePorts(c)
  PROVE  p \in 0 .. 31 /\ <<c, p>> \in Disks
BY AHCIAssumption DEF ProbePorts

\* Where the loop over the ports goes on.
LEMMA PortsType ==
  ASSUME NEW c \in Controllers, NEW left \in SUBSET ProbePorts(c), NextPort(left),
         controller' = c, i \in 0 .. 31
  PROVE  pc' \in {"done", "clear ST"} /\ i' \in 0 .. 31 /\ (pc' # "done" => port' \in Disks)
<1>1. CASE left = {} /\ pc' = "done" /\ UNCHANGED i
  BY <1>1
<1>2. ASSUME NEW p \in left, pc' = "clear ST", i' = p
      PROVE  i' \in 0 .. 31 /\ port' \in Disks
  BY <1>2, Disks31 DEF port
<1> QED BY <1>1, <1>2 DEF NextPort

LEMMA Numbers ==
  RootDirectory \in Nat /\ SectorCount \in Nat \ {0} /\ MaxSpin \in Nat \ {0}
BY AHCIAssumption

\* The type invariant by its parts: where the driver is, the registers, what the
\* controllers do, the driver's variables, the memory they share.
PlaceOK ==
  /\ controller \in Controllers /\ pc \in PCs
  /\ i \in 0 .. 31 /\ (pc \notin {"done", "fault"} => port \in Disks)

RegistersOK == hba \in [Disks -> Registers]

DeviceOK ==
  /\ running \in [Disks -> BOOLEAN] /\ done \in [Disks -> 0 .. SectorCount]
  /\ halted \in [Disks -> BOOLEAN] /\ partial \in BOOLEAN

DriverOK ==
  /\ phase \in {"boot", "root"} /\ spin \in 0 .. MaxSpin /\ success \in BOOLEAN
  /\ table \in [Disks -> {0, RootDirectory}]

BufferOK == buffer \in [Disks -> Contents]

LEMMA TypeByParts ==
  AHCITypeOK <=> PlaceOK /\ RegistersOK /\ DeviceOK /\ DriverOK /\ BufferOK
BY DEF AHCITypeOK, PlaceOK, RegistersOK, DeviceOK, DriverOK, BufferOK, Contents

LEMMA TypeInit == InitAHCI => AHCITypeOK
<1> SUFFICES ASSUME InitAHCI PROVE AHCITypeOK
  OBVIOUS
<1>1. PlaceOK
  BY AHCIAssumption DEF InitAHCI, PlaceOK, PCs
<1>2. RegistersOK
  BY DEF InitAHCI, RegistersOK
<1>3. DeviceOK
  <2>1. running = [p \in Disks |-> FALSE] /\ done = [p \in Disks |-> 0]
        /\ halted = [p \in Disks |-> FALSE] /\ partial = FALSE
    BY DEF InitAHCI
  <2>2. running \in [Disks -> BOOLEAN] /\ halted \in [Disks -> BOOLEAN]
    BY <2>1
  <2>3. done \in [Disks -> 0 .. SectorCount]
    BY <2>1, Numbers
  <2> QED BY <2>1, <2>2, <2>3 DEF DeviceOK
<1>4. DriverOK
  <2>1. phase = "boot" /\ spin = 0 /\ success = FALSE /\ table = [p \in Disks |-> 0]
    BY DEF InitAHCI
  <2>2. table \in [Disks -> {0, RootDirectory}]
    BY <2>1
  <2>3. spin \in 0 .. MaxSpin
    BY <2>1, Numbers
  <2> QED BY <2>1, <2>2, <2>3 DEF DriverOK
<1>5. BufferOK
  BY DEF InitAHCI, BufferOK, Contents
<1> QED BY <1>1, <1>2, <1>3, <1>4, <1>5, TypeByParts

\* A step of the driver that stays at its port; all but AfterRead do.
Access ==
  \/ ClearST \/ ClearFRE \/ TestFR \/ TestCR \/ SetBases \/ WaitStopped \/ SetFRE \/ SetST
  \/ NewBuffer \/ ClearStatus \/ Spin \/ EndSpin \/ Issue \/ TestComplete \/ TestError

\* A step of a controller leaves the driver where it is.
LEMMA DeviceLeavesDriver ==
  ASSUME NEW p, Device(p)
  PROVE  UNCHANGED driver
BY DEF Device, FollowFRE, StartEngine, StopEngine, Ready, Take, Transfer, Complete, Fail

LEMMA AccessStaysAtPort ==
  ASSUME Access
  PROVE  UNCHANGED <<controller, i>> /\ {pc, pc'} \subseteq PCs \ {"done", "fault"}
<1>1. CASE ClearST \/ ClearFRE \/ TestFR \/ TestCR \/ SetBases
  BY <1>1 DEF ClearST, ClearFRE, TestFR, TestCR, SetBases, Step, PCs
<1>2. CASE WaitStopped \/ SetFRE \/ SetST \/ NewBuffer \/ ClearStatus
  BY <1>2 DEF WaitStopped, SetFRE, SetST, NewBuffer, ClearStatus, Step, PCs
<1>3. CASE Spin \/ EndSpin \/ Issue \/ TestComplete \/ TestError
  BY <1>3 DEF Spin, EndSpin, Issue, TestComplete, TestError, Step, PCs
<1> QED BY <1>1, <1>2, <1>3 DEF Access

\* Only the calls and the loop over the ports change which port the driver is at.
LEMMA PlaceStep ==
  ASSUME PlaceOK, AHCIStep
  PROVE  PlaceOK'
<1>1. ASSUME NEW c \in Controllers, AHCI_AHCIDriver(c) PROVE PlaceOK'
  <2>1. controller' = c
    BY <1>1 DEF AHCI_AHCIDriver
  <2>2. CASE NextPort(ProbePorts(c))
    <3>1. pc' \in {"done", "clear ST"} /\ i' \in 0 .. 31 /\ (pc' # "done" => port' \in Disks)
      BY <2>1, <2>2, PortsType DEF PlaceOK
    <3> QED BY <2>1, <3>1 DEF PlaceOK, PCs
  <2>3. CASE pc' = "fault" /\ UNCHANGED i
    BY <2>1, <2>3 DEF PlaceOK, PCs
  <2> QED BY <1>1, <2>2, <2>3 DEF AHCI_AHCIDriver
<1>2. CASE AfterRead
  <2>1. controller' = controller /\ pc = "read"
    BY <1>2 DEF AfterRead
  <2>2. CASE pc' = "clear status" /\ UNCHANGED i
    BY <2>1, <2>2 DEF PlaceOK, PCs, port
  <2>4. CASE pc' = "fault" /\ UNCHANGED i
    BY <2>1, <2>4 DEF PlaceOK, PCs
  <2>3. CASE NextPort(PortsLeft)
    <3>1. PortsLeft \subseteq ProbePorts(controller)
      BY DEF PortsLeft
    <3>2. pc' \in {"done", "clear ST"} /\ i' \in 0 .. 31 /\ (pc' # "done" => port' \in Disks)
      BY <2>1, <2>3, <3>1, PortsType DEF PlaceOK
    <3> QED BY <2>1, <3>2 DEF PlaceOK, PCs
  <2> QED BY <1>2, <2>2, <2>3, <2>4 DEF AfterRead
<1>3. CASE Access
  BY <1>3, AccessStaysAtPort DEF PlaceOK, port
<1>4. ASSUME NEW p \in Disks, Device(p) PROVE PlaceOK'
  BY <1>4, DeviceLeavesDriver DEF PlaceOK, driver, port
<1> QED BY <1>1, <1>2, <1>3, <1>4 DEF AHCIStep, Driver, Access

\* A register of a port takes its new value, and the rest stays as it was.
LEMMA RegisterWrite ==
  ASSUME RegistersOK, NEW p \in Disks, NEW r \in Registers
  PROVE  [hba EXCEPT ![p] = r] \in [Disks -> Registers]
BY DEF RegistersOK

\* The registers a driver may write, and those the controller does.
LEMMA FieldWrite ==
  ASSUME NEW r \in Registers, NEW v \in BOOLEAN
  PROVE  /\ [r EXCEPT !.ST = v] \in Registers /\ [r EXCEPT !.FRE = v] \in Registers
         /\ [r EXCEPT !.CR = v] \in Registers /\ [r EXCEPT !.FR = v] \in Registers
         /\ [r EXCEPT !.BSY = v] \in Registers /\ [r EXCEPT !.TFES = v] \in Registers
         /\ [r EXCEPT !.CI = v] \in Registers /\ [r EXCEPT !.bases = "driver"] \in Registers
<1>1. [r EXCEPT !.ST = v] \in Registers /\ [r EXCEPT !.FRE = v] \in Registers
  BY DEF Registers
<1>2. [r EXCEPT !.CR = v] \in Registers /\ [r EXCEPT !.FR = v] \in Registers
  BY DEF Registers
<1>3. [r EXCEPT !.BSY = v] \in Registers /\ [r EXCEPT !.TFES = v] \in Registers
  BY DEF Registers
<1>4. [r EXCEPT !.CI = v] \in Registers /\ [r EXCEPT !.bases = "driver"] \in Registers
  BY DEF Registers
<1> QED BY <1>1, <1>2, <1>3, <1>4

LEMMA RegistersStep ==
  ASSUME RegistersOK, PlaceOK, AHCIStep
  PROVE  RegistersOK'
<1>1. CASE AfterRead \/ (\E c \in Controllers : AHCI_AHCIDriver(c))
  BY <1>1 DEF AfterRead, AHCI_AHCIDriver, RegistersOK
<1>2. CASE TestFR \/ TestCR \/ WaitStopped \/ NewBuffer \/ Spin \/ EndSpin \/ TestComplete \/ TestError
  BY <1>2 DEF TestFR, TestCR, WaitStopped, NewBuffer, Spin, EndSpin, TestComplete, TestError, RegistersOK
<1>3. CASE ClearST \/ ClearFRE \/ SetFRE \/ SetST
  <2>1. port \in Disks
    BY <1>3 DEF ClearST, ClearFRE, SetFRE, SetST, Step, PlaceOK
  <2>2. PICK r \in Registers : hba' = [hba EXCEPT ![port] = r]
    <3>1. hba[port] \in Registers
      BY <2>1 DEF RegistersOK
    <3>2. CASE ClearST \/ SetST
      <4>1. PICK v \in BOOLEAN : hba' = [hba EXCEPT ![port] = [hba[port] EXCEPT !.ST = v]]
        BY <3>2 DEF ClearST, SetST, Set
      <4> QED BY <3>1, <4>1, FieldWrite
    <3>3. CASE ClearFRE \/ SetFRE
      <4>1. PICK v \in BOOLEAN : hba' = [hba EXCEPT ![port] = [hba[port] EXCEPT !.FRE = v]]
        BY <3>3 DEF ClearFRE, SetFRE, Set
      <4> QED BY <3>1, <4>1, FieldWrite
    <3> QED BY <1>3, <3>2, <3>3
  <2> QED BY <2>1, <2>2, RegisterWrite DEF RegistersOK
<1>4. CASE SetBases \/ ClearStatus \/ Issue
  <2>1. port \in Disks
    BY <1>4 DEF SetBases, ClearStatus, Issue, Step, PlaceOK
  <2>2. PICK r \in Registers : hba' = [hba EXCEPT ![port] = r]
    <3>1. hba[port] \in Registers
      BY <2>1 DEF RegistersOK
    <3>2. CASE SetBases
      BY <3>1, <3>2, FieldWrite DEF SetBases, Set
    <3>3. CASE ClearStatus
      BY <3>1, <3>3, FieldWrite DEF ClearStatus, StatusCleared, Set
    <3>4. CASE Issue
      BY <3>1, <3>4, FieldWrite DEF Issue, Issued, Set
    <3> QED BY <1>4, <3>2, <3>3, <3>4
  <2> QED BY <2>1, <2>2, RegisterWrite DEF RegistersOK
<1>5. ASSUME NEW p \in Disks, Device(p) PROVE RegistersOK'
  <2>1. hba[p] \in Registers
    BY <1>5 DEF RegistersOK
  <2>2. CASE FollowFRE(p)
    <3>1. hba[p].FRE \in BOOLEAN
      BY <2>1 DEF Registers
    <3> QED BY <2>1, <2>2, <3>1, FieldWrite, RegisterWrite DEF FollowFRE, RegistersOK
  <2>3. CASE StartEngine(p)
    BY <2>1, <2>3, FieldWrite, RegisterWrite DEF StartEngine, RegistersOK
  <2>4. CASE Ready(p) \/ Take(p)
    BY <2>1, <2>4, FieldWrite, RegisterWrite DEF Ready, Take, RegistersOK
  <2>5. CASE StopEngine(p)
    <3>1. [hba[p] EXCEPT !.CR = FALSE, !.CI = FALSE] \in Registers
      BY <2>1 DEF Registers
    <3> QED BY <2>5, <3>1, RegisterWrite DEF StopEngine, RegistersOK
  <2>6. CASE Complete(p)
    <3>1. [hba[p] EXCEPT !.BSY = FALSE, !.CI = FALSE] \in Registers
      BY <2>1 DEF Registers
    <3> QED BY <2>6, <3>1, RegisterWrite DEF Complete, RegistersOK
  <2>7. CASE Fail(p)
    <3>1. [hba[p] EXCEPT !.BSY = FALSE, !.TFES = TRUE] \in Registers
      BY <2>1 DEF Registers
    <3> QED BY <2>7, <3>1, RegisterWrite DEF Fail, RegistersOK
  <2>8. CASE Transfer(p)
    BY <2>8 DEF Transfer, RegistersOK
  <2> QED BY <1>5, <2>2, <2>3, <2>4, <2>5, <2>6, <2>7, <2>8 DEF Device
<1> QED BY <1>1, <1>2, <1>3, <1>4, <1>5 DEF AHCIStep, Driver

LEMMA DeviceStep ==
  ASSUME DeviceOK, AHCIStep
  PROVE  DeviceOK'
<1>1. CASE UNCHANGED device
  BY <1>1 DEF DeviceOK, device
<1>2. ASSUME NEW p \in Disks, Device(p) PROVE DeviceOK'
  <2>1. CASE FollowFRE(p) \/ StartEngine(p) \/ StopEngine(p) \/ Ready(p)
    BY <2>1 DEF FollowFRE, StartEngine, StopEngine, Ready, DeviceOK, device
  <2>2. CASE Take(p)
    <3>1. running' \in [Disks -> BOOLEAN]
      BY <2>2 DEF Take, DeviceOK
    <3>2. done' \in [Disks -> 0 .. SectorCount]
      BY <2>2, Numbers DEF Take, DeviceOK
    <3> QED BY <2>2, <3>1, <3>2 DEF Take, DeviceOK
  <2>5. CASE Complete(p)
    BY <2>5 DEF Complete, DeviceOK
  <2>3. CASE Transfer(p)
    BY <2>3, Numbers DEF Transfer, DeviceOK
  <2>4. CASE Fail(p)
    <3>1. partial' \in BOOLEAN
      BY <2>4 DEF Fail
    <3> QED BY <2>4, <3>1 DEF Fail, DeviceOK
  <2> QED BY <1>2, <2>1, <2>2, <2>3, <2>4, <2>5 DEF Device
<1> QED BY <1>1, <1>2 DEF AHCIStep, Driver, AHCI_AHCIDriver

LEMMA DriverStep ==
  ASSUME DriverOK, PlaceOK, AHCIStep
  PROVE  DriverOK'
<1>1. CASE (\E c \in Controllers : AHCI_AHCIDriver(c)) \/ AfterRead \/ (\E p \in Disks : Device(p))
  BY <1>1, DeviceLeavesDriver DEF AHCI_AHCIDriver, AfterRead, DriverOK, driver
<1>2. CASE ClearST \/ ClearFRE \/ TestFR \/ TestCR \/ SetBases \/ WaitStopped \/ SetFRE \/ SetST
  BY <1>2 DEF ClearST, ClearFRE, TestFR, TestCR, SetBases, WaitStopped, SetFRE, SetST, DriverOK
<1>3. CASE NewBuffer \/ Issue
  BY <1>3 DEF NewBuffer, Issue, DriverOK
<1>6. CASE ClearStatus
  <2>1. table' \in [Disks -> {0, RootDirectory}]
    BY <1>6 DEF ClearStatus, DriverOK
  <2>2. spin' = 0
    BY <1>6 DEF ClearStatus
  <2>3. spin' \in 0 .. MaxSpin
    BY <2>2, Numbers
  <2> QED BY <1>6, <2>1, <2>3 DEF ClearStatus, DriverOK
<1>7. CASE Spin
  <2>1. spin' \in 0 .. MaxSpin
    BY <1>7, Numbers DEF Spin, DriverOK
  <2> QED BY <1>7, <2>1 DEF Spin, DriverOK
<1>4. CASE EndSpin \/ TestError
  BY <1>4 DEF EndSpin, TestError, DriverOK
<1>5. CASE TestComplete
  <2>1. success' \in BOOLEAN
    BY <1>5 DEF TestComplete
  <2> QED BY <1>5, <2>1 DEF TestComplete, DriverOK
<1> QED BY <1>1, <1>2, <1>3, <1>4, <1>5, <1>6, <1>7 DEF AHCIStep, Driver

LEMMA BufferStep ==
  ASSUME BufferOK, DeviceOK, DriverOK, AHCIStep
  PROVE  BufferOK'
<1>1. CASE UNCHANGED buffer
  BY <1>1 DEF BufferOK
<1>2. CASE NewBuffer
  <2>1. [n \in 0 .. SectorCount - 1 |-> Cleared] \in Contents
    BY DEF Cleared, Contents
  <2> QED BY <1>2, <2>1 DEF NewBuffer, BufferOK
<1>3. ASSUME NEW p \in Disks, Transfer(p) PROVE BufferOK'
  <2>1. table[p] + done[p] \in Sectors
    BY <1>3, Numbers DEF Transfer, DeviceOK, DriverOK, Sectors
  <2>2. [buffer[p] EXCEPT ![done[p]] = table[p] + done[p]] \in Contents
    BY <2>1 DEF BufferOK, Contents
  <2>3. buffer' = [buffer EXCEPT ![p] = [buffer[p] EXCEPT ![done[p]] = table[p] + done[p]]]
    BY <1>3 DEF Transfer, BufferOK
  <2> QED BY <2>2, <2>3 DEF BufferOK
<1> QED BY <1>1, <1>2, <1>3 DEF AHCIStep, Driver, Device, AHCI_AHCIDriver, AfterRead,
      ClearST, ClearFRE, TestFR, TestCR, SetBases, WaitStopped, SetFRE, SetST, ClearStatus, Spin,
      EndSpin, Issue, TestComplete, TestError, FollowFRE, StartEngine, StopEngine, Ready, Take,
      Complete, Fail

LEMMA TypeStep ==
  ASSUME AHCITypeOK, AHCIStep
  PROVE  AHCITypeOK'
<1>1. PlaceOK /\ RegistersOK /\ DeviceOK /\ DriverOK /\ BufferOK
  BY TypeByParts
<1>2. (PlaceOK /\ RegistersOK /\ DeviceOK /\ DriverOK /\ BufferOK)'
  BY <1>1, PlaceStep, RegistersStep, DeviceStep, DriverStep, BufferStep
<1> QED BY <1>2 DEF AHCITypeOK, PlaceOK, RegistersOK, DeviceOK, DriverOK, BufferOK, Contents

-------------------------------------------------------------------------------
(***************************************************************************)
(* What the steps leave alone                                              *)
(***************************************************************************)

\* A controller works on one port at a time.
LEMMA OtherPorts ==
  ASSUME AHCITypeOK, NEW p \in Disks, Device(p), NEW q \in Disks, q # p
  PROVE  /\ hba'[q] = hba[q] /\ running'[q] = running[q] /\ done'[q] = done[q]
         /\ halted'[q] = halted[q] /\ buffer'[q] = buffer[q]
<1> USE DEF AHCITypeOK
<1>1. CASE FollowFRE(p) \/ StartEngine(p) \/ Ready(p)
  BY <1>1 DEF FollowFRE, StartEngine, Ready, device
<1>2. CASE StopEngine(p)
  BY <1>2 DEF StopEngine
<1>3. CASE Take(p) \/ Transfer(p)
  BY <1>3 DEF Take, Transfer
<1>4. CASE Complete(p) \/ Fail(p)
  BY <1>4 DEF Complete, Fail
<1> QED BY <1>1, <1>2, <1>3, <1>4 DEF Device

\* So does the driver.
LEMMA OwnPort ==
  ASSUME AHCITypeOK, Access, NEW q \in Disks, q # port
  PROVE  hba'[q] = hba[q] /\ table'[q] = table[q] /\ buffer'[q] = buffer[q]
<1> USE DEF AHCITypeOK
<1>1. CASE ClearST \/ ClearFRE \/ TestFR \/ TestCR \/ SetBases
  BY <1>1 DEF ClearST, ClearFRE, TestFR, TestCR, SetBases, Set
<1>2. CASE WaitStopped \/ SetFRE \/ SetST \/ NewBuffer \/ ClearStatus
  BY <1>2 DEF WaitStopped, SetFRE, SetST, NewBuffer, ClearStatus, Set
<1>3. CASE Spin \/ EndSpin \/ Issue \/ TestComplete \/ TestError
  BY <1>3 DEF Spin, EndSpin, Issue, TestComplete, TestError, Set
<1> QED BY <1>1, <1>2, <1>3 DEF Access

\* A call, and the loop over the ports, only change where the driver is.
LEMMA Calls ==
  ASSUME NEW c, AHCI_AHCIDriver(c)
  PROVE  pc' \in {"done", "clear ST", "fault"} /\ UNCHANGED <<hba, device, table, buffer>>
BY DEF AHCI_AHCIDriver, NextPort

LEMMA Loop ==
  ASSUME AfterRead
  PROVE  /\ pc = "read" /\ UNCHANGED <<hba, table, buffer>>
         /\ \/ pc' \in {"done", "clear ST", "fault"}
            \/ /\ pc' = "clear status" /\ phase' = "root" /\ UNCHANGED port
               /\ phase = "boot" /\ Parsed
BY DEF AfterRead, NextPort, port

-------------------------------------------------------------------------------
(***************************************************************************)
(* Stopping the engines                                                    *)
(***************************************************************************)

\* What the driver knows about the engines of its port: they follow ST and FRE,
\* which it has cleared, and once seen to have stopped they do not start again.
Stopped ==
  /\ pc \in {"clear FRE", "FR?", "CR?", "bases", "stopped?", "set FRE", "set ST"} => ~hba[port].ST
  /\ pc \in {"FR?", "CR?", "bases", "stopped?", "set FRE"} => ~hba[port].FRE
  /\ pc \in {"CR?", "bases", "stopped?", "set FRE"} => ~hba[port].FR
  /\ pc \in {"bases", "stopped?", "set FRE", "set ST"} => ~hba[port].CR
  /\ pc \in {"buffer", "clear status", "busy?", "issue", "complete?", "error?", "read"} => hba[port].ST

\* The registers of the port after the driver has written one of them.
LEMMA SetAtPort ==
  ASSUME hba \in [Disks -> Registers], port' = port, port \in Disks,
         NEW reg, NEW value, Set(reg, value)
  PROVE  hba'[port'] = [hba[port] EXCEPT ![reg] = value] /\ hba[port] \in Registers
<1>1. hba' = [hba EXCEPT ![port] = [hba[port] EXCEPT ![reg] = value]]
  BY DEF Set
<1> QED BY <1>1

LEMMA StoppedStep ==
  ASSUME AHCITypeOK, Stopped, AHCIStep
  PROVE  Stopped'
<1> USE DEF Stopped
<1>1. CASE \E c \in Controllers : AHCI_AHCIDriver(c)
  BY <1>1, Calls
<1>2. CASE AfterRead
  BY <1>2, Loop
<1>3. CASE Access
  <2>1. port' = port /\ port \in Disks /\ hba \in [Disks -> Registers]
    BY <1>3, AccessStaysAtPort DEF port, AHCITypeOK
  <2>2. CASE ClearST
    <3>1. hba'[port'] = [hba[port] EXCEPT !["ST"] = FALSE] /\ hba[port] \in Registers
      BY <2>1, <2>2, SetAtPort DEF ClearST
    <3> QED BY <2>2, <3>1 DEF ClearST, Step, Registers
  <2>8. CASE ClearFRE
    <3>1. hba'[port'] = [hba[port] EXCEPT !["FRE"] = FALSE] /\ hba[port] \in Registers
      BY <2>1, <2>8, SetAtPort DEF ClearFRE
    <3> QED BY <2>8, <3>1 DEF ClearFRE, Step, Registers
  <2>3. CASE TestFR \/ TestCR \/ WaitStopped
    BY <2>1, <2>3 DEF TestFR, TestCR, WaitStopped, StillRunning, Step
  <2>4. CASE SetBases
    <3>1. hba'[port'] = [hba[port] EXCEPT !["bases"] = "driver"] /\ hba[port] \in Registers
      BY <2>1, <2>4, SetAtPort DEF SetBases
    <3> QED BY <2>4, <3>1 DEF SetBases, Step, Registers
  <2>5. CASE SetFRE
    <3>1. hba'[port'] = [hba[port] EXCEPT !["FRE"] = TRUE] /\ hba[port] \in Registers
      BY <2>1, <2>5, SetAtPort DEF SetFRE
    <3> QED BY <2>5, <3>1 DEF SetFRE, Step, Registers
  <2>9. CASE SetST
    <3>1. hba'[port'] = [hba[port] EXCEPT !["ST"] = TRUE] /\ hba[port] \in Registers
      BY <2>1, <2>9, SetAtPort DEF SetST
    <3> QED BY <2>9, <3>1 DEF SetST, Step, Registers
  <2>6. CASE NewBuffer \/ Spin \/ EndSpin \/ TestComplete \/ TestError
    BY <2>1, <2>6 DEF NewBuffer, Spin, EndSpin, TestComplete, TestError, Step
  <2>7. CASE ClearStatus
    <3>1. hba'[port'] = [hba[port] EXCEPT !["TFES"] = StatusCleared] /\ hba[port] \in Registers
      BY <2>1, <2>7, SetAtPort DEF ClearStatus
    <3> QED BY <2>7, <3>1 DEF ClearStatus, Step, Registers
  <2>10. CASE Issue
    <3>1. hba'[port'] = [hba[port] EXCEPT !["CI"] = Issued] /\ hba[port] \in Registers
      BY <2>1, <2>10, SetAtPort DEF Issue
    <3> QED BY <2>10, <3>1 DEF Issue, Step, Registers
  <2> QED BY <1>3, <2>2, <2>3, <2>4, <2>5, <2>6, <2>7, <2>8, <2>9, <2>10 DEF Access
<1>4. ASSUME NEW p \in Disks, Device(p) PROVE Stopped'
  <2>1. UNCHANGED <<pc, port>>
    BY <1>4, DeviceLeavesDriver DEF driver, port
  <2>2. CASE pc \in {"done", "fault"}
    BY <2>1, <2>2
  <2>3. CASE pc \notin {"done", "fault"} /\ p # port
    BY <1>4, <2>1, <2>3, OtherPorts DEF AHCITypeOK
  <2>4. CASE pc \notin {"done", "fault"} /\ p = port
    <3>1. hba \in [Disks -> Registers]
      BY <2>4 DEF AHCITypeOK
    <3>2. hba[p] \in Registers /\ p = port /\ port' = port /\ pc' = pc
      BY <2>1, <2>4, <3>1
    <3>3. CASE FollowFRE(p)
      <4>1. hba'[p] = [hba[p] EXCEPT !.FR = hba[p].FRE]
        BY <3>1, <3>3 DEF FollowFRE
      <4>2. /\ hba'[p].ST = hba[p].ST /\ hba'[p].FRE = hba[p].FRE
            /\ hba'[p].FR = hba[p].FRE /\ hba'[p].CR = hba[p].CR
        BY <3>2, <4>1 DEF Registers
      <4> QED BY <3>2, <4>2
    <3>4. CASE StartEngine(p)
      <4>1. hba[p].ST /\ hba'[p] = [hba[p] EXCEPT !.CR = TRUE]
        BY <3>1, <3>4 DEF StartEngine
      <4>2. hba'[p].ST = hba[p].ST /\ hba'[p].FRE = hba[p].FRE /\ hba'[p].FR = hba[p].FR
        BY <3>2, <4>1 DEF Registers
      <4> QED BY <3>2, <4>1, <4>2
    <3>5. CASE StopEngine(p)
      <4>1. ~hba[p].ST /\ hba'[p] = [hba[p] EXCEPT !.CR = FALSE, !.CI = FALSE]
        BY <3>1, <3>5 DEF StopEngine
      <4>2. /\ hba'[p].ST = hba[p].ST /\ hba'[p].FRE = hba[p].FRE
            /\ hba'[p].FR = hba[p].FR /\ hba'[p].CR = FALSE
        BY <3>2, <4>1 DEF Registers
      <4> QED BY <3>2, <4>1, <4>2
    <3>6. CASE Ready(p) \/ Take(p) \/ Transfer(p) \/ Complete(p) \/ Fail(p)
      <4>1. \/ hba'[p] = hba[p] \/ \E v \in BOOLEAN : hba'[p] = [hba[p] EXCEPT !.BSY = v]
            \/ hba'[p] = [hba[p] EXCEPT !.BSY = FALSE, !.CI = FALSE]
            \/ hba'[p] = [hba[p] EXCEPT !.BSY = FALSE, !.TFES = TRUE]
        <5>1. CASE Ready(p) \/ Take(p) \/ Transfer(p)
          BY <3>1, <5>1 DEF Ready, Take, Transfer
        <5>2. CASE Complete(p) \/ Fail(p)
          BY <3>1, <5>2 DEF Complete, Fail
        <5> QED BY <3>6, <5>1, <5>2
      <4>2. /\ hba'[p].ST = hba[p].ST /\ hba'[p].FRE = hba[p].FRE
            /\ hba'[p].FR = hba[p].FR /\ hba'[p].CR = hba[p].CR
        BY <3>2, <4>1 DEF Registers
      <4> QED BY <3>2, <4>2
    <3> QED BY <1>4, <3>3, <3>4, <3>5, <3>6 DEF Device
  <2> QED BY <2>2, <2>3, <2>4
<1> QED BY <1>1, <1>2, <1>3, <1>4 DEF AHCIStep, Driver, Access

\* The lists of a port are changed only from "bases".
LEMMA BasesStep ==
  ASSUME AHCITypeOK, Stopped, AHCIStep, NEW p \in Disks, hba'[p].bases # hba[p].bases
  PROVE  ~hba[p].CR /\ ~hba[p].FR
<1>0. hba \in [Disks -> Registers] /\ hba[p] \in Registers
  BY DEF AHCITypeOK
<1>1. CASE \E c \in Controllers : AHCI_AHCIDriver(c)
  BY <1>1, Calls
<1>2. CASE AfterRead
  BY <1>2, Loop
<1>3. CASE Access
  <2>1. p = port
    BY <1>3, OwnPort
  <2>2. CASE pc = "bases"
    BY <2>1, <2>2 DEF Stopped
  <2>3. CASE pc # "bases"
    <3>1. \/ UNCHANGED hba
          \/ \E v \in BOOLEAN : \/ hba' = [hba EXCEPT ![p].ST = v]
                                \/ hba' = [hba EXCEPT ![p].FRE = v]
                                \/ hba' = [hba EXCEPT ![p].TFES = v]
                                \/ hba' = [hba EXCEPT ![p].CI = v]
      <4>1. CASE ClearST \/ ClearFRE \/ SetFRE \/ SetST
        BY <2>1, <4>1 DEF ClearST, ClearFRE, SetFRE, SetST, Set
      <4>2. CASE ClearStatus \/ Issue
        BY <2>1, <4>2 DEF ClearStatus, Issue, StatusCleared, Issued, Set
      <4>3. ~SetBases
        BY <2>3 DEF SetBases, Step
      <4>4. CASE TestFR \/ TestCR \/ WaitStopped \/ NewBuffer \/ Spin \/ EndSpin \/ TestComplete \/ TestError
        BY <4>4 DEF TestFR, TestCR, WaitStopped, NewBuffer, Spin, EndSpin, TestComplete, TestError
      <4> QED BY <1>3, <4>1, <4>2, <4>3, <4>4 DEF Access
    <3> QED BY <1>0, <3>1 DEF Registers
  <2> QED BY <2>2, <2>3
<1>4. ASSUME NEW q \in Disks, Device(q) PROVE FALSE
  <2>1. p = q
    BY <1>4, OtherPorts
  <2>2. CASE FollowFRE(p) \/ StartEngine(p) \/ StopEngine(p)
    BY <1>0, <2>2 DEF FollowFRE, StartEngine, StopEngine, Registers
  <2>3. CASE Ready(p) \/ Take(p) \/ Transfer(p)
    BY <1>0, <2>3 DEF Ready, Take, Transfer, Registers
  <2>4. CASE Complete(p) \/ Fail(p)
    BY <1>0, <2>4 DEF Complete, Fail, Registers
  <2> QED BY <1>4, <2>1, <2>2, <2>3, <2>4 DEF Device
<1> QED BY <1>1, <1>2, <1>3, <1>4 DEF AHCIStep, Driver, Access

-------------------------------------------------------------------------------
(***************************************************************************)
(* What the steps do to the commands                                       *)
(***************************************************************************)

\* The registers of a port that tell what becomes of its command.
CI(p) == hba[p].CI
CR(p) == hba[p].CR
TFES(p) == hba[p].TFES

LEMMA EngineEffect ==
  ASSUME AHCITypeOK, NEW p \in Disks, FollowFRE(p) \/ StartEngine(p) \/ Ready(p)
  PROVE  CI(p)' = CI(p) /\ TFES(p)' = TFES(p) /\ (CR(p) => CR(p)') /\ UNCHANGED <<device, buffer>>
<1>1. hba \in [Disks -> Registers] /\ hba[p] \in Registers
  BY DEF AHCITypeOK
<1>2. CASE FollowFRE(p)
  BY <1>1, <1>2 DEF FollowFRE, CI, CR, TFES, Registers
<1>3. CASE StartEngine(p)
  BY <1>1, <1>3 DEF StartEngine, CI, CR, TFES, Registers
<1>4. CASE Ready(p)
  BY <1>1, <1>4 DEF Ready, CI, CR, TFES, Registers
<1> QED BY <1>2, <1>3, <1>4

LEMMA StopEffect ==
  ASSUME AHCITypeOK, NEW p \in Disks, StopEngine(p)
  PROVE  /\ ~hba[p].ST /\ ~CI(p)' /\ TFES(p)' = TFES(p)
         /\ ~running'[p] /\ ~halted'[p] /\ UNCHANGED <<done, partial, buffer>>
<1>1. hba \in [Disks -> Registers] /\ hba[p] \in Registers
  BY DEF AHCITypeOK
<1>2. CI(p)' = FALSE /\ TFES(p)' = TFES(p)
  BY <1>1 DEF StopEngine, CI, TFES, Registers
<1> QED BY <1>2 DEF StopEngine, AHCITypeOK

LEMMA TakeEffect ==
  ASSUME AHCITypeOK, NEW p \in Disks, Take(p)
  PROVE  /\ CI(p) /\ CR(p) /\ ~running[p] /\ ~halted[p]
         /\ CI(p)' /\ CR(p)' /\ TFES(p)' = TFES(p)
         /\ running'[p] /\ done'[p] = 0 /\ UNCHANGED <<halted, partial, buffer>>
<1>1. hba \in [Disks -> Registers] /\ hba[p] \in Registers
  BY DEF AHCITypeOK
<1>2. CI(p)' = CI(p) /\ CR(p)' = CR(p) /\ TFES(p)' = TFES(p)
  BY <1>1 DEF Take, CI, CR, TFES, Registers
<1>3. running'[p] /\ done'[p] = 0
  BY DEF Take, AHCITypeOK
<1> QED BY <1>2, <1>3 DEF Take, CI, CR

LEMMA TransferEffect ==
  ASSUME AHCITypeOK, NEW p \in Disks, Transfer(p)
  PROVE  /\ running[p] /\ done[p] \in 0 .. SectorCount - 1 /\ done'[p] = done[p] + 1
         /\ buffer'[p] = [buffer[p] EXCEPT ![done[p]] = table[p] + done[p]]
         /\ UNCHANGED <<hba, running, halted, partial>>
<1>1. done[p] \in 0 .. SectorCount /\ done[p] < SectorCount
  BY DEF AHCITypeOK, Transfer
<1>2. done[p] \in 0 .. SectorCount - 1
  BY <1>1, Numbers
<1>3. done'[p] = done[p] + 1
  BY DEF Transfer, AHCITypeOK
<1>4. buffer'[p] = [buffer[p] EXCEPT ![done[p]] = table[p] + done[p]]
  BY DEF Transfer, AHCITypeOK
<1> QED BY <1>2, <1>3, <1>4 DEF Transfer

LEMMA CompleteEffect ==
  ASSUME AHCITypeOK, NEW p \in Disks, Complete(p)
  PROVE  /\ running[p] /\ done[p] = SectorCount /\ ~running'[p]
         /\ ~CI(p)' /\ CR(p)' = CR(p) /\ TFES(p)' = TFES(p)
         /\ UNCHANGED <<done, halted, partial, buffer>>
<1>1. hba \in [Disks -> Registers] /\ hba[p] \in Registers
  BY DEF AHCITypeOK
<1>2. CI(p)' = FALSE /\ CR(p)' = CR(p) /\ TFES(p)' = TFES(p)
  BY <1>1 DEF Complete, CI, CR, TFES, Registers
<1> QED BY <1>2 DEF Complete, AHCITypeOK

LEMMA FailEffect ==
  ASSUME AHCITypeOK, NEW p \in Disks, Fail(p)
  PROVE  /\ running[p] /\ ~running'[p] /\ halted'[p]
         /\ CI(p)' = CI(p) /\ CR(p)' = CR(p)
         /\ partial' = (partial \/ done[p] > 0) /\ UNCHANGED <<done, buffer>>
<1>1. hba \in [Disks -> Registers] /\ hba[p] \in Registers
  BY DEF AHCITypeOK
<1>2. CI(p)' = CI(p) /\ CR(p)' = CR(p)
  BY <1>1 DEF Fail, CI, CR, Registers
<1> QED BY <1>2 DEF Fail, AHCITypeOK

\* The driver issues commands and clears errors, and does no more to them.
LEMMA AccessEffect ==
  ASSUME AHCITypeOK, Access, NEW p \in Disks
  PROVE  /\ CR(p)' = CR(p)
         /\ CI(p)' = (CI(p) \/ (p = port /\ pc = "issue"))
         /\ TFES(p)' = (TFES(p) /\ ~(p = port /\ pc = "clear status"))
<1> USE DEF CI, CR, TFES
<1>1. hba \in [Disks -> Registers] /\ hba[p] \in Registers /\ port \in Disks
  BY AccessStaysAtPort DEF AHCITypeOK
<1>2. CASE p # port
  <2>1. hba'[p] = hba[p]
    BY <1>2, OwnPort
  <2> QED BY <1>1, <1>2, <2>1 DEF Registers
<1>3. CASE p = port /\ Issue
  <2>1. hba'[p] = [hba[p] EXCEPT !.CI = TRUE] /\ pc = "issue"
    BY <1>1, <1>3 DEF Issue, Issued, Step, Set
  <2> QED BY <1>1, <1>3, <2>1 DEF Registers
<1>4. CASE p = port /\ ClearStatus
  <2>1. hba'[p] = [hba[p] EXCEPT !.TFES = FALSE] /\ pc = "clear status"
    BY <1>1, <1>4 DEF ClearStatus, StatusCleared, Step, Set
  <2> QED BY <1>1, <1>4, <2>1 DEF Registers
<1>5. CASE p = port /\ ~Issue /\ ~ClearStatus
  <2>1. pc \notin {"issue", "clear status"}
    BY <1>5 DEF Access, ClearST, ClearFRE, TestFR, TestCR, SetBases, WaitStopped, SetFRE, SetST,
      NewBuffer, Spin, EndSpin, TestComplete, TestError, Step
  <2>2. CASE ClearST \/ ClearFRE \/ SetFRE \/ SetST \/ SetBases
    <3>1. \/ \E v \in BOOLEAN : hba'[p] = [hba[p] EXCEPT !.ST = v] \/ hba'[p] = [hba[p] EXCEPT !.FRE = v]
          \/ hba'[p] = [hba[p] EXCEPT !.bases = "driver"]
      BY <1>1, <1>5, <2>2 DEF ClearST, ClearFRE, SetFRE, SetST, SetBases, Set
    <3> QED BY <1>1, <2>1, <3>1 DEF Registers
  <2>3. CASE TestFR \/ TestCR \/ WaitStopped \/ NewBuffer \/ Spin \/ EndSpin \/ TestComplete \/ TestError
    <3>1. hba' = hba
      BY <2>3 DEF TestFR, TestCR, WaitStopped, NewBuffer, Spin, EndSpin, TestComplete, TestError
    <3> QED BY <1>1, <2>1, <3>1 DEF Registers
  <2> QED BY <1>5, <2>2, <2>3 DEF Access
<1> QED BY <1>2, <1>3, <1>4, <1>5

\* The way of the driver through a port, and what it decides on.
Path ==
  \/ /\ pc \in {"clear ST", "clear FRE", "FR?", "CR?"}
     /\ pc' \in {"clear FRE", "FR?", "CR?", "bases"}
     /\ pc' = "bases" => ~CR(port)
  \/ /\ pc \in {"bases", "stopped?", "set FRE", "set ST"}
     /\ pc' \in {"stopped?", "set FRE", "set ST", "buffer"}
  \/ pc = "buffer" /\ pc' = "clear status"
  \/ pc = "clear status" /\ pc' = "busy?"
  \/ pc = "busy?" /\ pc' \in {"busy?", "issue"}
  \/ pc = "busy?" /\ pc' = "read" /\ ~success'
  \/ pc = "issue" /\ pc' = "complete?"
  \/ pc = "complete?" /\ CI(port) /\ pc' = "error?"
  \/ pc = "complete?" /\ ~CI(port) /\ pc' = "read"
  \/ pc = "error?" /\ ~TFES(port) /\ pc' = "complete?"
  \/ pc = "error?" /\ TFES(port) /\ pc' = "read" /\ ~success'

LEMMA AccessPath == Access => Path
<1> SUFFICES ASSUME Access PROVE Path
  OBVIOUS
<1> USE DEF Path, Step
<1>1. CASE ClearST \/ ClearFRE \/ TestFR
  BY <1>1 DEF ClearST, ClearFRE, TestFR
<1>2. CASE TestCR
  BY <1>2 DEF TestCR, StillRunning, CR
<1>3. CASE SetBases \/ WaitStopped \/ SetFRE \/ SetST
  BY <1>3 DEF SetBases, WaitStopped, SetFRE, SetST
<1>4. CASE NewBuffer \/ ClearStatus \/ Spin \/ Issue
  BY <1>4 DEF NewBuffer, ClearStatus, Spin, Issue
<1>5. CASE EndSpin
  BY <1>5 DEF EndSpin
<1>6. CASE TestComplete
  BY <1>6 DEF TestComplete, CI
<1>7. CASE TestError
  BY <1>7 DEF TestError, Error, TFES
<1> QED BY <1>1, <1>2, <1>3, <1>4, <1>5, <1>6, <1>7 DEF Access

\* The buffer of the port is exchanged at "buffer", its table at "clear status".
LEMMA AccessMemory ==
  ASSUME AHCITypeOK, Access
  PROVE  /\ pc # "buffer" => UNCHANGED <<buffer, phase>>
         /\ pc = "buffer" => phase' = "boot" /\ buffer'[port] = [n \in 0 .. SectorCount - 1 |-> Zero]
         /\ pc # "clear status" => UNCHANGED table
         /\ pc = "clear status" => table'[port] = IF phase = "boot" THEN 0 ELSE RootDirectory
<1>1. CASE NewBuffer
  <2>1. port \in Disks /\ buffer \in [Disks -> Contents]
    BY <1>1, AccessStaysAtPort DEF AHCITypeOK, Contents
  <2> QED BY <1>1, <2>1 DEF NewBuffer, Step, Cleared
<1>2. CASE ClearStatus
  <2>1. port \in Disks /\ table \in [Disks -> {0, RootDirectory}]
    BY <1>2, AccessStaysAtPort DEF AHCITypeOK
  <2> QED BY <1>2, <2>1 DEF ClearStatus, Step
<1>3. CASE ClearST \/ ClearFRE \/ TestFR \/ TestCR \/ SetBases \/ WaitStopped \/ SetFRE \/ SetST
  BY <1>3 DEF ClearST, ClearFRE, TestFR, TestCR, SetBases, WaitStopped, SetFRE, SetST, Step
<1>4. CASE Spin \/ EndSpin \/ Issue \/ TestComplete \/ TestError
  BY <1>4 DEF Spin, EndSpin, Issue, TestComplete, TestError, Step
<1> QED BY <1>1, <1>2, <1>3, <1>4 DEF Access

-------------------------------------------------------------------------------
(***************************************************************************)
(* Commands                                                                *)
(***************************************************************************)

Preparing == {"bases", "stopped?", "set FRE", "set ST", "buffer", "clear status", "busy?", "issue"}
Polling == {"complete?", "error?"}

\* The command of a port: one that is carried out, or has failed, is issued, and
\* the port works; only the driver's own may be issued and not be looked at yet.
CommandOf(p) ==
  /\ running[p] => CI(p) /\ CR(p) /\ ~halted[p]
  /\ halted[p] => CI(p) /\ CR(p)
  /\ CI(p) => CR(p) \/ (p = port /\ pc \in Polling)

\* While the driver prepares a read, and when it is through with one, nothing is
\* under way at its port; an error it sees is one of this read.
AtRest ==
  /\ pc \in Preparing \cup {"read"} => ~running[port] /\ (CI(port) => halted[port])
  /\ pc \in {"busy?", "issue"} \cup Polling => (TFES(port) => halted[port])

Commands == (\A p \in Disks : CommandOf(p)) /\ AtRest

LEMMA CommandsInit == InitAHCI => Commands
BY DEF InitAHCI, Commands, CommandOf, AtRest, Preparing, Polling, CI, CR, TFES

LEMMA CommandOfStep ==
  ASSUME AHCITypeOK, Stopped, Commands, AHCIStep, NEW p \in Disks
  PROVE  CommandOf(p)'
<1>0. CommandOf(p) /\ AtRest
  BY DEF Commands
<1>1. ASSUME NEW c \in Controllers, pc = "done", AHCI_AHCIDriver(c) PROVE CommandOf(p)'
  BY <1>0, <1>1, Calls DEF CommandOf, Polling, CI, CR, device
<1>2. CASE AfterRead /\ UNCHANGED device
  <2>1. pc = "read" /\ UNCHANGED hba
    BY <1>2, Loop
  <2> QED BY <1>0, <1>2, <2>1 DEF CommandOf, Polling, CI, CR, device
<1>3. CASE Access /\ UNCHANGED device
  <2>1. port' = port
    BY <1>3, AccessStaysAtPort DEF port
  <2>2. Path
    BY <1>3, AccessPath
  <2>3. CI(p)' = (CI(p) \/ (p = port /\ pc = "issue")) /\ CR(p)' = CR(p)
    BY <1>3, AccessEffect
  <2>4. p = port => (CI(p)' => CR(p)' \/ pc' \in Polling)
    BY <1>0, <2>2, <2>3 DEF CommandOf, AtRest, Path, Preparing, Polling
  <2> QED BY <1>0, <1>3, <2>1, <2>3, <2>4 DEF CommandOf, device
<1>4. ASSUME NEW q \in Disks, Device(q) PROVE CommandOf(p)'
  <2>1. UNCHANGED <<pc, port>>
    BY <1>4, DeviceLeavesDriver DEF driver, port
  <2>2. CASE q # p
    BY <1>0, <1>4, <2>1, <2>2, OtherPorts DEF CommandOf, CI, CR
  <2>3. CASE FollowFRE(p) \/ StartEngine(p) \/ Ready(p)
    BY <1>0, <2>1, <2>3, EngineEffect DEF CommandOf, device
  <2>4. CASE StopEngine(p)
    BY <2>4, StopEffect DEF CommandOf
  <2>5. CASE Take(p)
    BY <2>1, <2>5, TakeEffect DEF CommandOf
  <2>6. CASE Transfer(p)
    BY <1>0, <2>1, <2>6, TransferEffect DEF CommandOf, CI, CR
  <2>7. CASE Complete(p)
    BY <1>0, <2>7, CompleteEffect DEF CommandOf
  <2>8. CASE Fail(p)
    BY <1>0, <2>1, <2>8, FailEffect DEF CommandOf
  <2> QED BY <1>4, <2>2, <2>3, <2>4, <2>5, <2>6, <2>7, <2>8 DEF Device
<1> QED BY <1>1, <1>2, <1>3, <1>4 DEF AHCIStep, Driver, Access

LEMMA AtRestStep ==
  ASSUME AHCITypeOK, Stopped, Commands, AHCIStep
  PROVE  AtRest'
<1>0. AtRest /\ \A p \in Disks : CommandOf(p)
  BY DEF Commands
<1>1. ASSUME NEW c \in Controllers, AHCI_AHCIDriver(c) PROVE AtRest'
  BY <1>1, Calls DEF AtRest, Preparing, Polling
<1>2. CASE AfterRead /\ UNCHANGED device
  <2>1. pc = "read" /\ UNCHANGED hba /\ (pc' \in {"done", "clear ST", "fault"} \/ (pc' = "clear status" /\ UNCHANGED port))
    BY <1>2, Loop
  <2> QED BY <1>0, <1>2, <2>1 DEF AtRest, Preparing, Polling, CI, TFES, device
<1>3. CASE Access /\ UNCHANGED device
  <2>1. port' = port /\ port \in Disks
    BY <1>3, AccessStaysAtPort DEF port, AHCITypeOK
  <2>2. Path /\ CommandOf(port)
    BY <1>0, <1>3, <2>1, AccessPath
  <2>3. /\ CI(port)' = (CI(port) \/ pc = "issue")
        /\ TFES(port)' = (TFES(port) /\ pc # "clear status")
    BY <1>3, <2>1, AccessEffect
  <2>4. running'[port] = running[port] /\ halted'[port] = halted[port]
    BY <1>3 DEF device
  <2>5. pc' \in Preparing \cup {"read"} => ~running[port] /\ (CI(port)' => halted[port])
    BY <1>0, <2>2, <2>3 DEF CommandOf, AtRest, Path, Preparing, Polling
  <2>6. pc' \in {"busy?", "issue"} \cup Polling => (TFES(port)' => halted[port])
    BY <1>0, <2>2, <2>3 DEF AtRest, Path, Preparing, Polling
  <2> QED BY <2>1, <2>4, <2>5, <2>6 DEF AtRest
<1>4. ASSUME NEW q \in Disks, Device(q) PROVE AtRest'
  <2>1. UNCHANGED <<pc, port>>
    BY <1>4, DeviceLeavesDriver DEF driver, port
  <2>2. CASE pc \in {"done", "fault"}
    BY <2>1, <2>2 DEF AtRest, Preparing, Polling
  <2>3. CASE pc \notin {"done", "fault"} /\ q # port
    <3>1. port \in Disks
      BY <2>3 DEF AHCITypeOK
    <3> QED BY <1>0, <1>4, <2>1, <2>3, <3>1, OtherPorts DEF AtRest, CI, TFES
  <2>4. CASE pc \notin {"done", "fault"} /\ q = port
    <3>1. CommandOf(q)
      BY <1>0
    <3>2. CASE FollowFRE(q) \/ StartEngine(q) \/ Ready(q)
      BY <1>0, <2>1, <2>4, <3>2, EngineEffect DEF AtRest, device
    <3>3. CASE StopEngine(q)
      <4>1. pc \notin {"busy?", "issue"} \cup Polling
        BY <2>4, <3>3, StopEffect DEF Stopped, Polling
      <4> QED BY <2>1, <2>4, <3>3, <4>1, StopEffect DEF AtRest
    <3>4. CASE Take(q)
      BY <1>0, <2>1, <2>4, <3>4, TakeEffect DEF AtRest
    <3>5. CASE Transfer(q)
      BY <1>0, <2>1, <2>4, <3>5, TransferEffect DEF AtRest, CI, TFES
    <3>6. CASE Complete(q)
      BY <1>0, <2>1, <2>4, <3>6, CompleteEffect DEF AtRest
    <3>7. CASE Fail(q)
      BY <1>0, <2>1, <2>4, <3>7, FailEffect DEF AtRest
    <3> QED BY <1>4, <2>4, <3>2, <3>3, <3>4, <3>5, <3>6, <3>7 DEF Device
  <2> QED BY <2>2, <2>3, <2>4
<1> QED BY <1>1, <1>2, <1>3, <1>4 DEF AHCIStep, Driver, Access

LEMMA CommandsStep ==
  ASSUME AHCITypeOK, Stopped, Commands, AHCIStep
  PROVE  Commands'
BY CommandOfStep, AtRestStep DEF Commands

-------------------------------------------------------------------------------
(***************************************************************************)
(* Transfers                                                               *)
(***************************************************************************)

\* The first n sectors of a port's buffer are those its table asks for.
Holds(p, n) == \A k \in 0 .. n - 1 : buffer[p][k] = table[p] + k

\* What a command has transferred so far is in the buffer; one that is no longer
\* issued when the driver polls has transferred everything.
Transfers ==
  /\ \A p \in Disks : running[p] => Holds(p, done[p])
  /\ pc \in Polling /\ ~CI(port) => Holds(port, SectorCount)
  /\ pc = "read" /\ success => Holds(port, SectorCount)

LEMMA TransfersInit == InitAHCI => Transfers
BY DEF InitAHCI, Transfers, Polling

\* One more sector.
LEMMA HoldsMore ==
  ASSUME AHCITypeOK, NEW p \in Disks, Transfer(p), Holds(p, done[p])
  PROVE  Holds(p, done[p])'
<1>1. /\ done[p] \in 0 .. SectorCount - 1 /\ done'[p] = done[p] + 1
      /\ buffer'[p] = [buffer[p] EXCEPT ![done[p]] = table[p] + done[p]]
  BY TransferEffect
<1>2. table' = table
  BY DEF Transfer, driver
<1>3. buffer[p] \in Contents
  BY DEF AHCITypeOK, Contents
<1>4. ASSUME NEW k \in 0 .. done'[p] - 1 PROVE buffer'[p][k] = table[p] + k
  <2>1. k \in 0 .. SectorCount - 1 /\ (k = done[p] \/ k \in 0 .. done[p] - 1)
    BY <1>1, <1>4, Numbers
  <2>2. CASE k = done[p]
    BY <1>1, <1>3, <2>1, <2>2 DEF Contents
  <2>3. CASE k # done[p]
    <3>1. buffer[p][k] = table[p] + k
      BY <2>1, <2>3 DEF Holds
    <3> QED BY <1>1, <1>3, <2>1, <2>3, <3>1 DEF Contents
  <2> QED BY <2>2, <2>3
<1> QED BY <1>2, <1>4 DEF Holds

\* The buffer and the table of a port with a command under way stay as they are
\* but for what the command transfers.
LEMMA RunningHolds ==
  ASSUME AHCITypeOK, Stopped, Commands, Transfers, AHCIStep, NEW p \in Disks, running'[p]
  PROVE  Holds(p, done[p])'
<1>0. running[p] => Holds(p, done[p])
  BY DEF Transfers
<1>1. ASSUME NEW c \in Controllers, AHCI_AHCIDriver(c) PROVE Holds(p, done[p])'
  BY <1>0, <1>1, Calls DEF Holds, device
<1>2. CASE AfterRead /\ UNCHANGED device
  BY <1>0, <1>2, Loop DEF Holds, device
<1>3. CASE Access /\ UNCHANGED device
  <2>1. running[p] /\ done' = done
    BY <1>3 DEF device
  <2>2. buffer'[p] = buffer[p] /\ table'[p] = table[p]
    <3>1. CASE p = port
      <4>1. pc \notin {"buffer", "clear status"}
        BY <2>1, <3>1 DEF Commands, AtRest, Preparing
      <4> QED BY <1>3, <4>1, AccessMemory
    <3>2. CASE p # port
      BY <1>3, <3>2, OwnPort
    <3> QED BY <3>1, <3>2
  <2> QED BY <1>0, <2>1, <2>2 DEF Holds
<1>4. ASSUME NEW q \in Disks, Device(q) PROVE Holds(p, done[p])'
  <2>1. UNCHANGED table
    BY <1>4, DeviceLeavesDriver DEF driver
  <2>2. CASE q # p
    BY <1>0, <1>4, <2>1, <2>2, OtherPorts DEF Holds
  <2>3. CASE FollowFRE(p) \/ StartEngine(p) \/ Ready(p)
    BY <1>0, <2>1, <2>3, EngineEffect DEF Holds, device
  <2>4. CASE Take(p)
    BY <2>4, TakeEffect DEF Holds
  <2>5. CASE Transfer(p)
    <3>1. running[p]
      BY <2>5 DEF Transfer
    <3> QED BY <1>0, <2>5, <3>1, HoldsMore
  <2>6. ~StopEngine(p) /\ ~Complete(p) /\ ~Fail(p)
    BY StopEffect, CompleteEffect, FailEffect
  <2> QED BY <1>4, <2>2, <2>3, <2>4, <2>5, <2>6 DEF Device
<1> QED BY <1>1, <1>2, <1>3, <1>4 DEF AHCIStep, Driver, Access

LEMMA TransfersStep ==
  ASSUME AHCITypeOK, Stopped, Commands, Transfers, AHCIStep
  PROVE  Transfers'
<1>0. \A p \in Disks : (running[p] => Holds(p, done[p]))'
  BY RunningHolds
<1> DEFINE Finished == /\ pc \in Polling /\ ~CI(port) => Holds(port, SectorCount)
                       /\ pc = "read" /\ success => Holds(port, SectorCount)
<1> SUFFICES Finished'
  BY <1>0 DEF Transfers
<1>1. ASSUME NEW c \in Controllers, AHCI_AHCIDriver(c) PROVE Finished'
  BY <1>1, Calls DEF Polling
<1>2. CASE AfterRead
  BY <1>2, Loop DEF Polling
<1>3. CASE Access
  <2>1. port' = port /\ port \in Disks
    BY <1>3, AccessStaysAtPort DEF port, AHCITypeOK
  <2>2. Path
    BY <1>3, AccessPath
  <2>3. CI(port)' = (CI(port) \/ pc = "issue")
    BY <1>3, <2>1, AccessEffect
  <2>4. CASE pc \in Polling
    <3>1. UNCHANGED <<buffer, table>>
      BY <1>3, <2>4, AccessMemory DEF Polling
    <3>2. Holds(port, SectorCount)' = Holds(port, SectorCount)
      BY <2>1, <3>1 DEF Holds
    <3>3. ~CI(port) => Holds(port, SectorCount)
      BY <2>4 DEF Transfers
    <3>4. pc' = "read" /\ success' => ~CI(port)
      BY <2>2, <2>4 DEF Path, Polling
    <3> QED BY <2>1, <2>3, <3>2, <3>3, <3>4
  <2>5. CASE pc \notin Polling
    <3>1. pc' \in Polling => CI(port)'
      BY <2>2, <2>3, <2>5 DEF Path, Polling
    <3>2. pc' = "read" => ~success'
      BY <2>2, <2>5 DEF Path, Polling
    <3> QED BY <2>1, <3>1, <3>2
  <2> QED BY <2>4, <2>5
<1>4. ASSUME NEW q \in Disks, Device(q) PROVE Finished'
  <2>1. UNCHANGED <<pc, port, success, table>>
    BY <1>4, DeviceLeavesDriver DEF driver, port
  <2>2. CASE pc \notin Polling \cup {"read"}
    BY <2>1, <2>2
  <2>3. CASE pc \in Polling \cup {"read"} /\ q # port
    <3>1. port \in Disks
      BY <2>3 DEF AHCITypeOK, Polling
    <3> QED BY <1>4, <2>1, <2>3, <3>1, OtherPorts DEF Transfers, Holds, CI
  <2>4. CASE pc \in Polling \cup {"read"} /\ q = port
    <3>1. CASE FollowFRE(q) \/ StartEngine(q) \/ Ready(q)
      BY <2>1, <2>4, <3>1, EngineEffect DEF Transfers, Holds
    <3>2. ~StopEngine(q)
      BY <2>4, StopEffect DEF Stopped, Polling
    <3>3. CASE Take(q)
      BY <2>1, <2>4, <3>3, TakeEffect DEF Transfers, Holds
    <3>4. CASE Transfer(q)
      <4>1. running[q] /\ CI(q)
        BY <3>4, TransferEffect DEF Commands, CommandOf
      <4>2. pc # "read" /\ CI(q)'
        BY <2>4, <3>4, <4>1, TransferEffect DEF Commands, AtRest, CI
      <4> QED BY <2>1, <2>4, <4>2
    <3>5. CASE Complete(q)
      <4>1. running[q] /\ done[q] = SectorCount /\ UNCHANGED buffer
        BY <3>5, CompleteEffect
      <4>2. Holds(q, SectorCount)
        BY <4>1 DEF Transfers
      <4> QED BY <2>1, <2>4, <4>1, <4>2 DEF Holds
    <3>6. CASE Fail(q)
      BY <2>1, <2>4, <3>6, FailEffect DEF Transfers, Holds
    <3> QED BY <1>4, <2>4, <3>1, <3>2, <3>3, <3>4, <3>5, <3>6 DEF Device
  <2> QED BY <2>2, <2>3, <2>4
<1> QED BY <1>1, <1>2, <1>3, <1>4 DEF AHCIStep, Driver, Access

-------------------------------------------------------------------------------
(***************************************************************************)
(* The boot sector                                                         *)
(***************************************************************************)

Reading == {"clear status", "busy?", "issue", "complete?", "error?", "read"}

\* May something have been transferred of the command that is issued?
Untouched == ~partial /\ (running[port] => done[port] = 0) /\ (pc \in Polling \cup {"read"} => CI(port))

\* While the boot sector is read the buffer begins with zeroes, or with sector 0;
\* with zeroes as long as nothing has been transferred, so that after a failure
\* the parser sees no boot sector and the port is left alone.
BootSector ==
  /\ phase = "boot" /\ pc \in Reading =>
       /\ buffer[port][0] \in {Zero, 0}
       /\ pc # "clear status" => table[port] = 0
       /\ Untouched => buffer[port][0] = Zero
  /\ ~partial /\ pc \in Preparing => ~halted[port]

LEMMA BootSectorInit == InitAHCI => BootSector
BY DEF InitAHCI, BootSector, Reading, Preparing

\* A buffer that begins with zeroes is not taken for a boot sector.
LEMMA ZeroesAreNotParsed ==
  ASSUME buffer[port][0] = Zero
  PROVE  ~Parsed
BY DEF Parsed, Zero, Old

LEMMA FirstSector == 0 \in 0 .. SectorCount - 1
BY Numbers

LEMMA BootSectorStep ==
  ASSUME AHCITypeOK, Stopped, Commands, BootSector, AHCIStep
  PROVE  BootSector'
<1>1. ASSUME NEW c \in Controllers, AHCI_AHCIDriver(c) PROVE BootSector'
  BY <1>1, Calls DEF BootSector, Reading, Preparing
<1>2. CASE AfterRead /\ UNCHANGED device
  <2>1. CASE pc' \in {"done", "clear ST", "fault"}
    BY <2>1 DEF BootSector, Reading, Preparing
  <2>2. CASE pc' = "clear status" /\ phase' = "root" /\ UNCHANGED port /\ phase = "boot" /\ Parsed
    <3>1. pc = "read"
      BY <1>2, Loop
    <3>2. ~partial => ~halted[port]
      <4>1. SUFFICES ASSUME ~partial, halted[port] PROVE FALSE
        OBVIOUS
      <4>2. port \in Disks
        BY <3>1 DEF AHCITypeOK
      <4>3. CI(port) /\ ~running[port]
        BY <3>1, <4>1, <4>2 DEF Commands, CommandOf, AtRest
      <4>4. buffer[port][0] = Zero
        BY <2>2, <3>1, <4>1, <4>3 DEF BootSector, Reading, Untouched
      <4> QED BY <2>2, <4>4, ZeroesAreNotParsed
    <3> QED BY <1>2, <2>2, <3>2 DEF BootSector, device
  <2> QED BY <1>2, <2>1, <2>2, Loop
<1>3. CASE Access /\ UNCHANGED device
  <2>1. port' = port /\ port \in Disks
    BY <1>3, AccessStaysAtPort DEF port, AHCITypeOK
  <2>2. Path /\ AtRest /\ CommandOf(port)
    BY <1>3, <2>1, AccessPath DEF Commands
  <2>3. CI(port)' = (CI(port) \/ pc = "issue")
    BY <1>3, <2>1, AccessEffect
  <2>4. /\ running'[port] = running[port] /\ done'[port] = done[port]
        /\ halted'[port] = halted[port] /\ partial' = partial
    BY <1>3 DEF device
  <2>5. ~partial /\ pc' \in Preparing => ~halted[port]
    <3>1. pc' = "bases" => ~halted[port]
      BY <2>2 DEF Path, CommandOf
    <3>2. pc' \in Preparing /\ pc' # "bases" => pc \in Preparing
      BY <2>2 DEF Path, Preparing
    <3> QED BY <3>1, <3>2 DEF BootSector
  <2>6. ASSUME pc = "buffer"
        PROVE  pc' = "clear status" /\ buffer'[port][0] = Zero
    <3>1. pc' = "clear status" /\ buffer'[port] = [n \in 0 .. SectorCount - 1 |-> Zero]
      BY <1>3, <2>2, <2>6, AccessMemory DEF Path
    <3> QED BY <3>1, FirstSector
  <2>7. ASSUME pc # "buffer", phase' = "boot", pc' \in Reading
        PROVE  /\ buffer'[port][0] \in {Zero, 0}
               /\ pc' # "clear status" => table'[port] = 0
               /\ Untouched' => buffer'[port][0] = Zero
    <3>1. buffer' = buffer /\ phase = "boot" /\ pc \in Reading
      BY <1>3, <2>2, <2>7, AccessMemory DEF Path, Reading
    <3>2. table'[port] = 0
      BY <1>3, <3>1, AccessMemory DEF BootSector
    <3>3. Untouched' => Untouched
      BY <2>1, <2>2, <2>3, <2>4, <3>1 DEF Untouched, Polling, Path, Reading, AtRest, Preparing
    <3> QED BY <3>1, <3>2, <3>3 DEF BootSector
  <2> QED BY <2>1, <2>4, <2>5, <2>6, <2>7 DEF BootSector
<1>4. ASSUME NEW q \in Disks, Device(q) PROVE BootSector'
  <2>1. UNCHANGED <<pc, port, phase, table>>
    BY <1>4, DeviceLeavesDriver DEF driver, port
  <2>2. CASE pc \notin Reading \cup Preparing
    BY <2>1, <2>2 DEF BootSector
  <2>3. CASE pc \in Reading \cup Preparing /\ q # port
    <3>1. port \in Disks
      BY <2>3 DEF AHCITypeOK, Reading, Preparing
    <3>2. partial => partial'
      BY <1>4, EngineEffect, StopEffect, TakeEffect, TransferEffect, CompleteEffect, FailEffect DEF Device, device
    <3> QED BY <1>4, <2>1, <2>3, <3>1, <3>2, OtherPorts DEF BootSector, Untouched, CI
  <2>4. CASE pc \in Reading \cup Preparing /\ q = port
    <3>0. CommandOf(q) /\ AtRest
      BY DEF Commands
    <3>1. CASE FollowFRE(q) \/ StartEngine(q) \/ Ready(q)
      BY <2>1, <2>4, <3>1, EngineEffect DEF BootSector, Untouched, device
    <3>2. CASE StopEngine(q)
      <4>1. pc \notin Reading
        BY <2>4, <3>2, StopEffect DEF Stopped, Reading
      <4> QED BY <2>1, <2>4, <3>2, <4>1, StopEffect DEF BootSector
    <3>3. CASE Take(q)
      BY <2>1, <2>4, <3>3, TakeEffect DEF BootSector, Untouched
    <3>4. CASE Transfer(q)
      <4>1. pc \notin Preparing \cup {"read"} /\ UNCHANGED <<hba, running, halted, partial>>
        BY <2>4, <3>0, <3>4, TransferEffect DEF AtRest
      <4>2. /\ running[q] /\ done[q] \in 0 .. SectorCount - 1 /\ done'[q] = done[q] + 1
            /\ buffer'[q] = [buffer[q] EXCEPT ![done[q]] = table[q] + done[q]]
        BY <3>4, TransferEffect
      <4>3. ~Untouched'
        BY <2>1, <2>4, <4>1, <4>2 DEF Untouched
      <4>4. buffer'[q][0] \in {buffer[q][0], table[q]}
        <5>1. buffer[q] \in Contents /\ table[q] \in Nat
          BY Numbers DEF AHCITypeOK, Contents
        <5> QED BY <4>2, <5>1, FirstSector DEF Contents
      <4>5. phase = "boot" /\ pc \in Reading => buffer'[q][0] \in {Zero, 0}
        BY <2>4, <4>1, <4>4 DEF BootSector, Preparing
      <4> QED BY <2>1, <2>4, <4>1, <4>3, <4>5 DEF BootSector
    <3>5. CASE Complete(q)
      <4>1. pc \notin Preparing \cup {"read"}
        BY <2>4, <3>0, <3>5, CompleteEffect DEF AtRest
      <4>2. pc \in Polling
        BY <2>4, <4>1 DEF Reading, Preparing, Polling
      <4>3. ~Untouched'
        BY <2>1, <2>4, <3>5, <4>2, CompleteEffect DEF Untouched
      <4> QED BY <2>1, <2>4, <3>5, <4>1, <4>3, CompleteEffect DEF BootSector
    <3>6. CASE Fail(q)
      <4>1. pc \notin Preparing \cup {"read"} /\ done[q] \in Nat
        BY <2>4, <3>0, <3>6, FailEffect, Numbers DEF AtRest, AHCITypeOK
      <4>2. Untouched' => Untouched
        <5>1. partial' = (partial \/ done[q] > 0) /\ CI(q)' = CI(q)
          BY <3>6, FailEffect
        <5>2. ~(done[q] > 0) => done[q] = 0
          BY <4>1
        <5> QED BY <2>1, <2>4, <5>1, <5>2 DEF Untouched
      <4> QED BY <2>1, <2>4, <3>6, <4>1, <4>2, FailEffect DEF BootSector
    <3> QED BY <1>4, <2>4, <3>1, <3>2, <3>3, <3>4, <3>5, <3>6 DEF Device
  <2> QED BY <2>2, <2>3, <2>4
<1> QED BY <1>1, <1>2, <1>3, <1>4 DEF AHCIStep, Driver, Access

-------------------------------------------------------------------------------
(***************************************************************************)
(* The enumeration                                                         *)
(***************************************************************************)

\* The tables are those of one of the machines, and the enumeration is within one
\* of the segments that MCFG lists.
Walk ==
  /\ PCITypeOK
  /\ xsdt \in Seq(TableType)
  /\ level \in {"bus", "device", "function", "driver"} =>
       mcfg \in DOMAIN xsdt /\ i_entry \in DOMAIN xsdt[mcfg].segments
  /\ level \in {"device", "function", "driver"} => bus < 255
  /\ level \in {"function", "driver"} => dev < DeviceCount

\* The table of none has no entries, and another one those of its list.
LEMMA EntriesOf ==
  ASSUME xsdt \in Seq(TableType),
         NEW table0 \in {NULL} \cup DOMAIN xsdt, NEW n \in Nat \ {0}, n <= Entries(table0)
  PROVE  table0 \in DOMAIN xsdt /\ n \in DOMAIN xsdt[table0].segments
<1>1. CASE table0 = NULL
  <2>1. Entries(table0) = -3
    BY <1>1 DEF Entries, Length, MCFG_HEADER, DEVICE_CONFIG
  <2> QED BY <2>1
<1>2. CASE table0 # NULL
  <2>1. table0 \in DOMAIN xsdt /\ xsdt[table0] \in TableType
    BY <1>2
  <2>2. xsdt[table0].segments \in Seq(SegmentType)
    BY <2>1 DEF TableType
  <2>3. Length(table0) = 44 + 16 * Len(xsdt[table0].segments)
    BY <1>2 DEF Length, MCFG_HEADER, DEVICE_CONFIG
  <2>4. Entries(table0) = Len(xsdt[table0].segments)
    <3>1. Len(xsdt[table0].segments) \in Nat
      BY <2>2
    <3>2. \A k \in Nat : (44 + 16 * k - 44) \div 16 = k
      OBVIOUS
    <3>3. Entries(table0) = (44 + 16 * Len(xsdt[table0].segments) - 44) \div 16
      BY <2>3 DEF Entries, MCFG_HEADER, DEVICE_CONFIG
    <3> QED BY <3>1, <3>2, <3>3
  <2> QED BY <2>1, <2>2, <2>4
<1> QED BY <1>1, <1>2

LEMMA SegmentsType ==
  ASSUME xsdt \in Seq(TableType),
         NEW t \in DOMAIN xsdt, NEW n \in DOMAIN xsdt[t].segments
  PROVE  xsdt[t].segments[n].startBus \in 0 .. 255 /\ xsdt[t].segments[n].endBus \in 0 .. 255
<1>0. xsdt[t] \in TableType
  OBVIOUS
<1>1. xsdt[t].segments \in Seq(SegmentType)
  BY <1>0 DEF TableType
<1>2. xsdt[t].segments[n] \in SegmentType
  BY <1>1
<1> QED BY <1>2 DEF SegmentType

StartBusesOK(t) == \A n \in DOMAIN xsdt[t].segments : xsdt[t].segments[n].startBus \in 0 .. 255

\* A turn of the outermost loop.
LEMMA TurnStep ==
  ASSUME Walk, NEW table0 \in {NULL} \cup DOMAIN xsdt, NEW n \in Nat \ {0}, Turn(table0, n), mcfg' = table0
  PROVE  Walk'
<1>1. UNCHANGED <<machine, xsdt, dev, func>> /\ i_entry' = n
  BY DEF Turn, firmware
<1>2. CASE n <= Entries(table0)
  <2>1. table0 \in DOMAIN xsdt /\ n \in DOMAIN xsdt[table0].segments
    BY <1>2, EntriesOf DEF Walk
  <2>2. bus' = xsdt[table0].segments[n].startBus /\ level' = "bus"
    BY <1>2 DEF Turn
  <2>3. bus' \in 0 .. 256
    <3>1. xsdt \in Seq(TableType)
      BY DEF Walk
    <3>2. \A t \in DOMAIN xsdt : StartBusesOK(t)
      <4> TAKE t \in DOMAIN xsdt
      <4> QED BY <3>1, SegmentsType DEF StartBusesOK
    <3>3. StartBusesOK(table0)
      BY <2>1, <3>2
    <3>4. xsdt[table0].segments[n].startBus \in 0 .. 255
      BY <2>1, <3>3 DEF StartBusesOK
    <3>5. bus' = xsdt[table0].segments[n].startBus
      BY <2>2
    <3>6. bus' \in 0 .. 255
      BY <3>4, <3>5
    <3> QED BY <3>6
  <2>4. PCITypeOK'
    <3>1. machine' \in Machines /\ xsdt' = xsdt /\ dev' = dev /\ func' = func
      BY <1>1 DEF Walk, PCITypeOK
    <3>2. mcfg' \in DOMAIN xsdt /\ i_entry' \in Nat
      BY <1>1, <2>1
    <3>3. dev \in 0 .. DeviceCount /\ func \in 0 .. FunctionCount
      BY DEF Walk, PCITypeOK
    <3> QED BY <2>2, <2>3, <3>1, <3>2, <3>3 DEF PCITypeOK
  <2> QED BY <1>1, <2>1, <2>2, <2>4 DEF Walk
<1>3. CASE ~(n <= Entries(table0))
  <2>1. UNCHANGED bus /\ level' = "end"
    BY <1>3 DEF Turn
  <2> QED BY <1>1, <2>1 DEF Walk, PCITypeOK
<1> QED BY <1>2, <1>3

LEMMA WalkInit == InitPCI => Walk
<1> SUFFICES ASSUME InitPCI PROVE Walk
  OBVIOUS
<1>1. machine \in Machines /\ MachineType(machine)
  BY PCIAssumption DEF InitPCI
<1>2. PICK k \in RSDPs(machine.configuration) : xsdt = machine.configuration[k].tables
  BY DEF InitPCI
<1>3. k \in DOMAIN machine.configuration
  BY DEF RSDPs
<1>4. machine.configuration[k] \in EntryType
  BY <1>1, <1>3 DEF MachineType
<1>5. xsdt \in Seq(TableType)
  BY <1>2, <1>4 DEF EntryType
<1>6. PCITypeOK
  BY <1>1, PCIAssumption DEF InitPCI, PCITypeOK
<1> QED BY <1>5, <1>6 DEF Walk, InitPCI

\* A step of the loops inside a segment.
Inside == {"bus", "device", "function", "driver"}

LEMMA InsideStep ==
  ASSUME Walk, UNCHANGED <<machine, xsdt, mcfg, i_entry>>, level \in Inside, level' \in Inside,
         bus' \in 0 .. 256, dev' \in 0 .. DeviceCount, func' \in 0 .. FunctionCount,
         level' # "bus" => bus' < 255, level' \in {"function", "driver"} => dev' < DeviceCount
  PROVE  Walk'
BY DEF Walk, PCITypeOK, Inside

LEMMA WalkStep ==
  ASSUME Walk, [Next]_vars
  PROVE  Walk'
<1>0. /\ bus \in 0 .. 256 /\ dev \in 0 .. DeviceCount /\ func \in 0 .. FunctionCount
      /\ DeviceCount \in Nat \ {0} /\ FunctionCount \in Nat \ {0}
  BY PCIAssumption DEF Walk, PCITypeOK
<1>1. CASE InitializeACPI
  <2>1. PICK table0 \in FindTable("MCFG") : mcfg' = table0 /\ Turn(table0, 1)
    BY <1>1 DEF InitializeACPI
  <2>2. table0 \in {NULL} \cup DOMAIN xsdt
    BY DEF FindTable
  <2> QED BY <2>1, <2>2, TurnStep
<1>2. CASE BusesDone
  <2>1. Turn(mcfg, i_entry + 1) /\ mcfg' = mcfg
    BY <1>2 DEF BusesDone
  <2>2. mcfg \in {NULL} \cup DOMAIN xsdt /\ i_entry + 1 \in Nat \ {0}
    BY DEF Walk, PCITypeOK
  <2> QED BY <2>1, <2>2, TurnStep
<1>3. CASE EnumerateBus
  <2>1. mcfg \in DOMAIN xsdt /\ i_entry \in DOMAIN xsdt[mcfg].segments /\ level = "bus"
    BY <1>3 DEF EnumerateBus, Walk
  <2>2. Segment.startBus \in 0 .. 255 /\ Segment.endBus \in 0 .. 255
    BY <2>1, SegmentsType DEF Walk, Segment
  <2>3. bus \in 0 .. 254
    BY <1>3, <2>2 DEF EnumerateBus, Buses
  <2>4. CASE bus' = bus + 1 /\ UNCHANGED <<level, dev>>
    BY <1>0, <1>3, <2>1, <2>3, <2>4, InsideStep DEF EnumerateBus, Inside, firmware
  <2>5. CASE level' = "device" /\ dev' = 0 /\ UNCHANGED bus
    BY <1>0, <1>3, <2>1, <2>3, <2>5, InsideStep DEF EnumerateBus, Inside, firmware
  <2> QED BY <1>3, <2>4, <2>5 DEF EnumerateBus
<1>4. CASE DevicesDone
  <2>1. bus < 255
    BY <1>4 DEF DevicesDone, Walk
  <2> QED BY <1>0, <1>4, <2>1, InsideStep DEF DevicesDone, Inside, firmware
<1>5. CASE EnumerateDevice
  <2>1. bus < 255
    BY <1>5 DEF EnumerateDevice, Walk
  <2>2. CASE dev' = dev + 1 /\ UNCHANGED <<level, func>>
    BY <1>0, <1>5, <2>1, <2>2, InsideStep DEF EnumerateDevice, Inside, firmware
  <2>3. CASE level' = "function" /\ func' = 0 /\ UNCHANGED dev
    BY <1>0, <1>5, <2>1, <2>3, InsideStep DEF EnumerateDevice, Inside, firmware
  <2> QED BY <1>5, <2>2, <2>3 DEF EnumerateDevice
<1>6. CASE FunctionsDone
  <2>1. bus < 255 /\ dev < DeviceCount
    BY <1>6 DEF FunctionsDone, Walk
  <2> QED BY <1>0, <1>6, <2>1, InsideStep DEF FunctionsDone, Inside, firmware
<1>7. CASE EnumerateFunction
  <2>1. bus < 255 /\ dev < DeviceCount
    BY <1>7 DEF EnumerateFunction, Walk
  <2>2. level' \in {"function", "driver"} /\ func' = func + 1 /\ func < FunctionCount
    BY <1>7 DEF EnumerateFunction
  <2> QED BY <1>0, <1>7, <2>1, <2>2, InsideStep DEF EnumerateFunction, Inside, firmware
<1>8. CASE Return
  <2>1. bus < 255 /\ dev < DeviceCount
    BY <1>8 DEF Return, Walk
  <2>2. /\ level = "driver" /\ level' = "function"
        /\ UNCHANGED <<machine, xsdt, mcfg, i_entry, bus, dev, func>>
    BY <1>8 DEF Return, firmware
  <2> QED BY <1>0, <2>1, <2>2, InsideStep DEF Inside
<1>9. CASE RunDriver \/ (\E p \in Disks : Work(p)) \/ UNCHANGED vars
  <2>1. UNCHANGED <<firmware, enumeration>>
    BY <1>9 DEF RunDriver, Work, vars
  <2> QED BY <2>1 DEF Walk, PCITypeOK, firmware, enumeration
<1> QED BY <1>1, <1>2, <1>3, <1>4, <1>5, <1>6, <1>7, <1>8, <1>9
      DEF Next, Kernel, Enumerate, EnumerationStep, Pass, Drive

\* The driver is called for controllers only.
LEMMA DrivenStep ==
  ASSUME Linked, driven \in Seq(Controllers), [Next]_vars
  PROVE  driven' \in Seq(Controllers)
<1>1. CASE Drive
  <2>1. Function \in Controllers /\ driven' = Append(driven, Function)
    BY <1>1, ControllersAreListed DEF Drive
  <2> QED BY <2>1
<1>2. CASE ~Drive
  BY <1>2 DEF Next, Kernel, Enumerate, Pass, RunDriver, Return, Work, vars
<1> QED BY <1>1, <1>2

-------------------------------------------------------------------------------
(***************************************************************************)
(* Every controller once                                                   *)
(***************************************************************************)

\* No bus belongs to two segments.
SegmentsApart(segments) ==
  \A m, n \in DOMAIN segments :
    LET s == segments[m]
        t == segments[n]
    IN  m # n /\ s.baseAddress = t.baseAddress => s.endBus <= t.startBus \/ t.endBus <= s.startBus

\* The firmware lists ACPI 2.0 once, where the loader finds it, with at most one
\* table MCFG.
OneListing(conf) ==
  \E k \in RSDPs(conf) :
    /\ \A j \in RSDPs(conf) : j <= k
    /\ \A j \in DOMAIN conf : conf[j].guid = "acpi2" <=> j = k
    /\ \A s, t \in DOMAIN conf[k].tables :
         conf[k].tables[s].signature = "MCFG" /\ conf[k].tables[t].signature = "MCFG" => s = t
    /\ \A t \in DOMAIN conf[k].tables :
         conf[k].tables[t].signature = "MCFG" => SegmentsApart(conf[k].tables[t].segments)

Firmware ==
  /\ \A m \in Machines : OneListing(m.configuration)
  /\ Controllers \subseteq Nat \X Nat \X (0 .. DeviceCount - 1) \X (0 .. FunctionCount - 1)

\* The tables the kernel was given list what the machine's firmware lists.
Tables ==
  /\ xsdt \in Seq(TableType)
  /\ \A a \in Controllers :
       Listed(a) <=> \E t \in DOMAIN xsdt :
                       /\ xsdt[t].signature = "MCFG"
                       /\ \E n \in DOMAIN xsdt[t].segments :
                            LET s == xsdt[t].segments[n]
                            IN  s.baseAddress = a[1] /\ s.startBus <= a[2] /\ a[2] < s.endBus
  /\ \A s, t \in DOMAIN xsdt : xsdt[s].signature = "MCFG" /\ xsdt[t].signature = "MCFG" => s = t
  /\ \A t \in DOMAIN xsdt : xsdt[t].signature = "MCFG" => SegmentsApart(xsdt[t].segments)

LEMMA TablesInit ==
  ASSUME Firmware, InitPCI
  PROVE  Tables
<1> DEFINE conf == machine.configuration
<1>1. PICK k \in RSDPs(conf) : (\A j \in RSDPs(conf) : j <= k) /\ xsdt = conf[k].tables
  BY DEF InitPCI
<1>2. machine \in Machines /\ conf \in Seq(EntryType)
  BY PCIAssumption DEF InitPCI, MachineType
<1>3. PICK l \in RSDPs(conf) :
        /\ \A j \in RSDPs(conf) : j <= l
        /\ \A j \in DOMAIN conf : conf[j].guid = "acpi2" <=> j = l
        /\ \A s, t \in DOMAIN conf[l].tables :
             conf[l].tables[s].signature = "MCFG" /\ conf[l].tables[t].signature = "MCFG" => s = t
        /\ \A t \in DOMAIN conf[l].tables :
             conf[l].tables[t].signature = "MCFG" => SegmentsApart(conf[l].tables[t].segments)
  BY <1>2 DEF Firmware, OneListing
<1>4. k \in DOMAIN conf /\ l \in DOMAIN conf /\ k \in Int /\ l \in Int
  BY <1>2 DEF RSDPs
<1>5. k = l
  <2>1. k <= l /\ l <= k
    BY <1>1, <1>3
  <2> QED BY <1>4, <2>1
<1>6. xsdt \in Seq(TableType)
  <2>1. conf[k] \in EntryType
    BY <1>2, <1>4
  <2> QED BY <1>1, <2>1 DEF EntryType
<1>7. ASSUME NEW a \in Controllers
      PROVE  Listed(a) <=> \E t \in DOMAIN xsdt :
                             /\ xsdt[t].signature = "MCFG"
                             /\ \E n \in DOMAIN xsdt[t].segments :
                                  LET s == xsdt[t].segments[n]
                                  IN  s.baseAddress = a[1] /\ s.startBus <= a[2] /\ a[2] < s.endBus
  <2> DEFINE On(s) == s.baseAddress = a[1] /\ s.startBus <= a[2] /\ a[2] < s.endBus
  <2> HIDE DEF On
  <2>1. Listed(a) <=> \E c \in Range(conf) : c.guid = "acpi2" /\
          \E t \in Range(c.tables) : t.signature = "MCFG" /\ \E s \in Range(t.segments) : On(s)
    BY DEF Listed, On
  <2>2. Listed(a) <=> \E j \in DOMAIN conf : conf[j].guid = "acpi2" /\
          \E t \in DOMAIN conf[j].tables : conf[j].tables[t].signature = "MCFG" /\
            \E n \in DOMAIN conf[j].tables[t].segments : On(conf[j].tables[t].segments[n])
    <3>1. \A t : (\E s \in Range(t.segments) : On(s))
                 <=> (\E n \in DOMAIN t.segments : On(t.segments[n]))
      BY Zenon DEF Range
    <3>2. \A c : (\E t \in Range(c.tables) : t.signature = "MCFG" /\ \E s \in Range(t.segments) : On(s))
                 <=> (\E t \in DOMAIN c.tables : c.tables[t].signature = "MCFG" /\
                        \E n \in DOMAIN c.tables[t].segments : On(c.tables[t].segments[n]))
      BY <3>1, Zenon DEF Range
    <3> DEFINE Lists(c) == \E t \in DOMAIN c.tables : c.tables[t].signature = "MCFG" /\
                             \E n \in DOMAIN c.tables[t].segments : On(c.tables[t].segments[n])
    <3>3. Listed(a) <=> \E c \in Range(conf) : c.guid = "acpi2" /\ Lists(c)
      BY <2>1, <3>2, Zenon
    <3> HIDE DEF Lists
    <3>4. Listed(a) <=> \E j \in DOMAIN conf : conf[j].guid = "acpi2" /\ Lists(conf[j])
      BY <3>3, Zenon DEF Range
    <3> QED BY <3>4, Zenon DEF Lists
  <2>3. Listed(a) <=>
          \E t \in DOMAIN conf[k].tables : conf[k].tables[t].signature = "MCFG" /\
            \E n \in DOMAIN conf[k].tables[t].segments : On(conf[k].tables[t].segments[n])
    BY <1>3, <1>4, <1>5, <2>2, Zenon
  <2> QED BY <1>1, <2>3 DEF On
<1>8. /\ \A s, t \in DOMAIN xsdt : xsdt[s].signature = "MCFG" /\ xsdt[t].signature = "MCFG" => s = t
      /\ \A t \in DOMAIN xsdt : xsdt[t].signature = "MCFG" => SegmentsApart(xsdt[t].segments)
  BY <1>1, <1>3, <1>5, Zenon
<1> QED BY <1>6, <1>7, <1>8 DEF Tables

\* Segment n holds the bus of the function a.
Place(n, a) ==
  LET s == xsdt[mcfg].segments[n]
  IN  s.baseAddress = a[1] /\ s.startBus <= a[2] /\ a[2] < s.endBus

Loops == {"bus", "device", "function", "driver"}

\* The walk over the segment has gone past the function a.
Passed(a) ==
  \/ a[2] < bus
  \/ /\ a[2] = bus /\ level \in Loops \ {"bus"}
     /\ \/ a[3] < dev
        \/ a[3] = dev /\ level \in {"function", "driver"} /\ a[4] < func

Visited(a) ==
  \E n \in DOMAIN xsdt[mcfg].segments :
    Place(n, a) /\ (n < i_entry \/ (n = i_entry /\ Passed(a)))

\* The walk is at a device that answers, on a bus of its segment whose first
\* device does; when it ends it has been through all segments.
Within ==
  /\ level # "start" /\ mcfg # NULL => xsdt[mcfg].signature = "MCFG"
  /\ level # "start" /\ mcfg = NULL => level = "end" /\ Found = {}
  /\ level = "end" /\ mcfg # NULL => \A n \in DOMAIN xsdt[mcfg].segments : n < i_entry
  /\ level \in Loops => Segment.startBus <= bus
  /\ level \in Loops \ {"bus"} =>
       bus < Segment.endBus /\ Header(<<Segment.baseAddress, bus, 0, 0>>) # "absent"
  /\ level \in {"function", "driver"} => Header(<<Segment.baseAddress, bus, dev, 0>>) # "absent"

LEMMA Addresses ==
  ASSUME Firmware, NEW a \in Controllers
  PROVE  /\ a[1] \in Nat /\ a[2] \in Nat
         /\ a[3] \in 0 .. DeviceCount - 1 /\ a[4] \in 0 .. FunctionCount - 1
         /\ a = <<a[1], a[2], a[3], a[4]>>
BY DEF Firmware

LEMMA FoundIs ==
  ASSUME Firmware, Tables, mcfg \in DOMAIN xsdt, xsdt[mcfg].signature = "MCFG",
         NEW a \in Controllers
  PROVE  a \in Found <=>
           /\ Header(a) = "ahci"
           /\ \E n \in DOMAIN xsdt[mcfg].segments : Place(n, a)
           /\ Header(<<a[1], a[2], 0, 0>>) # "absent"
           /\ Header(<<a[1], a[2], a[3], 0>>) # "absent"
<1> DEFINE On(t) == \E n \in DOMAIN xsdt[t].segments :
                      LET s == xsdt[t].segments[n]
                      IN  s.baseAddress = a[1] /\ s.startBus <= a[2] /\ a[2] < s.endBus
<1> HIDE DEF On
<1>1. Listed(a) <=> \E t \in DOMAIN xsdt : xsdt[t].signature = "MCFG" /\ On(t)
  BY DEF Tables, On
<1>2. \A t \in DOMAIN xsdt : xsdt[t].signature = "MCFG" => t = mcfg
  BY DEF Tables
<1>3. Listed(a) <=> On(mcfg)
  BY <1>1, <1>2, Zenon
<1>4. On(mcfg) <=> \E n \in DOMAIN xsdt[mcfg].segments : Place(n, a)
  BY DEF On, Place
<1> HIDE DEF On
<1> QED BY <1>3, <1>4, Zenon DEF Found

LEMMA SameFound ==
  ASSUME machine' = machine
  PROVE  Found' = Found /\ \A a : Header(a)' = Header(a)
<1>1. \A a : Header(a)' = Header(a)
  BY DEF Header
<1>2. \A a : Listed(a)' <=> Listed(a)
  BY DEF Listed
<1> QED BY <1>1, <1>2 DEF Found

LEMMA SameTurn ==
  ASSUME UNCHANGED <<xsdt, mcfg, i_entry>>, NEW a,
         Place(i_entry, a) => (Passed(a)' <=> Passed(a))
  PROVE  Visited(a)' <=> Visited(a)
<1>1. \A n : Place(n, a)' <=> Place(n, a)
  BY DEF Place
<1>2. Visited(a)' <=> \E n \in DOMAIN xsdt[mcfg].segments :
        Place(n, a) /\ (n < i_entry \/ (n = i_entry /\ Passed(a)'))
  BY <1>1 DEF Visited
<1>3. Visited(a) <=> \E n \in DOMAIN xsdt[mcfg].segments :
        Place(n, a) /\ (n < i_entry \/ (n = i_entry /\ Passed(a)))
  BY DEF Visited
<1> QED BY <1>2, <1>3

\* What a loop of the enumeration may read.
LEMMA LoopTypes ==
  ASSUME Firmware, Walk, Tables, Within, level \in Loops
  PROVE  /\ mcfg \in DOMAIN xsdt /\ mcfg # NULL /\ xsdt[mcfg].signature = "MCFG"
         /\ i_entry \in Nat /\ i_entry \in DOMAIN xsdt[mcfg].segments
         /\ Segment.startBus \in 0 .. 255 /\ Segment.endBus \in 0 .. 255
         /\ bus \in 0 .. 256 /\ dev \in 0 .. DeviceCount /\ func \in 0 .. FunctionCount
         /\ DeviceCount \in Nat /\ FunctionCount \in Nat
<1>1. mcfg \in DOMAIN xsdt /\ i_entry \in DOMAIN xsdt[mcfg].segments /\ xsdt \in Seq(TableType)
  BY DEF Walk, Loops
<1>2. mcfg # NULL
  BY <1>1 DEF NULL
<1>3. xsdt[mcfg].signature = "MCFG"
  BY <1>2 DEF Within, Loops
<1>4. Segment.startBus \in 0 .. 255 /\ Segment.endBus \in 0 .. 255
  BY <1>1, SegmentsType DEF Segment
<1>5. i_entry \in Nat /\ bus \in 0 .. 256 /\ dev \in 0 .. DeviceCount /\ func \in 0 .. FunctionCount
  BY DEF Walk, PCITypeOK
<1>6. DeviceCount \in Nat /\ FunctionCount \in Nat
  BY PCIAssumption
<1> QED BY <1>1, <1>2, <1>3, <1>4, <1>5, <1>6

\* What is found in the segment the walk is in.
LEMMA InSegment ==
  ASSUME Firmware, Walk, Tables, Within, level \in Loops, NEW a \in Found, Place(i_entry, a)
  PROVE  /\ a \in Controllers /\ Header(a) = "ahci"
         /\ a[1] = Segment.baseAddress /\ Segment.startBus <= a[2] /\ a[2] < Segment.endBus
         /\ Header(<<Segment.baseAddress, a[2], 0, 0>>) # "absent"
         /\ Header(<<Segment.baseAddress, a[2], a[3], 0>>) # "absent"
<1>1. a \in Controllers
  BY DEF Found
<1>2. /\ Header(a) = "ahci" /\ Header(<<a[1], a[2], 0, 0>>) # "absent"
      /\ Header(<<a[1], a[2], a[3], 0>>) # "absent"
  BY <1>1, LoopTypes, FoundIs
<1>3. a[1] = Segment.baseAddress /\ Segment.startBus <= a[2] /\ a[2] < Segment.endBus
  BY DEF Place, Segment
<1> QED BY <1>1, <1>2, <1>3

\* Steps within a segment other than those that look at a function.
LEMMA InsidePasses ==
  ASSUME Firmware, Walk, Tables, Within,
         EnumerateBus \/ DevicesDone \/ EnumerateDevice \/ FunctionsDone,
         NEW a \in Found
  PROVE  Visited(a)' <=> Visited(a)
<1>1. level \in Loops /\ UNCHANGED <<machine, xsdt, mcfg, i_entry>>
  BY DEF EnumerateBus, DevicesDone, EnumerateDevice, FunctionsDone, Loops, firmware
<1>2. ASSUME Place(i_entry, a)
      PROVE  Passed(a)' <=> Passed(a)
  <2>1. /\ a[2] \in Nat /\ a[3] \in 0 .. DeviceCount - 1 /\ a[4] \in 0 .. FunctionCount - 1
        /\ Header(<<Segment.baseAddress, a[2], 0, 0>>) # "absent"
        /\ Header(<<Segment.baseAddress, a[2], a[3], 0>>) # "absent"
    BY <1>1, <1>2, InSegment, Addresses
  <2>2. bus \in Nat /\ dev \in 0 .. DeviceCount /\ func \in 0 .. FunctionCount
        /\ DeviceCount \in Nat /\ FunctionCount \in Nat
    BY <1>1, LoopTypes
  <2>3. CASE EnumerateBus
    <3>1. CASE bus' = bus + 1 /\ Header(AddressOf(bus, 0, 0)) = "absent" /\ level' = level
      <4>1. a[2] # bus
        BY <2>1, <3>1 DEF AddressOf
      <4> QED BY <2>1, <2>2, <2>3, <3>1, <4>1 DEF EnumerateBus, Passed, Loops
    <3>2. CASE bus' = bus /\ level' = "device" /\ dev' = 0
      BY <2>1, <2>2, <2>3, <3>2 DEF EnumerateBus, Passed, Loops
    <3> QED BY <2>3, <3>1, <3>2 DEF EnumerateBus
  <2>4. CASE DevicesDone
    BY <2>1, <2>2, <2>4 DEF DevicesDone, Passed, Loops
  <2>5. CASE EnumerateDevice
    <3>1. CASE dev' = dev + 1 /\ Header(AddressOf(bus, dev, 0)) = "absent" /\ level' = level
      <4>1. ~(a[2] = bus /\ a[3] = dev)
        BY <2>1, <3>1 DEF AddressOf
      <4> QED BY <2>1, <2>2, <2>5, <3>1, <4>1 DEF EnumerateDevice, Passed, Loops
    <3>2. CASE dev' = dev /\ level' = "function" /\ func' = 0
      BY <2>1, <2>2, <2>5, <3>2 DEF EnumerateDevice, Passed, Loops
    <3> QED BY <2>5, <3>1, <3>2 DEF EnumerateDevice
  <2>6. CASE FunctionsDone
    BY <2>1, <2>2, <2>6 DEF FunctionsDone, Passed, Loops
  <2> QED BY <2>3, <2>4, <2>5, <2>6
<1> QED BY <1>1, <1>2, SameTurn

\* After a look at a function, that one has been passed, too.
LEMMA FunctionPasses ==
  ASSUME Firmware, Walk, Tables, Within, EnumerateFunction, NEW a \in Found
  PROVE  /\ a # Function => (Visited(a)' <=> Visited(a))
         /\ a = Function => Visited(a)' /\ ~Visited(a)
<1>1. /\ level \in Loops /\ level = "function" /\ UNCHANGED <<machine, xsdt, mcfg, i_entry, bus, dev>>
      /\ level' \in {"function", "driver"} /\ func' = func + 1 /\ func < FunctionCount
  BY DEF EnumerateFunction, Loops, firmware
<1>2. bus \in Nat /\ dev \in 0 .. DeviceCount /\ func \in 0 .. FunctionCount
      /\ DeviceCount \in Nat /\ FunctionCount \in Nat /\ i_entry \in Nat
      /\ i_entry \in DOMAIN xsdt[mcfg].segments /\ mcfg \in DOMAIN xsdt /\ xsdt[mcfg].signature = "MCFG"
  BY <1>1, LoopTypes
<1>3. a \in Controllers
  BY DEF Found
<1>4. /\ a[1] \in Nat /\ a[2] \in Nat
      /\ a[3] \in 0 .. DeviceCount - 1 /\ a[4] \in 0 .. FunctionCount - 1
      /\ a = <<a[1], a[2], a[3], a[4]>>
  BY <1>3, Addresses
<1>5. ASSUME a # Function
      PROVE  Visited(a)' <=> Visited(a)
  <2>1. ASSUME Place(i_entry, a)
        PROVE  Passed(a)' <=> Passed(a)
    <3>1. a[1] = Segment.baseAddress
      BY <2>1 DEF Place, Segment
    <3>2. ~(a[2] = bus /\ a[3] = dev /\ a[4] = func)
      BY <1>4, <1>5, <3>1 DEF Function, AddressOf
    <3> QED BY <1>1, <1>2, <1>4, <3>2 DEF Passed, Loops
  <2> QED BY <1>1, <2>1, SameTurn
<1>6. ASSUME a = Function
      PROVE  Visited(a)' /\ ~Visited(a)
  <2>1. a[1] = Segment.baseAddress /\ a[2] = bus /\ a[3] = dev /\ a[4] = func
    BY <1>6 DEF Function, AddressOf
  <2>2. Place(i_entry, a)
    BY <1>1, <2>1 DEF Place, Within, Segment, Loops
  <2>3. Place(i_entry, a)' /\ Passed(a)'
    <3>1. Place(i_entry, a)'
      BY <1>1, <2>2 DEF Place
    <3>2. Passed(a)'
      BY <1>1, <1>2, <2>1 DEF Passed, Loops
    <3> QED BY <3>1, <3>2
  <2>4. Visited(a)'
    BY <1>1, <1>2, <2>3 DEF Visited
  <2>5. ~Passed(a)
    BY <1>1, <1>2, <2>1 DEF Passed, Loops
  <2>6. ASSUME NEW n \in DOMAIN xsdt[mcfg].segments, Place(n, a)
        PROVE  n = i_entry
    <3>1. SegmentsApart(xsdt[mcfg].segments)
      BY <1>2 DEF Tables
    <3>2. /\ xsdt[mcfg].segments[n].startBus \in 0 .. 255 /\ xsdt[mcfg].segments[n].endBus \in 0 .. 255
          /\ Segment.startBus \in 0 .. 255 /\ Segment.endBus \in 0 .. 255
      <4>1. xsdt \in Seq(TableType)
        BY DEF Tables
      <4> QED BY <1>2, <2>6, <4>1, SegmentsType DEF Segment
    <3>3. /\ xsdt[mcfg].segments[n].baseAddress = a[1] /\ xsdt[mcfg].segments[n].startBus <= bus
          /\ bus < xsdt[mcfg].segments[n].endBus
      BY <2>1, <2>6 DEF Place
    <3>4. Segment.baseAddress = a[1] /\ Segment.startBus <= bus /\ bus < Segment.endBus
      BY <1>1, <2>1 DEF Within, Loops
    <3> SUFFICES ASSUME n # i_entry PROVE FALSE
      OBVIOUS
    <3>5. xsdt[mcfg].segments[n].endBus <= Segment.startBus \/ Segment.endBus <= xsdt[mcfg].segments[n].startBus
      BY <1>2, <3>1, <3>3, <3>4 DEF SegmentsApart, Segment
    <3>6. ASSUME NEW x \in 0 .. 255, x <= bus, NEW y \in 0 .. 255, bus < y
          PROVE  ~(y <= x)
      BY <1>2, <3>6
    <3> QED BY <3>2, <3>3, <3>4, <3>5, <3>6
  <2>7. ~Visited(a)
    BY <1>2, <2>5, <2>6 DEF Visited
  <2> QED BY <2>4, <2>7
<1> QED BY <1>5, <1>6

LEMMA EntriesAre ==
  ASSUME xsdt \in Seq(TableType), NEW t \in DOMAIN xsdt
  PROVE  \A n \in DOMAIN xsdt[t].segments : n \in Nat /\ n >= 1 /\ n <= Entries(t)
<1>1. xsdt[t].segments \in Seq(SegmentType)
  <2>1. xsdt[t] \in TableType
    OBVIOUS
  <2> QED BY <2>1 DEF TableType
<1> DEFINE len == Len(xsdt[t].segments)
<1>2. len \in Nat /\ DOMAIN xsdt[t].segments = 1 .. len
  BY <1>1
<1>3. t # NULL
  BY DEF NULL
<1>4. Entries(t) = (44 + 16 * len - 44) \div 16
  BY <1>3 DEF Entries, Length, MCFG_HEADER, DEVICE_CONFIG
<1> HIDE DEF len
<1>5. Entries(t) = len
  BY <1>2, <1>4
<1> QED BY <1>2, <1>5

\* At the end of a segment all that was found in it has been passed.
LEMMA BusesPass ==
  ASSUME Firmware, Walk, Tables, Within, BusesDone, NEW a \in Found
  PROVE  Visited(a)' <=> Visited(a)
<1>1. /\ level \in Loops /\ level = "bus" /\ bus \notin Buses
      /\ UNCHANGED <<xsdt, mcfg>> /\ i_entry' = i_entry + 1
  BY DEF BusesDone, Turn, Loops, firmware
<1>2. /\ mcfg \in DOMAIN xsdt /\ xsdt \in Seq(TableType) /\ i_entry \in Nat /\ bus \in 0 .. 256
      /\ Segment.startBus \in 0 .. 255 /\ Segment.endBus \in 0 .. 255
  BY <1>1, LoopTypes DEF Tables
<1>3. a \in Controllers /\ a[2] \in Nat
  <2>1. a \in Controllers
    BY DEF Found
  <2> QED BY <2>1, Addresses
<1>4. Segment.endBus <= bus
  <2>1. Segment.startBus <= bus
    BY <1>1 DEF Within
  <2>2. \A x, y \in 0 .. 255 : x <= bus /\ bus \notin x .. y - 1 => y <= bus
    BY <1>2
  <2>3. bus \notin Segment.startBus .. Segment.endBus - 1
    BY <1>1 DEF Buses
  <2> QED BY <1>2, <2>1, <2>2, <2>3, Zenon
<1>5. \A n : Place(n, a)' <=> Place(n, a)
  BY <1>1 DEF Place
<1>6. \A n \in DOMAIN xsdt[mcfg].segments : n \in Nat /\ n <= Entries(mcfg)
  BY <1>2, EntriesAre
<1>7. Place(i_entry, a) => Passed(a)
  <2>1. Place(i_entry, a) => a[2] < Segment.endBus
    BY DEF Place, Segment
  <2>2. \A y \in 0 .. 255 : y <= bus /\ a[2] < y => a[2] < bus
    BY <1>2, <1>3
  <2> QED BY <1>2, <1>4, <2>1, <2>2, Zenon DEF Passed
<1>8. ASSUME NEW n \in DOMAIN xsdt[mcfg].segments, n = i_entry + 1, Place(n, a)
      PROVE  ~Passed(a)'
  <2>1. level' = "bus" /\ bus' = xsdt[mcfg].segments[n].startBus
    BY <1>2, <1>6, <1>8 DEF BusesDone, Turn
  <2>2. bus' <= a[2]
    BY <1>8, <2>1 DEF Place
  <2>3. bus' \in 0 .. 255
    BY <1>2, <2>1, SegmentsType
  <2> QED BY <1>3, <2>1, <2>2, <2>3 DEF Passed, Loops
<1>9. Visited(a)' <=> \E n \in DOMAIN xsdt[mcfg].segments :
        Place(n, a) /\ (n < i_entry + 1 \/ (n = i_entry + 1 /\ Passed(a)'))
  BY <1>1, <1>5 DEF Visited
<1>10. Visited(a) <=> \E n \in DOMAIN xsdt[mcfg].segments :
         Place(n, a) /\ (n < i_entry \/ (n = i_entry /\ Passed(a)))
  BY DEF Visited
<1>11. \A n \in DOMAIN xsdt[mcfg].segments :
         n < i_entry + 1 <=> n < i_entry \/ n = i_entry
  BY <1>2, <1>6
<1> QED BY <1>7, <1>8, <1>9, <1>10, <1>11

\* Steps that stay in a segment keep to what it lists.
LEMMA InsideWithin ==
  ASSUME Firmware, Walk, Tables, Within,
         \/ EnumerateBus \/ DevicesDone \/ EnumerateDevice \/ FunctionsDone
         \/ EnumerateFunction \/ Return
  PROVE  Within'
<1>1. /\ level \in Loops /\ level' \in Loops
      /\ UNCHANGED <<machine, xsdt, mcfg, i_entry>>
  BY DEF EnumerateBus, DevicesDone, EnumerateDevice, FunctionsDone, EnumerateFunction, Return,
         Loops, firmware
<1>2. /\ mcfg # NULL /\ xsdt[mcfg].signature = "MCFG" /\ bus \in Nat
      /\ Segment.startBus \in 0 .. 255 /\ Segment.endBus \in 0 .. 255
  BY <1>1, LoopTypes
<1>3. Segment' = Segment /\ \A b : Header(b)' = Header(b)
  <2>1. Segment' = Segment
    BY <1>1 DEF Segment
  <2> QED BY <1>1, <2>1, SameFound
<1> DEFINE Here(l, b, d) ==
      /\ l \in Loops => Segment.startBus <= b
      /\ l \in Loops \ {"bus"} =>
           b < Segment.endBus /\ Header(<<Segment.baseAddress, b, 0, 0>>) # "absent"
      /\ l \in {"function", "driver"} => Header(<<Segment.baseAddress, b, d, 0>>) # "absent"
<1>4. Here(level, bus, dev)
  BY DEF Within
<1>5. Here(level', bus', dev')
  <2>1. CASE EnumerateBus
    <3>1. CASE bus' = bus + 1 /\ level' = level
      BY <1>1, <1>2, <1>4, <2>1, <3>1 DEF EnumerateBus, Loops
    <3>2. CASE bus' = bus /\ level' = "device" /\ Header(AddressOf(bus, 0, 0)) # "absent"
      BY <1>1, <1>2, <1>4, <2>1, <3>2 DEF EnumerateBus, Loops, Buses, AddressOf
    <3> QED BY <2>1, <3>1, <3>2 DEF EnumerateBus
  <2>2. CASE DevicesDone
    BY <1>1, <1>2, <1>4, <2>2 DEF DevicesDone, Loops
  <2>3. CASE EnumerateDevice
    <3>1. CASE dev' = dev + 1 /\ level' = level
      BY <1>1, <1>2, <1>4, <2>3, <3>1 DEF EnumerateDevice, Loops
    <3>2. CASE dev' = dev /\ level' = "function" /\ Header(AddressOf(bus, dev, 0)) # "absent"
      BY <1>1, <1>2, <1>4, <2>3, <3>2 DEF EnumerateDevice, Loops, AddressOf
    <3> QED BY <2>3, <3>1, <3>2 DEF EnumerateDevice
  <2>4. CASE FunctionsDone
    BY <1>1, <1>2, <1>4, <2>4 DEF FunctionsDone, Loops
  <2>5. CASE EnumerateFunction \/ Return
    <3>1. level \in {"function", "driver"} /\ level' \in {"function", "driver"}
          /\ bus' = bus /\ dev' = dev
      BY <2>5 DEF EnumerateFunction, Return
    <3> QED BY <1>1, <1>4, <3>1 DEF Loops
  <2> QED BY <2>1, <2>2, <2>3, <2>4, <2>5
<1>6. /\ level' \in Loops => Segment'.startBus <= bus'
      /\ level' \in Loops \ {"bus"} =>
           bus' < Segment'.endBus /\ Header(<<Segment.baseAddress, bus, 0, 0>>)' # "absent"
      /\ level' \in {"function", "driver"} =>
           Header(<<Segment.baseAddress, bus, dev, 0>>)' # "absent"
  <2>1. Header(<<Segment.baseAddress, bus, 0, 0>>)' = Header(<<Segment.baseAddress, bus', 0, 0>>)
    BY <1>1, <1>3 DEF Header
  <2>2. Header(<<Segment.baseAddress, bus, dev, 0>>)' = Header(<<Segment.baseAddress, bus', dev', 0>>)
    BY <1>1, <1>3 DEF Header
  <2> QED BY <1>3, <1>5, <2>1, <2>2
<1>7. level' # "start" /\ level' # "end" /\ xsdt'[mcfg'].signature = "MCFG" /\ mcfg' # NULL
  BY <1>1, <1>2 DEF Loops, NULL
<1> QED BY <1>6, <1>7 DEF Within, NULL

\* A turn of the loop over the segments.
LEMMA TurnWithin ==
  ASSUME Tables, NEW t \in DOMAIN xsdt, xsdt[t].signature = "MCFG", NEW n \in Nat \ {0},
         Turn(t, n), mcfg' = t
  PROVE  Within'
<1>1. UNCHANGED <<machine, xsdt>> /\ i_entry' = n /\ t # NULL /\ xsdt \in Seq(TableType)
  BY DEF Turn, firmware, NULL, Tables
<1>2. \A m \in DOMAIN xsdt[t].segments : m \in Nat /\ m <= Entries(t)
  BY <1>1, EntriesAre
<1>3. CASE n <= Entries(t)
  <2>1. level' = "bus" /\ bus' = xsdt[t].segments[n].startBus
    BY <1>3 DEF Turn
  <2>2. bus' = Segment'.startBus
    BY <1>1, <2>1 DEF Segment
  <2>3. n \in DOMAIN xsdt[t].segments
    BY <1>1, <1>3, EntriesOf
  <2>4. bus' \in 0 .. 255
    BY <1>1, <2>1, <2>3, SegmentsType
  <2>5. Segment'.startBus <= bus'
    BY <2>2, <2>4
  <2> QED BY <1>1, <2>1, <2>5 DEF Within, Loops, NULL
<1>4. CASE ~(n <= Entries(t))
  <2>1. level' = "end"
    BY <1>4 DEF Turn
  <2>2. Entries(t) \in Int
    BY DEF Entries, Length, MCFG_HEADER, DEVICE_CONFIG, Tables, TableType
  <2>3. \A m \in DOMAIN xsdt[t].segments : m < n
    BY <1>2, <1>4, <2>2
  <2> QED BY <1>1, <2>1, <2>3 DEF Within, Loops, NULL
<1> QED BY <1>3, <1>4

\* The enumeration has called the driver, once, for each controller that can be
\* met and that it has passed.
DrivenOnce ==
  /\ Tables /\ Within
  /\ level = "start" => mcfg = NULL
  /\ mcfg = NULL => driven = <<>>
  /\ mcfg # NULL => /\ Range(driven) \subseteq Found
                    /\ \A a \in Found : a \in Range(driven) <=> Visited(a)
  /\ \A m, n \in DOMAIN driven : driven[m] = driven[n] => m = n

LEMMA OnceInit ==
  ASSUME Firmware, Init
  PROVE  DrivenOnce
<1>1. Tables /\ level = "start" /\ mcfg = NULL /\ driven = <<>>
  BY TablesInit DEF Init, InitPCI
<1>2. Within
  BY <1>1 DEF Within, Loops
<1> QED BY <1>1, <1>2 DEF DrivenOnce

LEMMA TablesStep ==
  ASSUME Tables, UNCHANGED firmware
  PROVE  Tables'
<1>1. xsdt' = xsdt /\ machine' = machine
  BY DEF firmware
<1>2. \A a : Listed(a)' <=> Listed(a)
  BY <1>1 DEF Listed
<1> QED BY <1>1, <1>2 DEF Tables

\* A step that drives no controller and passes none.
LEMMA OnceKept ==
  ASSUME DrivenOnce, UNCHANGED <<firmware, mcfg, driven>>, level' # "start", Within',
         mcfg # NULL => \A a \in Found : Visited(a)' <=> Visited(a)
  PROVE  DrivenOnce'
<1>1. Tables' /\ Found' = Found
  BY TablesStep, SameFound DEF DrivenOnce, firmware
<1>2. Range(driven)' = Range(driven)
  BY DEF Range
<1>3. mcfg' = mcfg /\ driven' = driven /\ NULL' = NULL
  BY DEF NULL
<1>4. mcfg' # NULL' => Range(driven)' \subseteq Found' /\ \A a \in Found' : a \in Range(driven)' <=> Visited(a)'
  BY <1>1, <1>2, <1>3 DEF DrivenOnce
<1> QED BY <1>1, <1>3, <1>4 DEF DrivenOnce

LEMMA OnceStart ==
  ASSUME Firmware, Walk, DrivenOnce, InitializeACPI, UNCHANGED driven
  PROVE  DrivenOnce'
<1>1. level = "start" /\ mcfg = NULL /\ driven = <<>> /\ Tables /\ xsdt \in Seq(TableType)
  BY DEF InitializeACPI, DrivenOnce, Tables
<1>2. PICK t \in FindTable("MCFG") : mcfg' = t /\ Turn(t, 1)
  BY DEF InitializeACPI
<1>3. UNCHANGED <<machine, xsdt, driven>> /\ i_entry' = 1 /\ UNCHANGED firmware
  BY <1>2 DEF Turn, firmware
<1>4. Tables' /\ Found' = Found
  BY <1>1, <1>3, TablesStep, SameFound
<1>5. Range(driven)' = {} /\ driven' = <<>>
  BY <1>1, <1>3 DEF Range
<1>6. level' # "start"
  BY <1>2 DEF Turn
<1>7. CASE t = NULL
  <2>1. \A n \in DOMAIN xsdt : xsdt[n].signature # "MCFG"
    <3>1. \A n \in DOMAIN xsdt : n # NULL /\ n \in Nat
      BY <1>1 DEF NULL
    <3> SUFFICES ASSUME {n \in DOMAIN xsdt : xsdt[n].signature = "MCFG"} # {} PROVE FALSE
      OBVIOUS
    <3>2. t \in {n \in DOMAIN xsdt : xsdt[n].signature = "MCFG"}
      BY <1>2 DEF FindTable
    <3> QED BY <1>7, <3>1, <3>2
  <2>2. Found = {}
    BY <1>1, <2>1 DEF Tables, Found
  <2>3. level' = "end"
    <3>1. NULL \notin DOMAIN xsdt /\ 1 \in Nat \ {0}
      BY <1>1 DEF NULL
    <3>2. ~(1 <= Entries(t))
      BY <1>1, <1>7, <3>1, EntriesOf
    <3> QED BY <1>2, <3>2 DEF Turn
  <2>4. Within'
    BY <1>2, <1>4, <1>7, <2>2, <2>3 DEF Within, Loops, NULL
  <2> QED BY <1>2, <1>4, <1>5, <1>6, <1>7, <2>4 DEF DrivenOnce, NULL
<1>8. CASE t # NULL
  <2>1. t \in DOMAIN xsdt /\ xsdt[t].signature = "MCFG"
    <3>1. {n \in DOMAIN xsdt : xsdt[n].signature = "MCFG"} # {}
      BY <1>2, <1>8 DEF FindTable
    <3> QED BY <1>2, <3>1 DEF FindTable
  <2>2. Within'
    BY <1>1, <1>2, <2>1, TurnWithin
  <2>3. ASSUME NEW a \in Found, NEW n \in DOMAIN xsdt[t].segments, Place(n, a)', n <= 1, Passed(a)' \/ n < 1
        PROVE  FALSE
    <3>1. n \in Nat /\ n >= 1 /\ n <= Entries(t)
      BY <1>1, <2>1, EntriesAre
    <3>2. n = 1 /\ Passed(a)'
      BY <2>3, <3>1
    <3>3. level' = "bus" /\ bus' = xsdt[t].segments[n].startBus
      BY <1>2, <3>1, <3>2 DEF Turn
    <3>4. bus' <= a[2] /\ a[2] < bus'
      BY <1>2, <1>3, <2>3, <3>2, <3>3 DEF Place, Passed, Loops
    <3>5. bus' \in 0 .. 255
      BY <1>1, <2>1, <3>3, SegmentsType
    <3>6. a[2] \in Nat
      BY Addresses DEF Found
    <3> QED BY <3>4, <3>5, <3>6
  <2>4. \A a \in Found : ~Visited(a)'
    <3> SUFFICES ASSUME NEW a \in Found, Visited(a)' PROVE FALSE
      OBVIOUS
    <3>1. PICK n \in DOMAIN xsdt[t].segments : Place(n, a)' /\ (n < 1 \/ (n = 1 /\ Passed(a)'))
      BY <1>2, <1>3 DEF Visited
    <3>2. n <= 1
      <4>1. n \in Nat
        BY <1>1, <2>1, EntriesAre
      <4> QED BY <3>1, <4>1
    <3> QED BY <2>3, <3>1, <3>2
  <2> QED BY <1>2, <1>4, <1>5, <1>6, <1>8, <2>2, <2>4 DEF DrivenOnce, NULL
<1> QED BY <1>7, <1>8

\* The driver is called for a controller, which had not been passed.
LEMMA OnceDriven ==
  ASSUME Firmware, Walk, DrivenOnce, driven \in Seq(Controllers), Drive
  PROVE  DrivenOnce'
<1> PICK c : c = Function
  OBVIOUS
<1> DEFINE len == Len(driven)
<1>1. EnumerateFunction /\ Header(c) = "ahci" /\ driven' = Append(driven, c)
  BY DEF Drive
<1>2. /\ level = "function" /\ level \in Loops /\ level' \in {"function", "driver"}
      /\ UNCHANGED <<firmware, machine, xsdt, mcfg, i_entry, bus, dev>>
      /\ Tables /\ Within
  BY <1>1 DEF EnumerateFunction, Loops, DrivenOnce, firmware
<1>3. /\ mcfg # NULL /\ mcfg \in DOMAIN xsdt /\ xsdt[mcfg].signature = "MCFG"
      /\ i_entry \in DOMAIN xsdt[mcfg].segments
  BY <1>2, LoopTypes
<1>4. c \in Controllers
  <2>1. c \in DOMAIN machine.functions /\ machine.functions[c] = "ahci"
    BY <1>1 DEF Header
  <2>2. machine \in Machines
    BY DEF Walk, PCITypeOK
  <2> QED BY <2>1, <2>2, DevicesAssumption
<1>5. c \in Found
  <2>1. c[1] = Segment.baseAddress /\ c[2] = bus /\ c[3] = dev /\ c[4] = func
    BY DEF Function, AddressOf
  <2>2. Place(i_entry, c)
    BY <1>2, <2>1 DEF Place, Within, Segment, Loops
  <2>3. Header(<<c[1], c[2], 0, 0>>) # "absent" /\ Header(<<c[1], c[2], c[3], 0>>) # "absent"
    BY <1>2, <2>1 DEF Within, Loops
  <2> QED BY <1>1, <1>2, <1>3, <1>4, <2>2, <2>3, FoundIs
<1>6. /\ \A a \in Found : a # c => (Visited(a)' <=> Visited(a))
      /\ Visited(c)' /\ ~Visited(c)
  <2>1. EnumerateFunction /\ Tables /\ Within
    BY <1>1, <1>2
  <2>2. ASSUME NEW a \in Found
        PROVE  /\ a # Function => (Visited(a)' <=> Visited(a))
               /\ a = Function => Visited(a)' /\ ~Visited(a)
    BY <2>1, FunctionPasses
  <2> QED BY <1>5, <2>2
<1>7. len \in Nat /\ DOMAIN driven = 1 .. len /\ DOMAIN driven' = 1 .. (len + 1)
      /\ driven'[len + 1] = c /\ \A n \in 1 .. len : driven'[n] = driven[n]
  BY <1>1, <1>4
<1> HIDE DEF len
<1>8. Range(driven)' = Range(driven) \cup {c}
  <2>1. \A n : n \in 1 .. (len + 1) <=> n \in 1 .. len \/ n = len + 1
    BY <1>7
  <2>2. Range(driven)' = {driven'[n] : n \in 1 .. (len + 1)} /\ Range(driven) = {driven[n] : n \in 1 .. len}
    BY <1>7 DEF Range
  <2> QED BY <1>7, <2>1, <2>2
<1>9. c \notin Range(driven)
  BY <1>3, <1>5, <1>6 DEF DrivenOnce
<1>10. \A m, n \in DOMAIN driven' : driven'[m] = driven'[n] => m = n
  <2>1. \A n \in 1 .. len : driven[n] # c
    BY <1>7, <1>9 DEF Range
  <2>2. \A n : n \in 1 .. (len + 1) => n \in 1 .. len \/ n = len + 1
    BY <1>7
  <2>3. \A m, n \in 1 .. len : driven[m] = driven[n] => m = n
    BY <1>7 DEF DrivenOnce
  <2> QED BY <1>7, <2>1, <2>2, <2>3
<1>11. Tables' /\ Found' = Found
  BY <1>2, TablesStep, SameFound
<1>12. Within'
  <2>1. EnumerateFunction /\ Tables /\ Within
    BY <1>1, <1>2
  <2>2. EnumerateFunction => Within'
    BY <1>2, InsideWithin
  <2> QED BY <2>1, <2>2
<1>13. \A a \in Found : a \in Range(driven)' <=> Visited(a)'
  BY <1>3, <1>6, <1>8 DEF DrivenOnce
<1>14. Range(driven)' \subseteq Found
  BY <1>3, <1>5, <1>8 DEF DrivenOnce
<1>15. mcfg' # NULL /\ level' # "start" /\ NULL' = NULL
  BY <1>2, <1>3 DEF NULL
<1> QED BY <1>10, <1>11, <1>12, <1>13, <1>14, <1>15 DEF DrivenOnce

LEMMA OnceStep ==
  ASSUME Firmware, Walk, driven \in Seq(Controllers), DrivenOnce, [Next]_vars
  PROVE  DrivenOnce'
<1>1. CASE Enumerate /\ InitializeACPI
  BY <1>1, OnceStart DEF Enumerate
<1>2. CASE Enumerate /\ BusesDone
  <2>1. /\ level \in Loops /\ UNCHANGED <<firmware, mcfg, driven>> /\ level' # "start"
        /\ Turn(mcfg, i_entry + 1) /\ Tables /\ Within
    BY <1>2 DEF Enumerate, BusesDone, Turn, Loops, DrivenOnce
  <2>2. Within'
    <3>1. mcfg \in DOMAIN xsdt /\ xsdt[mcfg].signature = "MCFG" /\ i_entry \in Nat
      BY <2>1, LoopTypes
    <3>2. i_entry + 1 \in Nat \ {0} /\ mcfg' = mcfg
      BY <2>1, <3>1
    <3> QED BY <2>1, <3>1, <3>2, TurnWithin
  <2> QED BY <1>2, <2>1, <2>2, BusesPass, OnceKept
<1>3. CASE Enumerate /\ (EnumerateBus \/ DevicesDone \/ EnumerateDevice \/ FunctionsDone)
  <2>1. UNCHANGED <<firmware, mcfg, driven>> /\ level' # "start" /\ Tables /\ Within
    BY <1>3 DEF Enumerate, EnumerateBus, DevicesDone, EnumerateDevice, FunctionsDone, DrivenOnce
  <2>2. Within'
    BY <1>3, <2>1, InsideWithin
  <2> QED BY <1>3, <2>1, <2>2, InsidePasses, OnceKept
<1>4. CASE Pass
  <2>1. /\ EnumerateFunction /\ Header(Function) # "ahci"
        /\ UNCHANGED <<firmware, mcfg, driven>> /\ level' # "start" /\ Tables /\ Within
    BY <1>4 DEF Pass, EnumerateFunction, DrivenOnce
  <2>2. \A a \in Found : a # Function
    BY <2>1 DEF Found
  <2>3. \A a \in Found : Visited(a)' <=> Visited(a)
    BY <2>1, <2>2, FunctionPasses
  <2>4. Within'
    BY <2>1, InsideWithin
  <2> QED BY <2>1, <2>3, <2>4, OnceKept
<1>5. CASE Drive
  BY <1>5, OnceDriven
<1>6. CASE Return
  <2>1. /\ UNCHANGED <<firmware, xsdt, mcfg, i_entry, bus, dev, func, driven>> /\ Tables /\ Within
        /\ level = "driver" /\ level' = "function"
    BY <1>6 DEF Return, DrivenOnce, firmware
  <2>2. \A a : Visited(a)' <=> Visited(a)
    <3>1. \A a : Passed(a)' <=> Passed(a)
      BY <2>1 DEF Passed, Loops
    <3> QED BY <2>1, <3>1, SameTurn
  <2>3. Within'
    BY <1>6, <2>1, InsideWithin
  <2> QED BY <2>1, <2>2, <2>3, OnceKept
<1>7. CASE RunDriver \/ (\E p \in Disks : Work(p)) \/ UNCHANGED vars
  <2>1. UNCHANGED <<firmware, enumeration, driven>>
    BY <1>7 DEF RunDriver, Work, vars
  <2>2. UNCHANGED <<machine, xsdt, mcfg, level, i_entry, bus, dev, func, driven>>
    BY <2>1 DEF firmware, enumeration
  <2>3. Found' = Found /\ (\A a : Header(a)' = Header(a)) /\ (\A a : Visited(a)' <=> Visited(a))
    <3>1. \A a : Visited(a)' <=> Visited(a)
      BY <2>2 DEF Visited, Place, Passed
    <3> QED BY <2>2, <3>1, SameFound
  <2>4. Within'
    <3>1. Within
      BY DEF DrivenOnce
    <3> QED BY <2>2, <2>3, <3>1 DEF Within, Segment, Header
  <2>5. Tables' /\ Range(driven)' = Range(driven)
    BY <2>1, <2>2, TablesStep DEF DrivenOnce, Range
  <2> QED BY <2>2, <2>3, <2>4, <2>5 DEF DrivenOnce
<1> QED BY <1>1, <1>2, <1>3, <1>4, <1>5, <1>6, <1>7
      DEF Next, Kernel, Enumerate, EnumerationStep

LEMMA OnceEnd ==
  ASSUME Walk, driven \in Seq(Controllers), DrivenOnce
  PROVE  ControllersDrivenOnce
<1> SUFFICES ASSUME level = "end"
             PROVE  Len(driven) = Cardinality(Found) /\ Range(driven) = Found
  BY DEF ControllersDrivenOnce
<1>1. Range(driven) = Found
  <2>1. CASE mcfg = NULL
    BY <2>1 DEF DrivenOnce, Within, Range
  <2>2. CASE mcfg # NULL
    <3>1. \A a \in Found : Visited(a)
      <4> SUFFICES ASSUME NEW a \in Found PROVE Visited(a)
        OBVIOUS
      <4>1. PICK n \in DOMAIN xsdt[mcfg].segments : Place(n, a)
        <5>1. mcfg \in DOMAIN xsdt /\ xsdt[mcfg].signature = "MCFG"
          BY <2>2 DEF DrivenOnce, Within, Walk, PCITypeOK
        <5>2. a \in Controllers /\ Listed(a)
          BY DEF Found
        <5>3. PICK t \in DOMAIN xsdt : /\ xsdt[t].signature = "MCFG"
                                       /\ \E n \in DOMAIN xsdt[t].segments :
                                            LET s == xsdt[t].segments[n]
                                            IN  s.baseAddress = a[1] /\ s.startBus <= a[2] /\ a[2] < s.endBus
          BY <5>2 DEF DrivenOnce, Tables
        <5>4. t = mcfg
          BY <5>1, <5>3 DEF DrivenOnce, Tables
        <5> QED BY <5>3, <5>4 DEF Place
      <4>2. n < i_entry
        BY <2>2 DEF DrivenOnce, Within
      <4> QED BY <4>1, <4>2 DEF Visited
    <3> QED BY <2>2, <3>1 DEF DrivenOnce
  <2> QED BY <2>1, <2>2
<1>2. Cardinality(Range(driven)) = Len(driven)
  <2> DEFINE len == Len(driven)
  <2>1. len \in Nat /\ DOMAIN driven = 1 .. len
    OBVIOUS
  <2>2. driven \in Bijection(1 .. len, Range(driven))
    <3>1. driven \in [1 .. len -> Range(driven)]
      BY <2>1 DEF Range
    <3> QED BY <2>1, <3>1 DEF Bijection, Injection, Surjection, IsInjective, Range, DrivenOnce
  <2> HIDE DEF len
  <2>3. Cardinality(1 .. len) = len /\ IsFiniteSet(1 .. len)
    BY <2>1, FS_Interval
  <2>4. ExistsBijection(1 .. len, Range(driven))
    BY <2>2 DEF ExistsBijection
  <2>5. Cardinality(Range(driven)) = Cardinality(1 .. len)
    BY <2>3, <2>4, FS_Bijection
  <2> QED BY <2>3, <2>5 DEF len
<1> QED BY <1>1, <1>2

-------------------------------------------------------------------------------
(***************************************************************************)
(* The theorems                                                            *)
(***************************************************************************)

Inv ==
  /\ Linked /\ Walk /\ driven \in Seq(Controllers)
  /\ AHCITypeOK /\ Stopped /\ Commands /\ Transfers /\ BootSector

LEMMA InvInit == Init => Inv
<1> SUFFICES ASSUME Init PROVE Inv
  OBVIOUS
<1>1. InitAHCI /\ InitPCI /\ driven = <<>>
  BY DEF Init
<1>2. Stopped
  BY <1>1 DEF InitAHCI, Stopped
<1> QED BY <1>1, <1>2, LinkedInit, WalkInit, TypeInit, CommandsInit, TransfersInit, BootSectorInit DEF Inv

\* A step that leaves the disks alone leaves what is known of them.
LEMMA DisksAlone ==
  ASSUME AHCITypeOK, Stopped, Commands, Transfers, BootSector, UNCHANGED ahci
  PROVE  AHCITypeOK' /\ Stopped' /\ Commands' /\ Transfers' /\ BootSector'
<1>1. /\ UNCHANGED <<hba, buffer, running, done, halted, partial, port>>
      /\ UNCHANGED <<controller, pc, i, phase, spin, success, table>>
  BY DEF ahci, device, driver, port
<1>2. AHCITypeOK'
  BY <1>1 DEF AHCITypeOK
<1>3. Stopped' /\ BootSector'
  BY <1>1 DEF Stopped, BootSector, Untouched, CI
<1>4. Commands'
  BY <1>1 DEF Commands, CommandOf, AtRest, CI, CR, TFES
<1>5. Transfers'
  BY <1>1 DEF Transfers, Holds, CI
<1> QED BY <1>2, <1>3, <1>4, <1>5

LEMMA InvStep == Inv /\ [Next]_vars => Inv'
<1> SUFFICES ASSUME Inv, [Next]_vars PROVE Inv'
  OBVIOUS
<1> USE DEF Inv
<1>1. Linked' /\ (AHCIStep \/ UNCHANGED ahci)
  BY StepsOfParts
<1>2. Walk' /\ driven' \in Seq(Controllers)
  BY WalkStep, DrivenStep
<1>3. CASE AHCIStep
  BY <1>1, <1>2, <1>3, TypeStep, StoppedStep, CommandsStep, TransfersStep, BootSectorStep
<1>4. CASE UNCHANGED ahci
  BY <1>1, <1>2, <1>4, DisksAlone
<1> QED BY <1>1, <1>3, <1>4

LEMMA Invariance == Spec => []Inv
BY InvInit, InvStep, PTL DEF Spec

\* Type correctness: a port is the driver's only if there is a disk on it, a
\* buffer holds what a disk of the run can hold, and the walk over the buses stays
\* within the table's segments (AHCI_AHCIDriver, PCI_EnumeratePCI).
THEOREM TypeCorrect == Spec => []TypeOK
<1>1. Inv => TypeOK
  BY DEF Inv, Walk, TypeOK
<1> QED BY <1>1, Invariance, PTL

\* AHCI_Port_Configure changes the lists of a port only while its engines stand
\* still, which AHCI_Port_StopCMD has waited for, however long they take to stop
\* and whatever the firmware left behind.
THEOREM ListsChangeWhileStopped == Spec => BasesChangeWhileStopped
<1>1. Inv /\ [Next]_vars =>
        [\A p \in Disks : hba'[p].bases # hba[p].bases => ~hba[p].CR /\ ~hba[p].FR]_ahci
  <2> SUFFICES ASSUME Inv, [Next]_vars, NEW p \in Disks, hba'[p].bases # hba[p].bases, ahci' # ahci
               PROVE  ~hba[p].CR /\ ~hba[p].FR
    OBVIOUS
  <2>1. AHCIStep
    BY StepsOfParts DEF Inv
  <2> QED BY <2>1, BasesStep DEF Inv
<1> QED BY <1>1, Invariance, PTL DEF Spec, BasesChangeWhileStopped

\* A read for which AHCI_Port_Read returns true has delivered every sector asked
\* for, for any number of sectors, controllers and ports, whichever of them fail.
THEOREM ReadsAreGood == Spec => []SuccessMeansRead
<1>1. Inv => SuccessMeansRead
  BY DEF Inv, Transfers, Holds, SuccessMeansRead
<1> QED BY <1>1, Invariance, PTL

\* FAT_ParseFat16_12 takes nothing for a boot sector that is not this disk's.
THEOREM ParserSeesBootSectors == Spec => []OnlyBootSectorsParsed
<1>1. Inv => OnlyBootSectorsParsed
  BY DEF Inv, BootSector, Reading, Zero, Old, Parsed, OnlyBootSectorsParsed
<1> QED BY <1>1, Invariance, PTL

\* After a failure that transferred nothing the zeroes of the buffer keep
\* AHCI_AHCIDriver from giving the port a command it would not carry out.
THEOREM FailedPortsAreLeft == Spec => []HaltedPortsNotUsed
<1>1. Inv => HaltedPortsNotUsed
  BY DEF Inv, BootSector, Preparing, HaltedPortsNotUsed
<1> QED BY <1>1, Invariance, PTL

\* ControllersDrivenOnce: wherever the firmware puts its tables and the buses of
\* its segments, PCI_EnumeratePCI calls AHCI_AHCIDriver once for each controller
\* behind functions that answer.
THEOREM ControllersAreDriven ==
  ASSUME Firmware
  PROVE  Spec => []ControllersDrivenOnce
<1>1. Init => DrivenOnce
  BY OnceInit
<1>2. Inv /\ DrivenOnce /\ [Next]_vars => DrivenOnce'
  BY OnceStep DEF Inv
<1>3. Inv /\ DrivenOnce => ControllersDrivenOnce
  BY OnceEnd DEF Inv
<1> QED BY <1>1, <1>2, <1>3, Invariance, PTL DEF Spec
===============================================================================
