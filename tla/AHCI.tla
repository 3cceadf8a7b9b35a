--------------------------------- MODULE AHCI ---------------------------------
(***************************************************************************)
(* The disk driver, ahci/ahci.c, against its controllers.  AHCI_AHCIDriver *)
(* takes the ports with a disk one after the other: it stops the command   *)
(* engine, gives the port its lists, starts it again, and reads the boot   *)
(* sector and, if FAT_ParseFat16_12 takes it for one, the root directory.  *)
(* One step of the driver is one access to a register the controller       *)
(* changes too; the controller works at its own pace, and may fail.  PCI   *)
(* calls the driver, for one controller after the other (module Devices);  *)
(* the ports of those it has left, or not come to, work on.                *)
(*                                                                         *)
(* A sector's content is its number.  The frames the driver requests are   *)
(* its own (KernelMemory); portCount, in memory MEM_Malloc does not clear, *)
(* is taken to start at 0.                                                 *)
(***************************************************************************)
EXTENDS Integers

CONSTANTS
  Controllers,   \* their PCI functions
  Ports,         \* the implemented ports of each
  Disks,         \* those AHCI_PT_SATA or AHCI_PT_SATAPI
  TakenDisks,    \* those whose first sector FAT_ParseFat16_12 takes
  RootDirectory, \* the sector the driver computes from it
  SectorCount,   \* the sectors of one read, 4
  MaxSpin        \* the polls before a port counts as busy, 1000000

VARIABLES
  hba,       \* the registers of the ports
  running,   \* is the port's command being carried out?
  done,      \* the sectors it has transferred
  halted,    \* has the port stopped working after an error?
  partial,   \* history: has a command failed after it transferred a sector?
  controller, \* the one the driver was last called for
  pc, i,     \* where the driver is, and with which of the ports
  phase,     \* "boot" or "root": what it reads
  spin,
  success,   \* what AHCI_Port_Read returned
  table,     \* the first sector the command table of a port asks for
  buffer     \* port->buffer of the ports, by sectors

device == <<running, done, halted, partial>>
driver == <<controller, pc, i, phase, spin, success, table>>
ahci == <<hba, device, driver, buffer>>

ASSUME AHCIAssumption ==
  /\ Controllers # {}
  /\ Ports \in [Controllers -> SUBSET (0 .. 31)]
  /\ TakenDisks \subseteq Disks
  /\ Disks \subseteq UNION {{c} \X Ports[c] : c \in Controllers}
  /\ RootDirectory \in Nat
  /\ SectorCount \in Nat \ {0} /\ MaxSpin \in Nat \ {0}

\* Contents of memory that are not a sector read: zeroed, or left by an earlier
\* owner of the frame, in the worst case another boot sector.
Zero == -1
Old == -2

Sectors == 0 .. (RootDirectory + SectorCount)

\* The driver maps one page of registers; those of ports 30 and 31 lie behind it.
MappedPorts == 0 .. 29

\* The ports the driver keeps in its array, in ascending order.
AllPorts(c) == Ports[c]                             \* mutant: whatever their type
ProbePorts(c) == {p \in Ports[c] : <<c, p>> \in Disks}

Registers ==
  [ST : BOOLEAN, FRE : BOOLEAN, CR : BOOLEAN, FR : BOOLEAN,   \* cmdSts
   BSY : BOOLEAN,                                             \* taskFileData
   TFES : BOOLEAN,                                            \* interruptStatus
   CI : BOOLEAN,                                              \* commandIssue
   bases : {"firmware", "driver"}]          \* commandListBase and fisBaseAddress

\* The firmware may have used a port or not; it leaves no command behind.
InitAHCI ==
  /\ hba \in [Disks -> {r \in Registers :
                /\ r.CR = r.ST /\ r.FR = r.FRE /\ (r.ST => r.FRE)
                /\ ~r.CI /\ r.bases = "firmware"}]
  /\ running = [p \in Disks |-> FALSE]
  /\ done = [p \in Disks |-> 0]
  /\ halted = [p \in Disks |-> FALSE]
  /\ partial = FALSE
  /\ controller = CHOOSE c \in Controllers : TRUE
  /\ pc = "done"
  /\ i = 0
  /\ phase = "boot"
  /\ spin = 0
  /\ success = FALSE
  /\ table = [p \in Disks |-> 0]
  /\ buffer = [p \in Disks |-> [n \in 0 .. SectorCount - 1 |-> Old]]

-------------------------------------------------------------------------------
(***************************************************************************)
(* The driver                                                              *)
(***************************************************************************)

port == <<controller, i>>

Step(from, to) == pc = from /\ pc' = to

Set(reg, value) == hba' = [hba EXCEPT ![port][reg] = value]

\* The least of the ports that are left, or the end of the loop over them.
NextPort(left) ==
  \/ left = {} /\ pc' = "done" /\ UNCHANGED i
  \/ \E p \in left : (\A q \in left : p <= q) /\ pc' = "clear ST" /\ i' = p

\* The call, for the controller c.  It looks at every implemented port first.
AHCI_AHCIDriver(c) ==
  /\ controller' = c
  /\ \/ Ports[c] \subseteq MappedPorts /\ NextPort(ProbePorts(c))
     \/ ~(Ports[c] \subseteq MappedPorts) /\ pc' = "fault" /\ UNCHANGED i
  /\ UNCHANGED <<hba, device, phase, spin, success, table, buffer>>

\* AHCI_Port_StopCMD.
ClearST ==
  Step("clear ST", "clear FRE") /\ Set("ST", FALSE)
    /\ UNCHANGED <<controller, i, phase, spin, success, table, buffer>>

ClearFRE ==
  Step("clear FRE", "FR?") /\ Set("FRE", FALSE)
    /\ UNCHANGED <<controller, i, phase, spin, success, table, buffer>>

TestFR ==
  Step("FR?", IF hba[port].FR THEN "FR?" ELSE "CR?")
    /\ UNCHANGED <<controller, hba, i, phase, spin, success, table, buffer>>

IgnoreCR == FALSE                                   \* mutant: CR is not waited for
StillRunning == hba[port].CR

TestCR ==
  Step("CR?", IF StillRunning THEN "FR?" ELSE "bases")
    /\ UNCHANGED <<controller, hba, i, phase, spin, success, table, buffer>>

\* AHCI_Port_Configure: the command list, the receive area, the command tables.
SetBases ==
  Step("bases", "stopped?") /\ Set("bases", "driver")
    /\ UNCHANGED <<controller, i, phase, spin, success, table, buffer>>

\* AHCI_Port_StartCMD.
WaitStopped ==
  /\ Step("stopped?", "set FRE")
  /\ ~hba[port].CR
  /\ UNCHANGED <<controller, hba, i, phase, spin, success, table, buffer>>

SetFRE ==
  Step("set FRE", "set ST") /\ Set("FRE", TRUE)
    /\ UNCHANGED <<controller, i, phase, spin, success, table, buffer>>

SetST ==
  Step("set ST", "buffer") /\ Set("ST", TRUE)
    /\ UNCHANGED <<controller, i, phase, spin, success, table, buffer>>

\* What MEM_Set makes of a new buffer.
LeftDirty == Old                                    \* mutant: the buffer is not cleared
Cleared == Zero

NewBuffer ==
  /\ Step("buffer", "clear status")
  /\ buffer' = [buffer EXCEPT ![port] = [n \in 0 .. SectorCount - 1 |-> Cleared]]
  /\ phase' = "boot"
  /\ UNCHANGED <<controller, hba, i, spin, success, table>>

\* AHCI_Port_Read clears the status, ...
StatusKept == hba[port].TFES                        \* mutant: the status is not cleared
StatusCleared == FALSE

ClearStatus ==
  /\ Step("clear status", "busy?")
  /\ Set("TFES", StatusCleared)
  /\ table' = [table EXCEPT ![port] = IF phase = "boot" THEN 0 ELSE RootDirectory]
  /\ spin' = 0
  /\ UNCHANGED <<controller, i, phase, success, buffer>>

\* ... waits for the port, ...
Spin ==
  /\ Step("busy?", "busy?")
  /\ hba[port].BSY /\ spin < MaxSpin
  /\ spin' = spin + 1
  /\ UNCHANGED <<controller, hba, i, phase, success, table, buffer>>

EndSpin ==
  /\ Step("busy?", IF spin = MaxSpin THEN "read" ELSE "issue")
  /\ ~hba[port].BSY \/ spin = MaxSpin
  /\ success' = FALSE
  /\ UNCHANGED <<controller, hba, i, phase, spin, table, buffer>>

\* ... issues its command ...
NotIssued == FALSE                                  \* mutant: commandIssue is not set
Issued == TRUE

Issue ==
  /\ Step("issue", "complete?")
  /\ Set("CI", Issued)
  /\ UNCHANGED <<controller, i, phase, spin, success, table, buffer>>

\* ... and polls it.
TestComplete ==
  /\ Step("complete?", IF hba[port].CI THEN "error?" ELSE "read")
  /\ success' = ~hba[port].CI
  /\ UNCHANGED <<controller, hba, i, phase, spin, table, buffer>>

ErrorIgnored == FALSE                               \* mutant: errors are not looked at
Error == hba[port].TFES

TestError ==
  /\ Step("error?", IF Error THEN "read" ELSE "complete?")
  /\ success' = FALSE
  /\ UNCHANGED <<controller, hba, i, phase, spin, table, buffer>>

\* Does FAT_ParseFat16_12 take the buffer for a boot sector?  It tests the jump
\* at its start, which zeroes do not have, and that a byte is no signature of FAT
\* (its structures are not packed, so it is another byte that it looks at).
TakesAll == TRUE                                    \* mutant: no test
Parsed ==
  \/ buffer[port][0] = Old
  \/ buffer[port][0] = 0 /\ port \in TakenDisks

PortsLeft == {p \in ProbePorts(controller) : p > i}

\* What AHCI_AHCIDriver does after a read, whether it was successful or not.  It
\* divides by the bytes per sector of what the parser took, which may be 0.
AfterRead ==
  /\ pc = "read"
  /\ \/ /\ phase = "boot" /\ Parsed
        /\ phase' = "root"
        /\ pc' = "clear status"
        /\ UNCHANGED i
     \/ /\ phase = "boot" /\ Parsed
        /\ pc' = "fault"
        /\ UNCHANGED <<i, phase>>
     \/ /\ phase = "root" \/ ~Parsed
        /\ NextPort(PortsLeft)
        /\ UNCHANGED phase
  /\ UNCHANGED <<controller, hba, spin, success, table, buffer>>

Driver ==
  /\ \/ ClearST \/ ClearFRE \/ TestFR \/ TestCR \/ SetBases \/ WaitStopped \/ SetFRE \/ SetST
     \/ NewBuffer \/ ClearStatus \/ Spin \/ EndSpin \/ Issue \/ TestComplete \/ TestError
     \/ AfterRead
  /\ UNCHANGED device

-------------------------------------------------------------------------------
(***************************************************************************)
(* The controller                                                          *)
(***************************************************************************)

\* The receive engine follows FRE.
FollowFRE(p) ==
  /\ hba[p].FR # hba[p].FRE
  /\ hba' = [hba EXCEPT ![p].FR = hba[p].FRE]
  /\ UNCHANGED <<device, driver, buffer>>

\* The command engine follows ST; when it stops it forgets its command.
StartEngine(p) ==
  /\ hba[p].ST /\ ~hba[p].CR
  /\ hba' = [hba EXCEPT ![p].CR = TRUE]
  /\ UNCHANGED <<device, driver, buffer>>

StopEngine(p) ==
  /\ ~hba[p].ST /\ hba[p].CR
  /\ hba' = [hba EXCEPT ![p].CR = FALSE, ![p].CI = FALSE]
  /\ running' = [running EXCEPT ![p] = FALSE]
  /\ halted' = [halted EXCEPT ![p] = FALSE]
  /\ UNCHANGED <<done, partial, driver, buffer>>

\* A disk that was not ready yet becomes so.
Ready(p) ==
  /\ hba[p].BSY /\ ~running[p]
  /\ hba' = [hba EXCEPT ![p].BSY = FALSE]
  /\ UNCHANGED <<device, driver, buffer>>

Take(p) ==
  /\ hba[p].CR /\ hba[p].CI /\ ~running[p] /\ ~halted[p]
  /\ hba' = [hba EXCEPT ![p].BSY = TRUE]
  /\ running' = [running EXCEPT ![p] = TRUE]
  /\ done' = [done EXCEPT ![p] = 0]
  /\ UNCHANGED <<halted, partial, driver, buffer>>

Transfer(p) ==
  /\ running[p] /\ done[p] < SectorCount
  /\ buffer' = [buffer EXCEPT ![p][done[p]] = table[p] + done[p]]
  /\ done' = [done EXCEPT ![p] = @ + 1]
  /\ UNCHANGED <<hba, running, halted, partial, driver>>

Complete(p) ==
  /\ running[p] /\ done[p] = SectorCount
  /\ hba' = [hba EXCEPT ![p].BSY = FALSE, ![p].CI = FALSE]
  /\ running' = [running EXCEPT ![p] = FALSE]
  /\ UNCHANGED <<done, halted, partial, driver, buffer>>

\* The command stays issued; the port takes no other until it is restarted.
Fail(p) ==
  /\ running[p]
  /\ hba' = [hba EXCEPT ![p].BSY = FALSE, ![p].TFES = TRUE]
  /\ running' = [running EXCEPT ![p] = FALSE]
  /\ halted' = [halted EXCEPT ![p] = TRUE]
  /\ partial' = (partial \/ done[p] > 0)
  /\ UNCHANGED <<done, driver, buffer>>

Device(p) ==
  \/ FollowFRE(p) \/ StartEngine(p) \/ StopEngine(p) \/ Ready(p)
  \/ Take(p) \/ Transfer(p) \/ Complete(p) \/ Fail(p)

-------------------------------------------------------------------------------
(***************************************************************************)
(* Properties                                                              *)
(***************************************************************************)

PCs == {"clear ST", "clear FRE", "FR?", "CR?", "bases", "stopped?", "set FRE", "set ST", "buffer",
        "clear status", "busy?", "issue", "complete?", "error?", "read", "done", "fault"}

AHCITypeOK ==
  /\ hba \in [Disks -> Registers]
  /\ running \in [Disks -> BOOLEAN]
  /\ done \in [Disks -> 0 .. SectorCount]
  /\ halted \in [Disks -> BOOLEAN]
  /\ partial \in BOOLEAN
  /\ controller \in Controllers
  /\ pc \in PCs
  /\ i \in 0 .. 31 /\ (pc \notin {"done", "fault"} => port \in Disks)
  /\ phase \in {"boot", "root"}
  /\ spin \in 0 .. MaxSpin
  /\ success \in BOOLEAN
  /\ table \in [Disks -> {0, RootDirectory}]
  /\ buffer \in [Disks -> [0 .. SectorCount - 1 -> Sectors \cup {Zero, Old}]]

\* The lists of a port are changed only while it neither works on the command
\* list nor writes to the receive area.
BasesChangeWhileStopped ==
  [][\A p \in Disks :
       hba'[p].bases # hba[p].bases => ~hba[p].CR /\ ~hba[p].FR]_ahci

\* A read that returns true has filled the buffer with the sectors asked for.
SuccessMeansRead ==
  pc = "read" /\ success =>
    \A n \in 0 .. SectorCount - 1 : buffer[port][n] = table[port] + n

\* Only what came from this disk is parsed as its boot sector, whatever became
\* of the read.
OnlyBootSectorsParsed == pc = "read" /\ phase = "boot" /\ Parsed => buffer[port][0] = 0

\* A port that failed gets no further command, which it would never complete;
\* the driver relies on the zeroes in the buffer, so not after a partial transfer.
HaltedPortsNotUsed == ~partial /\ pc = "issue" => ~halted[port]
===============================================================================
