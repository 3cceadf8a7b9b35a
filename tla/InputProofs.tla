------------------------------ MODULE InputProofs ------------------------------
(***************************************************************************)
(* Theorems about Input: whatever the firmware left in the interrupt       *)
(* controllers and whichever lines rise, the processor only enters gates   *)
(* that InitializeInterrupts has set; whatever the devices send, the       *)
(* variables keep their types; and as long as no byte comes where the code *)
(* does not expect it, the mouse is set up, and every code of the keyboard *)
(* is handled once and in order.                                           *)
(***************************************************************************)
EXTENDS Input, SequenceTheorems, TLAPS

\* The lines with a handler.
Served == {TIMER, KEYBOARD, MOUSE}

\* The lines that ever rise; the one the controllers are cascaded through does not.
Raised == Served \cup {DISK}

\* Two halves: what the processor may be given once interrupts are enabled, and
\* where the vectors are by then.
GateInv ==
  /\ pc \in {"interrupts", "mouse", "masks", "idle"}
  /\ irr \subseteq Raised
  /\ pc # "interrupts" => vectors = <<32, 40>>
  /\ pc = "idle" => imr = Masks
  /\ serving \in {NoLine} \cup Served
  /\ serving # NoLine => pc = "idle"

\* The controller of the devices raises no line but theirs.
LEMMA LinesAreServed ==
  ASSUME NEW o, NEW c
  PROVE  Lines(o, c) \subseteq {KEYBOARD, MOUSE}
BY DEF Lines

LEMMA RequestsAreRaised ==
  ASSUME irr \subseteq Raised, Signal
  PROVE  irr' \subseteq Raised /\ UNCHANGED <<imr, isr, vectors>>
<1>1. \A o, c : Lines(o, c) \subseteq Raised
  BY LinesAreServed DEF Raised, Served
<1> QED BY <1>1 DEF Signal, Requests

\* With the masks _start sets, the first controller asks for lines 0 and 1, and
\* for the second one, which asks for nothing but line 12.
LEMMA DeliveredIsServed ==
  ASSUME irr \subseteq Raised, imr = Masks, MasterRequests # {}
  PROVE  Delivered \in Served /\ Delivered \in irr
<1> USE DEF Raised, Served, TIMER, KEYBOARD, MOUSE, DISK
<1>1. SlaveRequests \subseteq {12}
  BY DEF SlaveRequests, Open, Masks, Master, Slave
<1>2. MasterRequests \subseteq {0, 1, CASCADE}
  BY DEF MasterRequests, Open, Masks, Master, Slave, CASCADE
<1>3. CASCADE \in MasterRequests => SlaveRequests # {}
  BY DEF MasterRequests, Open, CASCADE
<1>4. Highest(MasterRequests) \in MasterRequests
  <2>1. \A k \in MasterRequests : k \in {0, 1, 2}
    BY <1>2 DEF CASCADE
  <2>2. \E l \in MasterRequests : \A k \in MasterRequests : l <= k
    <3>1. CASE 0 \in MasterRequests
      <4>1. \A k \in MasterRequests : 0 <= k
        BY <2>1
      <4> QED BY <3>1, <4>1
    <3>2. CASE 0 \notin MasterRequests /\ 1 \in MasterRequests
      <4>1. \A k \in MasterRequests : 1 <= k
        BY <2>1, <3>2
      <4> QED BY <3>2, <4>1
    <3>3. CASE 0 \notin MasterRequests /\ 1 \notin MasterRequests
      <4>1. \A k \in MasterRequests : k = 2
        BY <2>1, <3>3
      <4>2. \A k \in MasterRequests : 2 <= k
        BY <4>1
      <4>3. 2 \in MasterRequests
        BY <4>1
      <4> QED BY <4>2, <4>3
    <3> QED BY <3>1, <3>2, <3>3
  <2> QED BY <2>2 DEF Highest
<1>5. CASE Highest(MasterRequests) = CASCADE
  <2>1. SlaveRequests = {12}
    BY <1>1, <1>3, <1>4, <1>5
  <2>2. Highest(SlaveRequests) = 12
    BY <2>1 DEF Highest
  <2>3. 12 \in irr
    BY <2>1 DEF SlaveRequests, Open
  <2> QED BY <1>5, <2>2, <2>3 DEF Delivered
<1>6. CASE Highest(MasterRequests) # CASCADE
  <2>1. Highest(MasterRequests) \in irr
    BY <1>4, <1>6 DEF MasterRequests, Open
  <2> QED BY <1>2, <1>4, <1>6, <2>1 DEF Delivered
<1> QED BY <1>5, <1>6

LEMMA GateInit == Init => GateInv
BY DEF Init, GateInv

LEMMA KernelKeepsGateInv ==
  ASSUME GateInv, Kernel
  PROVE  GateInv'
<1> USE DEF GateInv
<1>1. CASE InitializeInterrupts
  BY <1>1 DEF InitializeInterrupts, INT_PIC_Remap
<1>2. CASE InitWrite
  BY <1>2 DEF InitWrite, NextStep, interruptVars
<1>3. CASE InitRead
  <2>1. irr' \subseteq Raised /\ UNCHANGED <<imr, isr, vectors>>
    BY <1>3, RequestsAreRaised DEF InitRead, InData
  <2> QED BY <1>3, <2>1 DEF InitRead, NextStep
<1>4. CASE EnableInterrupts
  BY <1>4 DEF EnableInterrupts
<1>5. CASE Enter
  <2>1. Delivered \in Served
    BY <1>5, DeliveredIsServed DEF Enter
  <2>2. irr' \subseteq irr /\ UNCHANGED <<imr, vectors, pc>>
    BY <1>5 DEF Enter, Acknowledge
  <2> QED BY <1>5, <2>1, <2>2 DEF Enter
<1>6. CASE KeyboardWork
  <2>1. irr' \subseteq Raised /\ UNCHANGED <<imr, isr, vectors>>
    BY <1>6, RequestsAreRaised DEF KeyboardWork, InData
  <2> QED BY <1>6, <2>1 DEF KeyboardWork
<1>7. CASE MouseWork
  <2>1. irr' \subseteq Raised /\ UNCHANGED <<imr, isr, vectors>>
    BY <1>7, RequestsAreRaised DEF MouseWork, InData
  <2> QED BY <1>7, <2>1 DEF MouseWork
<1>8. CASE INT_PIT_Handler
  BY <1>8 DEF INT_PIT_Handler
<1>9. CASE EndWork
  BY <1>9 DEF EndWork
<1> QED BY <1>1, <1>2, <1>3, <1>4, <1>5, <1>6, <1>7, <1>8, <1>9 DEF Kernel

LEMMA GateNext == GateInv /\ [Next]_vars => GateInv'
<1> SUFFICES ASSUME GateInv, [Next]_vars PROVE GateInv'
  OBVIOUS
<1>1. ASSUME irr' \subseteq Raised, UNCHANGED <<imr, vectors, kernelVars>> PROVE GateInv'
  BY <1>1 DEF GateInv, kernelVars
<1>2. irr \subseteq Raised
  BY DEF GateInv
<1>3. ASSUME Signal, UNCHANGED kernelVars PROVE GateInv'
  BY <1>1, <1>2, <1>3, RequestsAreRaised
<1>4. CASE Kernel
  BY <1>4, KernelKeepsGateInv
<1>5. CASE Arrival
  BY <1>3, <1>5 DEF Arrival, PutKey, PutMouse, Put
<1>6. CASE Controller
  <2>1. CASE TakeMouseCommand \/ TakeKeyboardCommand
    BY <1>1, <1>2, <1>6, <2>1
       DEF Controller, TakeMouseCommand, TakeKeyboardCommand, interruptVars
  <2>2. CASE TakeCommand \/ TakeConfig \/ PutReply
    BY <1>3, <1>6, <2>2 DEF Controller, TakeCommand, TakeConfig, PutReply, Put
  <2> QED BY <1>6, <2>1, <2>2 DEF Controller, Take
<1>7. ASSUME NEW c \in Codes, PressKey(c) PROVE GateInv'
  BY <1>1, <1>2, <1>7 DEF PressKey, interruptVars
<1>8. ASSUME NEW m \in Movements, Report(m) PROVE GateInv'
  BY <1>1, <1>2, <1>8 DEF Report, interruptVars
<1>9. CASE RaiseTimer \/ RaiseOther
  BY <1>1, <1>2, <1>9 DEF RaiseTimer, RaiseOther, Raised, Served
<1>10. CASE UNCHANGED vars
  BY <1>1, <1>2, <1>10 DEF vars, interruptVars
<1> QED BY <1>4, <1>5, <1>6, <1>7, <1>8, <1>9, <1>10 DEF Next

\* Whatever masks the firmware and INT_PIC_Remap left, whatever is pending when
\* _start enables interrupts and whichever lines rise later, even one that nobody
\* handles: the interrupt the processor takes has a gate.
THEOREM GatesAreSet == Spec => []OnlyGatesEntered
<1>1. GateInv => OnlyGatesEntered
  BY DEF GateInv, OnlyGatesEntered, Handler, Gate, KeyboardAndMouse, Vector, Served, Master,
         NoLine, TIMER, KEYBOARD, MOUSE
<1> QED BY <1>1, GateInit, GateNext, PTL DEF Spec

-------------------------------------------------------------------------------
(***************************************************************************)
(* Types                                                                   *)
(***************************************************************************)

LEMMA StepsTable ==
  /\ Len(Steps) = 11
  /\ Steps[1] = Write(STATUS_COMMAND, ENABLE_AUX)
  /\ Steps[2] = Write(STATUS_COMMAND, READ_CONFIG) /\ Steps[3] = Read
  /\ Steps[4] = Write(STATUS_COMMAND, WRITE_CONFIG) /\ Steps[5] = Write(DATA, 0)
  /\ Steps[6] = Write(STATUS_COMMAND, WRITE_AUX)
  /\ Steps[7] = Write(DATA, SET_DEFAULTS) /\ Steps[8] = Read
  /\ Steps[9] = Write(STATUS_COMMAND, WRITE_AUX)
  /\ Steps[10] = Write(DATA, ENABLE_REPORTS) /\ Steps[11] = Read
BY DEF Steps

\* What is written is a byte for one of two ports.
LEMMA StepsType ==
  ASSUME NEW k \in 1 .. 11
  PROVE  /\ Steps[k].write \in BOOLEAN
         /\ Steps[k].port \in {DATA, STATUS_COMMAND}
         /\ Steps[k].value \in Byte
<1> DEFINE values == {ENABLE_AUX, READ_CONFIG, WRITE_CONFIG, WRITE_AUX, SET_DEFAULTS, ENABLE_REPORTS, 0}
<1>1. values \subseteq Byte
  BY DEF ENABLE_AUX, READ_CONFIG, WRITE_CONFIG, WRITE_AUX, SET_DEFAULTS, ENABLE_REPORTS, Byte
<1>2. Steps[k] = Read \/ \E port \in {DATA, STATUS_COMMAND}, value \in values : Steps[k] = Write(port, value)
  <2>1. k \in {1, 2, 3, 4, 5, 6, 7, 8, 9, 10, 11}
    OBVIOUS
  <2> QED BY <2>1, StepsTable
<1>3. CASE Steps[k] = Read
  BY <1>3 DEF Read, Byte
<1>4. ASSUME NEW port \in {DATA, STATUS_COMMAND}, NEW value \in values, Steps[k] = Write(port, value)
      PROVE  /\ Steps[k].write \in BOOLEAN
             /\ Steps[k].port \in {DATA, STATUS_COMMAND}
             /\ Steps[k].value \in Byte
  <2> HIDE DEF values
  <2> QED BY <1>1, <1>4 DEF Write
<1> HIDE DEF values
<1> QED BY <1>2, <1>3, <1>4

LEMMA HandlerOfLine ==
  ASSUME GateInv
  PROVE  /\ Handler = "timer" <=> serving = TIMER
         /\ Handler = "keyboard" <=> serving = KEYBOARD
         /\ Handler = "mouse" <=> serving = MOUSE
BY DEF GateInv, Handler, Gate, KeyboardAndMouse, Vector, Served, Master, NoLine, TIMER, KEYBOARD,
       MOUSE, Work

LEMMA BytesOfConfig ==
  ASSUME NEW b \in Byte
  PROVE  WithMouseInterrupt(b) \in Byte /\ WithoutBit5(b) \in Byte
<1>1. ~MouseInterrupt(b) => b + 2 \in Byte
  BY DEF MouseInterrupt, Bit, Byte
<1>2. Bit(b, 32) => b - 32 \in Byte
  BY DEF Bit, Byte
<1> QED BY <1>1, <1>2 DEF WithMouseInterrupt, WithoutBit5

LEMMA BytesOfReport ==
  ASSUME NEW m \in Movements
  PROVE  Encode(m) \in Byte \X Byte \X Byte /\ Encode(m) \in Seq(Byte) /\ Len(Encode(m)) = 3
<1>1. m \in (-256 .. 255) \X (-256 .. 255)
  BY MouseAssumption
<1>2. m[1] % 256 \in Byte /\ m[2] % 256 \in Byte
  BY <1>1 DEF Byte
<1>3. 8 + Flag(m[1] < 0, 16) + Flag(m[2] < 0, 32) \in Byte
  BY DEF Flag, Byte
<1> QED BY <1>2, <1>3 DEF Encode

\* The variables of the interrupt controllers hold lines.
PicTypeOK == {imr, irr, isr} \subseteq SUBSET (Master \cup Slave)

LEMMA SignalPicType ==
  ASSUME PicTypeOK, Signal
  PROVE  PicTypeOK'
<1>1. \A o, c : Lines(o, c) \subseteq Master \cup Slave
  BY LinesAreServed DEF KEYBOARD, MOUSE, Master, Slave
<1> QED BY <1>1 DEF PicTypeOK, Signal, Requests

LEMMA PicTypeNext ==
  ASSUME GateInv, PicTypeOK, [Next]_vars
  PROVE  PicTypeOK'
<1>1. CASE UNCHANGED interruptVars
  BY <1>1 DEF interruptVars, PicTypeOK
<1>2. CASE Signal
  BY <1>2, SignalPicType
<1>3. CASE InitializeInterrupts
  <2>1. PICK a2 \in Leftovers : imr' = MaskAfterRemap(a2)
    BY <1>3 DEF InitializeInterrupts, INT_PIC_Remap
  <2>2. imr' \subseteq Master \cup Slave
    <3>1. \A l \in imr \cap Slave : l - 8 \in Master
      BY DEF Master, Slave
    <3>2. a2 \subseteq Slave
      BY InterruptsAssumption
    <3> QED BY <2>1, <3>1, <3>2 DEF MaskAfterRemap
  <2> QED BY <1>3, <2>2 DEF InitializeInterrupts, INT_PIC_Remap, PicTypeOK
<1>4. CASE EnableInterrupts
  BY <1>4 DEF EnableInterrupts, Masks, PicTypeOK
<1>5. CASE Enter
  <2>1. Delivered \in Master \cup Slave
    BY <1>5, DeliveredIsServed
       DEF Enter, GateInv, Served, TIMER, KEYBOARD, MOUSE, Master, Slave
  <2> QED BY <1>5, <2>1 DEF Enter, Acknowledge, PicTypeOK, CASCADE, Master
<1>6. CASE INT_PIT_Handler
  BY <1>6 DEF INT_PIT_Handler, INT_PIC_EndMaster, EndOf, PicTypeOK
<1>7. CASE EndWork
  BY <1>7 DEF EndWork, INT_PIC_EndMaster, INT_PIC_EndSlave, EndOf, PicTypeOK
<1>8. CASE RaiseTimer \/ RaiseOther
  BY <1>8 DEF RaiseTimer, RaiseOther, TIMER, DISK, PicTypeOK, Master, Slave
<1>9. CASE InitWrite \/ InitRead \/ KeyboardWork \/ MouseWork
  BY <1>1, <1>2, <1>9 DEF InitWrite, InitRead, KeyboardWork, MouseWork, InData
<1>10. CASE Arrival \/ Controller
  BY <1>1, <1>2, <1>10 DEF Arrival, PutKey, PutMouse, Put, Controller, PutReply, Take, TakeCommand,
     TakeConfig, TakeMouseCommand, TakeKeyboardCommand, interruptVars
<1>11. CASE (\E c \in Codes : PressKey(c)) \/ (\E m \in Movements : Report(m))
  BY <1>1, <1>11 DEF PressKey, Report
<1>12. CASE UNCHANGED vars
  BY <1>1, <1>12 DEF vars
<1> QED BY <1>3, <1>4, <1>5, <1>6, <1>7, <1>8, <1>9, <1>10, <1>11, <1>12 DEF Next, Kernel

\* Where _start is, and its local variable.
StartTypeOK ==
  /\ step \in 1 .. 12 /\ (pc \in {"interrupts", "mouse"} => step \in 1 .. 11)
  /\ status \in Byte

LEMMA StartTypeNext ==
  ASSUME GateInv, StartTypeOK, PS2TypeOK, [Next]_vars
  PROVE  StartTypeOK'
<1> USE DEF StartTypeOK
<1>1. CASE UNCHANGED <<pc, step, status>>
  BY <1>1
<1>2. CASE InitializeInterrupts
  BY <1>2 DEF InitializeInterrupts
<1>3. CASE InitWrite
  BY <1>3, StepsTable DEF InitWrite, NextStep
<1>4. CASE InitRead
  <2>1. out.byte \in Byte
    BY DEF PS2TypeOK
  <2>2. status' \in Byte
    BY <1>4, <2>1, BytesOfConfig DEF InitRead
  <2> QED BY <1>4, <2>2, StepsTable DEF InitRead, NextStep
<1>5. CASE EnableInterrupts
  BY <1>5 DEF EnableInterrupts
<1>6. CASE Enter \/ KeyboardWork \/ MouseWork \/ INT_PIT_Handler \/ EndWork
  BY <1>1, <1>6 DEF Enter, KeyboardWork, MouseWork, INT_PIT_Handler, EndWork
<1>7. CASE UNCHANGED kernelVars
  BY <1>1, <1>7 DEF kernelVars
<1>8. CASE Arrival \/ Controller \/ RaiseTimer \/ RaiseOther
  BY <1>7, <1>8 DEF Arrival, Controller, RaiseTimer, RaiseOther
<1>9. CASE (\E c \in Codes : PressKey(c)) \/ (\E m \in Movements : Report(m)) \/ UNCHANGED vars
  BY <1>7, <1>9 DEF PressKey, Report, vars
<1> QED BY <1>2, <1>3, <1>4, <1>5, <1>6, <1>8, <1>9 DEF Next, Kernel

LEMMA InDataType ==
  ASSUME PS2TypeOK, InData,
         UNCHANGED <<ibuf, expects, reply, keys, line, reporting>>
  PROVE  PS2TypeOK'
BY DEF PS2TypeOK, InData

LEMMA PutType ==
  ASSUME PS2TypeOK, NEW aux \in BOOLEAN, NEW byte \in Byte, Put(aux, byte),
         reply' \in Seq(Byte), keys' \in Seq(Byte), line' \in Seq(Byte)
  PROVE  PS2TypeOK'
BY DEF PS2TypeOK, Put

LEMMA TakeType ==
  ASSUME PS2TypeOK, Take
  PROVE  PS2TypeOK'
<1> USE DEF PS2TypeOK, None
<1>0. 0 \in Byte /\ PS2_ACK \in Byte
  BY DEF Byte, PS2_ACK
<1>1. CASE TakeCommand
  <2>1. config' \in Byte
    BY <1>1, BytesOfConfig DEF TakeCommand
  <2> QED BY <1>0, <1>1, <2>1 DEF TakeCommand
<1>2. CASE TakeConfig
  BY <1>0, <1>2 DEF TakeConfig
<1>3. CASE TakeMouseCommand
  <2>1. reporting' \in BOOLEAN
    BY <1>3 DEF TakeMouseCommand
  <2>2. line' \in Seq(Byte)
    BY <1>0, <1>3 DEF TakeMouseCommand
  <2> QED BY <1>0, <1>3, <2>1, <2>2 DEF TakeMouseCommand
<1>4. CASE TakeKeyboardCommand
  BY <1>0, <1>4 DEF TakeKeyboardCommand
<1> QED BY <1>1, <1>2, <1>3, <1>4 DEF Take

LEMMA PS2TypeNext ==
  ASSUME StartTypeOK, PS2TypeOK, [Next]_vars
  PROVE  PS2TypeOK'
<1>1. CASE UNCHANGED ps2Vars
  BY <1>1 DEF ps2Vars, PS2TypeOK
<1>2. CASE InitWrite
  <2>1. /\ Steps[step].port \in {DATA, STATUS_COMMAND}
        /\ (IF step = 5 THEN status ELSE Steps[step].value) \in Byte
    BY <1>2, StepsType DEF InitWrite, StartTypeOK
  <2> QED BY <1>2, <2>1 DEF InitWrite, OutByte, PS2TypeOK
<1>3. CASE InitRead \/ KeyboardWork \/ MouseWork
  BY <1>3, InDataType DEF InitRead, KeyboardWork, MouseWork
<1>4. CASE Arrival
  <2>1. CASE PutKey
    <3>1. Head(keys) \in Byte /\ Tail(keys) \in Seq(Byte)
      BY <2>1 DEF PutKey, PS2TypeOK
    <3> QED BY <2>1, <3>1, PutType DEF PutKey, PS2TypeOK
  <2>2. CASE PutMouse
    <3>1. Head(line) \in Byte /\ Tail(line) \in Seq(Byte)
      BY <2>2 DEF PutMouse, PS2TypeOK
    <3> QED BY <2>2, <3>1, PutType DEF PutMouse, PS2TypeOK
  <2> QED BY <1>4, <2>1, <2>2 DEF Arrival
<1>5. CASE Controller
  <2>1. CASE PutReply
    <3>1. Head(reply) \in Byte /\ Tail(reply) \in Seq(Byte)
      BY <2>1 DEF PutReply, PS2TypeOK
    <3> QED BY <2>1, <3>1, PutType DEF PutReply, PS2TypeOK
  <2> QED BY <1>5, <2>1, TakeType DEF Controller
<1>6. ASSUME NEW c \in Codes, PressKey(c) PROVE PS2TypeOK'
  BY <1>6, InputAssumption DEF PressKey, PS2TypeOK
<1>7. ASSUME NEW m \in Movements, Report(m) PROVE PS2TypeOK'
  BY <1>7, BytesOfReport DEF Report, PS2TypeOK
<1>8. CASE InitializeInterrupts \/ EnableInterrupts \/ Enter \/ INT_PIT_Handler \/ EndWork
  BY <1>1, <1>8 DEF InitializeInterrupts, EnableInterrupts, Enter, INT_PIT_Handler, EndWork
<1>9. CASE RaiseTimer \/ RaiseOther \/ UNCHANGED vars
  BY <1>1, <1>9 DEF RaiseTimer, RaiseOther, vars
<1> QED BY <1>2, <1>3, <1>4, <1>5, <1>6, <1>7, <1>8, <1>9 DEF Next, Kernel

LEMMA BetweenType ==
  ASSUME NEW n \in Int, NEW high \in Nat
  PROVE  Between(n, 0, high) \in 0 .. high
BY DEF Between

LEMMA DistanceType ==
  ASSUME NEW neg \in BOOLEAN, NEW ovf \in BOOLEAN, NEW b \in Byte, NEW extra \in Nat
  PROVE  Distance(neg, ovf, b, extra) \in Int /\ Negated(b) \in Byte
BY DEF Distance, Negated, Flag, Byte

\* Whatever the packet holds, the pointer stays on the screen.
LEMMA PlaceType ==
  ASSUME NEW pos \in [x : 0 .. (Width - 8), y : 0 .. (Height - 16)],
         NEW p \in Byte \X Byte \X Byte
  PROVE  Place(pos, p) \in [x : 0 .. (Width - 8), y : 0 .. (Height - 16)]
<1>1. Width - 8 \in Nat /\ Height - 16 \in Nat
  BY MouseAssumption
<1>2. p[2] \in Byte /\ p[3] \in Byte
  OBVIOUS
<1>3. \A mask : Bit(p[1], mask) \in BOOLEAN
  BY DEF Bit
<1> DEFINE right == Distance(Bit(p[1], 16), Bit(p[1], 64), p[2], 255 * 2)
           up == Distance(Bit(p[1], 32), Bit(p[1], 128), p[3], 255)
<1>4. right \in Int /\ up \in Int
  BY <1>2, <1>3, DistanceType
<1>5. Place(pos, p) = [x |-> Between(pos.x + right, 0, Width - 8), y |-> Between(pos.y - up, 0, Height - 16)]
  BY DEF Place
<1> HIDE DEF right, up
<1>6. pos.x + right \in Int /\ pos.y - up \in Int
  BY <1>1, <1>4
<1> QED BY <1>1, <1>5, <1>6, BetweenType

LEMMA HandleType ==
  ASSUME MouseTypeOK, NEW data \in Byte, UI_PS2Mouse_Handle(data)
  PROVE  MouseTypeOK'
<1> USE DEF MouseTypeOK
<1>1. MousePosition' \in [x : 0 .. (Width - 8), y : 0 .. (Height - 16)]
  BY PlaceType DEF UI_PS2Mouse_Handle, UI_PS2Mouse_ProcessPacket
<1>2. reports' \in Seq(Movements)
  <2>1. reports # <<>> => Tail(reports) \in Seq(Movements)
    OBVIOUS
  <2> QED BY <2>1 DEF UI_PS2Mouse_Handle, UI_PS2Mouse_ProcessPacket
<1>3. Packet \in Byte \X Byte \X Byte
  <2>0. g_MousePacket[2] \in Byte /\ g_MousePacket[3] \in Byte
    OBVIOUS
  <2>1. Negated(g_MousePacket[2]) \in Byte /\ Negated(g_MousePacket[3]) \in Byte
    BY <2>0, DistanceType
  <2> QED BY <2>1 DEF Packet, Normalised
<1>4. /\ skip' \in BOOLEAN /\ g_MouseCycle' \in 0 .. 2
      /\ g_MousePacket' \in Byte \X Byte \X Byte /\ g_IsMousePacketReady' \in BOOLEAN
  <2>1. CASE skip
    BY <1>3, <2>1 DEF UI_PS2Mouse_Handle
  <2>2. CASE ~skip
    <3>1. [Packet EXCEPT ![g_MouseCycle + 1] = data] \in Byte \X Byte \X Byte
      BY <1>3
    <3>2. Collect(data) /\ UNCHANGED skip
      BY <2>2 DEF UI_PS2Mouse_Handle
    <3>3. CASE Dropped(data)
      BY <1>3, <3>2, <3>3 DEF Collect
    <3>4. CASE ~Dropped(data)
      <4>1. Complete \in BOOLEAN /\ (g_MouseCycle + 1) % 3 \in 0 .. 2
        BY DEF Complete
      <4> QED BY <3>1, <3>2, <3>4, <4>1 DEF Collect
    <3> QED BY <3>3, <3>4
  <2> QED BY <2>1, <2>2
<1> QED BY <1>1, <1>2, <1>4

LEMMA MouseTypeNext ==
  ASSUME PS2TypeOK, MouseTypeOK, [Next]_vars
  PROVE  MouseTypeOK'
<1>1. CASE UNCHANGED mouseVars
  BY <1>1 DEF mouseVars, packetVars, MouseTypeOK
<1>2. CASE MouseWork
  BY <1>2, HandleType DEF MouseWork, PS2TypeOK
<1>3. ASSUME NEW m \in Movements, Report(m) PROVE MouseTypeOK'
  BY <1>3 DEF Report, packetVars, MouseTypeOK
<1>4. CASE InitializeInterrupts \/ InitWrite \/ InitRead \/ EnableInterrupts \/ Enter \/ KeyboardWork
             \/ INT_PIT_Handler \/ EndWork
  BY <1>1, <1>4 DEF InitializeInterrupts, InitWrite, InitRead, EnableInterrupts, Enter, KeyboardWork,
                    INT_PIT_Handler, EndWork
<1>5. CASE Arrival \/ Controller \/ RaiseTimer \/ RaiseOther
  BY <1>1, <1>5 DEF Arrival, Controller, RaiseTimer, RaiseOther
<1>6. CASE (\E c \in Codes : PressKey(c)) \/ UNCHANGED vars
  BY <1>1, <1>6 DEF PressKey, vars
<1> QED BY <1>2, <1>3, <1>4, <1>5, <1>6 DEF Next, Kernel

\* The histories, and what a handler is at.
HistoryTypeOK ==
  /\ stage \in {"work", "end"}
  /\ typed \in Seq(Codes) /\ handled \in Seq(Codes)
  /\ disturbed \in BOOLEAN

LEMMA HistoryTypeNext ==
  ASSUME PS2TypeOK, HistoryTypeOK, [Next]_vars
  PROVE  HistoryTypeOK'
<1> USE DEF HistoryTypeOK
<1>1. CASE InitializeInterrupts \/ EnableInterrupts \/ Enter \/ INT_PIT_Handler \/ EndWork
  BY <1>1 DEF InitializeInterrupts, EnableInterrupts, Enter, INT_PIT_Handler, EndWork, historyVars
<1>2. CASE InitWrite \/ InitRead
  BY <1>2 DEF InitWrite, InitRead, PS2TypeOK
<1>3. CASE KeyboardWork \/ MouseWork
  BY <1>3 DEF KeyboardWork, MouseWork, Work, historyVars
<1>4. CASE Arrival
  BY <1>4 DEF Arrival, kernelVars
<1>5. CASE Controller \/ RaiseTimer \/ RaiseOther \/ UNCHANGED vars
  BY <1>5 DEF Controller, RaiseTimer, RaiseOther, vars, kernelVars, historyVars
<1>6. ASSUME NEW c \in Codes, PressKey(c) PROVE HistoryTypeOK'
  BY <1>6 DEF PressKey, kernelVars
<1>7. ASSUME NEW m \in Movements, Report(m) PROVE HistoryTypeOK'
  BY <1>7 DEF Report, kernelVars
<1> QED BY <1>1, <1>2, <1>3, <1>4, <1>5, <1>6, <1>7 DEF Next, Kernel

\* A tick that was raised is counted, waits for its interrupt, or is being handled.
ClockTypeOK ==
  /\ ticks \in Nat /\ TimeSinceBoot \in Nat
  /\ TimeSinceBoot + (IF TIMER \in irr THEN 1 ELSE 0) + (IF serving = TIMER THEN 1 ELSE 0) <= ticks

LEMMA SignalKeepsTimer ==
  ASSUME Signal
  PROVE  TIMER \in irr' <=> TIMER \in irr
<1>1. \A o, c : TIMER \notin Lines(o, c)
  BY LinesAreServed DEF KEYBOARD, MOUSE, TIMER
<1> QED BY <1>1 DEF Signal, Requests

LEMMA ClockTypeNext ==
  ASSUME GateInv, ClockTypeOK, [Next]_vars
  PROVE  ClockTypeOK'
<1>1. ASSUME TIMER \in irr' <=> TIMER \in irr, UNCHANGED <<TimeSinceBoot, serving, ticks>>
      PROVE  ClockTypeOK'
  BY <1>1 DEF ClockTypeOK
<1>2. CASE InitializeInterrupts
  BY <1>2 DEF InitializeInterrupts, INT_PIC_Remap, historyVars, ClockTypeOK
<1>3. CASE InitWrite \/ EnableInterrupts
  BY <1>1, <1>3 DEF InitWrite, EnableInterrupts, interruptVars, timerVars, historyVars
<1>4. CASE InitRead \/ KeyboardWork \/ MouseWork
  BY <1>1, <1>4, SignalKeepsTimer
     DEF InitRead, KeyboardWork, MouseWork, InData, timerVars, historyVars
<1>5. CASE Enter
  <2>1. irr' = irr \ {Delivered} /\ serving' = Delivered /\ UNCHANGED <<TimeSinceBoot, ticks>> /\ serving = NoLine
    BY <1>5 DEF Enter, Acknowledge, timerVars, historyVars
  <2>2. CASE Delivered = TIMER
    <3>1. TIMER \in irr
      BY <1>5, <2>2, DeliveredIsServed DEF Enter, GateInv
    <3> QED BY <2>1, <2>2, <3>1 DEF ClockTypeOK, NoLine, TIMER
  <2>3. CASE Delivered # TIMER
    BY <2>1, <2>3 DEF ClockTypeOK, NoLine, TIMER
  <2> QED BY <2>2, <2>3
<1>6. CASE INT_PIT_Handler
  <2>1. serving = TIMER
    BY <1>6, HandlerOfLine DEF INT_PIT_Handler
  <2> QED BY <1>6, <2>1 DEF INT_PIT_Handler, PIT_Tick, historyVars, ClockTypeOK, NoLine, TIMER
<1>7. CASE EndWork
  <2>1. serving # TIMER
    BY <1>7, HandlerOfLine DEF EndWork
  <2> QED BY <1>7, <2>1 DEF EndWork, timerVars, historyVars, ClockTypeOK, NoLine, TIMER
<1>8. CASE Arrival
  BY <1>1, <1>8, SignalKeepsTimer DEF Arrival, PutKey, PutMouse, Put, timerVars, kernelVars
<1>9. CASE Controller
  BY <1>1, <1>9, SignalKeepsTimer
     DEF Controller, PutReply, Put, Take, TakeCommand, TakeConfig, TakeMouseCommand,
         TakeKeyboardCommand, timerVars, kernelVars, historyVars, interruptVars
<1>10. CASE RaiseTimer
  BY <1>10 DEF RaiseTimer, timerVars, kernelVars, ClockTypeOK
<1>11. CASE RaiseOther
  BY <1>1, <1>11 DEF RaiseOther, DISK, TIMER, timerVars, kernelVars, historyVars
<1>12. CASE (\E c \in Codes : PressKey(c)) \/ (\E m \in Movements : Report(m)) \/ UNCHANGED vars
  BY <1>1, <1>12 DEF PressKey, Report, vars, interruptVars, timerVars, kernelVars, historyVars
<1> QED BY <1>2, <1>3, <1>4, <1>5, <1>6, <1>7, <1>8, <1>9, <1>10, <1>11, <1>12 DEF Next, Kernel

TypeInv ==
  /\ GateInv
  /\ PicTypeOK /\ StartTypeOK /\ PS2TypeOK /\ MouseTypeOK /\ HistoryTypeOK /\ ClockTypeOK

LEMMA TypeInit == Init => TypeInv
<1> SUFFICES ASSUME Init PROVE TypeInv
  OBVIOUS
<1>1. GateInv
  BY GateInit
<1>2. PicTypeOK
  BY InterruptsAssumption DEF Init, PicTypeOK
<1>3. StartTypeOK
  BY DEF Init, StartTypeOK, Byte
<1>4. PS2TypeOK
  BY PS2Assumption DEF Init, InitPS2, PS2TypeOK, None, Byte
<1>5. MouseTypeOK
  <2>1. Start \in 0 .. (Width - 8) /\ Start \in 0 .. (Height - 16)
    BY MouseAssumption
  <2>2. 0 \in Byte
    BY DEF Byte
  <2>3. InitMouse /\ skip \in BOOLEAN
    BY DEF Init, InitMouse, SkipFirst
  <2>4. g_IsMousePacketReady \in BOOLEAN
    BY <2>3 DEF InitMouse
  <2>5. reports \in Seq(Movements) /\ g_MousePacket \in Byte \X Byte \X Byte
    BY <2>2, <2>3 DEF InitMouse
  <2> QED BY <2>1, <2>3, <2>4, <2>5 DEF InitMouse, MouseTypeOK
<1>6. HistoryTypeOK
  <2>1. disturbed \in BOOLEAN /\ stage \in {"work", "end"}
    BY DEF Init
  <2>2. typed \in Seq(Codes) /\ handled \in Seq(Codes)
    BY DEF Init
  <2> QED BY <2>1, <2>2 DEF HistoryTypeOK
<1>7. ClockTypeOK
  BY DEF Init, InitTimer, ClockTypeOK, NoLine, TIMER
<1> QED BY <1>1, <1>2, <1>3, <1>4, <1>5, <1>6, <1>7 DEF TypeInv

LEMMA TypeNext == TypeInv /\ [Next]_vars => TypeInv'
BY GateNext, PicTypeNext, StartTypeNext, PS2TypeNext, MouseTypeNext, HistoryTypeNext, ClockTypeNext
   DEF TypeInv

\* Whatever the devices send and when: what the code computes with bytes stays
\* within a byte, the pointer stays on the screen, and no tick is counted that was
\* not raised.
THEOREM TypeCorrect == Spec => []TypeOK
<1>1. TypeInv => TypeOK
  <2> SUFFICES ASSUME TypeInv PROVE TypeOK
    OBVIOUS
  <2>1. TimeSinceBoot \in 0 .. ticks
    BY DEF TypeInv, ClockTypeOK
  <2>2. step \in 1 .. Len(Steps) + 1
    BY StepsTable DEF TypeInv, StartTypeOK
  <2>3. serving \in {NoLine} \cup Master \cup Slave
    BY DEF TypeInv, GateInv, Served, TIMER, KEYBOARD, MOUSE, Master, Slave
  <2> QED BY <2>1, <2>2, <2>3 DEF TypeInv, GateInv, PicTypeOK, StartTypeOK, HistoryTypeOK, TypeOK
<1> QED BY <1>1, TypeInit, TypeNext, PTL DEF Spec

-------------------------------------------------------------------------------
(***************************************************************************)
(* The bytes.  The argument is a table of what the controller can be at    *)
(* when UI_PS2Mouse_Init reaches each of its eleven steps (At), and, once  *)
(* interrupts are enabled, whose byte a handler finds that is due (Idle).  *)
(***************************************************************************)

(***************************************************************************)
(* The set-up of the mouse                                                 *)
(***************************************************************************)

On == {WithoutBit5(c) : c \in FirmwareConfigs}
WithMouse == {Enabled(c) : c \in On}

Sent(port, value) == ibuf = [port |-> port, value |-> value]
Taken == ibuf = None

\* Nothing is on its way to the kernel.
Silent == reply = <<>> /\ line = <<>> /\ ~out.full
Quiet == Taken /\ expects = 0 /\ Silent

\* A command was written that waits for its data.
Announced(command) ==
  \/ Sent(STATUS_COMMAND, command) /\ expects = 0
  \/ Taken /\ expects = command

\* The configuration was asked for.
Asked ==
  /\ expects = 0 /\ line = <<>>
  /\ \/ Sent(STATUS_COMMAND, READ_CONFIG) /\ reply = <<>> /\ ~out.full
     \/ Taken /\ reply = <<config>> /\ ~out.full
     \/ Taken /\ reply = <<>> /\ out.full /\ ~out.aux /\ out.byte = config

\* A command was passed on to the mouse, which acknowledges.
Passed(command) ==
  /\ reply = <<>>
  /\ \/ Sent(DATA, command) /\ expects = WRITE_AUX /\ line = <<>> /\ ~out.full
     \/ /\ Taken /\ expects = 0
        /\ command = ENABLE_REPORTS => reporting
        /\ \/ line = <<PS2_ACK>> /\ ~out.full
           \/ line = <<>> /\ out.full /\ out.aux /\ out.byte = PS2_ACK

\* The controller, and the local variable, when step n of the set-up is next.
At(n) ==
  /\ n = 1 => Quiet /\ config \in FirmwareConfigs
  /\ n = 2 => /\ expects = 0 /\ Silent
              /\ \/ Sent(STATUS_COMMAND, ENABLE_AUX) /\ config \in FirmwareConfigs
                 \/ Taken /\ config \in On
  /\ n = 3 => Asked /\ config \in On
  /\ n = 4 => Quiet /\ config \in On /\ status = Enabled(config)
  /\ n = 5 => Announced(WRITE_CONFIG) /\ Silent /\ config \in On /\ status = Enabled(config)
  /\ n = 6 => /\ Silent
              /\ \/ Sent(DATA, status) /\ expects = WRITE_CONFIG /\ status \in WithMouse
                 \/ Taken /\ expects = 0 /\ config \in WithMouse
  /\ n \in {7, 10} => Announced(WRITE_AUX) /\ Silent /\ config \in WithMouse
  /\ n = 8 => Passed(SET_DEFAULTS) /\ config \in WithMouse
  /\ n = 9 => Quiet /\ config \in WithMouse
  /\ n = 11 => Passed(ENABLE_REPORTS) /\ config \in WithMouse
  /\ n = 12 => Quiet /\ config \in WithMouse /\ reporting /\ out.byte = PS2_ACK

SetUp ==
  pc # "idle" /\ ~disturbed =>
    /\ At(step)
    /\ pc = "interrupts" => step = 1
    /\ pc = "masks" => step = 12
    /\ handled = <<>> /\ keys \in Seq(Codes) /\ typed = keys

LEMMA SetUpInit == Init => SetUp
<1> SUFFICES ASSUME Init PROVE SetUp
  OBVIOUS
<1>1. Quiet /\ config \in FirmwareConfigs /\ step = 1 /\ pc = "interrupts"
  BY DEF Init, InitPS2, Quiet, Silent, Taken
<1>2. At(step)
  BY <1>1 DEF At
<1>3. handled = <<>> /\ keys = <<>> /\ typed = <<>>
  BY DEF Init, InitPS2
<1> QED BY <1>1, <1>2, <1>3 DEF SetUp

LEMMA Commands ==
  /\ ENABLE_AUX = 168 /\ READ_CONFIG = 32 /\ WRITE_CONFIG = 96 /\ WRITE_AUX = 212
  /\ SET_DEFAULTS = 246 /\ ENABLE_REPORTS = 244 /\ PS2_ACK = 250
  /\ STATUS_COMMAND = 100 /\ DATA = 96
BY DEF ENABLE_AUX, READ_CONFIG, WRITE_CONFIG, WRITE_AUX, SET_DEFAULTS, ENABLE_REPORTS, PS2_ACK,
       STATUS_COMMAND, DATA

\* A write that is not given up finds the last one taken.
LEMMA WriteSetUp ==
  ASSUME TypeInv, SetUp, InitWrite, ~disturbed'
  PROVE  At(step)'
<1>1. step \in 1 .. 11 /\ Taken /\ At(step) /\ step' = step + 1
  BY DEF TypeInv, StartTypeOK, SetUp, InitWrite, NextStep, Taken
<1>2. UNCHANGED <<out, config, expects, reply, line, reporting, status>>
  BY DEF InitWrite
<1>3. ibuf' = [port |-> Steps[step].port, value |-> IF step = 5 THEN status ELSE Steps[step].value]
  BY DEF InitWrite, OutByte
<1>4. step \notin {3, 8, 11}
  BY StepsTable DEF InitWrite, Read
<1>5. \A port, value : Sent(port, value) /\ port \in {DATA, STATUS_COMMAND} => ~Taken
  BY DEF Sent, Taken, None, DATA, STATUS_COMMAND
<1> USE StepsTable DEF At, Quiet, Silent, Write
<1>6. CASE step = 1
  BY <1>1, <1>2, <1>3, <1>6 DEF Sent
<1>7. CASE step = 2
  BY <1>1, <1>2, <1>3, <1>5, <1>7 DEF Sent, Asked
<1>8. CASE step = 4
  BY <1>1, <1>2, <1>3, <1>8 DEF Sent, Announced
<1>9. CASE step = 5
  <2>1. status \in WithMouse
    BY <1>1, <1>9 DEF WithMouse
  <2> QED BY <1>1, <1>2, <1>3, <1>5, <1>9, <2>1 DEF Sent, Announced
<1>10. CASE step \in {6, 9}
  BY <1>1, <1>2, <1>3, <1>5, <1>10 DEF Sent, Announced
<1>11. CASE step = 7
  BY <1>1, <1>2, <1>3, <1>5, <1>11 DEF Sent, Announced, Passed
<1>12. CASE step = 10
  BY <1>1, <1>2, <1>3, <1>5, <1>12 DEF Sent, Announced, Passed
<1> QED
  BY <1>1, <1>4, <1>6, <1>7, <1>8, <1>9, <1>10, <1>11, <1>12

\* A read that is not given up finds the byte it is for.
LEMMA ReadSetUp ==
  ASSUME TypeInv, SetUp, InitRead, ~disturbed'
  PROVE  At(step)'
<1>1. step \in 1 .. 11 /\ At(step) /\ step' = step + 1 /\ out.full
  BY DEF TypeInv, StartTypeOK, SetUp, InitRead, NextStep
<1>2. UNCHANGED <<ibuf, config, expects, reply, line, reporting>>
  BY DEF InitRead, InData
<1>3. out'.full = FALSE /\ out'.byte = out.byte
  BY DEF InitRead, InData, TypeInv, PS2TypeOK
<1>4. step \in {3, 8, 11}
  BY <1>1, StepsTable DEF InitRead, Write
<1>5. status' = IF step = 3 THEN WithMouseInterrupt(out.byte) ELSE status
  BY DEF InitRead
<1> USE DEF At, Quiet, Silent, Taken
<1>6. CASE step = 3
  <2>1. status' = Enabled(config)
    BY <1>1, <1>5, <1>6 DEF Asked, WithMouseInterrupt, Enabled
  <2> QED BY <1>1, <1>2, <1>3, <1>6, <2>1 DEF Asked, Enabled
<1>7. CASE step = 8
  BY <1>1, <1>2, <1>3, <1>7 DEF Passed
<1>8. CASE step = 11
  BY <1>1, <1>2, <1>3, <1>8 DEF Passed
<1> QED BY <1>4, <1>6, <1>7, <1>8

LEMMA Ports ==
  /\ \A port, value : Sent(port, value) => ibuf.port = port /\ ibuf.value = value
  /\ Taken => ibuf.port = 0
BY DEF Sent, Taken, None

\* The controller takes what was written, and answers.
LEMMA TakeCommandSetUp ==
  ASSUME NEW n \in 1 .. 12, At(n), TakeCommand, status' = status
  PROVE  At(n)'
<1>1. /\ ibuf.port = STATUS_COMMAND /\ Taken'
      /\ config' = IF ibuf.value = ENABLE_AUX THEN WithoutBit5(config) ELSE config
      /\ reply' = IF ibuf.value = READ_CONFIG THEN Append(reply, config) ELSE reply
      /\ expects' = IF ibuf.value \in {WRITE_CONFIG, WRITE_AUX} THEN ibuf.value ELSE 0
      /\ UNCHANGED <<out, line, reporting, status>>
  BY DEF TakeCommand, Taken
<1>2. ~Taken /\ \A value : ~Sent(DATA, value)
  BY <1>1, Ports, Commands
<1>3. n \in {2, 3, 5, 7, 10}
  BY <1>2 DEF At, Quiet, Passed
<1> USE Commands DEF At, Silent
<1>4. CASE n = 2
  <2>1. config' \in On /\ reply' = reply /\ expects' = 0
    BY <1>1, <1>2, <1>4, Ports DEF On
  <2> QED BY <1>1, <1>4, <2>1
<1>5. CASE n = 3
  <2>1. /\ ibuf.value = READ_CONFIG /\ reply = <<>> /\ ~out.full
        /\ expects = 0 /\ line = <<>> /\ config \in On
    BY <1>2, <1>5, Ports DEF Asked
  <2>2. Append(<<>>, config) = <<config>>
    OBVIOUS
  <2>3. config' = config /\ reply' = <<config>> /\ expects' = 0
    BY <1>1, <2>1, <2>2
  <2>4. Asked'
    BY <1>1, <2>1, <2>3 DEF Asked
  <2> QED BY <1>5, <2>1, <2>3, <2>4
<1>6. CASE n = 5
  <2>1. config' = config /\ reply' = reply /\ expects' = WRITE_CONFIG
    BY <1>1, <1>2, <1>6, Ports DEF Announced
  <2> QED BY <1>1, <1>6, <2>1 DEF Announced
<1>7. CASE n \in {7, 10}
  <2>1. config' = config /\ reply' = reply /\ expects' = WRITE_AUX
    BY <1>1, <1>2, <1>7, Ports DEF Announced
  <2> QED BY <1>1, <1>7, <2>1 DEF Announced
<1> QED BY <1>3, <1>4, <1>5, <1>6, <1>7

LEMMA TakeDataSetUp ==
  ASSUME NEW n \in 1 .. 12, At(n), TakeConfig \/ TakeMouseCommand \/ TakeKeyboardCommand,
         status' = status
  PROVE  At(n)'
<1>1. ibuf.port = DATA /\ Taken' /\ expects' \in {0, expects} /\ UNCHANGED <<out, status>>
  BY DEF TakeConfig, TakeMouseCommand, TakeKeyboardCommand, Taken
<1>2. ~Taken /\ \A value : ~Sent(STATUS_COMMAND, value)
  BY <1>1, Ports, Commands
<1>3. n \in {6, 8, 11}
  BY <1>2 DEF At, Quiet, Asked, Announced
<1>4. ASSUME NEW command \in {SET_DEFAULTS, ENABLE_REPORTS}, Passed(command)
      PROVE  Passed(command)' /\ config' = config
  <2>1. Sent(DATA, command) /\ expects = WRITE_AUX /\ reply = <<>> /\ ~out.full
    BY <1>2, <1>4 DEF Passed
  <2>2. TakeMouseCommand
    <3>1. expects # WRITE_CONFIG /\ expects # 0
      BY <2>1, Commands
    <3> QED BY <3>1 DEF TakeConfig, TakeKeyboardCommand
  <2>3. ibuf.value = command
    BY <2>1, Ports
  <2>4. command = ENABLE_REPORTS => reporting'
    <3>1. ENABLE_REPORTS # SET_DEFAULTS
      BY Commands
    <3> QED BY <2>2, <2>3, <3>1 DEF TakeMouseCommand
  <2>5. Taken' /\ expects' = 0 /\ line' = <<PS2_ACK>> /\ UNCHANGED <<out, reply, config>>
    BY <2>2 DEF TakeMouseCommand, Taken
  <2> QED BY <2>1, <2>4, <2>5 DEF Passed
<1> USE Commands DEF At
<1>5. CASE n = 6
  <2>1. Sent(DATA, status) /\ expects = WRITE_CONFIG /\ status \in WithMouse
    BY <1>2, <1>5
  <2>2. TakeConfig
    BY <2>1 DEF TakeConfig, TakeMouseCommand, TakeKeyboardCommand
  <2> QED BY <1>1, <1>5, <2>1, <2>2, Ports DEF TakeConfig, Silent
<1>6. CASE n \in {8, 11}
  BY <1>4, <1>6
<1> QED BY <1>3, <1>5, <1>6

LEMMA ControllerSetUp ==
  ASSUME TypeInv, At(step), Controller
  PROVE  At(step)'
<1>1. step \in 1 .. 12 /\ UNCHANGED <<step, status>>
  BY DEF TypeInv, StartTypeOK, Controller, kernelVars
<1>2. CASE Take
  BY <1>1, <1>2, TakeCommandSetUp, TakeDataSetUp DEF Take
<1>3. CASE PutReply
  <2>1. reply # <<>>
    BY <1>3 DEF PutReply
  <2>2. step = 3 /\ Taken /\ reply = <<config>> /\ expects = 0 /\ line = <<>> /\ config \in On
    BY <1>1, <2>1 DEF At, Quiet, Silent, Asked, Passed
  <2>3. reply' = <<>> /\ out'.full /\ ~out'.aux /\ out'.byte = config
    BY <1>3, <2>2 DEF PutReply, Put
  <2> QED BY <1>1, <1>3, <2>2, <2>3 DEF At, Asked, Taken, PutReply, Put
<1> QED BY <1>2, <1>3 DEF Controller

\* Interrupts stay enabled, and what was disturbed stays so.
LEMMA Forward ==
  ASSUME TypeInv, [Next]_vars
  PROVE  /\ pc' # "idle" => pc # "idle" /\ serving = NoLine
         /\ ~disturbed' => ~disturbed
<1>1. pc # "idle" => serving = NoLine
  BY DEF TypeInv, GateInv
<1>2. CASE InitializeInterrupts \/ EnableInterrupts \/ Enter \/ INT_PIT_Handler \/ EndWork
  BY <1>1, <1>2 DEF InitializeInterrupts, EnableInterrupts, Enter, INT_PIT_Handler, EndWork, historyVars
<1>3. CASE InitWrite \/ InitRead
  BY <1>1, <1>3 DEF InitWrite, InitRead
<1>4. CASE KeyboardWork \/ MouseWork
  BY <1>1, <1>4 DEF KeyboardWork, MouseWork, historyVars
<1>5. CASE Arrival
  BY <1>1, <1>5 DEF Arrival, kernelVars
<1>6. CASE Controller \/ RaiseTimer \/ RaiseOther \/ UNCHANGED vars
  BY <1>1, <1>6 DEF Controller, RaiseTimer, RaiseOther, vars, kernelVars, historyVars
<1>7. ASSUME NEW c \in Codes, PressKey(c)
      PROVE  UNCHANGED <<pc, disturbed>>
  BY <1>7 DEF PressKey, kernelVars
<1>8. ASSUME NEW m \in Movements, Report(m)
      PROVE  UNCHANGED pc /\ (~disturbed' => ~disturbed)
  BY <1>8 DEF Report, kernelVars
<1> QED BY <1>1, <1>2, <1>3, <1>4, <1>5, <1>6, <1>7, <1>8 DEF Next, Kernel

LEMMA SetUpNext ==
  ASSUME TypeInv, SetUp, [Next]_vars
  PROVE  SetUp'
<1> SUFFICES ASSUME pc' # "idle", ~disturbed'
             PROVE  SetUp'
  BY DEF SetUp
<1>1. pc # "idle" /\ ~disturbed /\ Handler = "none"
  BY Forward DEF Handler
<1>2. /\ At(step) /\ handled = <<>> /\ keys \in Seq(Codes) /\ typed = keys
      /\ pc = "interrupts" => step = 1
      /\ pc = "masks" => step = 12
  BY <1>1 DEF SetUp
<1>3. ASSUME At(step)', UNCHANGED <<pc, step, handled, keys, typed>> PROVE SetUp'
  BY <1>2, <1>3 DEF SetUp
<1>4. ASSUME UNCHANGED <<out, ibuf, config, expects, reply, line, reporting, step, status>>
      PROVE  At(step)'
  BY <1>2, <1>4 DEF At, Quiet, Silent, Asked, Announced, Passed, Sent, Taken
<1>5. CASE InitializeInterrupts
  <2>1. At(step)'
    BY <1>4, <1>5 DEF InitializeInterrupts, ps2Vars
  <2> QED BY <1>2, <1>5, <2>1 DEF InitializeInterrupts, ps2Vars, historyVars, SetUp
<1>6. CASE InitWrite
  <2>1. At(step)'
    BY <1>6, WriteSetUp
  <2>2. pc' = "masks" => step' = 12
    BY <1>6, StepsTable DEF InitWrite, NextStep
  <2> QED BY <1>2, <1>6, <2>1, <2>2 DEF InitWrite, NextStep, SetUp
<1>7. CASE InitRead
  <2>1. At(step)'
    BY <1>7, ReadSetUp
  <2>2. pc' = "masks" => step' = 12
    BY <1>7, StepsTable DEF InitRead, NextStep
  <2> QED BY <1>2, <1>7, <2>1, <2>2 DEF InitRead, NextStep, SetUp
<1>8. CASE Controller
  <2>1. At(step)'
    BY <1>2, <1>8, ControllerSetUp
  <2>2. ~TakeKeyboardCommand
    <3>1. ASSUME TakeKeyboardCommand PROVE FALSE
      <4>1. ibuf.port = DATA /\ expects = 0
        BY <3>1 DEF TakeKeyboardCommand
      <4>2. ~Taken /\ \A value : ~Sent(STATUS_COMMAND, value)
        BY <4>1, Ports, Commands
      <4> QED BY <1>2, <4>1, <4>2, Commands DEF TypeInv, StartTypeOK, At, Quiet, Asked, Announced, Passed
    <3> QED BY <3>1
  <2>3. UNCHANGED keys
    BY <1>8, <2>2 DEF Controller, Take, TakeCommand, TakeConfig, TakeMouseCommand, PutReply
  <2> QED BY <1>3, <1>8, <2>1, <2>3 DEF Controller, kernelVars, historyVars
<1>9. CASE Arrival
  <2>1. PutMouse
    BY <1>1, <1>9 DEF Arrival
  <2>2. UNCHANGED <<pc, step, status, handled, keys, typed>>
    BY <1>9, <2>1 DEF Arrival, PutMouse, kernelVars
  <2>3. step \in {8, 11} /\ line = <<PS2_ACK>> /\ ~out.full /\ Taken /\ expects = 0 /\ reply = <<>>
    BY <1>2, <2>1 DEF PutMouse, TypeInv, StartTypeOK, At, Quiet, Silent, Asked, Passed
  <2>4. /\ line' = <<>> /\ out'.full /\ out'.aux /\ out'.byte = PS2_ACK
        /\ UNCHANGED <<ibuf, config, expects, reply, reporting>>
    BY <2>1, <2>3 DEF PutMouse, Put
  <2>5. Taken'
    BY <2>3, <2>4 DEF Taken
  <2>6. At(step)'
    BY <1>2, <2>2, <2>3, <2>4, <2>5, Commands DEF At, Passed
  <2> QED BY <1>3, <2>2, <2>6
<1>10. ASSUME NEW c \in Codes, PressKey(c) PROVE SetUp'
  <2>1. At(step)'
    BY <1>4, <1>10 DEF PressKey, kernelVars
  <2>2. keys' \in Seq(Codes)
    BY <1>2, <1>10 DEF PressKey
  <2> QED BY <1>2, <1>10, <2>1, <2>2 DEF PressKey, kernelVars, SetUp
<1>11. CASE RaiseTimer \/ RaiseOther \/ UNCHANGED vars
  BY <1>3, <1>4, <1>11 DEF RaiseTimer, RaiseOther, vars, ps2Vars, kernelVars, historyVars
<1>12. ~Enter /\ ~KeyboardWork /\ ~MouseWork /\ ~INT_PIT_Handler /\ ~EndWork /\ ~EnableInterrupts
  BY <1>1 DEF Enter, KeyboardWork, MouseWork, Work, INT_PIT_Handler, EndWork, EnableInterrupts
<1>13. \A m \in Movements : ~Report(m)
  BY <1>1 DEF Report
<1> QED BY <1>5, <1>6, <1>7, <1>8, <1>9, <1>10, <1>11, <1>12, <1>13 DEF Next, Kernel

-------------------------------------------------------------------------------
(***************************************************************************)
(* The handlers                                                            *)
(***************************************************************************)

\* Is the handler of a line due, or on its way to its read?
Wanted(l) == l \in irr \/ (serving = l /\ stage = "work")

Idle ==
  pc = "idle" /\ ~disturbed =>
    /\ Taken /\ expects = 0 /\ reply = <<>>
    /\ config \in WithMouse /\ reporting
    /\ keys \in Seq(Codes) /\ typed = handled \o InBuffer \o keys
    /\ Wanted(KEYBOARD) => IF out.full THEN ~out.aux ELSE out.byte \notin Codes
    /\ Wanted(MOUSE) /\ out.full => out.aux
    /\ out.full /\ ~out.aux => out.byte \in Codes
    /\ ~(KEYBOARD \in irr /\ serving = KEYBOARD /\ stage = "work")

\* A code that moves from the keyboard into the buffer, ...
LEMMA MovedCode ==
  ASSUME NEW h \in Seq(Codes), NEW k \in Seq(Codes), k # <<>>
  PROVE  h \o <<>> \o k = h \o <<Head(k)>> \o Tail(k)
<1>1. Head(k) \in Codes /\ Tail(k) \in Seq(Codes) /\ <<Head(k)>> \in Seq(Codes)
  BY HeadTailProperties
<1>2. k = <<Head(k)>> \o Tail(k)
  <2>1. Len(<<Head(k)>> \o Tail(k)) = Len(k)
    BY <1>1, HeadTailProperties, ConcatProperties, LenProperties
  <2>2. \A i \in 1 .. Len(k) : (<<Head(k)>> \o Tail(k))[i] = k[i]
    BY <1>1, HeadTailProperties, ConcatProperties, LenProperties
  <2> QED BY <1>1, <2>1, <2>2, SeqEqual, ConcatProperties
<1>3. h \o <<>> = h
  BY ConcatEmptySeq
<1>4. (h \o <<Head(k)>>) \o Tail(k) = h \o (<<Head(k)>> \o Tail(k))
  BY <1>1, ConcatAssociative
<1> QED BY <1>2, <1>3, <1>4

\* ... from the buffer to its handler, ...
LEMMA ReadCode ==
  ASSUME NEW h \in Seq(Codes), NEW b \in Codes, NEW k \in Seq(Codes)
  PROVE  h \o <<b>> \o k = Append(h, b) \o <<>> \o k
<1>1. Append(h, b) = h \o <<b>>
  BY AppendIsConcat
<1>2. Append(h, b) \in Seq(Codes)
  OBVIOUS
<1>3. Append(h, b) \o <<>> = Append(h, b)
  BY <1>2, ConcatEmptySeq
<1> QED BY <1>1, <1>3

\* ... or is typed.
LEMMA TypedCode ==
  ASSUME NEW h \in Seq(Codes), NEW k \in Seq(Codes), NEW c \in Codes
  PROVE  Append(h \o k, c) = h \o Append(k, c)
<1>1. h \o k \in Seq(Codes) /\ <<c>> \in Seq(Codes)
  BY ConcatProperties
<1>2. Append(h \o k, c) = (h \o k) \o <<c>> /\ Append(k, c) = k \o <<c>>
  BY <1>1, AppendIsConcat
<1>3. (h \o k) \o <<c>> = h \o (k \o <<c>>)
  BY <1>1, ConcatAssociative
<1> QED BY <1>2, <1>3

\* A read only takes requests back, and leaves the byte where it was.
LEMMA ReadRequests ==
  ASSUME PS2TypeOK, InData
  PROVE  /\ irr' \subseteq irr /\ ~out'.full
         /\ out'.aux = out.aux /\ out'.byte = out.byte
<1>1. ~out'.full /\ out'.aux = out.aux /\ out'.byte = out.byte
  BY DEF PS2TypeOK, InData
<1>2. Lines(out', config') = {}
  BY <1>1 DEF Lines
<1> QED BY <1>1, <1>2 DEF InData, Signal, Requests

\* A byte that finds the buffer empty adds at most its own request.
LEMMA PutRequests ==
  ASSUME NEW aux \in BOOLEAN, NEW byte, Put(aux, byte)
  PROVE  /\ irr' \subseteq irr \cup (IF aux THEN {MOUSE} ELSE {KEYBOARD})
         /\ out'.full /\ out'.aux = aux /\ out'.byte = byte
<1>1. out'.full /\ out'.aux = aux /\ out'.byte = byte
  BY DEF Put
<1>2. Lines(out', config') \subseteq IF aux THEN {MOUSE} ELSE {KEYBOARD}
  BY <1>1 DEF Lines
<1> QED BY <1>1, <1>2 DEF Put, Signal, Requests

LEMMA TwoLines == KEYBOARD # MOUSE /\ NoLine \notin {KEYBOARD, MOUSE} /\ {TIMER, DISK} \cap {KEYBOARD, MOUSE} = {}
BY DEF KEYBOARD, MOUSE, NoLine, TIMER, DISK

\* Fewer requests, with the buffer as it is, do no harm.
LEMMA FewerWanted ==
  ASSUME Idle, pc = "idle", ~disturbed,
         \A l \in {KEYBOARD, MOUSE} : Wanted(l)' => Wanted(l),
         ~(KEYBOARD \in irr' /\ serving' = KEYBOARD /\ stage' = "work"),
         UNCHANGED <<ps2Vars, typed, handled, pc>>
  PROVE  Idle'
<1>1. UNCHANGED <<out, ibuf, config, expects, reply, keys, reporting>>
  BY DEF ps2Vars
<1>2. InBuffer' = InBuffer
  BY <1>1 DEF InBuffer
<1> QED BY <1>1, <1>2 DEF Idle, Taken

LEMMA IdleStart ==
  ASSUME TypeInv, SetUp, EnableInterrupts, ~disturbed'
  PROVE  Idle'
<1>1. ~disturbed /\ pc = "masks" /\ serving = NoLine
  BY DEF TypeInv, GateInv, EnableInterrupts, historyVars
<1>2. step = 12 /\ At(12) /\ handled = <<>> /\ keys \in Seq(Codes) /\ typed = keys
  BY <1>1 DEF SetUp
<1>3. /\ Taken /\ expects = 0 /\ reply = <<>> /\ ~out.full
      /\ config \in WithMouse /\ reporting /\ out.byte = PS2_ACK
  BY <1>2 DEF At, Quiet, Silent
<1>4. UNCHANGED <<ps2Vars, serving, typed, handled>> /\ pc' = "idle"
  BY DEF EnableInterrupts, historyVars
<1>5. UNCHANGED <<out, ibuf, config, expects, reply, keys, reporting>>
  BY <1>4 DEF ps2Vars
<1>6. out.byte \notin Codes
  BY <1>3, InputAssumption
<1>7. InBuffer' = <<>>
  BY <1>3, <1>5 DEF InBuffer
<1>8. typed' = handled' \o InBuffer' \o keys'
  <2>1. typed' = keys /\ handled' = <<>> /\ keys' = keys
    BY <1>2, <1>4, <1>5
  <2>2. <<>> \o <<>> \o keys = keys
    BY <1>2, ConcatEmptySeq
  <2> QED BY <1>7, <2>1, <2>2
<1>9. serving' # KEYBOARD
  BY <1>1, <1>4, TwoLines
<1> QED BY <1>2, <1>3, <1>4, <1>5, <1>6, <1>8, <1>9 DEF Idle, Taken

LEMMA IdleKeyboardWork ==
  ASSUME TypeInv, Idle, KeyboardWork, pc = "idle", ~disturbed
  PROVE  Idle'
<1>1. serving = KEYBOARD /\ stage = "work" /\ stage' = "end"
  BY HandlerOfLine DEF TypeInv, KeyboardWork, Work
<1>2. /\ UNCHANGED <<ibuf, config, expects, reply, keys, reporting, typed, serving, pc>>
      /\ handled' = IF out.byte \in Codes THEN Append(handled, out.byte) ELSE handled
  BY DEF KeyboardWork, InData
<1>3. irr' \subseteq irr /\ ~out'.full /\ out'.aux = out.aux /\ out'.byte = out.byte
  BY ReadRequests DEF TypeInv, KeyboardWork
<1>4. Wanted(KEYBOARD) /\ KEYBOARD \notin irr /\ ~Wanted(KEYBOARD)'
  BY <1>1, <1>3 DEF Wanted, Idle
<1>5. InBuffer' = <<>>
  BY <1>3 DEF InBuffer
<1>6. handled \in Seq(Codes) /\ keys \in Seq(Codes) /\ typed = handled \o InBuffer \o keys
  BY DEF TypeInv, HistoryTypeOK, Idle
<1>7. typed' = handled' \o InBuffer' \o keys'
  <2>1. CASE out.full
    <3>1. ~out.aux /\ out.byte \in Codes
      BY <1>4, <2>1 DEF Idle
    <3>2. InBuffer = <<out.byte>>
      BY <2>1, <3>1 DEF InBuffer
    <3>3. handled' = Append(handled, out.byte)
      BY <1>2, <3>1
    <3> QED BY <1>2, <1>5, <1>6, <3>1, <3>2, <3>3, ReadCode
  <2>2. CASE ~out.full
    <3>1. out.byte \notin Codes
      BY <1>4, <2>2 DEF Idle
    <3>2. InBuffer = <<>> /\ handled' = handled
      BY <1>2, <2>2, <3>1 DEF InBuffer
    <3> QED BY <1>2, <1>5, <1>6, <3>2
  <2> QED BY <2>1, <2>2
<1> QED BY <1>1, <1>2, <1>3, <1>4, <1>7 DEF Idle, Taken

LEMMA IdleMouseWork ==
  ASSUME TypeInv, Idle, MouseWork, pc = "idle", ~disturbed
  PROVE  Idle'
<1>1. serving = MOUSE /\ stage = "work" /\ stage' = "end"
  BY HandlerOfLine DEF TypeInv, MouseWork, Work
<1>2. UNCHANGED <<ibuf, config, expects, reply, keys, reporting, typed, handled, serving, pc>>
  BY DEF MouseWork, InData, historyVars
<1>3. irr' \subseteq irr /\ ~out'.full /\ out'.aux = out.aux /\ out'.byte = out.byte
  BY ReadRequests DEF TypeInv, MouseWork
<1>4. Wanted(MOUSE) /\ (Wanted(KEYBOARD)' => Wanted(KEYBOARD))
  BY <1>1, <1>3 DEF Wanted
<1>5. out.full => out.aux
  BY <1>4 DEF Idle
<1>6. InBuffer = <<>> /\ InBuffer' = <<>>
  BY <1>3, <1>5 DEF InBuffer
<1>7. Wanted(KEYBOARD) => out.byte \notin Codes
  BY <1>5 DEF Idle
<1> QED BY <1>1, <1>2, <1>3, <1>4, <1>6, <1>7 DEF Idle, Taken

LEMMA IdleArrival ==
  ASSUME TypeInv, Idle, Arrival, pc = "idle", ~disturbed, ~disturbed'
  PROVE  Idle'
<1>1. ~out.full /\ ~Stray
  BY DEF Arrival, PutKey, PutMouse, Put
<1>2. ~Wanted(KEYBOARD) /\ ~Wanted(MOUSE)
  BY <1>1, HandlerOfLine DEF Stray, Wanted, TypeInv
<1>3. UNCHANGED <<pc, serving, stage, typed, handled>>
  BY DEF Arrival, kernelVars
<1>4. InBuffer = <<>>
  BY <1>1 DEF InBuffer
<1>5. CASE PutKey
  <2>1. keys # <<>> /\ keys' = Tail(keys) /\ UNCHANGED <<ibuf, config, expects, reply, reporting>>
    BY <1>5 DEF PutKey, Put
  <2>2. irr' \subseteq irr \cup {KEYBOARD} /\ out'.full /\ ~out'.aux /\ out'.byte = Head(keys)
    BY <1>5, PutRequests DEF PutKey
  <2>3. ~Wanted(MOUSE)' /\ ~(serving' = KEYBOARD /\ stage' = "work")
    BY <1>2, <1>3, <2>2, TwoLines DEF Wanted
  <2>4. keys \in Seq(Codes) /\ handled \in Seq(Codes) /\ typed = handled \o <<>> \o keys
    BY <1>4 DEF Idle, TypeInv, HistoryTypeOK
  <2>5. Head(keys) \in Codes /\ Tail(keys) \in Seq(Codes)
    BY <2>1, <2>4
  <2>6. InBuffer' = <<Head(keys)>>
    BY <1>3, <2>2 DEF InBuffer
  <2>7. typed' = handled' \o InBuffer' \o keys'
    BY <1>3, <2>1, <2>4, <2>6, MovedCode
  <2> QED BY <1>3, <2>1, <2>2, <2>3, <2>5, <2>7 DEF Idle, Taken
<1>6. CASE PutMouse
  <2>1. UNCHANGED <<ibuf, config, expects, reply, keys, reporting>>
    BY <1>6 DEF PutMouse, Put
  <2>2. irr' \subseteq irr \cup {MOUSE} /\ out'.full /\ out'.aux
    BY <1>6, PutRequests DEF PutMouse
  <2>3. ~Wanted(KEYBOARD)'
    BY <1>2, <1>3, <2>2, TwoLines DEF Wanted
  <2>4. InBuffer' = <<>>
    BY <2>2 DEF InBuffer
  <2> QED BY <1>3, <1>4, <2>1, <2>2, <2>3, <2>4 DEF Idle, Taken, Wanted
<1> QED BY <1>5, <1>6 DEF Arrival

\* Interrupts are enabled once.
LEMMA StaysIdle ==
  ASSUME [Next]_vars, pc' = "idle", ~EnableInterrupts
  PROVE  pc = "idle"
<1>1. CASE UNCHANGED pc
  BY <1>1
<1>2. CASE InitializeInterrupts \/ InitWrite \/ InitRead
  BY <1>2 DEF InitializeInterrupts, InitWrite, InitRead, NextStep
<1>3. CASE Enter \/ KeyboardWork \/ MouseWork \/ INT_PIT_Handler \/ EndWork
  BY <1>1, <1>3 DEF Enter, KeyboardWork, MouseWork, INT_PIT_Handler, EndWork
<1>4. CASE Arrival \/ Controller \/ RaiseTimer \/ RaiseOther \/ UNCHANGED vars
  BY <1>1, <1>4 DEF Arrival, Controller, RaiseTimer, RaiseOther, vars, kernelVars
<1>5. CASE (\E c \in Codes : PressKey(c)) \/ (\E m \in Movements : Report(m))
  BY <1>1, <1>5 DEF PressKey, Report, kernelVars
<1> QED BY <1>2, <1>3, <1>4, <1>5 DEF Next, Kernel

LEMMA IdleNext ==
  ASSUME TypeInv, SetUp, Idle, [Next]_vars
  PROVE  Idle'
<1> SUFFICES ASSUME pc' = "idle", ~disturbed'
             PROVE  Idle'
  BY DEF Idle
<1>1. ~disturbed
  BY Forward
<1>2. CASE EnableInterrupts
  BY <1>2, IdleStart
<1>3. CASE InitializeInterrupts
  BY <1>3 DEF InitializeInterrupts
<1>4. CASE InitWrite \/ InitRead
  <2>1. pc = "mouse" /\ ~EnableInterrupts
    BY <1>4 DEF InitWrite, InitRead, EnableInterrupts
  <2> QED BY <2>1, StaysIdle
<1>5. CASE KeyboardWork \/ MouseWork \/ Arrival
  <2>1. pc = "idle"
    BY <1>5 DEF KeyboardWork, MouseWork, Arrival, kernelVars
  <2> QED BY <1>1, <1>5, <2>1, IdleKeyboardWork, IdleMouseWork, IdleArrival
<1>6. CASE Enter
  <2>1. pc = "idle" /\ serving = NoLine /\ serving' = Delivered /\ irr' = irr \ {Delivered}
    BY <1>6 DEF Enter, Acknowledge
  <2>2. Delivered \in irr
    BY <1>6, <2>1, DeliveredIsServed DEF TypeInv, GateInv, Enter
  <2> QED BY <1>1, <1>6, <2>1, <2>2, FewerWanted DEF Enter, Wanted, historyVars
<1>7. CASE INT_PIT_Handler \/ EndWork
  <2>1. /\ serving' = NoLine /\ irr' = irr
        /\ UNCHANGED <<ps2Vars, typed, handled, pc>>
    BY <1>7 DEF INT_PIT_Handler, EndWork, historyVars
  <2> QED BY <1>1, <2>1, TwoLines, FewerWanted DEF Wanted
<1>8. CASE RaiseTimer \/ RaiseOther \/ UNCHANGED vars
  <2>1. /\ irr' \subseteq irr \cup {TIMER, DISK}
        /\ UNCHANGED <<ps2Vars, typed, handled, pc, serving, stage>>
    BY <1>8 DEF RaiseTimer, RaiseOther, vars, interruptVars, kernelVars, historyVars
  <2>2. \A l \in {KEYBOARD, MOUSE} : Wanted(l)' => Wanted(l)
    BY <2>1, TwoLines DEF Wanted
  <2>3. ~(KEYBOARD \in irr' /\ serving' = KEYBOARD /\ stage' = "work")
    BY <1>1, <2>1, TwoLines DEF Idle
  <2> QED BY <1>1, <2>1, <2>2, <2>3, FewerWanted
<1>9. CASE Controller
  <2>1. pc = "idle"
    BY <1>9 DEF Controller, kernelVars
  <2>2. Taken /\ reply = <<>>
    BY <1>1, <2>1 DEF Idle
  <2>3. ibuf.port \notin {DATA, STATUS_COMMAND}
    BY <2>2, Ports, Commands
  <2> QED BY <1>9, <2>2, <2>3
          DEF Controller, Take, TakeCommand, TakeConfig, TakeMouseCommand, TakeKeyboardCommand, PutReply
<1>10. ASSUME NEW c \in Codes, PressKey(c) PROVE Idle'
  <2>1. /\ UNCHANGED <<irr, out, ibuf, config, expects, reply, reporting, pc, serving, stage, handled>>
        /\ keys' = Append(keys, c) /\ typed' = Append(typed, c)
    BY <1>10 DEF PressKey, interruptVars, kernelVars
  <2>2. handled \in Seq(Codes) /\ keys \in Seq(Codes) /\ typed = (handled \o InBuffer) \o keys
    BY <1>1, <2>1 DEF Idle, TypeInv, HistoryTypeOK
  <2>3. InBuffer \in Seq(Codes) /\ InBuffer' = InBuffer
    BY <1>1, <2>1 DEF Idle, InBuffer
  <2>4. handled \o InBuffer \in Seq(Codes)
    BY <2>2, <2>3, ConcatProperties
  <2>5. Append((handled \o InBuffer) \o keys, c) = (handled \o InBuffer) \o Append(keys, c)
    BY <2>2, <2>4, TypedCode
  <2>6. typed' = handled' \o InBuffer' \o keys'
    BY <2>1, <2>2, <2>3, <2>5
  <2>7. keys' \in Seq(Codes)
    BY <2>1, <2>2
  <2> QED BY <1>1, <2>1, <2>6, <2>7 DEF Idle, Taken, Wanted
<1>11. ASSUME NEW m \in Movements, Report(m) PROVE Idle'
  <2>1. UNCHANGED <<irr, out, ibuf, config, expects, reply, keys, reporting, pc, serving, stage, typed, handled>>
    BY <1>11 DEF Report, interruptVars, kernelVars
  <2>2. InBuffer' = InBuffer
    BY <2>1 DEF InBuffer
  <2> QED BY <1>1, <2>1, <2>2 DEF Idle, Taken, Wanted
<1> QED BY <1>2, <1>3, <1>4, <1>5, <1>6, <1>7, <1>8, <1>9, <1>10, <1>11 DEF Next, Kernel

-------------------------------------------------------------------------------

StreamInv == TypeInv /\ SetUp /\ Idle

LEMMA StreamInit == Init => StreamInv
<1>1. Init => pc # "idle"
  BY DEF Init
<1> QED BY <1>1, TypeInit, SetUpInit DEF StreamInv, Idle

LEMMA StreamNext == StreamInv /\ [Next]_vars => StreamInv'
BY TypeNext, SetUpNext, IdleNext DEF StreamInv

\* However the bytes of the keyboard and of the mouse take turns in the one buffer,
\* and whichever handler is entered first: as long as no byte came while _start set
\* the mouse up or while a request without a byte waited, every code is handed to
\* UI_Handle_Keyboard exactly once and in the order it was typed in.
THEOREM KeysAreHandled == Spec => []KeysHandledOnce
<1>1. StreamInv => KeysHandledOnce
  <2> SUFFICES ASSUME StreamInv, ~disturbed PROVE typed = handled \o InBuffer \o keys
    BY DEF KeysHandledOnce
  <2>1. CASE pc = "idle"
    BY <2>1 DEF StreamInv, Idle
  <2>2. CASE pc # "idle"
    <3>1. handled = <<>> /\ keys \in Seq(Codes) /\ typed = keys /\ InBuffer = <<>>
      BY <2>2 DEF StreamInv, SetUp, InBuffer
    <3>2. <<>> \o <<>> \o keys = keys
      BY <3>1, ConcatEmptySeq
    <3> QED BY <3>1, <3>2
  <2> QED BY <2>1, <2>2
<1> QED BY <1>1, StreamInit, StreamNext, PTL DEF Spec

\* Whatever configuration the firmware left, and however long the controller and
\* the mouse take for each byte, UI_PS2Mouse_Init leaves the mouse reporting with
\* its interrupts on, and the keyboard's interrupts as they were.
THEOREM MouseIsEnabled == Spec => []MouseEnabled
<1>1. StreamInv => MouseEnabled
  BY DEF StreamInv, Idle, MouseEnabled, WithMouse, On
<1> QED BY <1>1, StreamInit, StreamNext, PTL DEF Spec

-------------------------------------------------------------------------------
(***************************************************************************)
(* The reports of the mouse: the handler puts them together as they were   *)
(* sent, and moves the pointer as they say.  Both need interrupt           *)
(* controllers that keep a request whose byte was read: the first byte the *)
(* handler is given, which it drops, is then the acknowledgement           *)
(* UI_PS2Mouse_Init has read already.                                      *)
(***************************************************************************)

-------------------------------------------------------------------------------
(***************************************************************************)
(* Reports and bytes                                                       *)
(***************************************************************************)

LEMMA FirstByte ==
  ASSUME NEW m \in Movements
  PROVE  /\ Bit(Encode(m)[1], 8) /\ ~Bit(Encode(m)[1], 64) /\ ~Bit(Encode(m)[1], 128)
         /\ Bit(Encode(m)[1], 16) <=> m[1] < 0
         /\ Bit(Encode(m)[1], 32) <=> m[2] < 0
<1> DEFINE e == 8 + Flag(m[1] < 0, 16) + Flag(m[2] < 0, 32)
<1>1. Encode(m)[1] = e
  BY DEF Encode
<1>2. CASE m[1] < 0 /\ m[2] < 0
  BY <1>1, <1>2 DEF Flag, Bit
<1>3. CASE m[1] < 0 /\ ~(m[2] < 0)
  BY <1>1, <1>3 DEF Flag, Bit
<1>4. CASE ~(m[1] < 0) /\ m[2] < 0
  BY <1>1, <1>4 DEF Flag, Bit
<1>5. CASE ~(m[1] < 0) /\ ~(m[2] < 0)
  BY <1>1, <1>5 DEF Flag, Bit
<1> QED BY <1>2, <1>3, <1>4, <1>5

LEMMA DistanceOfByte ==
  ASSUME NEW d \in -255 .. 255
  PROVE  /\ d < 0 => Negated(d % 256) = -d
         /\ d >= 0 => d % 256 = d
<1>1. CASE d < 0
  <2>1. d % 256 = d + 256
    BY <1>1
  <2> QED BY <1>1, <2>1 DEF Negated
<1>2. CASE d >= 0
  BY <1>2
<1> QED BY <1>1, <1>2

\* The one movement the handler gets wrong: -256 is sent as 0 and negated to 0.
Sendable(m) == m[1] # -256 /\ m[2] # -256

LEMMA PlaceOfReport ==
  ASSUME NEW m \in Movements, Sendable(m), NEW pos
  PROVE  Place(pos, Encode(m)) = MovedBy(pos, m)
<1>1. m[1] \in -255 .. 255 /\ m[2] \in -255 .. 255
  BY MouseAssumption DEF Sendable
<1>2. Encode(m)[2] = m[1] % 256 /\ Encode(m)[3] = m[2] % 256
  BY DEF Encode
<1>3. Distance(Bit(Encode(m)[1], 16), Bit(Encode(m)[1], 64), Encode(m)[2], 255 * 2) = m[1]
  <2>1. /\ m[1] < 0 => Negated(m[1] % 256) = -m[1]
        /\ m[1] >= 0 => m[1] % 256 = m[1]
    <3> DEFINE d == m[1]
    <3>1. d \in -255 .. 255
      BY <1>1
    <3> HIDE DEF d
    <3>2. (d < 0 => Negated(d % 256) = -d) /\ (d >= 0 => d % 256 = d)
      BY <3>1, DistanceOfByte
    <3> QED BY <3>2 DEF d
  <2>2. Bit(Encode(m)[1], 16) <=> m[1] < 0
    BY FirstByte
  <2>3. Bit(Encode(m)[1], 64) <=> FALSE
    BY FirstByte
  <2>4. Encode(m)[2] = m[1] % 256
    BY <1>2
  <2> QED BY <1>1, <2>1, <2>2, <2>3, <2>4 DEF Distance, Flag
<1>4. Distance(Bit(Encode(m)[1], 32), Bit(Encode(m)[1], 128), Encode(m)[3], 255) = m[2]
  <2>1. /\ m[2] < 0 => Negated(m[2] % 256) = -m[2]
        /\ m[2] >= 0 => m[2] % 256 = m[2]
    <3> DEFINE d == m[2]
    <3>1. d \in -255 .. 255
      BY <1>1
    <3> HIDE DEF d
    <3>2. (d < 0 => Negated(d % 256) = -d) /\ (d >= 0 => d % 256 = d)
      BY <3>1, DistanceOfByte
    <3> QED BY <3>2 DEF d
  <2>2. Bit(Encode(m)[1], 32) <=> m[2] < 0
    BY FirstByte
  <2>3. Bit(Encode(m)[1], 128) <=> FALSE
    BY FirstByte
  <2>4. Encode(m)[3] = m[2] % 256
    BY <1>2
  <2> QED BY <1>1, <2>1, <2>2, <2>3, <2>4 DEF Distance, Flag
<1> QED BY <1>3, <1>4 DEF Place, MovedBy

-------------------------------------------------------------------------------
(***************************************************************************)
(* Before interrupts are enabled                                           *)
(***************************************************************************)

\* No report has come, and the acknowledgement that UI_PS2Mouse_Init reads in step
\* 8 has left its request behind.
Fresh ==
  pc # "idle" =>
    /\ skip /\ g_MouseCycle = 0 /\ ~g_IsMousePacketReady
    /\ ~disturbed => reports = <<>>

Acknowledged ==
  KeepsRequests /\ pc \in {"mouse", "masks"} /\ ~disturbed /\ (step >= 9 \/ (step = 8 /\ out.full))
    => MOUSE \in irr

LEMMA FreshNext ==
  ASSUME TypeInv, Fresh, [Next]_vars
  PROVE  Fresh'
<1> SUFFICES ASSUME pc' # "idle" PROVE Fresh'
  BY DEF Fresh
<1>1. pc # "idle" /\ (~disturbed' => ~disturbed) /\ Handler = "none"
  BY Forward DEF Handler
<1>2. ASSUME UNCHANGED mouseVars PROVE Fresh'
  BY <1>1, <1>2 DEF Fresh, mouseVars, packetVars
<1>3. ASSUME NEW m \in Movements, Report(m) PROVE Fresh'
  BY <1>1, <1>3 DEF Report, Fresh, packetVars
<1>4. ~Enter /\ ~KeyboardWork /\ ~MouseWork /\ ~INT_PIT_Handler /\ ~EndWork
  BY <1>1 DEF Enter, KeyboardWork, MouseWork, Work, INT_PIT_Handler, EndWork
<1>5. CASE InitializeInterrupts \/ InitWrite \/ InitRead \/ EnableInterrupts
  BY <1>2, <1>5 DEF InitializeInterrupts, InitWrite, InitRead, EnableInterrupts
<1>6. CASE Arrival \/ Controller \/ RaiseTimer \/ RaiseOther \/ UNCHANGED vars
  BY <1>2, <1>6 DEF Arrival, Controller, RaiseTimer, RaiseOther, vars
<1>7. ASSUME NEW c \in Codes, PressKey(c) PROVE Fresh'
  BY <1>2, <1>7 DEF PressKey
<1> QED BY <1>3, <1>4, <1>5, <1>6, <1>7 DEF Next, Kernel

LEMMA SignalKeeps == KeepsRequests /\ Signal => irr \subseteq irr'
BY DEF Signal, Requests

LEMMA MouseInterruptOn == \A c \in WithMouse : MouseInterrupt(c)
<1>1. \A c \in Byte : ~MouseInterrupt(c) => MouseInterrupt(c + 2)
  BY DEF MouseInterrupt, Bit, Byte
<1>2. On \subseteq Byte
  BY PS2Assumption, BytesOfConfig DEF On
<1> QED BY <1>1, <1>2 DEF WithMouse, Enabled

\* A byte of the mouse that finds the buffer empty raises its line.
LEMMA MouseLineRises ==
  ASSUME PutMouse, config \in WithMouse
  PROVE  MOUSE \in irr'
<1>1. ~out.full /\ config' = config /\ out'.full /\ out'.aux /\ Signal
  BY DEF PutMouse, Put
<1>2. MOUSE \notin Lines(out, config) /\ MOUSE \in Lines(out', config')
  BY <1>1, MouseInterruptOn DEF Lines
<1> QED BY <1>1, <1>2 DEF Signal, Requests

LEMMA AcknowledgedNext ==
  ASSUME TypeInv, SetUp, Acknowledged, [Next]_vars
  PROVE  Acknowledged'
<1> SUFFICES ASSUME KeepsRequests, pc' \in {"mouse", "masks"}, ~disturbed',
                    step' >= 9 \/ (step' = 8 /\ out'.full)
             PROVE  MOUSE \in irr'
  BY DEF Acknowledged
<1>1. pc # "idle" /\ ~disturbed /\ Handler = "none"
  BY Forward DEF Handler
<1>2. At(step) /\ step \in 1 .. 12 /\ (pc = "interrupts" => step = 1)
  BY <1>1 DEF SetUp, TypeInv, StartTypeOK
<1>3. CASE InitializeInterrupts
  BY <1>2, <1>3 DEF InitializeInterrupts
<1>4. ASSUME irr \subseteq irr', pc \in {"mouse", "masks"}, step >= 9 \/ (step = 8 /\ out.full)
      PROVE  MOUSE \in irr'
  BY <1>1, <1>4 DEF Acknowledged
<1>5. ASSUME irr \subseteq irr', UNCHANGED <<pc, step, out>>
      PROVE  MOUSE \in irr'
  <2>1. pc \in {"mouse", "masks"} /\ (step >= 9 \/ (step = 8 /\ out.full))
    BY <1>5
  <2> QED BY <1>4, <1>5, <2>1
<1>6. CASE InitWrite
  <2>1. pc = "mouse" /\ step' = step + 1 /\ UNCHANGED <<irr, out>>
    BY <1>6 DEF InitWrite, NextStep, interruptVars
  <2>2. step # 8 /\ (step = 7 => ~out.full)
    BY <1>2, <1>6, StepsTable DEF InitWrite, Read, At, Silent
  <2> QED BY <1>2, <1>4, <2>1, <2>2
<1>7. CASE InitRead
  <2>1. pc = "mouse" /\ step' = step + 1 /\ out.full /\ irr \subseteq irr'
    BY <1>7, SignalKeeps DEF InitRead, InData, NextStep
  <2>2. step # 7
    BY <1>7, StepsTable DEF InitRead, Write
  <2> QED BY <1>2, <1>4, <2>1, <2>2
<1>8. CASE EnableInterrupts
  BY <1>8 DEF EnableInterrupts
<1>9. CASE Arrival
  <2>1. PutMouse /\ UNCHANGED <<pc, step>>
    BY <1>1, <1>9 DEF Arrival, kernelVars
  <2>2. config \in WithMouse
    BY <1>2, <2>1 DEF At
  <2> QED BY <2>1, <2>2, MouseLineRises
<1>10. CASE Controller
  <2>1. UNCHANGED <<pc, step>>
    BY <1>10 DEF Controller, kernelVars
  <2>2. CASE Take
    BY <1>5, <2>1, <2>2, SignalKeeps
       DEF Take, TakeCommand, TakeConfig, TakeMouseCommand, TakeKeyboardCommand, interruptVars
  <2>3. CASE PutReply
    <3>1. reply # <<>>
      BY <2>3 DEF PutReply
    <3>2. step # 8
      BY <3>1, <1>2 DEF At, Passed
    <3>3. irr \subseteq irr'
      BY <2>3, SignalKeeps DEF PutReply, Put
    <3> QED BY <1>4, <2>1, <3>2, <3>3
  <2> QED BY <1>10, <2>2, <2>3 DEF Controller
<1>11. ASSUME NEW c \in Codes, PressKey(c) PROVE MOUSE \in irr'
  BY <1>5, <1>11 DEF PressKey, interruptVars, kernelVars
<1>12. ~Enter /\ ~KeyboardWork /\ ~MouseWork /\ ~INT_PIT_Handler /\ ~EndWork
  BY <1>1 DEF Enter, KeyboardWork, MouseWork, Work, INT_PIT_Handler, EndWork
<1>13. CASE RaiseTimer \/ RaiseOther \/ UNCHANGED vars
  BY <1>1, <1>5, <1>13 DEF RaiseTimer, RaiseOther, vars, interruptVars, ps2Vars, kernelVars
<1>14. \A m \in Movements : ~Report(m)
  BY <1>1 DEF Report
<1> QED BY <1>3, <1>6, <1>7, <1>8, <1>9, <1>10, <1>11, <1>12, <1>13, <1>14 DEF Next, Kernel

-------------------------------------------------------------------------------
(***************************************************************************)
(* Where the bytes of a report are                                         *)
(***************************************************************************)

Buffered == out.full /\ out.aux

\* The third byte of a report waits in the buffer: the mouse may make the next.
LastBuffered == Buffered /\ g_MouseCycle = 2

\* The report m is being sent: its bytes are in the packet, in the buffer and with
\* the mouse.  e are its bytes.
SentAs(e) ==
  /\ g_MouseCycle >= 1 => g_MousePacket[1] = e[1]
  /\ g_MouseCycle >= 2 => g_MousePacket[2] = e[2]
  /\ g_MouseCycle = 0 => line = IF Buffered THEN <<e[2], e[3]>> ELSE e
  /\ g_MouseCycle = 1 => line = IF Buffered THEN <<e[3]>> ELSE <<e[2], e[3]>>
  /\ g_MouseCycle = 2 /\ ~Buffered => line = <<e[3]>>
  /\ Buffered => out.byte = e[g_MouseCycle + 1]

\* No report is being sent; one may wait to be carried out.
NoneSent ==
  /\ g_MouseCycle = 0 /\ ~Buffered /\ line = <<>>
  /\ ~g_IsMousePacketReady => reports = <<>>
  /\ g_IsMousePacketReady => \E d \in Movements : reports = <<d>> /\ g_MousePacket = Encode(d)

\* One is being sent, alone or behind one that waits to be carried out.
OneSent ==
  \E m \in Movements :
    /\ ~LastBuffered /\ SentAs(Encode(m))
    /\ ~g_IsMousePacketReady => reports = <<m>>
    /\ g_IsMousePacketReady =>
         /\ g_MouseCycle = 0
         /\ \E d \in Movements : reports = <<d, m>> /\ g_MousePacket = Encode(d)

\* The last byte of one waits, the next may have been made.
TwoSent ==
  \E m \in Movements :
    /\ LastBuffered /\ SentAs(Encode(m)) /\ ~g_IsMousePacketReady
    /\ \/ line = <<>> /\ reports = <<m>>
       \/ \E n \in Movements : line = Encode(n) /\ reports = <<m, n>>

\* The first time the handler of the mouse runs, it finds no byte; from then on it
\* finds one.
FirstIsStray ==
  /\ skip => Wanted(MOUSE) /\ ~out.full /\ g_MouseCycle = 0 /\ ~g_IsMousePacketReady
  /\ ~skip /\ Wanted(MOUSE) => Buffered
  /\ ~(MOUSE \in irr /\ serving = MOUSE /\ stage = "work")

Packets ==
  KeepsRequests /\ pc = "idle" /\ ~disturbed => FirstIsStray /\ (NoneSent \/ OneSent \/ TwoSent)

LEMMA EncodeTuple ==
  ASSUME NEW m \in Movements
  PROVE  Encode(m) = <<Encode(m)[1], Encode(m)[2], Encode(m)[3]>>
BY DEF Encode

LEMMA Shifts ==
  /\ \A a, b, c : Head(<<a, b, c>>) = a /\ Tail(<<a, b, c>>) = <<b, c>>
  /\ \A b, c : Head(<<b, c>>) = b /\ Tail(<<b, c>>) = <<c>>
  /\ \A c : Head(<<c>>) = c /\ Tail(<<c>>) = <<>>
  /\ \A a, b, c : <<a, b, c>> # <<>> /\ <<b, c>> # <<>> /\ <<c>> # <<>>
OBVIOUS

LEMMA Grows ==
  ASSUME NEW S, NEW a \in S, NEW b \in S
  PROVE  Append(<<a>>, b) = <<a, b>> /\ Len(<<a>>) = 1
<1>1. <<a>> \in Seq(S) /\ <<a, b>> \in Seq(S) /\ Len(<<a>>) = 1 /\ Len(<<a, b>>) = 2
  OBVIOUS
<1>2. Append(<<a>>, b) \in Seq(S) /\ Len(Append(<<a>>, b)) = 2
  BY <1>1
<1>3. \A i \in 1 .. 2 : Append(<<a>>, b)[i] = <<a, b>>[i]
  <2>1. Append(<<a>>, b)[1] = a /\ Append(<<a>>, b)[2] = b
    BY <1>1
  <2> QED BY <2>1
<1> QED BY <1>1, <1>2, <1>3, SeqEqual

LEMMA StartPackets ==
  ASSUME TypeInv, SetUp, Fresh, Acknowledged, EnableInterrupts, KeepsRequests, ~disturbed'
  PROVE  Packets'
<1>1. pc = "masks" /\ serving = NoLine /\ ~disturbed
  BY DEF TypeInv, GateInv, EnableInterrupts, historyVars
<1>2. step = 12 /\ At(12)
  BY <1>1 DEF SetUp
<1>3. ~out.full /\ line = <<>>
  BY <1>2 DEF At, Quiet, Silent
<1>4. MOUSE \in irr /\ skip /\ g_MouseCycle = 0 /\ ~g_IsMousePacketReady /\ reports = <<>>
  BY <1>1, <1>2 DEF Acknowledged, Fresh
<1>5. UNCHANGED <<irr, out, line, skip, g_MouseCycle, g_IsMousePacketReady, reports, serving>>
  BY DEF EnableInterrupts, ps2Vars, mouseVars, packetVars
<1>6. FirstIsStray'
  <2>1. serving' # MOUSE
    BY <1>1, <1>5, TwoLines
  <2> QED BY <1>3, <1>4, <1>5, <2>1 DEF FirstIsStray, Wanted
<1>7. NoneSent'
  BY <1>3, <1>4, <1>5 DEF NoneSent, Buffered
<1> QED BY <1>6, <1>7 DEF Packets

\* What leaves the buffer of the mouse, its line and its packet alone.
LEMMA OthersKeepSent ==
  ASSUME NoneSent \/ OneSent \/ TwoSent, Buffered' = Buffered, Buffered => out' = out,
         UNCHANGED <<line, g_MouseCycle, g_MousePacket, g_IsMousePacketReady, reports>>
  PROVE  (NoneSent \/ OneSent \/ TwoSent)'
<1>1. LastBuffered' = LastBuffered
  BY DEF LastBuffered
<1>2. \A e : SentAs(e) => SentAs(e)'
  BY DEF SentAs
<1>3. CASE NoneSent
  BY <1>3 DEF NoneSent
<1>4. CASE OneSent
  BY <1>1, <1>2, <1>4 DEF OneSent
<1>5. CASE TwoSent
  BY <1>1, <1>2, <1>5 DEF TwoSent
<1> QED BY <1>3, <1>4, <1>5

\* The mouse makes a report when the last has left it, ...
LEMMA ReportSent ==
  ASSUME TypeInv, NoneSent \/ OneSent \/ TwoSent, NEW m \in Movements, Report(m), pc = "idle"
  PROVE  (OneSent \/ TwoSent)' /\ Len(reports) < 2
<1>1. /\ line = <<>> /\ line' = Encode(m) /\ reports' = Append(reports, m)
      /\ UNCHANGED <<out, g_MouseCycle, g_MousePacket, g_IsMousePacketReady>>
  BY DEF Report, packetVars
<1>2. Buffered' = Buffered /\ LastBuffered' = LastBuffered /\ g_MouseCycle \in 0 .. 2
  BY <1>1 DEF Buffered, LastBuffered, TypeInv, MouseTypeOK
<1>3. CASE NoneSent
  <2>1. SentAs(Encode(m))' /\ ~LastBuffered'
    BY <1>1, <1>2, <1>3 DEF NoneSent, SentAs, LastBuffered
  <2>2. CASE ~g_IsMousePacketReady
    BY <1>1, <1>3, <2>1, <2>2 DEF NoneSent, OneSent
  <2>3. CASE g_IsMousePacketReady
    <3>1. PICK d \in Movements : reports = <<d>> /\ g_MousePacket = Encode(d)
      BY <1>3, <2>3 DEF NoneSent
    <3>2. reports' = <<d, m>> /\ Len(reports) = 1 /\ g_MouseCycle = 0
      BY <1>1, <1>3, <3>1, Grows DEF NoneSent
    <3>3. OneSent'
      BY <1>1, <2>1, <2>3, <3>1, <3>2 DEF OneSent
    <3> QED BY <3>2, <3>3
  <2> QED BY <2>2, <2>3
<1>4. CASE OneSent
  <2>1. PICK n \in Movements : ~LastBuffered /\ SentAs(Encode(n))
    BY <1>4 DEF OneSent
  <2>2. PICK e1, e2, e3 : Encode(n) = <<e1, e2, e3>>
    BY EncodeTuple
  <2>3. line \in {<<e1, e2, e3>>, <<e2, e3>>, <<e3>>}
    BY <1>2, <2>1, <2>2 DEF SentAs, LastBuffered
  <2>4. line # <<>>
    BY <2>3, Shifts
  <2> QED BY <1>1, <2>4
<1>5. CASE TwoSent
  <2>1. PICK n \in Movements : /\ LastBuffered /\ SentAs(Encode(n)) /\ ~g_IsMousePacketReady
                               /\ reports = <<n>>
    <3>1. \A k \in Movements : Encode(k) # <<>>
      BY EncodeTuple, Shifts
    <3> QED BY <1>1, <1>5, <3>1 DEF TwoSent
  <2>2. SentAs(Encode(n))'
    BY <1>1, <1>2, <2>1 DEF SentAs, LastBuffered
  <2>3. reports' = <<n, m>> /\ Len(reports) = 1
    BY <1>1, <2>1, Grows
  <2>4. TwoSent'
    BY <1>1, <1>2, <2>1, <2>2, <2>3 DEF TwoSent
  <2> QED BY <2>3, <2>4
<1> QED BY <1>3, <1>4, <1>5

\* ... its bytes come one by one into the empty buffer, ...
LEMMA PutSent ==
  ASSUME TypeInv, NoneSent \/ OneSent \/ TwoSent, PutMouse,
         UNCHANGED <<g_MouseCycle, g_MousePacket, g_IsMousePacketReady, reports>>
  PROVE  (OneSent \/ TwoSent)'
<1>1. line # <<>> /\ line' = Tail(line) /\ ~Buffered /\ Buffered' /\ out'.byte = Head(line)
  BY DEF PutMouse, Put, Buffered
<1>2. PICK m \in Movements :
        /\ SentAs(Encode(m))
        /\ ~g_IsMousePacketReady => reports = <<m>>
        /\ g_IsMousePacketReady =>
             /\ g_MouseCycle = 0
             /\ \E d \in Movements : reports = <<d, m>> /\ g_MousePacket = Encode(d)
  BY <1>1 DEF NoneSent, OneSent, TwoSent, LastBuffered
<1>3. PICK e1, e2, e3 : Encode(m) = <<e1, e2, e3>>
  BY EncodeTuple
<1>4. g_MouseCycle \in 0 .. 2
  BY DEF TypeInv, MouseTypeOK
<1>5. CASE g_MouseCycle = 0
  <2>1. line = <<e1, e2, e3>>
    BY <1>1, <1>2, <1>3, <1>5 DEF SentAs
  <2>2. out'.byte = e1 /\ line' = <<e2, e3>>
    BY <1>1, <2>1, Shifts
  <2>3. ~LastBuffered' /\ g_MouseCycle' = 0
    BY <1>5 DEF LastBuffered
  <2>4. SentAs(Encode(m))'
    <3>1. Encode(m)[1] = e1 /\ <<Encode(m)[2], Encode(m)[3]>> = <<e2, e3>>
      BY <1>3
    <3>2. out'.byte = Encode(m)[g_MouseCycle' + 1]
      BY <2>2, <2>3, <3>1
    <3>3. line' = <<Encode(m)[2], Encode(m)[3]>>
      BY <2>2, <3>1
    <3>4. ~(g_MouseCycle' >= 1) /\ ~(g_MouseCycle' >= 2) /\ g_MouseCycle' # 1 /\ g_MouseCycle' # 2
      BY <2>3
    <3> QED BY <1>1, <3>2, <3>3, <3>4, Zenon DEF SentAs
  <2> QED BY <1>2, <2>3, <2>4 DEF OneSent
<1>6. CASE g_MouseCycle = 1
  <2>1. line = <<e2, e3>> /\ g_MousePacket[1] = e1 /\ ~g_IsMousePacketReady
    BY <1>1, <1>2, <1>3, <1>6 DEF SentAs
  <2>2. out'.byte = e2 /\ line' = <<e3>>
    BY <1>1, <2>1, Shifts
  <2>3. SentAs(Encode(m))' /\ ~LastBuffered'
    BY <1>1, <1>3, <1>6, <2>1, <2>2 DEF SentAs, LastBuffered
  <2> QED BY <1>2, <2>1, <2>3 DEF OneSent
<1>7. CASE g_MouseCycle = 2
  <2>1. line = <<e3>> /\ g_MousePacket[1] = e1 /\ g_MousePacket[2] = e2 /\ ~g_IsMousePacketReady
    BY <1>1, <1>2, <1>3, <1>7 DEF SentAs
  <2>2. out'.byte = e3 /\ line' = <<>>
    BY <1>1, <2>1, Shifts
  <2>3. SentAs(Encode(m))' /\ LastBuffered'
    BY <1>1, <1>3, <1>7, <2>1, <2>2 DEF SentAs, LastBuffered
  <2> QED BY <1>2, <2>1, <2>2, <2>3 DEF TwoSent
<1> QED BY <1>4, <1>5, <1>6, <1>7

LEMMA PacketType ==
  ASSUME MouseTypeOK
  PROVE  Packet \in Byte \X Byte \X Byte /\ (~g_IsMousePacketReady => Packet = g_MousePacket)
<1>1. g_MousePacket \in Byte \X Byte \X Byte
  BY DEF MouseTypeOK
<1>2. \A b \in Byte : Negated(b) \in Byte
  BY DEF Negated, Byte
<1> QED BY <1>1, <1>2 DEF Packet, Normalised

\* ... and the handler puts them behind one another.
LEMMA HandleSent ==
  ASSUME TypeInv, OneSent \/ TwoSent, Buffered, ~skip, UI_PS2Mouse_Handle(out.byte),
         ~Buffered', UNCHANGED line
  PROVE  /\ (NoneSent \/ OneSent)' /\ ~skip'
         /\ g_IsMousePacketReady =>
              \E d \in Movements : /\ reports # <<>> /\ Head(reports) = d
                                   /\ MousePosition' = Place(MousePosition, Encode(d))
                                   /\ reports' = Tail(reports)
         /\ ~g_IsMousePacketReady => UNCHANGED <<MousePosition, reports>>
<1>1. /\ Collect(out.byte) /\ ~skip'
      /\ ~g_IsMousePacketReady => UNCHANGED <<MousePosition, reports>>
      /\ g_IsMousePacketReady =>
           /\ MousePosition' = Place(MousePosition, g_MousePacket)
           /\ reports' = IF reports = <<>> THEN <<>> ELSE Tail(reports)
  BY DEF UI_PS2Mouse_Handle, UI_PS2Mouse_ProcessPacket
<1>2. /\ Packet \in Byte \X Byte \X Byte /\ (~g_IsMousePacketReady => Packet = g_MousePacket)
      /\ g_MouseCycle \in 0 .. 2
  BY PacketType DEF TypeInv, MouseTypeOK
<1>3. ASSUME ~Dropped(out.byte)
      PROVE  /\ g_MousePacket' = [Packet EXCEPT ![g_MouseCycle + 1] = out.byte]
             /\ g_IsMousePacketReady' <=> g_MouseCycle = 2
             /\ g_MouseCycle' = (g_MouseCycle + 1) % 3
  BY <1>1, <1>3 DEF Collect, Complete
<1>4. CASE OneSent
  <2>1. PICK m \in Movements :
          /\ ~LastBuffered /\ SentAs(Encode(m))
          /\ ~g_IsMousePacketReady => reports = <<m>>
          /\ g_IsMousePacketReady =>
               /\ g_MouseCycle = 0
               /\ \E d \in Movements : reports = <<d, m>> /\ g_MousePacket = Encode(d)
    BY <1>4 DEF OneSent
  <2>2. PICK e1, e2, e3 : Encode(m) = <<e1, e2, e3>>
    BY EncodeTuple
  <2>3. g_IsMousePacketReady =>
          \E d \in Movements : /\ reports = <<d, m>> /\ reports' = <<m>>
                               /\ MousePosition' = Place(MousePosition, Encode(d))
    <3> SUFFICES ASSUME g_IsMousePacketReady
                 PROVE  \E d \in Movements : /\ reports = <<d, m>> /\ reports' = <<m>>
                                             /\ MousePosition' = Place(MousePosition, Encode(d))
      OBVIOUS
    <3>1. PICK d \in Movements : reports = <<d, m>> /\ g_MousePacket = Encode(d)
      BY <2>1
    <3>2. reports # <<>> /\ Tail(reports) = <<m>>
      BY <3>1, Shifts
    <3> QED BY <1>1, <3>1, <3>2
  <2>4. reports' = <<m>>
    BY <1>1, <2>1, <2>3
  <2>5. g_IsMousePacketReady =>
          \E d \in Movements : /\ reports # <<>> /\ Head(reports) = d
                               /\ MousePosition' = Place(MousePosition, Encode(d))
                               /\ reports' = Tail(reports)
    <3> SUFFICES ASSUME g_IsMousePacketReady
                 PROVE  \E d \in Movements : /\ reports # <<>> /\ Head(reports) = d
                                             /\ MousePosition' = Place(MousePosition, Encode(d))
                                             /\ reports' = Tail(reports)
      OBVIOUS
    <3>1. PICK d \in Movements : /\ reports = <<d, m>> /\ reports' = <<m>>
                                 /\ MousePosition' = Place(MousePosition, Encode(d))
      BY <2>3
    <3>2. reports # <<>> /\ Head(reports) = d /\ Tail(reports) = <<m>>
      BY <3>1, Shifts
    <3> QED BY <3>1, <3>2
  <2>6. CASE g_MouseCycle = 0
    <3>1. out.byte = e1 /\ line = <<e2, e3>>
      BY <2>1, <2>2, <2>6 DEF SentAs
    <3>2. ~Dropped(out.byte)
      BY <2>2, <3>1, FirstByte DEF Dropped
    <3>0. ~g_IsMousePacketReady' /\ g_MouseCycle' = 1 /\ g_MousePacket' = [Packet EXCEPT ![1] = e1]
      BY <1>3, <2>6, <3>1, <3>2
    <3>3. g_MousePacket'[1] = e1 /\ ~g_IsMousePacketReady' /\ g_MouseCycle' = 1
      BY <1>2, <3>0
    <3>4. SentAs(Encode(m))' /\ ~LastBuffered'
      BY <2>2, <3>1, <3>3 DEF SentAs, LastBuffered
    <3>5. OneSent'
      BY <2>4, <3>3, <3>4 DEF OneSent
    <3> QED BY <1>1, <2>5, <3>5
  <2>7. CASE g_MouseCycle = 1
    <3>1. out.byte = e2 /\ line = <<e3>> /\ g_MousePacket[1] = e1 /\ ~g_IsMousePacketReady
      BY <2>1, <2>2, <2>7 DEF SentAs
    <3>2. ~Dropped(out.byte)
      BY <2>7 DEF Dropped
    <3>3. /\ g_MousePacket'[1] = e1 /\ g_MousePacket'[2] = e2
          /\ ~g_IsMousePacketReady' /\ g_MouseCycle' = 2
      <4>1. ~g_IsMousePacketReady' /\ g_MouseCycle' = 2 /\ g_MousePacket' = [Packet EXCEPT ![2] = e2]
        BY <1>3, <2>7, <3>1, <3>2
      <4> QED BY <1>2, <3>1, <4>1
    <3>4. SentAs(Encode(m))' /\ ~LastBuffered'
      BY <2>2, <3>1, <3>3 DEF SentAs, LastBuffered
    <3>5. OneSent'
      BY <2>4, <3>3, <3>4 DEF OneSent
    <3> QED BY <1>1, <2>5, <3>5
  <2> QED BY <1>2, <2>1, <2>6, <2>7 DEF LastBuffered
<1>5. CASE TwoSent
  <2>1. PICK m \in Movements :
          /\ LastBuffered /\ SentAs(Encode(m)) /\ ~g_IsMousePacketReady
          /\ \/ line = <<>> /\ reports = <<m>>
             \/ \E n \in Movements : line = Encode(n) /\ reports = <<m, n>>
    BY <1>5 DEF TwoSent
  <2>2. PICK e1, e2, e3 : Encode(m) = <<e1, e2, e3>>
    BY EncodeTuple
  <2>3. g_MouseCycle = 2 /\ g_MousePacket[1] = e1 /\ g_MousePacket[2] = e2 /\ out.byte = e3
    BY <2>1, <2>2 DEF SentAs, LastBuffered
  <2>4. g_MousePacket' = [g_MousePacket EXCEPT ![3] = e3]
    BY <1>2, <1>3, <2>1, <2>3 DEF Dropped
  <2>5. g_MousePacket' = Encode(m)
    BY <1>2, <2>1, <2>2, <2>3, <2>4
  <2>6. g_IsMousePacketReady' /\ g_MouseCycle' = 0 /\ UNCHANGED <<reports, line>>
    <3>1. ~Dropped(out.byte)
      BY <2>3 DEF Dropped
    <3> QED BY <1>1, <1>3, <2>1, <2>3, <3>1
  <2>7. CASE line = <<>> /\ reports = <<m>>
    BY <1>1, <2>1, <2>5, <2>6, <2>7 DEF NoneSent
  <2>8. CASE \E n \in Movements : line = Encode(n) /\ reports = <<m, n>>
    <3>1. PICK n \in Movements : line = Encode(n) /\ reports = <<m, n>>
      BY <2>8
    <3>2. SentAs(Encode(n))' /\ ~LastBuffered'
      BY <2>6, <3>1 DEF SentAs, LastBuffered
    <3>3. OneSent'
      BY <2>5, <2>6, <3>1, <3>2 DEF OneSent
    <3> QED BY <1>1, <2>1, <3>3
  <2> QED BY <2>1, <2>7, <2>8
<1> QED BY <1>4, <1>5

-------------------------------------------------------------------------------
(***************************************************************************)
(* The steps after that                                                    *)
(***************************************************************************)

LEMMA StrayStays ==
  ASSUME FirstIsStray, Wanted(MOUSE)' <=> Wanted(MOUSE),
         ~(MOUSE \in irr' /\ serving' = MOUSE /\ stage' = "work"),
         UNCHANGED <<out, skip, g_MouseCycle, g_IsMousePacketReady>>
  PROVE  FirstIsStray'
BY DEF FirstIsStray, Buffered

LEMMA KeyboardWorkPackets ==
  ASSUME TypeInv, Idle, KeepsRequests, pc = "idle", ~disturbed, KeyboardWork,
         FirstIsStray, NoneSent \/ OneSent \/ TwoSent
  PROVE  (FirstIsStray /\ (NoneSent \/ OneSent \/ TwoSent))'
<1>1. serving = KEYBOARD /\ stage = "work" /\ stage' = "end" /\ serving' = serving
  BY HandlerOfLine DEF TypeInv, KeyboardWork, Work
<1>2. /\ ~out'.full /\ irr' = irr
      /\ UNCHANGED <<line, skip, g_MouseCycle, g_MousePacket, g_IsMousePacketReady, reports>>
  <2>1. irr' \subseteq irr /\ ~out'.full
    BY ReadRequests DEF TypeInv, KeyboardWork
  <2>2. irr \subseteq irr'
    BY SignalKeeps DEF KeyboardWork, InData
  <2> QED BY <2>1, <2>2 DEF KeyboardWork, mouseVars, packetVars
<1>3. ~Buffered /\ ~Buffered'
  BY <1>1, <1>2 DEF Idle, Wanted, Buffered
<1>4. ~skip => ~Wanted(MOUSE)
  BY <1>3 DEF FirstIsStray
<1>5. Wanted(MOUSE)' <=> Wanted(MOUSE)
  BY <1>1, <1>2, TwoLines DEF Wanted
<1>6. FirstIsStray'
  BY <1>1, <1>2, <1>4, <1>5, TwoLines DEF FirstIsStray
<1>7. (NoneSent \/ OneSent \/ TwoSent)'
  <2>1. Buffered' = Buffered /\ (Buffered => out' = out)
    BY <1>3 DEF Buffered
  <2> QED BY <1>2, <2>1, OthersKeepSent
<1> QED BY <1>6, <1>7

LEMMA MouseWorkPackets ==
  ASSUME TypeInv, KeepsRequests, MouseWork, FirstIsStray, NoneSent \/ OneSent \/ TwoSent
  PROVE  (FirstIsStray /\ (NoneSent \/ OneSent \/ TwoSent))'
<1>1. serving = MOUSE /\ stage = "work" /\ stage' = "end" /\ serving' = serving
  BY HandlerOfLine DEF TypeInv, MouseWork, Work
<1>2. ~out'.full /\ irr' \subseteq irr /\ UI_PS2Mouse_Handle(out.byte) /\ UNCHANGED line
  BY ReadRequests DEF TypeInv, MouseWork
<1>3. Wanted(MOUSE) /\ ~Wanted(MOUSE)' /\ ~Buffered'
  BY <1>1, <1>2 DEF FirstIsStray, Wanted, Buffered
<1>4. ~skip'
  BY <1>2 DEF UI_PS2Mouse_Handle
<1>5. FirstIsStray'
  BY <1>1, <1>3, <1>4 DEF FirstIsStray
<1>6. CASE skip
  <2>1. ~Buffered /\ ~g_IsMousePacketReady
    BY <1>6 DEF FirstIsStray, Buffered
  <2>2. UNCHANGED <<g_MouseCycle, g_MousePacket, reports>> /\ ~g_IsMousePacketReady'
    BY <1>2, <1>6, <2>1, PacketType
       DEF UI_PS2Mouse_Handle, UI_PS2Mouse_ProcessPacket, TypeInv
  <2>3. g_IsMousePacketReady' = g_IsMousePacketReady /\ Buffered' = Buffered
    <3>1. g_IsMousePacketReady' = FALSE /\ g_IsMousePacketReady = FALSE
      BY <1>2, <1>6, <2>1 DEF UI_PS2Mouse_Handle, TypeInv, MouseTypeOK
    <3>2. Buffered' <=> Buffered
      BY <1>3, <2>1
    <3> QED BY <3>1, <3>2 DEF Buffered
  <2>4. (NoneSent \/ OneSent \/ TwoSent)'
    BY <1>2, <2>1, <2>2, <2>3, OthersKeepSent
  <2> QED BY <1>5, <2>4
<1>7. CASE ~skip
  <2>1. Buffered
    BY <1>3, <1>7 DEF FirstIsStray
  <2>2. OneSent \/ TwoSent
    BY <2>1 DEF NoneSent
  <2>3. (NoneSent \/ OneSent)'
    BY <1>2, <1>3, <1>7, <2>1, <2>2, HandleSent
  <2> QED BY <1>5, <2>3
<1> QED BY <1>6, <1>7

LEMMA ArrivalPackets ==
  ASSUME TypeInv, pc = "idle", ~disturbed', Arrival, FirstIsStray, NoneSent \/ OneSent \/ TwoSent
  PROVE  (FirstIsStray /\ (NoneSent \/ OneSent \/ TwoSent))'
<1>1. ~out.full /\ ~Stray
  BY DEF Arrival, PutKey, PutMouse, Put
<1>2. ~Wanted(MOUSE) /\ ~skip
  BY <1>1, HandlerOfLine DEF Stray, Wanted, TypeInv, FirstIsStray
<1>3. UNCHANGED <<serving, stage, skip, g_MouseCycle, g_MousePacket, g_IsMousePacketReady, reports>>
  BY DEF Arrival, kernelVars, mouseVars, packetVars
<1>4. ~(MOUSE \in irr' /\ serving' = MOUSE /\ stage' = "work")
  BY <1>2, <1>3 DEF Wanted
<1>5. CASE PutKey
  <2>1. irr' \subseteq irr \cup {KEYBOARD} /\ ~out'.aux /\ UNCHANGED line
    BY <1>5, PutRequests DEF PutKey
  <2>2. ~Wanted(MOUSE)'
    BY <1>2, <1>3, <2>1, TwoLines DEF Wanted
  <2>3. FirstIsStray'
    BY <1>2, <1>3, <1>4, <2>2 DEF FirstIsStray
  <2>4. Buffered' = Buffered /\ ~Buffered
    BY <1>1, <2>1 DEF Buffered
  <2>5. (NoneSent \/ OneSent \/ TwoSent)'
    BY <1>3, <2>1, <2>4, OthersKeepSent
  <2> QED BY <2>3, <2>5
<1>6. CASE PutMouse
  <2>1. Buffered'
    BY <1>6 DEF PutMouse, Put, Buffered
  <2>2. FirstIsStray'
    BY <1>2, <1>3, <1>4, <2>1 DEF FirstIsStray
  <2>3. (OneSent \/ TwoSent)'
    BY <1>3, <1>6, PutSent
  <2> QED BY <2>2, <2>3
<1> QED BY <1>5, <1>6 DEF Arrival

LEMMA PacketsNext ==
  ASSUME StreamInv, Fresh, Acknowledged, Packets, [Next]_vars
  PROVE  Packets'
<1> SUFFICES ASSUME KeepsRequests, pc' = "idle", ~disturbed'
             PROVE  (FirstIsStray /\ (NoneSent \/ OneSent \/ TwoSent))'
  BY DEF Packets
<1> USE DEF StreamInv
<1>1. ~disturbed
  BY Forward
<1>2. CASE EnableInterrupts
  BY <1>2, StartPackets DEF Packets
<1>3. CASE ~EnableInterrupts
  <2>1. pc = "idle" /\ FirstIsStray /\ (NoneSent \/ OneSent \/ TwoSent)
    BY <1>1, <1>3, StaysIdle DEF Packets
  <2>2. CASE KeyboardWork \/ MouseWork \/ Arrival
    BY <1>1, <2>1, <2>2, KeyboardWorkPackets, MouseWorkPackets, ArrivalPackets
  <2>3. ASSUME Wanted(MOUSE)' <=> Wanted(MOUSE),
               ~(MOUSE \in irr' /\ serving' = MOUSE /\ stage' = "work"),
               UNCHANGED <<out, line, mouseVars>>
        PROVE  (FirstIsStray /\ (NoneSent \/ OneSent \/ TwoSent))'
    <3>1. UNCHANGED <<out, line, skip, g_MouseCycle, g_MousePacket, g_IsMousePacketReady, reports>>
      BY <2>3 DEF mouseVars, packetVars
    <3>2. Buffered' = Buffered
      BY <3>1 DEF Buffered
    <3> QED BY <2>1, <2>3, <3>1, <3>2, StrayStays, OthersKeepSent
  <2>4. CASE Enter
    <3>1. serving = NoLine /\ serving' = Delivered /\ stage' = "work" /\ irr' = irr \ {Delivered}
      BY <2>4 DEF Enter, Acknowledge
    <3>2. Delivered \in irr
      BY <2>1, <2>4, DeliveredIsServed DEF TypeInv, GateInv, Enter
    <3>3. Wanted(MOUSE)' <=> Wanted(MOUSE)
      BY <3>1, <3>2, TwoLines DEF Wanted
    <3> QED BY <2>3, <2>4, <3>1, <3>3 DEF Enter, ps2Vars
  <2>5. CASE INT_PIT_Handler \/ EndWork
    <3>1. /\ serving' = NoLine /\ irr' = irr /\ UNCHANGED <<out, line, mouseVars>>
          /\ serving # MOUSE \/ stage = "end"
      BY <2>5, HandlerOfLine, TwoLines DEF INT_PIT_Handler, EndWork, ps2Vars, TypeInv
    <3>2. Wanted(MOUSE)' <=> Wanted(MOUSE)
      BY <3>1, TwoLines DEF Wanted
    <3> QED BY <2>3, <3>1, <3>2, TwoLines
  <2>6. CASE RaiseTimer \/ RaiseOther \/ UNCHANGED vars
    <3>1. /\ irr' \subseteq irr \cup {TIMER, DISK} /\ irr \subseteq irr'
          /\ UNCHANGED <<out, line, mouseVars, serving, stage>>
      BY <2>6 DEF RaiseTimer, RaiseOther, vars, interruptVars, ps2Vars, kernelVars
    <3>2. MOUSE \in irr' <=> MOUSE \in irr
      BY <3>1, TwoLines
    <3> QED BY <2>1, <2>3, <3>1, <3>2 DEF Wanted, FirstIsStray
  <2>7. CASE Controller
    <3>1. Taken /\ reply = <<>>
      BY <1>1, <2>1 DEF Idle
    <3>2. ibuf.port \notin {DATA, STATUS_COMMAND}
      BY <3>1, Ports, Commands
    <3> QED BY <2>7, <3>1, <3>2
            DEF Controller, Take, TakeCommand, TakeConfig, TakeMouseCommand, TakeKeyboardCommand, PutReply
  <2>8. ASSUME NEW c \in Codes, PressKey(c)
        PROVE  (FirstIsStray /\ (NoneSent \/ OneSent \/ TwoSent))'
    <3>1. UNCHANGED <<out, line, mouseVars, irr, serving, stage>>
      BY <2>8 DEF PressKey, interruptVars, kernelVars
    <3> QED BY <2>1, <2>3, <3>1 DEF Wanted, FirstIsStray
  <2>9. ASSUME NEW m \in Movements, Report(m)
        PROVE  (FirstIsStray /\ (NoneSent \/ OneSent \/ TwoSent))'
    <3>1. UNCHANGED <<out, irr, serving, stage, skip, g_MouseCycle, g_IsMousePacketReady>>
      BY <2>9 DEF Report, interruptVars, kernelVars, packetVars
    <3>2. FirstIsStray'
      BY <2>1, <3>1, StrayStays DEF Wanted, FirstIsStray
    <3> QED BY <2>1, <2>9, <3>2, ReportSent
  <2>10. ~InitializeInterrupts /\ ~InitWrite /\ ~InitRead
    BY <2>1 DEF InitializeInterrupts, InitWrite, InitRead
  <2> QED BY <1>3, <2>2, <2>4, <2>5, <2>6, <2>7, <2>8, <2>9, <2>10 DEF Next, Kernel
<1> QED BY <1>2, <1>3

-------------------------------------------------------------------------------

PacketInv == StreamInv /\ Fresh /\ Acknowledged /\ Packets

LEMMA PacketInit == Init => PacketInv
<1> SUFFICES ASSUME Init PROVE PacketInv
  OBVIOUS
<1>1. pc = "interrupts" /\ skip /\ g_MouseCycle = 0 /\ ~g_IsMousePacketReady /\ reports = <<>>
  BY DEF Init, InitMouse, SkipFirst
<1> QED BY <1>1, StreamInit DEF PacketInv, Fresh, Acknowledged, Packets

LEMMA PacketNext == PacketInv /\ [Next]_vars => PacketInv'
BY StreamNext, FreshNext, AcknowledgedNext, PacketsNext DEF PacketInv, StreamInv

LEMMA ReadyPacket ==
  ASSUME PacketInv, KeepsRequests, ~disturbed, g_IsMousePacketReady
  PROVE  \E d \in Movements : /\ reports # <<>> /\ Head(reports) = d /\ g_MousePacket = Encode(d)
                              /\ pc = "idle"
<1>1. pc = "idle" /\ (NoneSent \/ OneSent \/ TwoSent)
  BY DEF PacketInv, Fresh, Packets
<1>2. CASE NoneSent
  BY <1>1, <1>2, Shifts DEF NoneSent
<1>3. CASE OneSent
  BY <1>1, <1>3, Shifts DEF OneSent
<1> QED BY <1>1, <1>2, <1>3 DEF TwoSent

\* However the reports of the mouse are cut up by keys, by late interrupts and by
\* the reports that follow: as long as no byte came where none was expected, a
\* packet UI_PS2Mouse_ProcessPacket takes for ready holds the three bytes of the
\* oldest report that was not carried out, and nothing of another.
THEOREM PacketsStayInStep == KeepsRequests => (Spec => []PacketsInStep)
<1> SUFFICES ASSUME KeepsRequests PROVE Spec => []PacketsInStep
  OBVIOUS
<1>1. PacketInv => PacketsInStep
  BY ReadyPacket DEF PacketsInStep
<1> QED BY <1>1, PacketInit, PacketNext, PTL DEF Spec

LEMMA PointerStep ==
  ASSUME KeepsRequests, \A m \in Movements : Sendable(m), PacketInv, [Next]_vars
  PROVE  [disturbed' \/ PointerSpec!Next]_<<reports, MousePosition>>
<1> SUFFICES ASSUME ~disturbed' PROVE PointerSpec!Next \/ UNCHANGED <<reports, MousePosition>>
  OBVIOUS
<1>1. ~disturbed
  BY Forward DEF PacketInv, StreamInv
<1>2. ASSUME NEW m \in Movements, Report(m)
      PROVE  PointerSpec!Next
  <2>1. pc = "idle"
    BY <1>2 DEF Report
  <2>2. NoneSent \/ OneSent \/ TwoSent
    BY <1>1, <2>1 DEF PacketInv, Packets
  <2>3. Len(reports) < 2
    BY <1>2, <2>1, <2>2, ReportSent DEF PacketInv, StreamInv
  <2> QED BY <1>2, <2>3 DEF Report, PointerSpec!Next, PointerSpec!Report
<1>3. CASE MouseWork
  <2>1. UI_PS2Mouse_ProcessPacket
    BY <1>3 DEF MouseWork, UI_PS2Mouse_Handle
  <2>2. CASE g_IsMousePacketReady
    <3>1. PICK d \in Movements : reports # <<>> /\ Head(reports) = d /\ g_MousePacket = Encode(d)
      BY <1>1, <2>2, ReadyPacket
    <3>2. MousePosition' = Place(MousePosition, Encode(d)) /\ reports' = Tail(reports)
      BY <2>1, <2>2, <3>1 DEF UI_PS2Mouse_ProcessPacket
    <3>3. MousePosition' = MovedBy(MousePosition, Head(reports))
      BY <3>1, <3>2, PlaceOfReport
    <3> QED BY <3>1, <3>2, <3>3 DEF PointerSpec!Next, PointerSpec!CarryOut
  <2>3. CASE ~g_IsMousePacketReady
    BY <2>1, <2>3 DEF UI_PS2Mouse_ProcessPacket
  <2> QED BY <2>2, <2>3
<1>4. ASSUME UNCHANGED mouseVars PROVE UNCHANGED <<reports, MousePosition>>
  BY <1>4 DEF mouseVars
<1>5. CASE InitializeInterrupts \/ InitWrite \/ InitRead \/ EnableInterrupts \/ Enter \/ KeyboardWork
             \/ INT_PIT_Handler \/ EndWork
  BY <1>4, <1>5 DEF InitializeInterrupts, InitWrite, InitRead, EnableInterrupts, Enter, KeyboardWork,
                    INT_PIT_Handler, EndWork
<1>6. CASE Arrival \/ Controller \/ RaiseTimer \/ RaiseOther \/ UNCHANGED vars
  BY <1>4, <1>6 DEF Arrival, Controller, RaiseTimer, RaiseOther, vars
<1>7. ASSUME NEW c \in Codes, PressKey(c) PROVE UNCHANGED <<reports, MousePosition>>
  BY <1>4, <1>7 DEF PressKey
<1> QED BY <1>2, <1>3, <1>5, <1>6, <1>7 DEF Next, Kernel

\* The handler implements Pointer: whatever the mouse reports (but -256, which
\* UI_PS2Mouse_ProcessPacket takes for 0), every movement moves the pointer once, in
\* order and by its distance, with at most one behind.
THEOREM PointerFollows ==
  KeepsRequests /\ (\A m \in Movements : Sendable(m)) => (Spec => MovesPointer)
<1> SUFFICES ASSUME KeepsRequests, \A m \in Movements : Sendable(m) PROVE Spec => MovesPointer
  OBVIOUS
<1>1. PacketInv /\ [Next]_vars => [disturbed' \/ PointerSpec!Next]_<<reports, MousePosition>>
  BY PointerStep
<1> QED BY <1>1, PacketInit, PacketNext, PTL DEF Spec, MovesPointer
===============================================================================
