----------------------------- MODULE PS2Controller -----------------------------
(***************************************************************************)
(* The controller the keyboard and the mouse share (8042), and the two     *)
(* devices, as userinput/mouse.c and the interrupt handlers use them.  The *)
(* output buffer holds one byte of either device or of the controller;     *)
(* reading it again when it is empty returns the same byte.  The input     *)
(* buffer holds one byte written to port 0x64 or 0x60.                     *)
(***************************************************************************)
EXTENDS Bytes, Interrupts, Sequences

CONSTANTS
  FirmwareConfigs   \* the configurations the firmware may leave

VARIABLES
  out,        \* the output buffer
  ibuf,       \* the input buffer
  config,     \* the controller's configuration byte
  expects,    \* the command that waits for its data byte, or 0
  reply,      \* what the controller has still to answer
  keys,       \* what the keyboard has still to send
  line,       \* what the mouse has still to send
  reporting   \* does the mouse report movements?

ps2Vars == <<out, ibuf, config, expects, reply, keys, line, reporting>>

ASSUME PS2Assumption ==
  FirmwareConfigs \subseteq Byte

KEYBOARD == 1
MOUSE == 12

STATUS_COMMAND == 100       \* port 0x64
DATA == 96                  \* port 0x60
None == [port |-> 0, value |-> 0]

ENABLE_AUX == 168           \* 0xA8
READ_CONFIG == 32           \* 0x20
WRITE_CONFIG == 96          \* 0x60
WRITE_AUX == 212            \* 0xD4
SET_DEFAULTS == 246         \* 0xF6
ENABLE_REPORTS == 244       \* 0xF4
PS2_ACK == 250

\* The bits of the configuration.
KeyboardInterrupt(c) == Bit(c, 1)
MouseInterrupt(c) == Bit(c, 2)
KeyboardOff(c) == Bit(c, 16)
MouseOff(c) == Bit(c, 32)
WithoutBit5(c) == IF Bit(c, 32) THEN c - 32 ELSE c

\* The interrupt lines the controller holds up.
Lines(o, c) ==
  (IF o.full /\ ~o.aux /\ KeyboardInterrupt(c) THEN {KEYBOARD} ELSE {})
    \cup (IF o.full /\ o.aux /\ MouseInterrupt(c) THEN {MOUSE} ELSE {})

Signal ==
  /\ irr' = Requests(Lines(out, config), Lines(out', config'))
  /\ UNCHANGED <<imr, isr, vectors>>

InitPS2 ==
  /\ out = [full |-> FALSE, aux |-> FALSE, byte |-> 0]
  /\ ibuf = None
  /\ config \in FirmwareConfigs
  /\ expects = 0
  /\ reply = <<>> /\ keys = <<>> /\ line = <<>>
  /\ reporting \in BOOLEAN

-------------------------------------------------------------------------------
(***************************************************************************)
(* The processor's accesses                                                *)
(***************************************************************************)

\* A byte written while the last was not taken replaces it.
OutByte(port, value) == ibuf' = [port |-> port, value |-> value]

InData == out' = [out EXCEPT !.full = FALSE] /\ UNCHANGED config /\ Signal

-------------------------------------------------------------------------------
(***************************************************************************)
(* The controller                                                          *)
(***************************************************************************)

TakeCommand ==
  /\ ibuf.port = STATUS_COMMAND
  /\ ibuf' = None
  /\ config' = IF ibuf.value = ENABLE_AUX THEN WithoutBit5(config) ELSE config
  /\ reply' = IF ibuf.value = READ_CONFIG THEN Append(reply, config) ELSE reply
  /\ expects' = IF ibuf.value \in {WRITE_CONFIG, WRITE_AUX} THEN ibuf.value ELSE 0
  /\ UNCHANGED <<out, keys, line, reporting>>
  /\ Signal

TakeConfig ==
  /\ ibuf.port = DATA /\ expects = WRITE_CONFIG
  /\ config' = ibuf.value
  /\ ibuf' = None /\ expects' = 0
  /\ UNCHANGED <<out, reply, keys, line, reporting>>
  /\ Signal

\* The mouse gives up what it was sending, and acknowledges.
TakeMouseCommand ==
  /\ ibuf.port = DATA /\ expects = WRITE_AUX
  /\ reporting' = (IF ibuf.value = SET_DEFAULTS THEN FALSE
                   ELSE ibuf.value = ENABLE_REPORTS \/ reporting)
  /\ line' = <<PS2_ACK>>
  /\ ibuf' = None /\ expects' = 0
  /\ UNCHANGED <<out, config, reply, keys, interruptVars>>

\* What no command asked for goes to the keyboard.
TakeKeyboardCommand ==
  /\ ibuf.port = DATA /\ expects = 0
  /\ keys' = <<PS2_ACK>>
  /\ ibuf' = None
  /\ UNCHANGED <<out, config, expects, reply, line, reporting, interruptVars>>

Take == TakeCommand \/ TakeConfig \/ TakeMouseCommand \/ TakeKeyboardCommand

\* A byte gets into the output buffer, which must be empty.
Put(aux, byte) ==
  /\ ~out.full
  /\ out' = [full |-> TRUE, aux |-> aux, byte |-> byte]
  /\ UNCHANGED <<ibuf, config, expects, reporting>>
  /\ Signal

PutReply ==
  /\ reply # <<>>
  /\ Put(FALSE, Head(reply))
  /\ reply' = Tail(reply)
  /\ UNCHANGED <<keys, line>>

PutKey ==
  /\ keys # <<>> /\ ~KeyboardOff(config)
  /\ Put(FALSE, Head(keys))
  /\ keys' = Tail(keys)
  /\ UNCHANGED <<reply, line>>

PutMouse ==
  /\ line # <<>> /\ ~MouseOff(config)
  /\ Put(TRUE, Head(line))
  /\ line' = Tail(line)
  /\ UNCHANGED <<reply, keys>>

-------------------------------------------------------------------------------

PS2TypeOK ==
  /\ out \in [full : BOOLEAN, aux : BOOLEAN, byte : Byte]
  /\ ibuf \in [port : {0, DATA, STATUS_COMMAND}, value : Byte]
  /\ config \in Byte
  /\ expects \in {0, WRITE_CONFIG, WRITE_AUX}
  /\ reply \in Seq(Byte) /\ keys \in Seq(Byte) /\ line \in Seq(Byte)
  /\ reporting \in BOOLEAN
===============================================================================
