--------------------------------- MODULE Input ---------------------------------
(***************************************************************************)
(* From the set-up of the interrupts to the idle loop: _start in kernel.c  *)
(* with UI_PS2Mouse_Init, the three handlers of interrupts.c, and the      *)
(* controllers and devices they talk to, which work at their own pace.     *)
(*                                                                         *)
(* Interrupts are off until _start enables them and while a handler runs.  *)
(* A handler is three steps: it is entered, it does its work (with the     *)
(* read of port 0x60 first), it acknowledges.                              *)
(*                                                                         *)
(* The code has no defence against a byte in the wrong place: a byte that  *)
(* arrives while UI_PS2Mouse_Init talks to the controller, an answer that  *)
(* comes after a wait was given up, or a byte that arrives while a request *)
(* without a byte is still to be served.  disturbed remembers the first of *)
(* these; the bytes are only claimed to be handled right until then.       *)
(***************************************************************************)
EXTENDS PS2Controller, Mouse, Timer

CONSTANTS
  Codes,        \* the scan codes the keyboard may send
  MaxKeys,      \* bound: the keys pressed
  MaxReports,   \* bound: the movements reported
  MaxTicks      \* bound: the ticks of the timer

VARIABLES
  pc, step,      \* where _start is, and where in UI_PS2Mouse_Init
  status,        \* its local variable
  serving,       \* the line whose handler runs, or NoLine
  stage,         \* "work" or "end"
  typed,         \* history: the codes the keyboard has sent
  handled,       \* history: the codes UI_Handle_Keyboard was given
  reported,      \* history: the number of movements reported
  ticks,         \* history: the ticks of the timer
  disturbed      \* history: see above

kernelVars == <<pc, step, status, serving, stage>>
historyVars == <<typed, handled, reported, ticks, disturbed>>
vars == <<interruptVars, ps2Vars, mouseVars, timerVars, kernelVars, historyVars>>

ASSUME InputAssumption ==
  /\ Codes \subseteq Byte \ {PS2_ACK}
  /\ MaxKeys \in Nat /\ MaxReports \in Nat /\ MaxTicks \in Nat

NoLine == -1
TIMER == 0
DISK == 14     \* a disk, say: a line nobody handles

Init ==
  /\ imr \in FirmwareMasks /\ irr = {} /\ isr = {} /\ vectors = <<8, 112>>
  /\ InitPS2 /\ InitMouse /\ InitTimer
  /\ pc = "interrupts" /\ step = 1 /\ status = 0
  /\ serving = NoLine /\ stage = "work"
  /\ typed = <<>> /\ handled = <<>> /\ reported = 0 /\ ticks = 0
  /\ disturbed = FALSE

-------------------------------------------------------------------------------
(***************************************************************************)
(* _start                                                                  *)
(***************************************************************************)

InitializeInterrupts ==
  /\ pc = "interrupts" /\ pc' = "mouse"
  /\ PIT_SetDivisor(2000)
  /\ INT_PIC_Remap(32, 40)
  /\ UNCHANGED <<ps2Vars, mouseVars, TimeSinceBoot, step, status, serving, stage, historyVars>>

Write(port, value) == [write |-> TRUE, port |-> port, value |-> value]
Read == [write |-> FALSE, port |-> DATA, value |-> 0]

\* UI_PS2Mouse_Init: its writes, each after MouseWait, and its reads, each after
\* MouseWaitInput.  Step 5 writes the configuration read in step 3.
Steps ==
  <<Write(STATUS_COMMAND, ENABLE_AUX),
    Write(STATUS_COMMAND, READ_CONFIG), Read,
    Write(STATUS_COMMAND, WRITE_CONFIG), Write(DATA, 0),
    Write(STATUS_COMMAND, WRITE_AUX), Write(DATA, SET_DEFAULTS), Read,
    Write(STATUS_COMMAND, WRITE_AUX), Write(DATA, ENABLE_REPORTS), Read>>

NextStep ==
  /\ step' = step + 1
  /\ pc' = IF step = Len(Steps) THEN "masks" ELSE pc

NotAdded(b) == b                                    \* mutant: interrupts of the mouse stay off
WithMouseInterrupt(b) == IF MouseInterrupt(b) THEN b ELSE b + 2

\* MouseWait ends when there is room in the input buffer, or is given up.  Bound:
\* it is given up once, as the first thing that goes wrong.
InitWrite ==
  /\ pc = "mouse" /\ Steps[step].write
  /\ ibuf = None \/ ~disturbed
  /\ disturbed' = (disturbed \/ ibuf # None)
  /\ OutByte(Steps[step].port, IF step = 5 THEN status ELSE Steps[step].value)
  /\ NextStep
  /\ UNCHANGED <<interruptVars, out, config, expects, reply, keys, line, reporting, mouseVars,
                 timerVars, status, serving, stage, typed, handled, reported, ticks>>

\* MouseWaitInput ends when there is a byte in the output buffer, or is given up.
InitRead ==
  /\ pc = "mouse" /\ ~Steps[step].write
  /\ InData
  /\ status' = IF step = 3 THEN WithMouseInterrupt(out.byte) ELSE status
  /\ disturbed' = (disturbed \/ ~out.full)
  /\ NextStep
  /\ UNCHANGED <<ibuf, expects, reply, keys, line, reporting, mouseVars, timerVars,
                 serving, stage, typed, handled, reported, ticks>>

EnableInterrupts ==
  /\ pc = "masks" /\ pc' = "idle"
  /\ imr' = Masks
  /\ UNCHANGED <<irr, isr, vectors, ps2Vars, mouseVars, timerVars, step, status, serving, stage,
                 historyVars>>

-------------------------------------------------------------------------------
(***************************************************************************)
(* The handlers                                                            *)
(***************************************************************************)

Enter ==
  /\ pc = "idle" /\ serving = NoLine
  /\ MasterRequests # {}
  /\ Acknowledge(Delivered)
  /\ serving' = Delivered /\ stage' = "work"
  /\ UNCHANGED <<ps2Vars, mouseVars, timerVars, pc, step, status, historyVars>>

Handler == IF serving = NoLine THEN "none" ELSE Gate(Vector(serving))

Work(h) == Handler = h /\ stage = "work" /\ stage' = "end"

\* A code UI_Handle_Keyboard knows reaches the console; it ignores the rest.
KeyboardWork ==
  /\ Work("keyboard")
  /\ InData
  /\ handled' = IF out.byte \in Codes THEN Append(handled, out.byte) ELSE handled
  /\ UNCHANGED <<ibuf, expects, reply, keys, line, reporting, mouseVars, timerVars,
                 pc, step, status, serving, typed, reported, ticks, disturbed>>

MouseWork ==
  /\ Work("mouse")
  /\ InData
  /\ UI_PS2Mouse_Handle(out.byte)
  /\ UNCHANGED <<ibuf, expects, reply, keys, line, reporting, timerVars,
                 pc, step, status, serving, historyVars>>

\* What the timer's handler does touches nothing the devices change.
INT_PIT_Handler ==
  /\ Handler = "timer"
  /\ PIT_Tick
  /\ INT_PIC_EndMaster
  /\ serving' = NoLine
  /\ UNCHANGED <<imr, irr, vectors, ps2Vars, mouseVars, g_Divisor, reload, pc, step, status, stage,
                 historyVars>>

EndWork ==
  /\ Handler \in {"keyboard", "mouse"} /\ stage = "end"
  /\ IF Handler = "mouse" THEN INT_PIC_EndSlave ELSE INT_PIC_EndMaster
  /\ serving' = NoLine
  /\ UNCHANGED <<imr, irr, vectors, ps2Vars, mouseVars, timerVars, pc, step, status, stage,
                 historyVars>>

Kernel ==
  InitializeInterrupts \/ InitWrite \/ InitRead \/ EnableInterrupts
    \/ Enter \/ KeyboardWork \/ MouseWork \/ INT_PIT_Handler \/ EndWork

-------------------------------------------------------------------------------
(***************************************************************************)
(* The devices                                                             *)
(***************************************************************************)

PressKey(c) ==
  /\ Len(typed) < MaxKeys
  /\ keys' = Append(keys, c)
  /\ typed' = Append(typed, c)
  /\ UNCHANGED <<interruptVars, out, ibuf, config, expects, reply, line, reporting, mouseVars,
                 timerVars, kernelVars, handled, reported, ticks, disturbed>>

\* The mouse reports a movement when the last report has left it.
Report(m) ==
  /\ reporting /\ line = <<>> /\ reported < MaxReports
  /\ line' = Encode(m)
  /\ reports' = Append(reports, m)
  /\ reported' = reported + 1
  /\ disturbed' = (disturbed \/ pc # "idle")
  /\ UNCHANGED <<interruptVars, out, ibuf, config, expects, reply, keys, reporting, packetVars,
                 MousePosition, timerVars, kernelVars, typed, handled, ticks>>

\* Is there a request, or a handler on its way, that finds no byte?
Stray ==
  /\ ~out.full
  /\ \/ irr \cap {KEYBOARD, MOUSE} # {}
     \/ Handler \in {"keyboard", "mouse"} /\ stage = "work"

Arrival ==
  /\ \/ /\ PutKey
        /\ disturbed' = (disturbed \/ pc # "idle" \/ Stray)
     \/ /\ PutMouse
        /\ disturbed' = (disturbed \/ (pc = "idle" /\ Stray))
  /\ UNCHANGED <<mouseVars, timerVars, kernelVars, typed, handled, reported, ticks>>

Controller ==
  /\ Take \/ PutReply
  /\ UNCHANGED <<mouseVars, timerVars, kernelVars, historyVars>>

\* These lines rise at any time; a request from before interrupts are enabled is
\* not told from one at that moment.
RaiseTimer ==
  /\ pc = "idle" /\ ticks < MaxTicks
  /\ ticks' = ticks + 1
  /\ irr' = irr \cup {TIMER}
  /\ UNCHANGED <<imr, isr, vectors, ps2Vars, mouseVars, timerVars, kernelVars,
                 typed, handled, reported, disturbed>>

RaiseOther ==
  /\ pc = "idle"
  /\ irr' = irr \cup {DISK}
  /\ UNCHANGED <<imr, isr, vectors, ps2Vars, mouseVars, timerVars, kernelVars, historyVars>>

Next ==
  \/ Kernel
  \/ Arrival \/ Controller
  \/ \E c \in Codes : PressKey(c)
  \/ \E m \in Movements : Report(m)
  \/ RaiseTimer \/ RaiseOther

\* The processor goes on, and the controller takes what it is written; whether
\* the devices do anything is left open.
Spec == Init /\ [][Next]_vars /\ WF_vars(Kernel) /\ WF_vars(Controller)

-------------------------------------------------------------------------------
(***************************************************************************)
(* Properties                                                              *)
(***************************************************************************)

TypeOK ==
  /\ {imr, irr, isr} \subseteq SUBSET (Master \cup Slave)
  /\ PS2TypeOK
  /\ MouseTypeOK
  /\ TimeSinceBoot \in 0 .. ticks
  /\ pc \in {"interrupts", "mouse", "masks", "idle"}
  /\ step \in 1 .. Len(Steps) + 1
  /\ status \in Byte
  /\ serving \in {NoLine} \cup Master \cup Slave
  /\ stage \in {"work", "end"}
  /\ typed \in Seq(Codes) /\ handled \in Seq(Codes)
  /\ disturbed \in BOOLEAN

\* Whatever lines are raised, before and after interrupts are enabled, and
\* whatever mask INT_PIC_Remap left: the processor only enters gates that
\* InitializeInterrupts has set.
OnlyGatesEntered == serving # NoLine => Handler # "none"

\* Every code the keyboard sends is handled once and in order: what was handled,
\* what is in the buffer and what is on its way is what was typed.
InBuffer == IF pc = "idle" /\ out.full /\ ~out.aux THEN <<out.byte>> ELSE <<>>
KeysHandledOnce == ~disturbed => typed = handled \o InBuffer \o keys

Enabled(c) == IF MouseInterrupt(c) THEN c ELSE c + 2

\* When interrupts are enabled, the mouse reports and its interrupts are on, and
\* the keyboard's interrupts are what the firmware had them be.
MouseEnabled ==
  pc = "idle" /\ ~disturbed => reporting /\ config \in {Enabled(WithoutBit5(c)) : c \in FirmwareConfigs}

\* The handler never joins the end of one report and the beginning of the next.
PacketsInStep ==
  ~disturbed /\ g_IsMousePacketReady => reports # <<>> /\ g_MousePacket = Encode(Head(reports))

\* Every movement moves the pointer, once, in order, by the distance reported,
\* and at most one is outstanding when the next is made.
MovesPointer == [][disturbed' \/ PointerSpec!Next]_<<reports, MousePosition>>

\* A byte that raises its interrupt is read in the end, whenever it comes and
\* even if the initialisation was disturbed.
BytesAreRead == Lines(out, config) # {} ~> Lines(out, config) = {}
===============================================================================
