--------------------------------- MODULE Mouse ---------------------------------
(***************************************************************************)
(* The mouse handler of userinput/mouse.c: what UI_PS2Mouse_Handle makes   *)
(* of the bytes it is given.  It puts the three bytes of a report together *)
(* again and looks at a packet when the byte behind it arrives.  The very  *)
(* first byte it is given is dropped.                                      *)
(***************************************************************************)
EXTENDS Bytes, Sequences

CONSTANTS
  Width, Height,   \* the screen, in pixels
  Start,           \* the coordinate the pointer starts with, 100
  Movements        \* the <<right, up>> movements the mouse may report

VARIABLES
  skip,
  g_MouseCycle,
  g_MousePacket,
  g_IsMousePacketReady,
  MousePosition,
  reports     \* history: the movements reported and not yet carried out

packetVars == <<skip, g_MouseCycle, g_MousePacket, g_IsMousePacketReady>>
mouseVars == <<packetVars, MousePosition, reports>>

ASSUME MouseAssumption ==
  /\ Width \in Nat /\ Height \in Nat /\ Start \in Nat
  /\ Start <= Width - 8 /\ Start <= Height - 16
  /\ Movements \subseteq (-256 .. 255) \X (-256 .. 255)

Anywhere(n, low, high) == n                         \* mutant: no bounds
Between(n, low, high) == IF n < low THEN low ELSE IF n > high THEN high ELSE n

-------------------------------------------------------------------------------
(***************************************************************************)
(* The mouse.  A report has 9 bits in each direction, the signs in its     *)
(* first byte, where bit 3 is always set.                                  *)
(***************************************************************************)

Flag(set, value) == IF set THEN value ELSE 0

Encode(m) ==
  <<8 + Flag(m[1] < 0, 16) + Flag(m[2] < 0, 32), m[1] % 256, m[2] % 256>>

-------------------------------------------------------------------------------
(***************************************************************************)
(* UI_PS2Mouse_ProcessPacket.                                              *)
(***************************************************************************)

\* 256 - byte, stored in a byte again.
Negated(b) == (256 - b) % 256

\* How far one direction moves, and what overflow adds to it.
NoSign(neg, ovf, b, extra) == b + Flag(ovf, extra)  \* mutant: the sign is ignored
Distance(neg, ovf, b, extra) ==
  IF neg THEN -(Negated(b) + Flag(ovf, extra)) ELSE b + Flag(ovf, extra)

\* Where the packet takes the pointer.
Place(pos, p) ==
  [x |-> Between(pos.x + Distance(Bit(p[1], 16), Bit(p[1], 64), p[2], 255 * 2), 0, Width - 8),
   y |-> Between(pos.y - Distance(Bit(p[1], 32), Bit(p[1], 128), p[3], 255), 0, Height - 16)]

\* The packet after the negative movements in it were negated in place.
Normalised(p) ==
  <<p[1], IF Bit(p[1], 16) THEN Negated(p[2]) ELSE p[2],
          IF Bit(p[1], 32) THEN Negated(p[3]) ELSE p[3]>>

-------------------------------------------------------------------------------

SkipNothing == FALSE                                \* mutant: no byte is dropped
SkipFirst == TRUE

InitMouse ==
  /\ skip = SkipFirst
  /\ g_MouseCycle = 0
  /\ g_MousePacket = <<0, 0, 0>>
  /\ g_IsMousePacketReady = FALSE
  /\ MousePosition = [x |-> Start, y |-> Start]
  /\ reports = <<>>

UI_PS2Mouse_ProcessPacket ==
  \/ /\ g_IsMousePacketReady
     /\ MousePosition' = Place(MousePosition, g_MousePacket)
     /\ reports' = IF reports = <<>> THEN <<>> ELSE Tail(reports)
  \/ /\ ~g_IsMousePacketReady
     /\ UNCHANGED <<MousePosition, reports>>

\* The packet a byte is added to: the processing above has left it free.
Packet == IF g_IsMousePacketReady THEN Normalised(g_MousePacket) ELSE g_MousePacket

\* The first byte of a packet must have bit 3 set, or it is dropped.
Dropped(data) == g_MouseCycle = 0 /\ ~Bit(data, 8)

Complete == g_MouseCycle = 2

\* The switch over g_MouseCycle.
Collect(data) ==
  \/ /\ Dropped(data)
     /\ g_MousePacket' = Packet
     /\ g_IsMousePacketReady' = FALSE
     /\ UNCHANGED g_MouseCycle
  \/ /\ ~Dropped(data)
     /\ g_MousePacket' = [Packet EXCEPT ![g_MouseCycle + 1] = data]
     /\ g_IsMousePacketReady' = Complete
     /\ g_MouseCycle' = (g_MouseCycle + 1) % 3

UI_PS2Mouse_Handle(data) ==
  /\ UI_PS2Mouse_ProcessPacket
  /\ \/ /\ skip
        /\ skip' = FALSE
        /\ g_MousePacket' = Packet
        /\ g_IsMousePacketReady' = FALSE
        /\ UNCHANGED g_MouseCycle
     \/ /\ ~skip
        /\ Collect(data)
        /\ UNCHANGED skip

-------------------------------------------------------------------------------

MouseTypeOK ==
  /\ skip \in BOOLEAN
  /\ g_MouseCycle \in 0 .. 2
  /\ g_MousePacket \in Byte \X Byte \X Byte
  /\ g_IsMousePacketReady \in BOOLEAN
  /\ MousePosition \in [x : 0 .. (Width - 8), y : 0 .. (Height - 16)]
  /\ reports \in Seq(Movements)

\* The place a movement stands for, whatever bytes it is sent in.
MovedBy(pos, m) ==
  [x |-> Between(pos.x + m[1], 0, Width - 8), y |-> Between(pos.y - m[2], 0, Height - 16)]

PointerSpec == INSTANCE Pointer WITH
                 Places <- [x : 0 .. (Width - 8), y : 0 .. (Height - 16)],
                 Moved <- MovedBy,
                 position <- MousePosition
===============================================================================
