----------------------------- MODULE KernelConsole -----------------------------
(***************************************************************************)
(* Everybody who writes on the screen: the prints of _start, the keyboard  *)
(* handler and the mouse handler.  _start prints with interrupts off, then *)
(* enables them (kernel.c:104), prints one more line and halts for ever.   *)
(* That last print is modelled access by access to the cursor, since a     *)
(* handler may run between any two; a handler is one step.                 *)
(*                                                                         *)
(* The code is compiled without optimisation: every use of the cursor      *)
(* reads it again, and adding to it is a read and a write.                 *)
(***************************************************************************)
EXTENDS Console, Sequences

CONSTANTS
  Early,         \* the characters _start may print with interrupts off
  LastMessage,   \* what it prints with interrupts on
  Keys,          \* the scan codes of the keys pressed, other than the shifts
  Shifts,        \* the scan codes of the shift keys used
  Places,        \* the places the mouse handler may draw the pointer at
  BehindTable,   \* the bytes that may follow UI_KB_QWERTY_ASCIITable
  MaxEarly, MaxEvents   \* bounds: the early characters; the keys and mouse moves

VARIABLES
  con,          \* the console
  pc,           \* where _start is
  msg,          \* the characters it has still to print
  row, col,     \* y and x of BG_PutChar: the pixel it draws next
  tmp,          \* the coordinate read and not yet written back
  g_IsLeftShiftPressed,
  g_IsRightShiftPressed,
  line,         \* the scan codes in the keyboard
  held,         \* the shift keys held down
  meant,        \* history: for each code in the line, was a shift key held?
  quiet,        \* history: has no key come within the last print?
  stale,        \* history: has the text changed while the pointer was shown?
  early, keys, moves   \* counters, up to the bounds

printing == <<pc, msg, row, col, tmp, early>>
keyboard == <<g_IsLeftShiftPressed, g_IsRightShiftPressed, line, held, meant, keys>>
vars == <<con, printing, keyboard, quiet, stale, moves>>

UI_KB_LEFT_SHIFT == 42
UI_KB_RIGHT_SHIFT == 54
UI_KB_ENTER == 28
UI_KB_BACKSPACE == 14
UI_KB_SPACEBAR == 57
Release == 128

ASSUME KernelConsoleAssumption ==
  /\ Early \subseteq 0 .. 127 /\ LastMessage \in Seq((0 .. 127) \ {Tab})
  /\ Shifts \subseteq {UI_KB_LEFT_SHIFT, UI_KB_RIGHT_SHIFT}
  /\ Keys \subseteq (0 .. 255) \ {42, 54, 42 + 128, 54 + 128}
  /\ Places \subseteq [x : 0 .. (Width - CharWidth), y : 0 .. (Height - CharHeight)]
  /\ BehindTable \subseteq -128 .. 127 /\ BehindTable # {}
  /\ MaxEarly \in Nat /\ MaxEvents \in Nat

Init ==
  /\ con = ConsoleStart
  /\ pc = "off"
  /\ msg = <<>>
  /\ row = 0 /\ col = 0 /\ tmp = 0
  /\ g_IsLeftShiftPressed = FALSE /\ g_IsRightShiftPressed = FALSE
  /\ line = <<>> /\ held = {} /\ meant = <<>>
  /\ quiet = TRUE /\ stale = FALSE
  /\ early = 0 /\ keys = 0 /\ moves = 0

-------------------------------------------------------------------------------
(***************************************************************************)
(* _start                                                                  *)
(***************************************************************************)

\* A character of a print with interrupts off.
PrintEarly(chr) ==
  /\ pc = "off"
  /\ early < MaxEarly
  /\ con' = PrintChar(con, chr)
  /\ early' = early + 1
  /\ UNCHANGED <<pc, msg, row, col, tmp, keyboard, quiet, stale, moves>>

EnableInterrupts ==
  /\ pc = "off"
  /\ pc' = "next"
  /\ msg' = LastMessage
  /\ UNCHANGED <<con, row, col, tmp, early, keyboard, quiet, stale, moves>>

\* The text has changed under the eyes of the pointer.
ChangesText == stale' = (stale \/ (moves > 0 /\ con'.text # con.text))

Step(from, to) == pc = from /\ pc' = to

\* The character print looks at.
NextChar ==
  \/ /\ msg = <<>>
     /\ Step("next", "halt")
     /\ UNCHANGED <<con, msg, row, col, tmp>>
  \/ /\ msg # <<>>
     /\ Head(msg) = Newline
     /\ Step("next", "first column")
     /\ UNCHANGED <<con, msg, row, col, tmp>>
  \/ /\ msg # <<>>
     /\ Head(msg) # Newline
     /\ Step("next", "rows")
     /\ row' = con.y
     /\ UNCHANGED <<con, msg, col, tmp>>

SameRow == row                                      \* mutant: y is not advanced
NextRow == row + 1

\* The loop over the rows of the glyph, and that over the pixels of a row: what
\* they start at and run to is the cursor as it is now.
TestRow ==
  /\ Step("rows", IF row < con.y + CharHeight THEN "column" ELSE "read x")
  /\ UNCHANGED <<con, msg, row, col, tmp>>

StartRow ==
  /\ Step("column", "columns")
  /\ col' = con.x
  /\ UNCHANGED <<con, msg, row, tmp>>

TestColumn ==
  \/ /\ col < con.x + CharWidth
     /\ Step("columns", "pixel")
     /\ UNCHANGED <<con, msg, row, col, tmp>>
  \/ /\ col >= con.x + CharWidth
     /\ Step("columns", "rows")
     /\ row' = NextRow
     /\ UNCHANGED <<con, msg, col, tmp>>

\* May the pixel n columns from the cursor be set?  A shift by less than 0, or by
\* more than the width of an int, is undefined.
MaySet(n) ==
  CASE n \in 0 .. (CharWidth - 1) -> {TRUE}
    [] n \in CharWidth .. (4 * CharWidth - 1) -> {FALSE}
    [] OTHER -> BOOLEAN

DrawPixel ==
  /\ Step("pixel", "columns")
  /\ \E set \in MaySet(col - con.x) :
       con' = IF set THEN Ink(con, Head(msg), {Index(col, row)}) ELSE con
  /\ col' = col + 1
  /\ UNCHANGED <<msg, row, tmp>>

ReadX == Step("read x", "write x") /\ tmp' = con.x /\ UNCHANGED <<con, msg, row, col>>

WriteX ==
  /\ Step("write x", "beyond?")
  /\ con' = [con EXCEPT !.x = tmp + CharWidth]
  /\ UNCHANGED <<msg, row, col, tmp>>

TestBeyond ==
  /\ Step("beyond?", IF Beyond(con) THEN "first column" ELSE "below?")
  /\ UNCHANGED <<con, msg, row, col, tmp>>

ToFirstColumn == Step("first column", "read y") /\ con' = FirstColumn(con) /\ UNCHANGED <<msg, row, col, tmp>>

ReadY == Step("read y", "write y") /\ tmp' = con.y /\ UNCHANGED <<con, msg, row, col>>

WriteY ==
  /\ Step("write y", "below?")
  /\ con' = [con EXCEPT !.y = tmp + CharHeight]
  /\ UNCHANGED <<msg, row, col, tmp>>

TestBelow ==
  \/ /\ Below(con)
     /\ Step("below?", "clear")
     /\ UNCHANGED <<con, msg, row, col, tmp>>
  \/ /\ ~Below(con)
     /\ Step("below?", "next")
     /\ msg' = Tail(msg)
     /\ UNCHANGED <<con, row, col, tmp>>

Clear == Step("clear", "reset x") /\ con' = BG_ClearBg(con) /\ UNCHANGED <<msg, row, col, tmp>>

ResetX == Step("reset x", "reset y") /\ con' = FirstColumn(con) /\ UNCHANGED <<msg, row, col, tmp>>

ResetY ==
  /\ Step("reset y", "next")
  /\ con' = BG_ResetCursor(con)
  /\ msg' = Tail(msg)
  /\ UNCHANGED <<row, col, tmp>>

PrintLast ==
  /\ \/ NextChar \/ TestRow \/ StartRow \/ TestColumn \/ DrawPixel
     \/ ReadX \/ WriteX \/ TestBeyond \/ ToFirstColumn \/ ReadY \/ WriteY \/ TestBelow \/ Clear \/ ResetX \/ ResetY
  /\ ChangesText
  /\ UNCHANGED <<early, keyboard, quiet, moves>>

InterruptsOn == pc # "off"

-------------------------------------------------------------------------------
(***************************************************************************)
(* The keyboard                                                            *)
(***************************************************************************)

UI_KB_QWERTY_ASCIITable ==
  <<0, 0, 49, 50, 51, 52, 53, 54, 55, 56, 57, 48, 45, 61, 0, 0,
    113, 119, 101, 114, 116, 121, 117, 105, 111, 112, 91, 93, 0, 0, 97, 115,
    100, 102, 103, 104, 106, 107, 108, 59, 39, 96, 0, 92, 122, 120, 99, 118,
    98, 110, 109, 44, 46, 47, 0, 42, 0, 32>>

\* The byte read at a place of the table; place 58 lies behind it.
TableAt(code) ==
  IF code < 58 THEN {UI_KB_QWERTY_ASCIITable[code + 1]} ELSE BehindTable

\* The difference is returned as a char.
AsChar(n) == ((n + 128) % 256) - 128

UI_KB_QWERTY_Translate(code, uppercase) ==
  IF code > 58 THEN {0}
  ELSE IF uppercase THEN {AsChar(a - 32) : a \in TableAt(code)} ELSE TableAt(code)

\* The consoles that a key other than a shift may leave.
Typed(code, shifted) ==
  CASE code = UI_KB_ENTER     -> {BG_NextLine(con)}
    [] code = UI_KB_SPACEBAR  -> {BG_PutChar(con, Space)}
    [] code = UI_KB_BACKSPACE -> {BG_ClearChar(con)}
    [] OTHER -> {IF ascii = 0 THEN con ELSE BG_PutChar(con, ascii) :
                   ascii \in UI_KB_QWERTY_Translate(code, shifted)}

IsShift(code) == code % Release \in {UI_KB_LEFT_SHIFT, UI_KB_RIGHT_SHIFT}

\* Mutant: shift keys are never released.
ShiftLocked(code, flag, mine) == code = mine \/ flag

ShiftAfter(code, flag, mine) ==
  code = mine \/ (flag /\ code # mine + Release)

UI_Handle_Keyboard(code) ==
  \/ /\ IsShift(code)
     /\ g_IsLeftShiftPressed' = ShiftAfter(code, g_IsLeftShiftPressed, UI_KB_LEFT_SHIFT)
     /\ g_IsRightShiftPressed' = ShiftAfter(code, g_IsRightShiftPressed, UI_KB_RIGHT_SHIFT)
     /\ UNCHANGED con
  \/ /\ ~IsShift(code)
     /\ con' \in Typed(code, g_IsLeftShiftPressed \/ g_IsRightShiftPressed)
     /\ UNCHANGED <<g_IsLeftShiftPressed, g_IsRightShiftPressed>>

INT_KeyboardIntHandler ==
  /\ InterruptsOn
  /\ line # <<>>
  /\ UI_Handle_Keyboard(Head(line))
  /\ line' = Tail(line) /\ meant' = Tail(meant)
  /\ quiet' = (quiet /\ pc = "halt")
  /\ ChangesText
  /\ UNCHANGED <<held, keys, printing, moves>>

\* The user at the keyboard, which keeps codes until they are read.  One pressed
\* before interrupts are enabled is as good as one pressed right afterwards.
Send(code) ==
  /\ InterruptsOn
  /\ keys + moves < MaxEvents
  /\ keys' = keys + 1
  /\ line' = Append(line, code) /\ meant' = Append(meant, held # {})
  /\ UNCHANGED <<g_IsLeftShiftPressed, g_IsRightShiftPressed, con, printing, quiet,
                 stale, moves>>

PressKey == \E k \in Keys : Send(k) /\ UNCHANGED held
PressShift == \E k \in Shifts \ held :
  Send(k) /\ held' = held \cup {k}
ReleaseShift == \E k \in held :
  Send(k + Release) /\ held' = held \ {k}

-------------------------------------------------------------------------------

\* A mouse interrupt that completes a packet.
INT_MouseIntHandler ==
  /\ InterruptsOn
  /\ keys + moves < MaxEvents
  /\ \E at \in Places : con' = BG_DrawCursor(con, at)
  /\ moves' = moves + 1
  /\ UNCHANGED <<printing, keyboard, quiet, stale>>

Next ==
  \/ \E chr \in Early : PrintEarly(chr)
  \/ EnableInterrupts
  \/ PrintLast
  \/ INT_KeyboardIntHandler
  \/ INT_MouseIntHandler
  \/ PressKey \/ PressShift \/ ReleaseShift

\* The processor goes on with _start.
Spec ==
  Init /\ [][Next]_vars /\ WF_vars(PrintLast)

-------------------------------------------------------------------------------
(***************************************************************************)
(* Properties                                                              *)
(***************************************************************************)

Inks == (-128 .. 127) \cup {Black, Pointer}

PCs == {"off", "next", "rows", "column", "columns", "pixel", "read x", "write x", "beyond?",
        "first column", "read y", "write y", "below?", "clear", "reset x", "reset y", "halt"}

TypeOK ==
  /\ con.x \in CharWidth .. (Width + CharWidth)
  /\ con.y \in CharHeight .. Height
  /\ \A i \in Pixels : con.pixels[i] \subseteq Inks /\ con.text[i] \subseteq Inks
  /\ \A p \in PointerArea : con.saved[p] \subseteq Inks
  /\ con.pointer.x \in 0 .. (Width - PointerWidth)
  /\ con.pointer.y \in 0 .. (Height - PointerHeight)
  /\ pc \in PCs
  /\ row \in 0 .. Height /\ col \in 0 .. (Width + CharWidth) /\ tmp \in 0 .. (Width + Height)
  /\ held \subseteq Shifts
  /\ meant \in Seq(BOOLEAN)
  /\ early \in 0 .. MaxEarly /\ keys \in Nat /\ moves \in Nat /\ keys + moves <= MaxEvents

\* Whatever the keyboard handler does within the last print, the kernel is left
\* with a cursor in a cell from which a character may be drawn or the line ended.
CursorOnScreen ==
  pc = "halt" => con.x \in CharWidth .. Width /\ con.y \in CharHeight .. (Height - CharHeight)

\* A key is translated with the shift keys as they were when it was pressed,
\* although both keys may be down and the handler may lag behind.
ShiftAsWhenPressed ==
  line # <<>> /\ ~IsShift(Head(line)) =>
    Head(meant) = (g_IsLeftShiftPressed \/ g_IsRightShiftPressed)

\* No glyph is drawn over another, ...
GlyphsNeverOverlap == \A i \in Pixels : \A a, b \in con.text[i] : a = b

\* ... unless a key came within the last print.
GlyphsDoNotOverlap == quiet => GlyphsNeverOverlap

\* The pixels when what is saved under the pointer is put back.
Uncovered == ClearLastMouseCurPos(con).pixels

\* As long as no text is drawn while the pointer is shown, moving it away shows
\* the text again, but for the corner it was in before it was first drawn.
PointerLeavesNoTrace ==
  ~stale => \A i \in Pixels :
    Uncovered[i] = con.text[i] \/ InArea([x |-> 0, y |-> 0], i) \in PointerArea

\* The last print ends although handlers move its cursor.
PrintEnds == pc = "next" ~> pc = "halt"
===============================================================================
