-------------------------- MODULE KernelConsoleProofs --------------------------
(***************************************************************************)
(* Theorems about KernelConsole: whatever the handlers do to the cursor    *)
(* while _start prints its last line, it ends up on the screen; and a key  *)
(* is translated with the shift keys as they were when it was pressed.     *)
(***************************************************************************)
EXTENDS KernelConsole, TLAPS

Fields == {"x", "y", "pixels", "text", "saved", "pointer"}

\* The cursor is on the grid of character cells, or beyond it to the right or
\* below, as it may be in the middle of a print.
OnGrid(c) ==
  /\ DOMAIN c = Fields
  /\ \E k \in Nat \ {0} : c.x = k * CharWidth
  /\ c.y \in Nat /\ c.y >= CharHeight

InLine(c) == c.x <= Width
InPage(c) == c.y <= Height - CharHeight

\* The cursor is where the next character may be drawn.
InCell(c) == OnGrid(c) /\ InLine(c) /\ InPage(c)

-------------------------------------------------------------------------------
(***************************************************************************)
(* Where the operations leave the cursor.                                  *)
(***************************************************************************)

\* A column of the grid is a number not below the first column, and so are the
\* columns to its right.
LEMMA Columns ==
  ASSUME NEW k \in Nat \ {0}
  PROVE  /\ k * CharWidth \in Nat /\ k * CharWidth >= CharWidth
         /\ k * CharWidth + CharWidth = (k + 1) * CharWidth
         /\ k * CharWidth + CharWidth * 4 = (k + 4) * CharWidth
<1>1. CharWidth \in Nat \ {0}
  BY ConsoleAssumption
<1> QED BY <1>1

\* The coordinates are numbers.
LEMMA Coordinates ==
  ASSUME NEW c, OnGrid(c)
  PROVE  c.x \in Nat /\ c.x >= CharWidth /\ c.y \in Nat /\ c.y >= CharHeight
BY Columns, ConsoleAssumption DEF OnGrid

\* A console with the same cursor is on the grid too.
LEMMA SameCursor ==
  ASSUME NEW c, OnGrid(c), NEW d, DOMAIN d = Fields, d.x = c.x, d.y = c.y
  PROVE  OnGrid(d)
BY DEF OnGrid

\* The column to the left of one that is not the first is on the grid.
LEMMA LeftColumn ==
  ASSUME NEW k \in Nat \ {0}, k * CharWidth > CharWidth
  PROVE  k - 1 \in Nat \ {0} /\ k * CharWidth - CharWidth = (k - 1) * CharWidth
<1>1. CharWidth \in Nat \ {0}
  BY ConsoleAssumption
<1>2. k # 1
  BY <1>1
<1> QED BY <1>1, <1>2

\* The first cell is on the screen.
LEMMA FirstCell ==
  /\ CharWidth = 1 * CharWidth /\ CharWidth <= Width
  /\ CharHeight \in Nat /\ CharHeight <= Height - CharHeight
BY ConsoleAssumption

\* The first column is on the grid and within the line.
LEMMA InFirstColumn ==
  ASSUME NEW c, DOMAIN c = Fields, c.x = CharWidth, c.y \in Nat, c.y >= CharHeight
  PROVE  OnGrid(c) /\ InLine(c) /\ c.x <= Width + CharWidth
<1>1. OnGrid(c)
  BY FirstCell DEF OnGrid
<1>2. c.x <= Width /\ c.x <= Width + CharWidth
  BY ConsoleAssumption
<1> QED BY <1>1, <1>2 DEF InLine

\* Drawing moves nothing.
LEMMA Drawing ==
  ASSUME NEW c, DOMAIN c = Fields, NEW chr, NEW rows
  PROVE  LET d == DrawRows(c, chr, rows) IN DOMAIN d = Fields /\ d.x = c.x /\ d.y = c.y
BY DEF DrawRows, Ink, Fields

LEMMA Inking ==
  ASSUME NEW c, DOMAIN c = Fields, NEW chr, NEW inked
  PROVE  LET d == Ink(c, chr, inked) IN DOMAIN d = Fields /\ d.x = c.x /\ d.y = c.y
BY DEF Ink, Fields

\* The pixel the last print draws, or not.
LEMMA PixelDrawn ==
  ASSUME DrawPixel
  PROVE  con' = con \/ con' = Ink(con, Head(msg), {Index(col, row)})
BY DEF DrawPixel

\* Clearing the screen puts the cursor into the first cell.
LEMMA Clearing ==
  ASSUME NEW c, DOMAIN c = Fields
  PROVE  InCell(ClearBuffer(c))
<1>1. LET d == ClearBuffer(c) IN DOMAIN d = Fields /\ d.x = CharWidth /\ d.y = CharHeight
  BY DEF ClearBuffer, BG_ResetCursor, BG_ClearBg, Fields
<1> QED BY <1>1, FirstCell DEF InCell, OnGrid, InLine, InPage

\* The test at the bottom brings the cursor back into the page.
LEMMA AtBottom ==
  ASSUME NEW c, OnGrid(c), InLine(c)
  PROVE  InCell(Bottom(c))
<1>1. CASE Below(c)
  BY <1>1, Clearing DEF Bottom, OnGrid
<1>2. CASE ~Below(c)
  BY <1>2, ConsoleAssumption DEF Bottom, Below, InCell, InPage, OnGrid
<1> QED BY <1>1, <1>2

\* The start of the next line is on the grid.
LEMMA NewLine ==
  ASSUME NEW c, OnGrid(c)
  PROVE  OnGrid(LineDown(FirstColumn(c))) /\ InLine(LineDown(FirstColumn(c)))
<1>1. LET d == LineDown(FirstColumn(c))
      IN  DOMAIN d = Fields /\ d.x = CharWidth /\ d.y = c.y + CharHeight
  BY DEF LineDown, FirstColumn, OnGrid, Fields
<1> QED BY <1>1, FirstCell DEF OnGrid, InLine

\* BG_NextLine.
LEMMA NextLineInCell ==
  ASSUME NEW c, OnGrid(c)
  PROVE  InCell(BG_NextLine(c))
BY NewLine, AtBottom DEF BG_NextLine

\* A step to the right stays on the grid.
LEMMA Right ==
  ASSUME NEW c, OnGrid(c), NEW n \in {1, 4}
  PROVE  LET d == [c EXCEPT !.x = @ + CharWidth * n] IN OnGrid(d) /\ d.y = c.y
<1> DEFINE d == [c EXCEPT !.x = @ + CharWidth * n]
<1>1. DOMAIN d = Fields /\ d.x = c.x + CharWidth * n /\ d.y = c.y
  BY DEF OnGrid, Fields
<1>2. PICK k \in Nat \ {0} : c.x = k * CharWidth
  BY DEF OnGrid
<1>3. d.x = (k + n) * CharWidth
  BY <1>1, <1>2, Columns, ConsoleAssumption
<1> QED BY <1>1, <1>3 DEF OnGrid

\* BG_PutChar.
LEMMA PutCharInCell ==
  ASSUME NEW c, OnGrid(c), NEW chr
  PROVE  InCell(BG_PutChar(c, chr))
<1> DEFINE drawn == DrawRows(c, chr, CellRows(c))
           right == [drawn EXCEPT !.x = @ + CharWidth]
<1>1. OnGrid(drawn)
  BY Drawing DEF OnGrid
<1>2. right = [drawn EXCEPT !.x = @ + CharWidth * 1]
  BY ConsoleAssumption
<1>3. OnGrid(right)
  BY <1>1, <1>2, Right
<1>4. CASE Beyond(right)
  BY <1>3, <1>4, NewLine, AtBottom DEF BG_PutChar
<1>5. CASE ~Beyond(right)
  <2>1. InLine(right)
    BY <1>3, <1>5, Columns, ConsoleAssumption DEF Beyond, InLine, OnGrid
  <2> QED BY <1>3, <1>5, <2>1, AtBottom DEF BG_PutChar
<1> QED BY <1>4, <1>5

\* BG_PutTab, which tests the bottom only if it starts a line.
LEMMA PutTabInCell ==
  ASSUME NEW c, InCell(c)
  PROVE  InCell(BG_PutTab(c))
<1> DEFINE right == [c EXCEPT !.x = @ + CharWidth * 4]
<1>1. OnGrid(right) /\ right.y = c.y
  BY Right DEF InCell
<1>2. CASE Beyond(right)
  BY <1>1, <1>2, NextLineInCell DEF BG_PutTab
<1>3. CASE ~Beyond(right)
  <2>1. InLine(right)
    BY <1>1, <1>3, Columns, ConsoleAssumption DEF Beyond, InLine, OnGrid
  <2> QED BY <1>1, <1>3, <2>1 DEF BG_PutTab, InCell, InPage
<1> QED BY <1>2, <1>3

\* What a handler may do to a cursor: nothing but leave it where it was, or in
\* an earlier column or in a cell.
Moved(c, d) ==
  /\ OnGrid(d)
  /\ d.x = c.x \/ InLine(d)
  /\ d.y = c.y \/ InPage(d)

\* BG_ClearChar, which tests neither border.
LEMMA ClearCharMoves ==
  ASSUME NEW c, OnGrid(c), c.x <= Width + CharWidth
  PROVE  Moved(c, BG_ClearChar(c))
<1>1. CASE c.x <= CharWidth
  BY <1>1 DEF BG_ClearChar, Moved
<1>2. CASE ~(c.x <= CharWidth)
  <2> DEFINE d == BG_ClearChar(c)
  <2>1. PICK k \in Nat \ {0} : c.x = k * CharWidth
    BY DEF OnGrid
  <2>2. c.x > CharWidth
    BY <1>2, <2>1, Columns, ConsoleAssumption
  <2>3. DOMAIN d = Fields /\ d.x = c.x - CharWidth /\ d.y = c.y
    BY <1>2 DEF BG_ClearChar, OnGrid, Fields
  <2>4. k - 1 \in Nat \ {0} /\ d.x = (k - 1) * CharWidth
    BY <2>1, <2>2, <2>3, LeftColumn
  <2>5. d.x <= Width
    BY <2>1, <2>3, Columns, ConsoleAssumption
  <2> QED BY <2>3, <2>4, <2>5 DEF Moved, OnGrid, InLine
<1> QED BY <1>1, <1>2

\* The keyboard handler.
LEMMA TypedMoves ==
  ASSUME OnGrid(con), con.x <= Width + CharWidth, NEW code, NEW shifted,
         NEW d \in Typed(code, shifted)
  PROVE  Moved(con, d)
<1>1. \A chr : Moved(con, BG_PutChar(con, chr))
  BY PutCharInCell DEF Moved, InCell
<1>2. Moved(con, BG_NextLine(con))
  BY NextLineInCell DEF Moved, InCell
<1>3. Moved(con, BG_ClearChar(con))
  BY ClearCharMoves
<1>4. Moved(con, con)
  BY DEF Moved
<1> QED BY <1>1, <1>2, <1>3, <1>4 DEF Typed

\* The mouse handler does not touch the cursor.
LEMMA PointerMoves ==
  ASSUME OnGrid(con), NEW at
  PROVE  Moved(con, BG_DrawCursor(con, at))
<1> DEFINE cleared == ClearLastMouseCurPos(con)
           shown == ShowPointer(cleared, KeptOnScreen(at))
<1>1. DOMAIN cleared = Fields /\ cleared.x = con.x /\ cleared.y = con.y
  BY DEF ClearLastMouseCurPos, OnGrid, Fields
<1>2. DOMAIN shown = Fields /\ shown.x = cleared.x /\ shown.y = cleared.y
  BY <1>1 DEF ShowPointer, Fields
<1>3. OnGrid(shown)
  BY <1>1, <1>2, SameCursor
<1> QED BY <1>1, <1>2, <1>3 DEF Moved, BG_DrawCursor

-------------------------------------------------------------------------------
(***************************************************************************)
(* The inductive invariant.                                                *)
(***************************************************************************)

\* The steps of the last print at which the column may be beyond the last, ...
PastLine == {"beyond?", "first column"}

\* ... and those at which the line may be below the last.
PastPage == {"below?", "clear", "reset x", "reset y"}

Cursor(c, at) ==
  /\ OnGrid(c)
  /\ c.x <= Width + CharWidth
  /\ at \notin PastLine => InLine(c)
  /\ at \notin PastPage => InPage(c)

\* The coordinate read and not yet written back.
Pending(read, at) ==
  /\ at = "write x" => read <= Width /\ \E k \in Nat \ {0} : read = k * CharWidth
  /\ at = "write y" => read \in Nat /\ read >= CharHeight

IInv == Cursor(con, pc) /\ Pending(tmp, pc)

\* A cursor in a cell is right at every step.
LEMMA InCellSuffices ==
  ASSUME NEW c, InCell(c), NEW at
  PROVE  Cursor(c, at)
BY Coordinates, ConsoleAssumption DEF Cursor, InCell, InLine

LEMMA InvInit == Init => IInv
<1> SUFFICES ASSUME Init PROVE IInv
  OBVIOUS
<1>1. DOMAIN con = Fields /\ con.x = CharWidth /\ con.y = CharHeight /\ pc = "off"
  BY DEF Init, ConsoleStart, Fields
<1>2. InCell(con)
  BY <1>1, FirstCell DEF InCell, OnGrid, InLine, InPage
<1> QED BY <1>1, <1>2, InCellSuffices DEF IInv, Pending

\* A handler runs between any two steps, whatever _start has read.
LEMMA HandlerKeepsCursor ==
  ASSUME NEW c, NEW d, NEW at, Cursor(c, at), Moved(c, d)
  PROVE  Cursor(d, at)
<1>1. OnGrid(c) /\ OnGrid(d) /\ c.x \in Nat /\ d.x \in Nat
  BY Coordinates DEF Cursor, Moved
<1>2. d.x <= Width + CharWidth
  BY <1>1, ConsoleAssumption DEF Cursor, Moved, InLine
<1>3. at \notin PastLine => InLine(d)
  BY DEF Cursor, Moved, InLine
<1>4. at \notin PastPage => InPage(d)
  BY DEF Cursor, Moved, InPage
<1> QED BY <1>1, <1>2, <1>3, <1>4 DEF Cursor

\* A step of the last print keeps the invariant.
LEMMA PrintLastKeepsInv ==
  ASSUME IInv, PrintLast
  PROVE  IInv'
<1>1. OnGrid(con) /\ con.x \in Nat /\ con.y \in Nat /\ con.y >= CharHeight
      /\ con.x <= Width + CharWidth
  BY Coordinates DEF IInv, Cursor
<1> USE DEF Step
<1>2. CASE NextChar
  BY <1>2 DEF NextChar, IInv, Cursor, Pending, PastLine, PastPage
<1>3. CASE DrawPixel
  <2>1. DOMAIN con' = Fields /\ con'.x = con.x /\ con'.y = con.y
    BY <1>1, <1>3, PixelDrawn, Inking DEF OnGrid
  <2>2. OnGrid(con')
    BY <1>1, <2>1, SameCursor
  <2> QED BY <1>3, <2>1, <2>2
          DEF DrawPixel, IInv, Cursor, Pending, InLine, InPage, PastLine, PastPage
<1>4. CASE TestRow \/ StartRow \/ TestColumn
  BY <1>4 DEF TestRow, StartRow, TestColumn, IInv, Cursor, Pending, PastLine, PastPage
<1>5. CASE ReadX
  <2>1. tmp' <= Width /\ \E k \in Nat \ {0} : tmp' = k * CharWidth
    BY <1>5 DEF ReadX, IInv, Cursor, OnGrid, InLine, PastLine
  <2> QED BY <1>5, <2>1 DEF ReadX, IInv, Cursor, Pending, PastLine, PastPage
<1>6. CASE WriteX
  <2>1. tmp <= Width /\ \E k \in Nat \ {0} : tmp = k * CharWidth
    BY <1>6 DEF WriteX, IInv, Pending
  <2>2. PICK k \in Nat \ {0} : tmp = k * CharWidth
    BY <2>1
  <2>3. DOMAIN con' = Fields /\ con'.x = tmp + CharWidth /\ con'.y = con.y
    BY <1>1, <1>6 DEF WriteX, OnGrid, Fields
  <2>4. con'.x = (k + 1) * CharWidth
    BY <2>2, <2>3, Columns
  <2>5. OnGrid(con')
    <3>1. k + 1 \in Nat \ {0}
      OBVIOUS
    <3> QED BY <1>1, <2>3, <2>4, <3>1 DEF OnGrid
  <2>6. tmp \in Nat
    BY <2>2, Columns
  <2>7. con'.x <= Width + CharWidth
    <3>1. Width \in Nat /\ CharWidth \in Nat
      BY ConsoleAssumption
    <3> QED BY <2>1, <2>3, <2>6, <3>1
  <2> QED BY <1>6, <2>3, <2>5, <2>7
          DEF WriteX, IInv, Cursor, Pending, InPage, PastLine, PastPage
<1>7. CASE TestBeyond
  <2>1. ~Beyond(con) => InLine(con)
    <3>1. Width \in Nat
      BY ConsoleAssumption
    <3> QED BY <1>1, <3>1 DEF Beyond, InLine
  <2> QED BY <1>7, <2>1 DEF TestBeyond, IInv, Cursor, Pending, PastLine, PastPage
<1>8. CASE ToFirstColumn
  <2>1. DOMAIN con' = Fields /\ con'.x = CharWidth /\ con'.y = con.y
    BY <1>1, <1>8 DEF ToFirstColumn, FirstColumn, OnGrid, Fields
  <2>2. OnGrid(con') /\ InLine(con') /\ con'.x <= Width + CharWidth
    BY <1>1, <2>1, InFirstColumn
  <2> QED BY <1>8, <2>1, <2>2
          DEF ToFirstColumn, IInv, Cursor, Pending, InPage, PastLine, PastPage
<1>9. CASE ReadY
  BY <1>1, <1>9 DEF ReadY, IInv, Cursor, Pending, PastLine, PastPage
<1>10. CASE WriteY
  <2>1. tmp \in Nat /\ tmp >= CharHeight
    BY <1>10 DEF WriteY, IInv, Pending
  <2>2. DOMAIN con' = Fields /\ con'.x = con.x /\ con'.y = tmp + CharHeight
    BY <1>1, <1>10 DEF WriteY, OnGrid, Fields
  <2>3. con'.y \in Nat /\ con'.y >= CharHeight
    <3>1. CharHeight \in Nat
      BY ConsoleAssumption
    <3> QED BY <2>1, <2>2, <3>1
  <2>4. OnGrid(con')
    BY <1>1, <2>2, <2>3 DEF OnGrid
  <2> QED BY <1>10, <2>2, <2>4
          DEF WriteY, IInv, Cursor, Pending, InLine, PastLine, PastPage
<1>11. CASE TestBelow
  <2>1. ~Below(con) => InPage(con)
    <3>1. Height \in Nat /\ CharHeight \in Nat
      BY ConsoleAssumption
    <3> QED BY <1>1, <3>1 DEF Below, InPage
  <2> QED BY <1>11, <2>1 DEF TestBelow, IInv, Cursor, Pending, PastLine, PastPage
<1>12. CASE Clear
  <2>1. DOMAIN con' = Fields /\ con'.x = con.x /\ con'.y = con.y
    BY <1>1, <1>12 DEF Clear, BG_ClearBg, OnGrid, Fields
  <2>2. OnGrid(con')
    BY <1>1, <2>1, SameCursor
  <2> QED BY <1>12, <2>1, <2>2 DEF Clear, IInv, Cursor, Pending, InLine, PastLine, PastPage
<1>13. CASE ResetX
  <2>1. DOMAIN con' = Fields /\ con'.x = CharWidth /\ con'.y = con.y
    BY <1>1, <1>13 DEF ResetX, FirstColumn, OnGrid, Fields
  <2>2. OnGrid(con') /\ InLine(con') /\ con'.x <= Width + CharWidth
    BY <1>1, <2>1, InFirstColumn
  <2> QED BY <1>13, <2>2 DEF ResetX, IInv, Cursor, Pending, PastLine, PastPage
<1>14. CASE ResetY
  <2>1. DOMAIN con' = Fields /\ con'.x = CharWidth /\ con'.y = CharHeight
    BY <1>1, <1>14 DEF ResetY, BG_ResetCursor, OnGrid, Fields
  <2>2. OnGrid(con') /\ InLine(con')
    BY <2>1, InFirstColumn, FirstCell
  <2>3. InCell(con')
    BY <2>1, <2>2, FirstCell DEF InCell, InPage
  <2> QED BY <1>14, <2>3, InCellSuffices DEF ResetY, IInv, Pending
<1> QED BY <1>2, <1>3, <1>4, <1>5, <1>6, <1>7, <1>8, <1>9, <1>10, <1>11, <1>12, <1>13, <1>14
        DEF PrintLast

LEMMA InvNext == IInv /\ [Next]_vars => IInv'
<1> SUFFICES ASSUME IInv, [Next]_vars PROVE IInv'
  OBVIOUS
<1>1. ASSUME NEW chr \in Early, PrintEarly(chr) PROVE IInv'
  <2>1. InCell(con)
    BY <1>1 DEF PrintEarly, IInv, Cursor, InCell, PastLine, PastPage
  <2>2. InCell(PrintChar(con, chr))
    BY <2>1, NextLineInCell, PutTabInCell, PutCharInCell DEF PrintChar, InCell
  <2> QED BY <1>1, <2>2, InCellSuffices DEF PrintEarly, IInv, Pending
<1>2. CASE EnableInterrupts
  BY <1>2 DEF EnableInterrupts, IInv, Cursor, Pending, PastLine, PastPage
<1>3. CASE PrintLast
  BY <1>3, PrintLastKeepsInv
<1>4. CASE INT_KeyboardIntHandler
  <2>1. OnGrid(con) /\ con.x <= Width + CharWidth
    BY DEF IInv, Cursor
  <2>2. Moved(con, con')
    BY <1>4, <2>1, TypedMoves DEF INT_KeyboardIntHandler, UI_Handle_Keyboard, Moved
  <2> QED BY <1>4, <2>2, HandlerKeepsCursor DEF INT_KeyboardIntHandler, printing, IInv
<1>5. CASE INT_MouseIntHandler
  <2>1. OnGrid(con)
    BY DEF IInv, Cursor
  <2>2. Moved(con, con')
    BY <1>5, <2>1, PointerMoves DEF INT_MouseIntHandler
  <2> QED BY <1>5, <2>2, HandlerKeepsCursor DEF INT_MouseIntHandler, printing, IInv
<1>6. CASE PressKey \/ PressShift \/ ReleaseShift
  BY <1>6 DEF PressKey, PressShift, ReleaseShift, Send, printing, IInv
<1>7. CASE UNCHANGED vars
  BY <1>7 DEF vars, printing, IInv
<1> QED BY <1>1, <1>2, <1>3, <1>4, <1>5, <1>6, <1>7 DEF Next

\* Whatever keys are handled between the accesses of the last print to the
\* cursor, and whatever was printed before, the kernel ends up with the cursor on
\* the screen: print's tests of the two borders make up for the updates it loses.
THEOREM CursorStaysOnScreen == Spec => []CursorOnScreen
<1>1. IInv => CursorOnScreen
  <2> SUFFICES ASSUME IInv, pc = "halt"
               PROVE con.x \in CharWidth .. Width /\ con.y \in CharHeight .. (Height - CharHeight)
    BY DEF CursorOnScreen
  <2>1. InCell(con)
    BY DEF IInv, Cursor, InCell, PastLine, PastPage
  <2> QED BY <2>1, Coordinates, ConsoleAssumption DEF InCell, InLine, InPage
<1> QED BY <1>1, InvInit, InvNext, PTL DEF Spec

-------------------------------------------------------------------------------
(***************************************************************************)
(* The shift keys.  Between what the handler believes of a shift key and   *)
(* where the key is now lie the codes it has not read: going through them  *)
(* one by one, as the handler will, leads from the one to the other.       *)
(***************************************************************************)

Code == 0 .. 255

\* states lists what the handler believes of the shift key s now and after each
\* code in the keyboard.
Track(s, states, codes, flag, down) ==
  /\ states \in Seq(BOOLEAN)
  /\ Len(states) = Len(codes) + 1
  /\ states[1] = flag
  /\ states[Len(codes) + 1] = down
  /\ \A k \in 1 .. Len(codes) : states[k + 1] = ShiftAfter(codes[k], states[k], s)

\* A key is meant to be shifted if the handler will believe so when it gets there.
Agree(left, right, codes, shifted) ==
  /\ shifted \in Seq(BOOLEAN)
  /\ Len(shifted) = Len(codes)
  /\ \A k \in 1 .. Len(codes) : shifted[k] = (left[k] \/ right[k])

ShiftInv ==
  /\ line \in Seq(Code)
  /\ held \subseteq Shifts
  /\ g_IsLeftShiftPressed \in BOOLEAN /\ g_IsRightShiftPressed \in BOOLEAN
  /\ \E left, right \in Seq(BOOLEAN) :
       /\ Track(UI_KB_LEFT_SHIFT, left, line, g_IsLeftShiftPressed, UI_KB_LEFT_SHIFT \in held)
       /\ Track(UI_KB_RIGHT_SHIFT, right, line, g_IsRightShiftPressed, UI_KB_RIGHT_SHIFT \in held)
       /\ Agree(left, right, line, meant)

\* The codes of the shift keys.
LEMMA ShiftCodes ==
  ASSUME NEW code \in Code
  PROVE  IsShift(code) <=> code \in {42, 54, 42 + 128, 54 + 128}
BY DEF IsShift, Code, Release, UI_KB_LEFT_SHIFT, UI_KB_RIGHT_SHIFT

LEMMA AfterIsBoolean ==
  ASSUME NEW code, NEW flag, NEW s
  PROVE  ShiftAfter(code, flag, s) \in BOOLEAN
BY DEF ShiftAfter

\* A code is sent.
LEMMA TrackSend ==
  ASSUME NEW s, NEW flag, NEW down, NEW codes \in Seq(Code), NEW states,
         Track(s, states, codes, flag, down), NEW code \in Code,
         NEW after \in BOOLEAN, after = ShiftAfter(code, down, s)
  PROVE  Track(s, Append(states, after), Append(codes, code), flag, after)
<1> DEFINE n == Len(codes)
           t == Append(states, after)
           c == Append(codes, code)
<1>1. n \in Nat /\ states \in Seq(BOOLEAN) /\ Len(states) = n + 1
  BY DEF Track
<1>2. t \in Seq(BOOLEAN) /\ Len(t) = n + 2 /\ Len(c) = n + 1
  BY <1>1
<1>3. \A k \in 1 .. (n + 1) : t[k] = states[k]
  BY <1>1
<1>4. t[n + 2] = after /\ c[n + 1] = code
  BY <1>1
<1>5. \A k \in 1 .. n : c[k] = codes[k]
  BY <1>1
<1>6. t[1] = flag
  BY <1>1, <1>3 DEF Track
<1>7. ASSUME NEW k \in 1 .. (n + 1)
      PROVE  t[k + 1] = ShiftAfter(c[k], t[k], s)
  <2>1. CASE k \in 1 .. n
    <3>1. states[k + 1] = ShiftAfter(codes[k], states[k], s)
      BY <2>1 DEF Track
    <3>2. k \in 1 .. (n + 1) /\ k + 1 \in 1 .. (n + 1)
      BY <1>1, <2>1
    <3>3. t[k + 1] = states[k + 1] /\ t[k] = states[k] /\ c[k] = codes[k]
      BY <1>3, <1>5, <2>1, <3>2
    <3> QED BY <3>1, <3>3
  <2>2. CASE k = n + 1
    <3>1. t[k + 1] = after /\ c[k] = code
      BY <1>1, <1>4, <2>2
    <3>2. t[k] = down
      BY <1>3, <2>2 DEF Track
    <3> QED BY <3>1, <3>2
  <2> QED BY <1>1, <2>1, <2>2
<1>8. t[Len(c) + 1] = after
  BY <1>1, <1>2, <1>4
<1> HIDE DEF t, c
<1>9. Len(t) = Len(c) + 1 /\ 1 .. Len(c) = 1 .. (n + 1)
  BY <1>1, <1>2
<1> QED BY <1>2, <1>6, <1>7, <1>8, <1>9 DEF Track, t, c

\* A code is handled.
LEMMA TrackTake ==
  ASSUME NEW s, NEW flag, NEW down, NEW codes \in Seq(Code), codes # <<>>, NEW states,
         Track(s, states, codes, flag, down)
  PROVE  Track(s, Tail(states), Tail(codes), ShiftAfter(Head(codes), flag, s), down)
<1> DEFINE n == Len(codes)
           t == Tail(states)
           c == Tail(codes)
<1>1. n \in Nat /\ n >= 1 /\ states \in Seq(BOOLEAN) /\ Len(states) = n + 1
  BY DEF Track
<1>2. t \in Seq(BOOLEAN) /\ Len(t) = n /\ Len(c) = n - 1
  BY <1>1
<1>3. \A k \in 1 .. n : t[k] = states[k + 1]
  BY <1>1
<1>4. \A k \in 1 .. (n - 1) : c[k] = codes[k + 1]
  BY <1>1
<1>5. t[1] = ShiftAfter(Head(codes), flag, s)
  <2>1. states[1 + 1] = ShiftAfter(codes[1], states[1], s)
    BY <1>1 DEF Track
  <2>2. states[1] = flag /\ Head(codes) = codes[1]
    BY <1>1 DEF Track
  <2>3. t[1] = states[1 + 1]
    BY <1>1, <1>3
  <2> QED BY <2>1, <2>2, <2>3
<1>6. t[n] = down
  BY <1>1, <1>3 DEF Track
<1>7. ASSUME NEW k \in 1 .. (n - 1)
      PROVE  t[k + 1] = ShiftAfter(c[k], t[k], s)
  <2>1. k + 1 \in 1 .. n /\ k \in 1 .. n
    BY <1>1
  <2>2. states[(k + 1) + 1] = ShiftAfter(codes[k + 1], states[k + 1], s)
    BY <2>1 DEF Track
  <2>3. t[k + 1] = states[(k + 1) + 1] /\ t[k] = states[k + 1] /\ c[k] = codes[k + 1]
    BY <1>3, <1>4, <2>1
  <2> QED BY <2>2, <2>3
<1> HIDE DEF t, c
<1>8. Len(t) = Len(c) + 1 /\ n = Len(c) + 1 /\ 1 .. Len(c) = 1 .. (n - 1)
  BY <1>1, <1>2
<1> QED BY <1>2, <1>5, <1>6, <1>7, <1>8 DEF Track, t, c

\* A key is sent, and meant as the shift keys are then.
LEMMA AgreeSend ==
  ASSUME NEW codes \in Seq(Code), NEW left \in Seq(BOOLEAN), NEW right \in Seq(BOOLEAN),
         Len(left) = Len(codes) + 1, Len(right) = Len(codes) + 1,
         NEW shifted, Agree(left, right, codes, shifted),
         NEW code \in Code, NEW l \in BOOLEAN, NEW r \in BOOLEAN, NEW m \in BOOLEAN,
         m = (left[Len(codes) + 1] \/ right[Len(codes) + 1])
  PROVE  Agree(Append(left, l), Append(right, r), Append(codes, code), Append(shifted, m))
<1> DEFINE n == Len(codes)
           a == Append(left, l)
           b == Append(right, r)
           d == Append(shifted, m)
           c == Append(codes, code)
<1>1. n \in Nat /\ shifted \in Seq(BOOLEAN) /\ Len(shifted) = n
  BY DEF Agree
<1>2. d \in Seq(BOOLEAN) /\ Len(d) = n + 1 /\ Len(c) = n + 1
  BY <1>1
<1>3. \A k \in 1 .. (n + 1) : a[k] = left[k] /\ b[k] = right[k]
  BY <1>1
<1>4. d[n + 1] = m /\ \A k \in 1 .. n : d[k] = shifted[k]
  BY <1>1
<1>5. ASSUME NEW k \in 1 .. (n + 1)
      PROVE  d[k] = (a[k] \/ b[k])
  <2>1. CASE k \in 1 .. n
    <3>1. shifted[k] = (left[k] \/ right[k])
      BY <2>1 DEF Agree
    <3> QED BY <1>3, <1>4, <2>1, <3>1
  <2>2. CASE k = n + 1
    BY <1>3, <1>4, <2>2
  <2> QED BY <1>1, <2>1, <2>2
<1> HIDE DEF a, b, c, d
<1>6. Len(d) = Len(c) /\ 1 .. Len(c) = 1 .. (n + 1)
  BY <1>1, <1>2
<1> QED BY <1>2, <1>5, <1>6 DEF Agree, a, b, c, d

\* A key is handled.
LEMMA AgreeTake ==
  ASSUME NEW codes \in Seq(Code), codes # <<>>,
         NEW left \in Seq(BOOLEAN), NEW right \in Seq(BOOLEAN),
         Len(left) = Len(codes) + 1, Len(right) = Len(codes) + 1,
         NEW shifted, Agree(left, right, codes, shifted)
  PROVE  Agree(Tail(left), Tail(right), Tail(codes), Tail(shifted))
<1> DEFINE n == Len(codes)
           a == Tail(left)
           b == Tail(right)
           d == Tail(shifted)
           c == Tail(codes)
<1>1. n \in Nat /\ n >= 1 /\ shifted \in Seq(BOOLEAN) /\ Len(shifted) = n
  BY DEF Agree
<1>2. d \in Seq(BOOLEAN) /\ Len(d) = n - 1 /\ Len(c) = n - 1
  BY <1>1
<1>3. \A k \in 1 .. (n - 1) : a[k] = left[k + 1] /\ b[k] = right[k + 1] /\ d[k] = shifted[k + 1]
  BY <1>1
<1>4. ASSUME NEW k \in 1 .. (n - 1)
      PROVE  d[k] = (a[k] \/ b[k])
  <2>1. k + 1 \in 1 .. n
    BY <1>1
  <2>2. shifted[k + 1] = (left[k + 1] \/ right[k + 1])
    BY <2>1 DEF Agree
  <2> QED BY <1>3, <2>2
<1> HIDE DEF a, b, c, d
<1>5. Len(d) = Len(c) /\ 1 .. Len(c) = 1 .. (n - 1)
  BY <1>1, <1>2
<1> QED BY <1>2, <1>4, <1>5 DEF Agree, a, b, c, d

LEMMA ShiftInit == Init => ShiftInv
<1> SUFFICES ASSUME Init PROVE ShiftInv
  OBVIOUS
<1>1. line = <<>> /\ meant = <<>> /\ held = {}
      /\ g_IsLeftShiftPressed = FALSE /\ g_IsRightShiftPressed = FALSE
  BY DEF Init
<1>2. <<FALSE>> \in Seq(BOOLEAN) /\ <<>> \in Seq(Code) /\ <<>> \in Seq(BOOLEAN)
  OBVIOUS
<1>3. ASSUME NEW s PROVE Track(s, <<FALSE>>, <<>>, FALSE, FALSE)
  <2> DEFINE t == <<FALSE>>
  <2>1. t \in Seq(BOOLEAN) /\ Len(t) = 1 /\ t[1] = FALSE
    OBVIOUS
  <2>2. Len(<<>>) = 0 /\ 1 .. 0 = {}
    OBVIOUS
  <2> HIDE DEF t
  <2>3. Track(s, t, <<>>, FALSE, FALSE)
    BY <2>1, <2>2 DEF Track
  <2> QED BY <2>3 DEF t
<1>4. Agree(<<FALSE>>, <<FALSE>>, <<>>, <<>>)
  BY DEF Agree
<1>5. (UI_KB_LEFT_SHIFT \in held) = FALSE /\ (UI_KB_RIGHT_SHIFT \in held) = FALSE
  BY <1>1
<1> QED BY <1>1, <1>2, <1>3, <1>4, <1>5 DEF ShiftInv

\* Whatever the user does, the code sent moves both shift keys to where they are.
LEMMA SendKeepsShiftInv ==
  ASSUME ShiftInv, NEW code \in Code, Send(code), held' \subseteq Shifts,
         (UI_KB_LEFT_SHIFT \in held') =
           ShiftAfter(code, UI_KB_LEFT_SHIFT \in held, UI_KB_LEFT_SHIFT),
         (UI_KB_RIGHT_SHIFT \in held') =
           ShiftAfter(code, UI_KB_RIGHT_SHIFT \in held, UI_KB_RIGHT_SHIFT)
  PROVE  ShiftInv'
<1>1. PICK left \in Seq(BOOLEAN), right \in Seq(BOOLEAN) :
        /\ Track(UI_KB_LEFT_SHIFT, left, line, g_IsLeftShiftPressed, UI_KB_LEFT_SHIFT \in held)
        /\ Track(UI_KB_RIGHT_SHIFT, right, line, g_IsRightShiftPressed, UI_KB_RIGHT_SHIFT \in held)
        /\ Agree(left, right, line, meant)
  BY DEF ShiftInv
<1>2. /\ line' = Append(line, code) /\ meant' = Append(meant, held # {})
      /\ UNCHANGED <<g_IsLeftShiftPressed, g_IsRightShiftPressed>>
  BY DEF Send
<1>3. line \in Seq(Code) /\ held \subseteq Shifts
  BY DEF ShiftInv
<1>4. line' \in Seq(Code)
  BY <1>2, <1>3
<1> DEFINE l == (UI_KB_LEFT_SHIFT \in held')
           r == (UI_KB_RIGHT_SHIFT \in held')
           L == Append(left, l)
           R == Append(right, r)
<1>5. l \in BOOLEAN /\ r \in BOOLEAN
  OBVIOUS
<1>6. L \in Seq(BOOLEAN) /\ R \in Seq(BOOLEAN)
  BY <1>5
<1>7. Track(UI_KB_LEFT_SHIFT, L, line', g_IsLeftShiftPressed', l)
  BY <1>1, <1>2, <1>3, <1>5, TrackSend
<1>8. Track(UI_KB_RIGHT_SHIFT, R, line', g_IsRightShiftPressed', r)
  BY <1>1, <1>2, <1>3, <1>5, TrackSend
<1>9. held # {} <=> UI_KB_LEFT_SHIFT \in held \/ UI_KB_RIGHT_SHIFT \in held
  BY <1>3, KernelConsoleAssumption
<1>10. /\ Len(left) = Len(line) + 1 /\ Len(right) = Len(line) + 1
       /\ left[Len(line) + 1] = (UI_KB_LEFT_SHIFT \in held)
       /\ right[Len(line) + 1] = (UI_KB_RIGHT_SHIFT \in held)
  BY <1>1 DEF Track
<1>11. (held # {}) = (left[Len(line) + 1] \/ right[Len(line) + 1])
  BY <1>9, <1>10
<1>12. (held # {}) \in BOOLEAN
  OBVIOUS
<1>13. Agree(L, R, line', meant')
  BY <1>1, <1>2, <1>3, <1>5, <1>10, <1>11, <1>12, AgreeSend
<1> HIDE DEF L, R
<1> QED BY <1>2, <1>4, <1>6, <1>7, <1>8, <1>13 DEF ShiftInv

LEMMA HandlerKeepsShiftInv ==
  ASSUME ShiftInv, INT_KeyboardIntHandler
  PROVE  ShiftInv'
<1>1. PICK left \in Seq(BOOLEAN), right \in Seq(BOOLEAN) :
        /\ Track(UI_KB_LEFT_SHIFT, left, line, g_IsLeftShiftPressed, UI_KB_LEFT_SHIFT \in held)
        /\ Track(UI_KB_RIGHT_SHIFT, right, line, g_IsRightShiftPressed, UI_KB_RIGHT_SHIFT \in held)
        /\ Agree(left, right, line, meant)
  BY DEF ShiftInv
<1>2. line \in Seq(Code) /\ line # <<>> /\ line' = Tail(line) /\ meant' = Tail(meant)
      /\ held' = held
  BY DEF ShiftInv, INT_KeyboardIntHandler
<1>3. Head(line) \in Code /\ Tail(line) \in Seq(Code)
  BY <1>2
<1>4. /\ g_IsLeftShiftPressed' = ShiftAfter(Head(line), g_IsLeftShiftPressed, UI_KB_LEFT_SHIFT)
      /\ g_IsRightShiftPressed' = ShiftAfter(Head(line), g_IsRightShiftPressed, UI_KB_RIGHT_SHIFT)
  <2>1. CASE IsShift(Head(line))
    BY <2>1 DEF INT_KeyboardIntHandler, UI_Handle_Keyboard
  <2>2. CASE ~IsShift(Head(line))
    <3>1. Head(line) \notin {42, 54, 42 + 128, 54 + 128}
      BY <1>3, <2>2, ShiftCodes
    <3>2. UNCHANGED <<g_IsLeftShiftPressed, g_IsRightShiftPressed>>
      BY <2>2 DEF INT_KeyboardIntHandler, UI_Handle_Keyboard
    <3>3. g_IsLeftShiftPressed \in BOOLEAN /\ g_IsRightShiftPressed \in BOOLEAN
      BY DEF ShiftInv
    <3>4. \A flag \in BOOLEAN : /\ ShiftAfter(Head(line), flag, UI_KB_LEFT_SHIFT) = flag
                                /\ ShiftAfter(Head(line), flag, UI_KB_RIGHT_SHIFT) = flag
      BY <3>1 DEF ShiftAfter, Release, UI_KB_LEFT_SHIFT, UI_KB_RIGHT_SHIFT
    <3> QED BY <3>2, <3>3, <3>4
  <2> QED BY <2>1, <2>2
<1>5. g_IsLeftShiftPressed' \in BOOLEAN /\ g_IsRightShiftPressed' \in BOOLEAN
  BY <1>4, AfterIsBoolean
<1>6. Track(UI_KB_LEFT_SHIFT, Tail(left), line', g_IsLeftShiftPressed', UI_KB_LEFT_SHIFT \in held)
  BY <1>1, <1>2, <1>4, TrackTake
<1>7. Track(UI_KB_RIGHT_SHIFT, Tail(right), line', g_IsRightShiftPressed', UI_KB_RIGHT_SHIFT \in held)
  BY <1>1, <1>2, <1>4, TrackTake
<1>8. Len(left) = Len(line) + 1 /\ Len(right) = Len(line) + 1
  BY <1>1 DEF Track
<1>9. Agree(Tail(left), Tail(right), line', meant')
  BY <1>1, <1>2, <1>8, AgreeTake
<1>10. Len(line) \in Nat
  BY <1>2
<1>11. Tail(left) \in Seq(BOOLEAN) /\ Tail(right) \in Seq(BOOLEAN)
  BY <1>8, <1>10
<1>12. held \subseteq Shifts
  BY DEF ShiftInv
<1> QED BY <1>2, <1>3, <1>5, <1>6, <1>7, <1>9, <1>11, <1>12 DEF ShiftInv

LEMMA ShiftNext == ShiftInv /\ [Next]_vars => ShiftInv'
<1> SUFFICES ASSUME ShiftInv, [Next]_vars PROVE ShiftInv'
  OBVIOUS
<1> USE DEF Release, UI_KB_LEFT_SHIFT, UI_KB_RIGHT_SHIFT
<1>1. CASE UNCHANGED keyboard
  BY <1>1 DEF keyboard, ShiftInv
<1>2. CASE INT_KeyboardIntHandler
  BY <1>2, HandlerKeepsShiftInv
<1>3. held \subseteq {42, 54} /\ Shifts \subseteq {42, 54} /\ held \subseteq Shifts
  BY KernelConsoleAssumption DEF ShiftInv
<1>4. CASE PressKey
  <2>1. PICK k \in Keys : Send(k) /\ UNCHANGED held
    BY <1>4 DEF PressKey
  <2>2. k \in Code /\ k \notin {42, 54, 42 + 128, 54 + 128}
    BY KernelConsoleAssumption DEF Code
  <2>3. /\ (42 \in held') = ShiftAfter(k, 42 \in held, 42)
        /\ (54 \in held') = ShiftAfter(k, 54 \in held, 54)
        /\ held' \subseteq Shifts
    <3>1. held' = held
      BY <2>1
    <3>2. /\ ShiftAfter(k, 42 \in held, 42) = (42 \in held)
          /\ ShiftAfter(k, 54 \in held, 54) = (54 \in held)
      BY <2>2 DEF ShiftAfter
    <3> QED BY <1>3, <3>1, <3>2
  <2> QED BY <2>1, <2>2, <2>3, SendKeepsShiftInv
<1>5. CASE PressShift
  <2>1. PICK k \in Shifts \ held : Send(k) /\ held' = held \cup {k}
    BY <1>5 DEF PressShift
  <2>2. k \in Code /\ k \in {42, 54}
    BY <1>3 DEF Code
  <2>3. /\ (42 \in held') = ShiftAfter(k, 42 \in held, 42)
        /\ (54 \in held') = ShiftAfter(k, 54 \in held, 54)
    BY <2>1, <2>2 DEF ShiftAfter
  <2>4. held' \subseteq Shifts
    BY <1>3, <2>1
  <2> QED BY <2>1, <2>2, <2>3, <2>4, SendKeepsShiftInv
<1>6. CASE ReleaseShift
  <2>1. PICK k \in held : Send(k + 128) /\ held' = held \ {k}
    BY <1>6 DEF ReleaseShift
  <2>2. k + 128 \in Code /\ k \in {42, 54}
    BY <1>3 DEF Code
  <2>3. /\ (42 \in held') = ShiftAfter(k + 128, 42 \in held, 42)
        /\ (54 \in held') = ShiftAfter(k + 128, 54 \in held, 54)
    BY <2>1, <2>2 DEF ShiftAfter
  <2>4. held' \subseteq Shifts
    BY <1>3, <2>1
  <2> QED BY <2>1, <2>2, <2>3, <2>4, SendKeepsShiftInv
<1>7. ASSUME NEW chr \in Early, PrintEarly(chr) PROVE UNCHANGED keyboard
  BY <1>7 DEF PrintEarly
<1>8. CASE EnableInterrupts
  BY <1>1, <1>8 DEF EnableInterrupts
<1>9. CASE PrintLast
  BY <1>1, <1>9 DEF PrintLast
<1>10. CASE INT_MouseIntHandler
  BY <1>1, <1>10 DEF INT_MouseIntHandler
<1>11. CASE UNCHANGED vars
  BY <1>1, <1>11 DEF vars
<1> QED BY <1>1, <1>2, <1>4, <1>5, <1>6, <1>7, <1>8, <1>9, <1>10, <1>11 DEF Next

\* However far the handler lags behind the keyboard, and whichever of the two
\* shift keys are pressed and released, together or in turn, it translates a key
\* as shifted exactly if one of them was down when the key was pressed.
THEOREM ShiftsAreRight == Spec => []ShiftAsWhenPressed
<1>1. ShiftInv => ShiftAsWhenPressed
  <2> SUFFICES ASSUME ShiftInv, line # <<>>
               PROVE  Head(meant) = (g_IsLeftShiftPressed \/ g_IsRightShiftPressed)
    BY DEF ShiftAsWhenPressed
  <2>1. PICK left \in Seq(BOOLEAN), right \in Seq(BOOLEAN) :
          /\ Track(UI_KB_LEFT_SHIFT, left, line, g_IsLeftShiftPressed, UI_KB_LEFT_SHIFT \in held)
          /\ Track(UI_KB_RIGHT_SHIFT, right, line, g_IsRightShiftPressed, UI_KB_RIGHT_SHIFT \in held)
          /\ Agree(left, right, line, meant)
    BY DEF ShiftInv
  <2>2. line \in Seq(Code)
    BY DEF ShiftInv
  <2>3. 1 \in 1 .. Len(line)
    BY <2>2
  <2>4. left[1] = g_IsLeftShiftPressed /\ right[1] = g_IsRightShiftPressed
    BY <2>1 DEF Track
  <2>5. meant \in Seq(BOOLEAN) /\ Len(meant) = Len(line) /\ meant[1] = (left[1] \/ right[1])
    BY <2>1, <2>3 DEF Agree
  <2>6. Head(meant) = meant[1]
    BY <2>3, <2>5
  <2> QED BY <2>4, <2>5, <2>6
<1> QED BY <1>1, ShiftInit, ShiftNext, PTL DEF Spec

-------------------------------------------------------------------------------
(***************************************************************************)
(* What KernelConsole leaves on the screen: its types; that no glyph is    *)
(* drawn over another unless a key came within the last print; and that    *)
(* moving the mouse pointer away shows the text again, unless text was     *)
(* drawn while the pointer was shown.                                      *)
(***************************************************************************)

\* The screen and what is saved of it have the types they should.
ScreenOK(c) ==
  /\ c.pixels \in [Pixels -> SUBSET Inks] /\ c.text \in [Pixels -> SUBSET Inks]
  /\ c.saved \in [PointerArea -> SUBSET Inks]

-------------------------------------------------------------------------------
(***************************************************************************)
(* What the operations do to the pixels                                    *)
(***************************************************************************)

\* d is c after text was drawn or cleared: not without the pixels that show it,
\* and whatever is saved under the pointer.
Writes(c, d) ==
  /\ DOMAIN d = Fields
  /\ d.saved = c.saved /\ d.pointer = c.pointer
  /\ ScreenOK(c) => ScreenOK(d)
  /\ \A p \in Pixels : c.pixels[p] = c.text[p] => d.pixels[p] = d.text[p]

\* d is c with another cursor.
Moves(c, d) ==
  /\ DOMAIN d = Fields
  /\ d.pixels = c.pixels /\ d.text = c.text /\ d.saved = c.saved /\ d.pointer = c.pointer

LEMMA MovesWrites ==
  ASSUME NEW c, NEW d, Moves(c, d)
  PROVE  Writes(c, d)
BY DEF Moves, Writes, ScreenOK

LEMMA WritesTwice ==
  ASSUME NEW c, NEW d, NEW e, Writes(c, d), Writes(d, e)
  PROVE  Writes(c, e)
BY DEF Writes

\* The operations on the cursor alone.
LEMMA CursorMoves ==
  ASSUME NEW c, DOMAIN c = Fields
  PROVE  /\ Moves(c, FirstColumn(c)) /\ Moves(c, LineDown(c)) /\ Moves(c, BG_ResetCursor(c))
         /\ \A v : Moves(c, [c EXCEPT !.x = v]) /\ Moves(c, [c EXCEPT !.y = v])
BY DEF Moves, FirstColumn, LineDown, BG_ResetCursor, Fields

LEMMA InkWrites ==
  ASSUME NEW c, DOMAIN c = Fields, NEW chr \in Inks, NEW inked
  PROVE  Writes(c, Ink(c, chr, inked))
<1> DEFINE d == Ink(c, chr, inked)
<1>1. CASE chr = Space
  BY <1>1 DEF Ink, Writes
<1>2. CASE chr # Space
  <2>1. DOMAIN d = Fields /\ d.saved = c.saved /\ d.pointer = c.pointer
    BY <1>2 DEF Ink, Fields
  <2>2. d.pixels = [p \in Pixels |-> IF p \in inked
                      THEN (c.pixels[p] \ {Pointer, Black}) \cup {chr} ELSE c.pixels[p]]
    BY <1>2 DEF Ink, Fields
  <2>3. d.text = [p \in Pixels |-> IF p \in inked
                    THEN (c.text[p] \ {Pointer, Black}) \cup {chr} ELSE c.text[p]]
    BY <1>2 DEF Ink, Fields
  <2> HIDE DEF d
  <2>4. ScreenOK(c) => ScreenOK(d)
    <3> SUFFICES ASSUME ScreenOK(c) PROVE ScreenOK(d)
      OBVIOUS
    <3>1. \A p \in Pixels : d.pixels[p] \in SUBSET Inks /\ d.text[p] \in SUBSET Inks
      BY <2>2, <2>3 DEF ScreenOK
    <3> QED BY <2>1, <2>2, <2>3, <3>1 DEF ScreenOK
  <2>5. \A p \in Pixels : c.pixels[p] = c.text[p] => d.pixels[p] = d.text[p]
    BY <2>2, <2>3
  <2> QED BY <2>1, <2>4, <2>5 DEF Writes, d
<1> QED BY <1>1, <1>2

LEMMA DrawRowsWrites ==
  ASSUME NEW c, DOMAIN c = Fields, NEW chr \in Inks, NEW rows
  PROVE  Writes(c, DrawRows(c, chr, rows))
BY InkWrites DEF DrawRows

LEMMA ClearBgWrites ==
  ASSUME NEW c, DOMAIN c = Fields
  PROVE  LET d == BG_ClearBg(c)
         IN  /\ Writes(c, d) /\ d.x = c.x /\ d.y = c.y
             /\ d.text = [p \in Pixels |-> {}]
<1> DEFINE d == BG_ClearBg(c)
<1>1. /\ DOMAIN d = Fields /\ d.saved = c.saved /\ d.pointer = c.pointer
      /\ d.x = c.x /\ d.y = c.y
      /\ d.pixels = [p \in Pixels |-> {}] /\ d.text = [p \in Pixels |-> {}]
  BY DEF BG_ClearBg, Fields, Background
<1> HIDE DEF d
<1>2. ScreenOK(c) => ScreenOK(d)
  BY <1>1 DEF ScreenOK
<1> QED BY <1>1, <1>2 DEF Writes, d

\* The screen is cleared if the cursor is below the last line.
LEMMA ClearBufferWrites ==
  ASSUME NEW c, DOMAIN c = Fields
  PROVE  LET d == ClearBuffer(c)
         IN  /\ Writes(c, d) /\ d.x = CharWidth /\ d.y = CharHeight
             /\ d.text = [p \in Pixels |-> {}]
<1> DEFINE e == BG_ClearBg(c)
           d == BG_ResetCursor(e)
<1>1. Writes(c, e) /\ e.text = [p \in Pixels |-> {}] /\ DOMAIN e = Fields
  BY ClearBgWrites DEF Writes
<1> HIDE DEF e
<1>2. Moves(e, d)
  BY <1>1, CursorMoves
<1>3. d.x = CharWidth /\ d.y = CharHeight
  BY <1>1 DEF BG_ResetCursor, Fields
<1>4. Writes(c, d)
  BY <1>1, <1>2, MovesWrites, WritesTwice
<1> QED BY <1>1, <1>2, <1>3, <1>4 DEF ClearBuffer, e, Moves

LEMMA BottomWrites ==
  ASSUME NEW c, DOMAIN c = Fields
  PROVE  Writes(c, Bottom(c))
<1>1. Moves(c, c)
  BY DEF Moves
<1> QED BY <1>1, MovesWrites, ClearBufferWrites DEF Bottom

LEMMA NextLineWrites ==
  ASSUME NEW c, DOMAIN c = Fields
  PROVE  Writes(c, BG_NextLine(c))
<1> DEFINE e == LineDown(FirstColumn(c))
<1>1. Moves(c, FirstColumn(c)) /\ DOMAIN FirstColumn(c) = Fields
  BY CursorMoves DEF Moves
<1>2. Moves(FirstColumn(c), e) /\ DOMAIN e = Fields
  BY <1>1, CursorMoves DEF Moves
<1>3. Writes(c, e)
  BY <1>1, <1>2, MovesWrites, WritesTwice
<1> HIDE DEF e
<1>4. Writes(e, Bottom(e))
  BY <1>2, BottomWrites
<1> QED BY <1>3, <1>4, WritesTwice DEF BG_NextLine, e

LEMMA PutCharWrites ==
  ASSUME NEW c, DOMAIN c = Fields, NEW chr \in Inks
  PROVE  Writes(c, BG_PutChar(c, chr))
<1> DEFINE drawn == DrawRows(c, chr, CellRows(c))
           right == [drawn EXCEPT !.x = @ + CharWidth]
           e == IF Beyond(right) THEN LineDown(FirstColumn(right)) ELSE right
<1>1. Writes(c, drawn) /\ DOMAIN drawn = Fields
  BY DrawRowsWrites DEF Writes
<1> HIDE DEF drawn
<1>2. Moves(drawn, right) /\ DOMAIN right = Fields
  BY <1>1, CursorMoves DEF Moves
<1> HIDE DEF right
<1>3. Moves(right, FirstColumn(right)) /\ DOMAIN FirstColumn(right) = Fields
  BY <1>2, CursorMoves DEF Moves
<1>4. Moves(FirstColumn(right), LineDown(FirstColumn(right)))
  BY <1>3, CursorMoves
<1>5. Moves(right, e) /\ DOMAIN e = Fields
  BY <1>2, <1>3, <1>4 DEF Moves
<1>6. Writes(c, e)
  BY <1>1, <1>2, <1>5, MovesWrites, WritesTwice
<1> HIDE DEF e
<1>7. Writes(e, Bottom(e))
  BY <1>5, BottomWrites
<1> QED BY <1>6, <1>7, WritesTwice DEF BG_PutChar, e, right, drawn

LEMMA PutTabWrites ==
  ASSUME NEW c, DOMAIN c = Fields
  PROVE  Writes(c, BG_PutTab(c))
<1> DEFINE right == [c EXCEPT !.x = @ + CharWidth * 4]
<1>1. Moves(c, right) /\ DOMAIN right = Fields
  BY CursorMoves DEF Moves
<1> HIDE DEF right
<1>2. Writes(c, right) /\ Writes(right, BG_NextLine(right))
  BY <1>1, MovesWrites, NextLineWrites
<1>3. Writes(c, BG_NextLine(right))
  BY <1>2, WritesTwice
<1> QED BY <1>2, <1>3 DEF BG_PutTab, right

\* Backspace.
LEMMA ClearCharWrites ==
  ASSUME NEW c, DOMAIN c = Fields
  PROVE  Writes(c, BG_ClearChar(c))
<1> DEFINE d == BG_ClearChar(c)
<1>1. CASE c.x <= CharWidth
  BY <1>1, MovesWrites DEF BG_ClearChar, Moves
<1>2. CASE ~(c.x <= CharWidth)
  <2> DEFINE left == [c EXCEPT !.x = @ - CharWidth]
             cell == RowsAt(left, CellRows(left))
  <2>1. DOMAIN d = Fields /\ d.saved = c.saved /\ d.pointer = c.pointer
    BY <1>2 DEF BG_ClearChar, Fields
  <2>2. left.pixels = c.pixels /\ left.text = c.text /\ DOMAIN left = Fields
    BY DEF Fields
  <2>3. /\ d.pixels = [p \in Pixels |-> IF p \in cell THEN {} ELSE c.pixels[p]]
        /\ d.text = [p \in Pixels |-> IF p \in cell THEN {} ELSE c.text[p]]
    BY <1>2, <2>2 DEF BG_ClearChar, Fields, Background
  <2> HIDE DEF d, cell
  <2>4. ScreenOK(c) => ScreenOK(d)
    BY <2>1, <2>3 DEF ScreenOK
  <2>5. \A p \in Pixels : c.pixels[p] = c.text[p] => d.pixels[p] = d.text[p]
    BY <2>3
  <2> QED BY <2>1, <2>4, <2>5 DEF Writes, d
<1> QED BY <1>1, <1>2

\* What the table of the keys gives is a character, whatever lies behind it.
LEMMA TranslatedChars ==
  ASSUME NEW code \in Code, NEW shifted
  PROVE  UI_KB_QWERTY_Translate(code, shifted) \subseteq -128 .. 127
<1>1. \A n \in 1 .. 58 : UI_KB_QWERTY_ASCIITable[n] \in 0 .. 127
  BY DEF UI_KB_QWERTY_ASCIITable
<1>2. CASE code > 58
  BY <1>2 DEF UI_KB_QWERTY_Translate
<1>3. CASE ~(code > 58)
  <2>1. TableAt(code) \subseteq -128 .. 127
    <3>1. CASE code < 58
      <4>1. code + 1 \in 1 .. 58
        BY <3>1 DEF Code
      <4>2. UI_KB_QWERTY_ASCIITable[code + 1] \in 0 .. 127
        BY <1>1, <4>1
      <4> HIDE DEF UI_KB_QWERTY_ASCIITable
      <4> QED BY <3>1, <4>2 DEF TableAt
    <3>2. CASE ~(code < 58)
      BY <3>2, KernelConsoleAssumption DEF TableAt
    <3> QED BY <3>1, <3>2
  <2>2. \A n \in -128 .. 127 : AsChar(n - 32) \in -128 .. 127
    BY DEF AsChar
  <2> HIDE DEF TableAt, AsChar
  <2> QED BY <1>3, <2>1, <2>2 DEF UI_KB_QWERTY_Translate
<1> QED BY <1>2, <1>3

\* The keyboard handler.
LEMMA TypedWrites ==
  ASSUME DOMAIN con = Fields, NEW code \in Code, NEW shifted,
         NEW d \in Typed(code, shifted)
  PROVE  Writes(con, d)
<1>1. Writes(con, con)
  BY MovesWrites DEF Moves
<1>2. Writes(con, BG_NextLine(con)) /\ Writes(con, BG_ClearChar(con))
  BY NextLineWrites, ClearCharWrites
<1>3. \A chr \in Inks : Writes(con, BG_PutChar(con, chr))
  BY PutCharWrites
<1>4. Space \in Inks /\ UI_KB_QWERTY_Translate(code, shifted) \subseteq Inks
  BY TranslatedChars DEF Inks, Space
<1> QED BY <1>1, <1>2, <1>3, <1>4 DEF Typed
-------------------------------------------------------------------------------
(***************************************************************************)
(* The mouse pointer                                                       *)
(***************************************************************************)

\* The places of the pointer.
Shown == [x : 0 .. (Width - PointerWidth), y : 0 .. (Height - PointerHeight)]

LEMMA KeptIsShown ==
  ASSUME NEW at \in Places
  PROVE  KeptOnScreen(at) \in Shown
<1>1. /\ Width \in Nat /\ Height \in Nat
      /\ PointerWidth \in 1 .. (Width - 1) /\ PointerHeight \in 1 .. (Height - 1)
  BY ConsoleAssumption
<1>2. at.x \in Int /\ at.y \in Int /\ at.x >= 0 /\ at.y >= 0
  BY KernelConsoleAssumption, ConsoleAssumption
<1>3. KeptOnScreen(at).x \in 0 .. (Width - PointerWidth)
  BY <1>1, <1>2 DEF KeptOnScreen
<1>4. KeptOnScreen(at).y \in 0 .. (Height - PointerHeight)
  BY <1>1, <1>2 DEF KeptOnScreen
<1> QED BY <1>3, <1>4 DEF KeptOnScreen, Shown

\* A place on the screen has a pixel.
LEMMA PixelAt ==
  ASSUME NEW x \in 0 .. (Width - 1), NEW y \in 0 .. (Height - 1)
  PROVE  Index(x, y) \in Pixels
<1>1. Width \in Nat /\ Height \in Nat
  BY ConsoleAssumption
<1>2. y * Width \in Nat /\ y * Width <= (Height - 1) * Width
  BY <1>1
<1>3. (Height - 1) * Width = Width * Height - Width
  BY <1>1
<1>4. Width * Height \in Nat
  BY <1>1
<1> QED BY <1>1, <1>2, <1>3, <1>4 DEF Index, Pixels

\* What the pointer covers is on the screen.
LEMMA CoveredPixels ==
  ASSUME NEW at \in Shown, NEW p \in PointerArea
  PROVE  Index(at.x + p[1], at.y + p[2]) \in Pixels
<1>1. /\ Width \in Nat /\ Height \in Nat
      /\ PointerWidth \in Nat /\ PointerHeight \in Nat
  BY ConsoleAssumption
<1>2. at.x \in 0 .. (Width - PointerWidth) /\ at.y \in 0 .. (Height - PointerHeight)
  BY DEF Shown
<1>3. p[1] \in 0 .. (PointerWidth - 1) /\ p[2] \in 0 .. (PointerHeight - 1)
  BY DEF PointerArea
<1>4. at.x + p[1] \in 0 .. (Width - 1) /\ at.y + p[2] \in 0 .. (Height - 1)
  BY <1>1, <1>2, <1>3
<1> QED BY <1>4, PixelAt

\* Moving the pointer: the text and the cursor stay.
LEMMA DrawCursorTypes ==
  ASSUME NEW c, DOMAIN c = Fields, ScreenOK(c), NEW at \in Places
  PROVE  LET d == BG_DrawCursor(c, at)
         IN  /\ DOMAIN d = Fields /\ d.x = c.x /\ d.y = c.y /\ d.text = c.text
             /\ ScreenOK(d) /\ d.pointer \in Shown
<1> DEFINE e == ClearLastMouseCurPos(c)
           k == KeptOnScreen(at)
           d == ShowPointer(e, k)
<1>1. /\ DOMAIN e = Fields /\ e.x = c.x /\ e.y = c.y /\ e.text = c.text /\ e.saved = c.saved
      /\ e.pixels = [p \in Pixels |-> IF InArea(c.pointer, p) \in PointerArea
                       THEN c.saved[InArea(c.pointer, p)] ELSE c.pixels[p]]
  BY DEF ClearLastMouseCurPos, Fields
<1> HIDE DEF e
<1>2. e.pixels \in [Pixels -> SUBSET Inks]
  BY <1>1 DEF ScreenOK
<1>3. k \in Shown
  BY KeptIsShown
<1> HIDE DEF k
<1>4. /\ DOMAIN d = Fields /\ d.x = e.x /\ d.y = e.y /\ d.text = e.text /\ d.pointer = k
      /\ d.saved = [p \in PointerArea |-> e.pixels[Index(k.x + p[1], k.y + p[2])]]
      /\ d.pixels = [p \in Pixels |-> IF InArea(k, p) \in Opaque THEN {Pointer} ELSE e.pixels[p]]
  BY <1>1 DEF ShowPointer, Fields
<1> HIDE DEF d
<1>5. d.saved \in [PointerArea -> SUBSET Inks]
  <2>1. \A p \in PointerArea : e.pixels[Index(k.x + p[1], k.y + p[2])] \in SUBSET Inks
    BY <1>2, <1>3, CoveredPixels
  <2> QED BY <1>4, <2>1
<1>6. d.pixels \in [Pixels -> SUBSET Inks]
  <2>1. {Pointer} \in SUBSET Inks
    BY DEF Inks
  <2> QED BY <1>2, <1>4, <2>1
<1>7. ScreenOK(d)
  BY <1>1, <1>4, <1>5, <1>6 DEF ScreenOK
<1> QED BY <1>1, <1>3, <1>4, <1>7 DEF BG_DrawCursor, d, e, k

-------------------------------------------------------------------------------
(***************************************************************************)
(* Types                                                                   *)
(***************************************************************************)

\* Within a character of the last print there is one.
Message ==
  /\ msg \in Seq((0 .. 127) \ {Tab})
  /\ pc \notin {"off", "next", "halt"} => msg # <<>>

Types ==
  /\ Message
  /\ ScreenOK(con) /\ con.pointer \in Shown
  /\ con.y <= Height
  /\ pc = "write y" => tmp <= Height - CharHeight
  /\ pc \in PCs
  /\ row \in 0 .. Height /\ tmp \in 0 .. (Width + Height)
  /\ pc \in {"column", "columns", "pixel"} => row < Height
  /\ col \in 0 .. (Width + CharWidth)
  /\ pc = "pixel" => col < Width + CharWidth
  /\ early \in 0 .. MaxEarly /\ keys \in Nat /\ moves \in Nat /\ keys + moves <= MaxEvents

LEMMA TypesInit == Init => Types
<1> SUFFICES ASSUME Init PROVE Types
  OBVIOUS
<1>1. /\ con.pixels = [p \in Pixels |-> {}] /\ con.text = [p \in Pixels |-> {}]
      /\ con.saved = [p \in PointerArea |-> {Black}]
      /\ con.pointer = [x |-> 0, y |-> 0] /\ con.y = CharHeight
  BY DEF Init, ConsoleStart, Background
<1>2. ScreenOK(con)
  <2>1. {Black} \in SUBSET Inks
    BY DEF Inks
  <2> QED BY <1>1, <2>1 DEF ScreenOK
<1>3. con.pointer \in Shown /\ con.y <= Height
  BY <1>1, ConsoleAssumption DEF Shown
<1>4. Message
  BY DEF Init, Message
<1> QED BY <1>2, <1>3, <1>4, ConsoleAssumption, KernelConsoleAssumption DEF Init, Types, PCs

\* The characters printed are inks.
LEMMA HeadIsInk ==
  ASSUME Message, msg # <<>>
  PROVE  Head(msg) \in Inks /\ Tail(msg) \in Seq((0 .. 127) \ {Tab})
<1> DEFINE S == (0 .. 127) \ {Tab}
<1>1. msg \in Seq(S)
  BY DEF Message
<1> HIDE DEF S
<1>2. Head(msg) \in S /\ Tail(msg) \in Seq(S)
  BY <1>1
<1> QED BY <1>2 DEF S, Inks

LEMMA PrintLastWrites ==
  ASSUME DOMAIN con = Fields, Message, PrintLast
  PROVE  Writes(con, con')
<1>1. Moves(con, con)
  BY DEF Moves
<1>2. CASE UNCHANGED con
  BY <1>1, <1>2, MovesWrites
<1>3. CASE DrawPixel
  <2>1. Head(msg) \in Inks
    BY <1>3, HeadIsInk DEF DrawPixel, Step, Message
  <2> QED BY <1>2, <1>3, <2>1, PixelDrawn, InkWrites
<1>4. CASE ToFirstColumn \/ WriteX \/ WriteY \/ ResetX \/ ResetY
  <2>1. \/ con' = FirstColumn(con) \/ con' = BG_ResetCursor(con)
        \/ \E v : con' = [con EXCEPT !.x = v]
        \/ \E v : con' = [con EXCEPT !.y = v]
    BY <1>4 DEF ToFirstColumn, WriteX, WriteY, ResetX, ResetY
  <2>2. Moves(con, FirstColumn(con)) /\ Moves(con, BG_ResetCursor(con))
    BY CursorMoves
  <2>3. \A v : Moves(con, [con EXCEPT !.x = v]) /\ Moves(con, [con EXCEPT !.y = v])
    BY CursorMoves
  <2>4. Moves(con, con')
    BY <2>1, <2>2, <2>3, Zenon
  <2> QED BY <2>4, MovesWrites
<1>5. CASE Clear
  BY <1>5, ClearBgWrites DEF Clear
<1> QED BY <1>2, <1>3, <1>4, <1>5
        DEF PrintLast, NextChar, TestRow, StartRow, TestColumn, ReadX, TestBeyond, ReadY, TestBelow

LEMMA PrintCharWrites ==
  ASSUME NEW c, DOMAIN c = Fields, NEW chr \in Inks
  PROVE  Writes(c, PrintChar(c, chr))
BY NextLineWrites, PutTabWrites, PutCharWrites DEF PrintChar

\* Every step but a movement of the mouse writes.
LEMMA OthersWrite ==
  ASSUME IInv, ShiftInv, Message, [Next]_vars, ~INT_MouseIntHandler
  PROVE  Writes(con, con')
<1>1. DOMAIN con = Fields
  BY DEF IInv, Cursor, OnGrid
<1>2. CASE UNCHANGED con
  BY <1>1, <1>2, MovesWrites DEF Moves
<1>3. ASSUME NEW chr \in Early, PrintEarly(chr) PROVE Writes(con, con')
  <2>1. chr \in Inks
    BY KernelConsoleAssumption DEF Inks
  <2> QED BY <1>1, <1>3, <2>1, PrintCharWrites DEF PrintEarly
<1>4. CASE PrintLast
  BY <1>1, <1>4, PrintLastWrites
<1>5. CASE INT_KeyboardIntHandler
  <2>1. Head(line) \in Code
    BY <1>5 DEF INT_KeyboardIntHandler, ShiftInv
  <2>2. UNCHANGED con \/ con' \in Typed(Head(line), g_IsLeftShiftPressed \/ g_IsRightShiftPressed)
    BY <1>5 DEF INT_KeyboardIntHandler, UI_Handle_Keyboard
  <2> QED BY <1>1, <1>2, <2>1, <2>2, TypedWrites
<1> QED BY <1>2, <1>3, <1>4, <1>5
        DEF Next, EnableInterrupts, PressKey, PressShift, ReleaseShift, Send, vars
\* A line in the page is a line of the screen.
LEMMA InPageIsLow ==
  ASSUME IInv
  PROVE  /\ Width \in Nat /\ Height \in Nat /\ CharHeight \in Nat /\ CharWidth \in Nat
         /\ con.x \in Nat /\ con.y \in Nat
         /\ pc \notin PastPage => con.y <= Height - CharHeight /\ con.y <= Height
         /\ pc \notin PastLine => con.x <= Width
<1>1. /\ Width \in Nat /\ Height \in Nat /\ CharHeight \in Nat /\ CharWidth \in Nat
  BY ConsoleAssumption
<1>2. con.x \in Nat /\ con.y \in Nat
  BY Coordinates DEF IInv, Cursor
<1> QED BY <1>1, <1>2 DEF IInv, Cursor, InPage, InLine

\* What print has still to do after a step.
LEMMA MessageStep ==
  ASSUME Message, PrintLast
  PROVE  Message' /\ pc' \in PCs
<1> DEFINE S == (0 .. 127) \ {Tab}
<1>1. msg \in Seq(S) /\ (pc \notin {"off", "next", "halt"} => msg # <<>>)
  BY DEF Message
<1>2. msg # <<>> => Tail(msg) \in Seq(S)
  BY HeadIsInk
<1> HIDE DEF S
<1>3. CASE NextChar \/ ReadX \/ WriteX
  BY <1>1, <1>3 DEF NextChar, ReadX, WriteX, Step, Message, PCs, S
<1>6. CASE TestRow \/ StartRow \/ TestColumn \/ DrawPixel
  BY <1>1, <1>6 DEF TestRow, StartRow, TestColumn, DrawPixel, Step, Message, PCs, S
<1>4. CASE TestBeyond \/ ToFirstColumn \/ ReadY \/ WriteY \/ Clear \/ ResetX
  BY <1>1, <1>4 DEF TestBeyond, ToFirstColumn, ReadY, WriteY, Clear, ResetX, Step, Message, PCs, S
<1>5. CASE TestBelow \/ ResetY
  BY <1>1, <1>2, <1>5 DEF TestBelow, ResetY, Step, Message, PCs, S
<1> QED BY <1>3, <1>4, <1>5, <1>6 DEF PrintLast

\* The loops over the pixels of a glyph stay on the screen, but for the column
\* behind the last.
LEMMA LoopsStep ==
  ASSUME IInv, Types, PrintLast
  PROVE  /\ row' \in 0 .. Height
         /\ pc' \in {"column", "columns", "pixel"} => row' < Height
         /\ col' \in 0 .. (Width + CharWidth)
         /\ pc' = "pixel" => col' < Width + CharWidth
<1>1. /\ Width \in Nat /\ Height \in Nat /\ CharHeight \in Nat /\ CharWidth \in Nat
      /\ con.x \in Nat /\ con.y \in Nat
      /\ pc \notin PastPage => con.y <= Height - CharHeight /\ con.y <= Height
      /\ pc \notin PastLine => con.x <= Width
  BY InPageIsLow
<1>2. /\ row \in 0 .. Height /\ (pc \in {"column", "columns", "pixel"} => row < Height)
      /\ col \in 0 .. (Width + CharWidth) /\ (pc = "pixel" => col < Width + CharWidth)
  BY DEF Types
<1>3. CASE NextChar
  <2>1. row' \in {row, con.y} /\ col' = col /\ pc \notin PastPage
        /\ pc' \notin {"column", "columns", "pixel"}
    BY <1>3 DEF NextChar, Step, PastPage
  <2>2. con.y \in 0 .. Height
    BY <1>1, <2>1
  <2>3. row' \in 0 .. Height
    BY <1>2, <2>1, <2>2
  <2> QED BY <1>2, <2>1, <2>3
<1>4. CASE TestRow
  <2>1. row' = row /\ col' = col /\ pc' \in {"column", "read x"} /\ con.y <= Height - CharHeight
        /\ (pc' = "column" => row < con.y + CharHeight)
    BY <1>1, <1>4 DEF TestRow, Step, PastPage
  <2>2. pc' = "column" => row' < Height
    BY <1>1, <1>2, <2>1
  <2> QED BY <1>2, <2>1, <2>2
<1>5. CASE StartRow
  <2>1. row' = row /\ col' = con.x /\ pc = "column" /\ pc' = "columns" /\ con.x <= Width
    BY <1>1, <1>5 DEF StartRow, Step, PastLine
  <2>2. col' \in 0 .. (Width + CharWidth)
    BY <1>1, <2>1
  <2> QED BY <1>2, <2>1, <2>2
<1>6. CASE TestColumn
  <2>1. col' = col /\ pc = "columns" /\ con.x <= Width
    BY <1>1, <1>6 DEF TestColumn, Step, PastLine
  <2>2. CASE pc' = "pixel" /\ row' = row /\ col < con.x + CharWidth
    <3>1. col' < Width + CharWidth
      BY <1>1, <1>2, <2>1, <2>2
    <3> QED BY <1>2, <2>1, <2>2, <3>1
  <2>3. CASE pc' = "rows" /\ row' = row + 1
    <3>1. row' \in 0 .. Height
      BY <1>1, <1>2, <2>1, <2>3
    <3> QED BY <1>2, <2>1, <2>3, <3>1
  <2> QED BY <1>6, <2>2, <2>3 DEF TestColumn, Step, NextRow
<1>7. CASE DrawPixel
  <2>1. row' = row /\ col' = col + 1 /\ pc = "pixel" /\ pc' = "columns"
    BY <1>7 DEF DrawPixel, Step
  <2>2. col' \in 0 .. (Width + CharWidth)
    BY <1>1, <1>2, <2>1
  <2> QED BY <1>2, <2>1, <2>2
<1>8. CASE ReadX \/ WriteX \/ TestBeyond \/ ToFirstColumn \/ ReadY
  BY <1>2, <1>8 DEF ReadX, WriteX, TestBeyond, ToFirstColumn, ReadY, Step
<1>9. CASE WriteY \/ TestBelow \/ Clear \/ ResetX \/ ResetY
  BY <1>2, <1>9 DEF WriteY, TestBelow, Clear, ResetX, ResetY, Step
<1> QED BY <1>3, <1>4, <1>5, <1>6, <1>7, <1>8, <1>9 DEF PrintLast

LEMMA NumbersStep ==
  ASSUME IInv, IInv', Types, PrintLast
  PROVE  /\ con'.y <= Height
         /\ pc' = "write y" => tmp' <= Height - CharHeight
         /\ tmp' \in 0 .. (Width + Height)
<1>1. /\ Width \in Nat /\ Height \in Nat /\ CharHeight \in Nat
      /\ con.x \in Nat /\ con.y \in Nat
      /\ pc \notin PastPage => con.y <= Height - CharHeight /\ con.y <= Height
      /\ pc \notin PastLine => con.x <= Width
  BY InPageIsLow
<1>2. /\ con.y <= Height /\ (pc = "write y" => tmp <= Height - CharHeight)
      /\ tmp \in 0 .. (Width + Height)
  BY DEF Types
<1>0. DOMAIN con = Fields
  BY DEF IInv, Cursor, OnGrid
<1>3. CASE NextChar \/ TestRow \/ StartRow \/ TestColumn
  <2>1. con' = con /\ tmp' = tmp /\ pc' # "write y"
    BY <1>3 DEF NextChar, TestRow, StartRow, TestColumn, Step
  <2> QED BY <1>2, <2>1
<1>4. CASE TestBeyond \/ TestBelow
  <2>1. con' = con /\ tmp' = tmp /\ pc' # "write y"
    BY <1>4 DEF TestBeyond, TestBelow, Step
  <2> QED BY <1>2, <2>1
<1>5. CASE DrawPixel
  <2>1. con'.y = con.y
    BY <1>0, <1>5, PixelDrawn, Inking
  <2>2. tmp' = tmp /\ pc' # "write y"
    BY <1>5 DEF DrawPixel, Step
  <2> QED BY <1>2, <2>1, <2>2
<1>6. CASE ReadX
  <2>1. con' = con /\ pc' # "write y"
    BY <1>6 DEF ReadX, Step
  <2>2. tmp' = con.x /\ pc \notin PastLine
    BY <1>6 DEF ReadX, Step, PastLine
  <2>3. tmp' \in 0 .. (Width + Height)
    BY <1>1, <2>2
  <2> QED BY <1>2, <2>1, <2>3
<1>7. CASE ReadY
  <2>1. con' = con /\ tmp' = con.y /\ pc \notin PastPage
    BY <1>7 DEF ReadY, Step, PastPage
  <2>2. tmp' \in 0 .. (Width + Height) /\ tmp' <= Height - CharHeight
    BY <1>1, <2>1
  <2> QED BY <1>2, <2>1, <2>2
<1>8. CASE WriteX \/ ToFirstColumn \/ Clear \/ ResetX
  <2>1. tmp' = tmp /\ pc' # "write y"
    BY <1>8 DEF WriteX, ToFirstColumn, Clear, ResetX, Step
  <2>2. con'.y = con.y
    BY <1>8, <1>0 DEF WriteX, ToFirstColumn, FirstColumn, Clear, BG_ClearBg, ResetX, Fields
  <2> QED BY <1>2, <2>1, <2>2
<1>9. CASE WriteY
  <2>1. tmp' = tmp /\ pc = "write y" /\ pc' = "below?"
    BY <1>9 DEF WriteY, Step
  <2>2. con'.y = tmp + CharHeight
    BY <1>0, <1>9 DEF WriteY, Fields
  <2>3. tmp \in 0 .. (Width + Height) /\ tmp <= Height - CharHeight
    BY <1>2, <2>1
  <2>4. con'.y <= Height
    BY <1>1, <2>2, <2>3
  <2> QED BY <1>2, <2>1, <2>4
<1>10. CASE ResetY
  <2>1. tmp' = tmp /\ pc' = "next"
    BY <1>10 DEF ResetY, Step
  <2>2. con'.y = CharHeight
    BY <1>0, <1>10 DEF ResetY, BG_ResetCursor, Fields
  <2>3. con'.y <= Height
    BY <2>2, ConsoleAssumption
  <2> QED BY <1>2, <2>1, <2>3
<1> QED BY <1>3, <1>4, <1>5, <1>6, <1>7, <1>8, <1>9, <1>10 DEF PrintLast

\* The screen and the pointer after a step.
LEMMA ScreenStep ==
  ASSUME IInv, ShiftInv, Types, [Next]_vars
  PROVE  ScreenOK(con)' /\ con'.pointer \in Shown
<1>1. CASE INT_MouseIntHandler
  <2>1. PICK at \in Places : con' = BG_DrawCursor(con, at)
    BY <1>1 DEF INT_MouseIntHandler
  <2>2. DOMAIN con = Fields /\ ScreenOK(con)
    BY DEF IInv, Cursor, OnGrid, Types
  <2>3. ScreenOK(BG_DrawCursor(con, at)) /\ BG_DrawCursor(con, at).pointer \in Shown
    BY <2>2, DrawCursorTypes
  <2> QED BY <2>1, <2>3 DEF ScreenOK
<1>2. CASE ~INT_MouseIntHandler
  <2>1. Writes(con, con')
    BY <1>2, OthersWrite DEF Types
  <2> QED BY <2>1 DEF Writes, Types, ScreenOK
<1> QED BY <1>1, <1>2

LEMMA TypesStep ==
  ASSUME IInv, IInv', ShiftInv, Types, [Next]_vars
  PROVE  Types'
<1>0. ScreenOK(con)' /\ con'.pointer \in Shown
  BY ScreenStep
<1>1. /\ Width \in Nat /\ Height \in Nat /\ CharHeight \in Nat /\ con.y \in Nat
      /\ MaxEarly \in Nat /\ MaxEvents \in Nat
  BY InPageIsLow, KernelConsoleAssumption
<1>2. pc' \notin PastPage => con'.y <= Height
  <2>1. pc' \notin PastPage => con'.y \in Nat /\ con'.y <= Height - CharHeight
    BY Coordinates DEF IInv, Cursor, InPage
  <2> QED BY <1>1, <2>1
<1>3. /\ early \in 0 .. MaxEarly /\ keys \in Nat /\ moves \in Nat /\ keys + moves <= MaxEvents
      /\ con.y <= Height /\ pc \in PCs /\ Message
  BY DEF Types
\* Steps that leave _start where it is.
<1>4. ASSUME UNCHANGED <<pc, msg, row, col, tmp>>, con'.y <= Height,
             early' \in 0 .. MaxEarly, keys' \in Nat, moves' \in Nat, keys' + moves' <= MaxEvents
      PROVE  Types'
  BY <1>0, <1>4 DEF Types, Message
<1>5. CASE \E chr \in Early : PrintEarly(chr)
  <2>1. /\ UNCHANGED <<pc, msg, row, col, tmp, keys, moves>>
        /\ pc = "off" /\ early < MaxEarly /\ early' = early + 1
    BY <1>5 DEF PrintEarly, keyboard
  <2>2. con'.y <= Height
    BY <1>2, <2>1 DEF PastPage
  <2>3. early' \in 0 .. MaxEarly
    BY <1>1, <1>3, <2>1
  <2> QED BY <1>3, <1>4, <2>1, <2>2, <2>3
<1>6. CASE EnableInterrupts
  <2>1. /\ UNCHANGED <<con, row, col, tmp, early, keys, moves>>
        /\ pc' = "next" /\ msg' = LastMessage
    BY <1>6 DEF EnableInterrupts, keyboard
  <2>2. Message' /\ pc' \in PCs
    BY <2>1, KernelConsoleAssumption DEF Message, PCs
  <2> QED BY <1>0, <2>1, <2>2 DEF Types
<1>7. CASE PrintLast
  <2>1. Message' /\ pc' \in PCs
    BY <1>3, <1>7, MessageStep
  <2>2. /\ con'.y <= Height /\ (pc' = "write y" => tmp' <= Height - CharHeight)
        /\ tmp' \in 0 .. (Width + Height)
    BY <1>7, NumbersStep
  <2>4. /\ row' \in 0 .. Height
        /\ pc' \in {"column", "columns", "pixel"} => row' < Height
        /\ col' \in 0 .. (Width + CharWidth)
        /\ pc' = "pixel" => col' < Width + CharWidth
    BY <1>7, LoopsStep
  <2>3. UNCHANGED <<early, keys, moves>>
    BY <1>7 DEF PrintLast, keyboard
  <2> QED BY <1>0, <2>1, <2>2, <2>3, <2>4 DEF Types
<1>8. CASE INT_KeyboardIntHandler
  <2>1. Moved(con, con')
    <3>1. OnGrid(con) /\ con.x <= Width + CharWidth
      BY DEF IInv, Cursor
    <3> QED BY <1>8, <3>1, TypedMoves DEF INT_KeyboardIntHandler, UI_Handle_Keyboard, Moved
  <2>2. con'.y <= Height
    <3>1. con'.y \in Nat
      BY <2>1, Coordinates DEF Moved
    <3>2. con'.y = con.y \/ con'.y <= Height - CharHeight
      BY <2>1 DEF Moved, InPage
    <3> QED BY <1>1, <1>3, <3>1, <3>2
  <2>3. UNCHANGED <<pc, msg, row, col, tmp, early, keys, moves>>
    BY <1>8 DEF INT_KeyboardIntHandler, printing
  <2> QED BY <1>3, <1>4, <2>2, <2>3
<1>9. CASE INT_MouseIntHandler
  <2>1. PICK at \in Places : con' = BG_DrawCursor(con, at)
    BY <1>9 DEF INT_MouseIntHandler
  <2>2. con'.y = con.y
    BY <2>1, DrawCursorTypes DEF Types, IInv, Cursor, OnGrid
  <2>3. /\ UNCHANGED <<pc, msg, row, col, tmp, early, keys>>
        /\ keys + moves < MaxEvents /\ moves' = moves + 1
    BY <1>9 DEF INT_MouseIntHandler, printing, keyboard
  <2>4. moves' \in Nat /\ keys' + moves' <= MaxEvents
    BY <1>1, <1>3, <2>3
  <2> QED BY <1>3, <1>4, <2>2, <2>3, <2>4
<1>10. CASE PressKey \/ PressShift \/ ReleaseShift
  <2>1. /\ UNCHANGED <<pc, msg, row, col, tmp, early, con, moves>>
        /\ keys + moves < MaxEvents /\ keys' = keys + 1
    BY <1>10 DEF PressKey, PressShift, ReleaseShift, Send, printing
  <2>2. keys' \in Nat /\ keys' + moves' <= MaxEvents
    BY <1>1, <1>3, <2>1
  <2> QED BY <1>3, <1>4, <2>1, <2>2
<1>11. CASE UNCHANGED vars
  <2>1. UNCHANGED <<pc, msg, row, col, tmp, early, con, keys, moves>>
    BY <1>11 DEF vars, printing, keyboard
  <2> QED BY <1>3, <1>4, <2>1
<1> QED BY <1>5, <1>6, <1>7, <1>8, <1>9, <1>10, <1>11 DEF Next
LEMMA TypesHold == IInv /\ ShiftInv /\ Types => TypeOK
<1> SUFFICES ASSUME IInv, ShiftInv, Types PROVE TypeOK
  OBVIOUS
<1>1. con.x \in CharWidth .. (Width + CharWidth) /\ con.y \in CharHeight .. Height
  <2>1. /\ con.x \in Nat /\ con.x >= CharWidth /\ con.y \in Nat /\ con.y >= CharHeight
        /\ con.x <= Width + CharWidth
    BY Coordinates DEF IInv, Cursor
  <2>2. con.y <= Height
    BY DEF Types
  <2> QED BY <2>1, <2>2, ConsoleAssumption
<1>2. \A p \in Pixels : con.pixels[p] \subseteq Inks /\ con.text[p] \subseteq Inks
  BY DEF Types, ScreenOK
<1>3. \A p \in PointerArea : con.saved[p] \subseteq Inks
  BY DEF Types, ScreenOK
<1>4. con.pointer.x \in 0 .. (Width - PointerWidth) /\ con.pointer.y \in 0 .. (Height - PointerHeight)
  BY DEF Types, Shown
<1>5. row \in 0 .. Height /\ col \in 0 .. (Width + CharWidth)
  BY DEF Types
<1>6. held \subseteq Shifts /\ meant \in Seq(BOOLEAN)
  BY DEF ShiftInv, Agree
<1>7. /\ pc \in PCs /\ tmp \in 0 .. (Width + Height)
      /\ early \in 0 .. MaxEarly /\ keys \in Nat /\ moves \in Nat /\ keys + moves <= MaxEvents
  BY DEF Types
<1> QED BY <1>1, <1>2, <1>3, <1>4, <1>5, <1>6, <1>7 DEF TypeOK

\* The cursor stays on the screen or one cell beyond it, the pointer within it,
\* and nothing but characters and the pointer's colours is drawn, in every
\* interleaving of the last print with the handlers and for every screen.
THEOREM TypeCorrect == Spec => []TypeOK
<1>1. Init => IInv /\ ShiftInv /\ Types
  BY InvInit, ShiftInit, TypesInit
<1>2. IInv /\ ShiftInv /\ Types /\ [Next]_vars => (IInv /\ ShiftInv /\ Types)'
  BY InvNext, ShiftNext, TypesStep
<1> QED BY <1>1, <1>2, TypesHold, PTL DEF Spec

-------------------------------------------------------------------------------
(***************************************************************************)
(* Glyphs.  A pixel of the text belongs to one column of one line, if what *)
(* a glyph in the last column leaves at the start of the next row of       *)
(* pixels counts as to the right of the last column.                       *)
(***************************************************************************)

Spots == (CharWidth .. (Width + CharWidth - 1)) \X Nat

LEMMA OneSpot ==
  ASSUME NEW q \in Spots, NEW r \in Spots, Index(q[1], q[2]) = Index(r[1], r[2])
  PROVE  q = r
<1> DEFINE W == Width
<1>1. /\ W \in Nat
      /\ q[1] \in CharWidth .. (W + CharWidth - 1) /\ r[1] \in CharWidth .. (W + CharWidth - 1)
      /\ q[2] \in Nat /\ r[2] \in Nat /\ CharWidth \in Nat
      /\ q = <<q[1], q[2]>> /\ r = <<r[1], r[2]>>
  BY ConsoleAssumption DEF Spots
<1>2. q[1] + q[2] * W = r[1] + r[2] * W
  BY DEF Index
<1> HIDE DEF W
<1>3. \A m, n \in Nat : m < n => n * W >= m * W + W
  <2> TAKE m \in Nat, n \in Nat
  <2> HAVE m < n
  <2>1. PICK k \in Nat : n = m + 1 + k
    <3>1. n - m - 1 \in Nat /\ n = m + 1 + (n - m - 1)
      OBVIOUS
    <3> QED BY <3>1
  <2>2. n * W = m * W + W + k * W
    BY <1>1, <2>1
  <2>3. k * W \in Nat /\ m * W \in Nat
    BY <1>1
  <2> QED BY <1>1, <2>2, <2>3
<1>4. q[2] * W \in Nat /\ r[2] * W \in Nat
  BY <1>1
<1>5. ~(q[2] < r[2])
  BY <1>1, <1>2, <1>3, <1>4
<1>6. ~(r[2] < q[2])
  BY <1>1, <1>2, <1>3, <1>4
<1>7. q[2] = r[2]
  BY <1>1, <1>5, <1>6
<1> QED BY <1>1, <1>2, <1>4, <1>7

\* Only the spots of E are inked, and each by one glyph.
Neat(c, E) ==
  \A p \in Pixels :
    \/ c.text[p] = {}
    \/ (\E v : c.text[p] = {v}) /\ \E q \in E : p = Index(q[1], q[2])

LEMMA NeatSuperset ==
  ASSUME NEW c, NEW d, NEW E, NEW F, Neat(c, E), E \subseteq F, d.text = c.text
  PROVE  Neat(d, F)
BY DEF Neat

LEMMA NeatEmpty ==
  ASSUME NEW c, c.text = [p \in Pixels |-> {}], NEW E
  PROVE  Neat(c, E)
BY DEF Neat

\* The spots of rows of the cell at the cursor.
CellSpots(c, rows) == (c.x .. (c.x + CharWidth - 1)) \X rows

\* Spots inked where nothing is yet.
LEMMA InkNeat ==
  ASSUME NEW c, DOMAIN c = Fields, NEW chr,
         NEW N, N \subseteq Spots, NEW inked,
         \A p \in inked : \E q \in N : p = Index(q[1], q[2]),
         NEW E, E \subseteq Spots, Neat(c, E), E \cap N = {}
  PROVE  Neat(Ink(c, chr, inked), E \cup N)
<1> DEFINE d == Ink(c, chr, inked)
<1>1. CASE chr = Space
  <2>1. d = c
    BY <1>1 DEF Ink
  <2> QED BY <2>1, NeatSuperset
<1>2. CASE chr # Space
  <2>1. d.text = [p \in Pixels |-> IF p \in inked
                    THEN (c.text[p] \ {Pointer, Black}) \cup {chr} ELSE c.text[p]]
    BY <1>2 DEF Ink, Fields
  <2> HIDE DEF d
  <2> SUFFICES ASSUME NEW p \in Pixels
               PROVE  \/ d.text[p] = {}
                      \/ (\E v : d.text[p] = {v}) /\ \E q \in E \cup N : p = Index(q[1], q[2])
    BY DEF Neat, d
  <2>2. CASE p \in inked
    <3>1. PICK q \in N : p = Index(q[1], q[2])
      BY <2>2
    <3>2. ~ \E r \in E : p = Index(r[1], r[2])
      <4> SUFFICES ASSUME NEW r \in E, p = Index(r[1], r[2]) PROVE FALSE
        OBVIOUS
      <4>1. q = r
        BY <3>1, OneSpot
      <4> QED BY <4>1
    <3>3. c.text[p] = {}
      BY <3>2 DEF Neat
    <3>4. d.text[p] = {chr}
      BY <2>1, <2>2, <3>3
    <3> QED BY <3>1, <3>4
  <2>3. CASE p \notin inked
    <3>1. d.text[p] = c.text[p]
      BY <2>1, <2>3
    <3> QED BY <3>1 DEF Neat
  <2> QED BY <2>2, <2>3
<1> QED BY <1>1, <1>2

\* Rows drawn where nothing is yet.
LEMMA DrawNeat ==
  ASSUME NEW c, DOMAIN c = Fields, c.x \in Nat, c.x >= CharWidth, c.x <= Width,
         NEW chr, NEW rows, rows \subseteq Nat,
         NEW E, E \subseteq Spots, Neat(c, E), E \cap CellSpots(c, rows) = {}
  PROVE  Neat(DrawRows(c, chr, rows), E \cup CellSpots(c, rows))
<1>1. CellSpots(c, rows) \subseteq Spots
  <2>1. Width \in Nat /\ CharWidth \in Nat
    BY ConsoleAssumption
  <2>2. c.x .. (c.x + CharWidth - 1) \subseteq CharWidth .. (Width + CharWidth - 1)
    BY <2>1
  <2> QED BY <2>2 DEF CellSpots, Spots
<1>2. ASSUME NEW p \in RowsAt(c, rows)
      PROVE  \E q \in CellSpots(c, rows) : p = Index(q[1], q[2])
  <2>1. PICK x \in c.x .. (c.x + CharWidth - 1), y \in rows : p = Index(x, y)
    BY DEF RowsAt
  <2>2. <<x, y>> \in CellSpots(c, rows) /\ p = Index(<<x, y>>[1], <<x, y>>[2])
    BY <2>1 DEF CellSpots
  <2> QED BY <2>2
<1> QED BY <1>1, <1>2, InkNeat DEF DrawRows

\* The spots before the cursor: the lines above, and the columns to the left in
\* its line.
Before(c) ==
  {q \in Spots : q[2] < c.y \/ (q[2] < c.y + CharHeight /\ q[1] < c.x)}

\* The spots down to the cursor's line.
Lines(c) == {q \in Spots : q[2] < c.y + CharHeight}

\* What is drawn when a character is drawn down to row n.
Upto(c, n) == Before(c) \cup CellSpots(c, c.y .. (n - 1))

\* ... and in row n up to column k.
UptoColumn(c, n, k) == Upto(c, n) \cup ((c.x .. (k - 1)) \X {n})

\* The glyphs are before the cursor.
NeatCell(c) == Neat(c, Before(c))

LEMMA BeforeLater ==
  ASSUME NEW c, OnGrid(c), NEW d, OnGrid(d),
         \/ d.y = c.y /\ d.x >= c.x
         \/ d.y = c.y + CharHeight
  PROVE  Before(c) \subseteq Before(d) /\ Before(c) \subseteq Spots
<1>1. /\ c.x \in Nat /\ c.y \in Nat /\ d.x \in Nat /\ d.y \in Nat
      /\ CharHeight \in Nat /\ CharWidth \in Nat /\ Width \in Nat
  BY Coordinates, ConsoleAssumption
<1>2. \A q \in Spots : q[1] \in Nat /\ q[2] \in Nat
  BY <1>1 DEF Spots
<1> QED BY <1>1, <1>2 DEF Before

LEMMA NeatMoves ==
  ASSUME NEW c, OnGrid(c), NEW d, OnGrid(d), NeatCell(c), d.text = c.text,
         \/ d.y = c.y /\ d.x >= c.x
         \/ d.y = c.y + CharHeight
  PROVE  NeatCell(d)
BY BeforeLater, NeatSuperset DEF NeatCell

LEMMA BottomNeat ==
  ASSUME NEW c, OnGrid(c), NeatCell(c)
  PROVE  NeatCell(Bottom(c))
<1>1. NeatCell(ClearBuffer(c))
  BY ClearBufferWrites, NeatEmpty DEF NeatCell, OnGrid
<1> QED BY <1>1 DEF Bottom

LEMMA NextLineNeat ==
  ASSUME NEW c, OnGrid(c), NeatCell(c)
  PROVE  NeatCell(BG_NextLine(c))
<1> DEFINE e == LineDown(FirstColumn(c))
<1>1. OnGrid(e)
  BY NewLine
<1>2. e.text = c.text /\ e.y = c.y + CharHeight
  BY DEF LineDown, FirstColumn, OnGrid, Fields
<1> HIDE DEF e
<1>3. NeatCell(e)
  BY <1>1, <1>2, NeatMoves
<1> QED BY <1>1, <1>3, BottomNeat DEF BG_NextLine, e

LEMMA PutTabNeat ==
  ASSUME NEW c, OnGrid(c), NeatCell(c)
  PROVE  NeatCell(BG_PutTab(c))
<1> DEFINE right == [c EXCEPT !.x = @ + CharWidth * 4]
<1>1. OnGrid(right) /\ right.y = c.y
  BY Right
<1>2. right.text = c.text /\ right.x = c.x + CharWidth * 4
  BY DEF OnGrid, Fields
<1> HIDE DEF right
<1>3. right.x >= c.x
  BY <1>2, Coordinates, ConsoleAssumption
<1>4. NeatCell(right)
  BY <1>1, <1>2, <1>3, NeatMoves
<1> QED BY <1>1, <1>4, NextLineNeat DEF BG_PutTab, right

\* A glyph is drawn at the cursor, where there is nothing yet.
LEMMA GlyphNeat ==
  ASSUME NEW c, OnGrid(c), InLine(c), NeatCell(c), NEW chr
  PROVE  Neat(DrawRows(c, chr, CellRows(c)), Upto(c, c.y + CharHeight))
<1>1. /\ c.x \in Nat /\ c.x >= CharWidth /\ c.y \in Nat
      /\ CharHeight \in Nat /\ CharWidth \in Nat /\ Width \in Nat
  BY Coordinates, ConsoleAssumption
<1>2. CellRows(c) = c.y .. (c.y + CharHeight - 1) /\ CellRows(c) \subseteq Nat
  BY <1>1 DEF CellRows
<1>3. Before(c) \cap CellSpots(c, CellRows(c)) = {}
  BY <1>1, <1>2 DEF Before, CellSpots
<1>4. Before(c) \subseteq Spots
  BY DEF Before
<1>5. Neat(DrawRows(c, chr, CellRows(c)), Before(c) \cup CellSpots(c, CellRows(c)))
  BY <1>1, <1>2, <1>3, <1>4, DrawNeat DEF OnGrid, InLine, NeatCell
<1>6. Upto(c, c.y + CharHeight) = Before(c) \cup CellSpots(c, CellRows(c))
  BY <1>1 DEF Upto, CellRows
<1> QED BY <1>5, <1>6

\* A character is behind it when the cursor has moved on.
LEMMA UptoBefore ==
  ASSUME NEW c, OnGrid(c), InLine(c), NEW d, d.x = c.x + CharWidth, d.y = c.y
  PROVE  Upto(c, c.y + CharHeight) \subseteq Before(d)
<1>1. /\ c.x \in Nat /\ c.x >= CharWidth /\ c.x <= Width /\ c.y \in Nat
      /\ CharHeight \in Nat /\ CharWidth \in Nat /\ Width \in Nat
  BY Coordinates, ConsoleAssumption DEF InLine
<1> SUFFICES ASSUME NEW q \in Upto(c, c.y + CharHeight) PROVE q \in Before(d)
  OBVIOUS
<1>2. CASE q \in Before(c)
  <2>1. q \in Spots /\ q[1] \in Nat /\ q[2] \in Nat
    BY <1>1, <1>2 DEF Before, Spots
  <2> QED BY <1>1, <1>2, <2>1 DEF Before
<1>3. CASE q \in CellSpots(c, c.y .. (c.y + CharHeight - 1))
  <2>1. /\ q = <<q[1], q[2]>>
        /\ q[1] \in c.x .. (c.x + CharWidth - 1) /\ q[2] \in c.y .. (c.y + CharHeight - 1)
    BY <1>3 DEF CellSpots
  <2>2. q[1] \in CharWidth .. (Width + CharWidth - 1) /\ q[2] \in Nat
    BY <1>1, <2>1
  <2>3. q \in Spots
    BY <2>1, <2>2 DEF Spots
  <2>4. q[1] < d.x /\ q[2] < d.y + CharHeight
    BY <1>1, <2>1
  <2> QED BY <2>3, <2>4 DEF Before
<1> QED BY <1>1, <1>2, <1>3 DEF Upto

LEMMA PutCharNeat ==
  ASSUME NEW c, OnGrid(c), InLine(c), NeatCell(c), NEW chr
  PROVE  NeatCell(BG_PutChar(c, chr))
<1> DEFINE drawn == DrawRows(c, chr, CellRows(c))
           right == [drawn EXCEPT !.x = @ + CharWidth]
           e == LineDown(FirstColumn(right))
<1>1. Neat(drawn, Upto(c, c.y + CharHeight))
  BY GlyphNeat
<1>2. OnGrid(drawn) /\ drawn.x = c.x /\ drawn.y = c.y
  BY Drawing DEF OnGrid
<1> HIDE DEF drawn
<1>3. right.text = drawn.text /\ right.x = c.x + CharWidth /\ right.y = c.y
  BY <1>2 DEF OnGrid, Fields
<1>4. OnGrid(right)
  <2>1. right = [drawn EXCEPT !.x = @ + CharWidth * 1]
    BY ConsoleAssumption
  <2> QED BY <1>2, <2>1, Right
<1> HIDE DEF right
<1>5. NeatCell(right)
  BY <1>1, <1>3, UptoBefore, NeatSuperset DEF NeatCell
<1>6. OnGrid(e) /\ e.text = right.text /\ e.y = right.y + CharHeight
  BY <1>4, NewLine DEF LineDown, FirstColumn, OnGrid, Fields
<1> HIDE DEF e
<1>7. NeatCell(e)
  BY <1>4, <1>5, <1>6, NeatMoves
<1>8. NeatCell(Bottom(e)) /\ NeatCell(Bottom(right))
  BY <1>4, <1>5, <1>6, <1>7, BottomNeat
<1> QED BY <1>8 DEF BG_PutChar, e, right, drawn

\* Backspace clears what lies between the cursor and its earlier place.
LEMMA ClearCharNeat ==
  ASSUME NEW c, OnGrid(c), NeatCell(c)
  PROVE  NeatCell(BG_ClearChar(c))
<1> DEFINE d == BG_ClearChar(c)
<1>1. CASE c.x <= CharWidth
  BY <1>1 DEF BG_ClearChar
<1>2. CASE ~(c.x <= CharWidth)
  <2> DEFINE left == [c EXCEPT !.x = @ - CharWidth]
             cell == RowsAt(left, CellRows(left))
  <2>1. left.x = c.x - CharWidth /\ left.y = c.y /\ left.text = c.text /\ DOMAIN left = Fields
    BY DEF OnGrid, Fields
  <2>2. d.text = [p \in Pixels |-> IF p \in cell THEN {} ELSE c.text[p]]
    BY <1>2, <2>1 DEF BG_ClearChar, OnGrid, Fields, Background
  <2>3. d.x = c.x - CharWidth /\ d.y = c.y
    BY <1>2 DEF BG_ClearChar, OnGrid, Fields
  <2>4. cell = {Index(x, y) : x \in (c.x - CharWidth) .. (c.x - CharWidth + CharWidth - 1),
                              y \in c.y .. (c.y + CharHeight - 1)} \cap Pixels
    BY <2>1 DEF RowsAt, CellRows
  <2> HIDE DEF d, left, cell
  <2>5. /\ c.x \in Nat /\ c.y \in Nat /\ CharHeight \in Nat /\ CharWidth \in Nat /\ Width \in Nat
    BY Coordinates, ConsoleAssumption
  <2> SUFFICES ASSUME NEW p \in Pixels
               PROVE  \/ d.text[p] = {}
                      \/ (\E v : d.text[p] = {v}) /\ \E q \in Before(d) : p = Index(q[1], q[2])
    BY DEF Neat, NeatCell, d
  <2>6. CASE p \in cell
    BY <2>2, <2>6
  <2>7. CASE p \notin cell /\ c.text[p] # {}
    <3>1. d.text[p] = c.text[p]
      BY <2>2, <2>7
    <3>2. PICK q \in Before(c) : p = Index(q[1], q[2])
      BY <2>7 DEF Neat, NeatCell
    <3>3. q \in Spots /\ q[1] \in Nat /\ q[2] \in Nat
      BY <2>5, <3>2 DEF Before, Spots
    <3>4. q \in Before(d)
      <4> SUFFICES ASSUME q \notin Before(d) PROVE FALSE
        OBVIOUS
      <4>1. /\ q[1] \in (c.x - CharWidth) .. (c.x - CharWidth + CharWidth - 1)
            /\ q[2] \in c.y .. (c.y + CharHeight - 1)
        BY <2>3, <2>5, <3>2, <3>3 DEF Before
      <4> QED BY <2>4, <2>7, <3>2, <4>1
    <3> QED BY <2>7, <3>1, <3>2, <3>4 DEF Neat, NeatCell
  <2>8. CASE p \notin cell /\ c.text[p] = {}
    BY <2>2, <2>8
  <2> QED BY <2>6, <2>7, <2>8
<1> QED BY <1>1, <1>2

LEMMA TypedNeat ==
  ASSUME OnGrid(con), InLine(con), NeatCell(con), NEW code, NEW shifted,
         NEW d \in Typed(code, shifted)
  PROVE  NeatCell(d)
<1>1. \A chr : NeatCell(BG_PutChar(con, chr))
  BY PutCharNeat
<1>2. NeatCell(BG_NextLine(con)) /\ NeatCell(BG_ClearChar(con))
  BY NextLineNeat, ClearCharNeat
<1> QED BY <1>1, <1>2 DEF Typed

LEMMA PrintCharNeat ==
  ASSUME NEW c, OnGrid(c), InLine(c), NeatCell(c), NEW chr
  PROVE  NeatCell(PrintChar(c, chr))
BY NextLineNeat, PutTabNeat, PutCharNeat DEF PrintChar

\* The steps of the last print between two characters, or with the cursor moved on.
Between == {"off", "next", "beyond?", "first column", "below?", "clear", "halt"}

\* What is drawn at each step of the last print, if no key comes within it: up
\* to a pixel of the character being drawn, or with it, or at most the cursor's
\* line; and what _start has read of the cursor is still so.
Drawn ==
  /\ pc \in Between => NeatCell(con)
  /\ pc \in {"rows", "column"} => Neat(con, Upto(con, row))
  /\ pc \in {"columns", "pixel"} => Neat(con, UptoColumn(con, row, col))
  /\ pc \in {"read x", "write x"} => Neat(con, Upto(con, con.y + CharHeight))
  /\ pc \in {"read y", "write y"} => Neat(con, Lines(con))
  /\ pc \in {"reset x", "reset y"} => Neat(con, {})

Unmoved ==
  /\ pc = "rows" => row \in con.y .. (con.y + CharHeight)
  /\ pc \in {"column", "columns", "pixel"} => row \in con.y .. (con.y + CharHeight - 1)
  /\ pc = "columns" => col \in con.x .. (con.x + CharWidth)
  /\ pc = "pixel" => col \in con.x .. (con.x + CharWidth - 1)
  /\ pc = "write x" => tmp = con.x
  /\ pc = "write y" => tmp = con.y

GlyphInv == quiet => Drawn /\ Unmoved

\* Neatness depends on the text and the cursor alone.
LEMMA SameSpots ==
  ASSUME NEW c, NEW d, d.x = c.x, d.y = c.y
  PROVE  /\ Before(d) = Before(c) /\ Lines(d) = Lines(c)
         /\ \A n : Upto(d, n) = Upto(c, n)
         /\ \A n, k : UptoColumn(d, n, k) = UptoColumn(c, n, k)
<1>1. /\ Before(d) = Before(c) /\ Lines(d) = Lines(c)
      /\ \A n : Upto(d, n) = Upto(c, n)
  BY DEF Before, Lines, Upto, CellSpots
<1> QED BY <1>1 DEF UptoColumn

\* The handlers but the keyboard's.
LEMMA OthersGlyph ==
  ASSUME GlyphInv, UNCHANGED <<pc, row, col, tmp, quiet>>,
         con'.x = con.x, con'.y = con.y, con'.text = con.text
  PROVE  GlyphInv'
<1>0. /\ pc' = pc /\ row' = row /\ col' = col /\ tmp' = tmp /\ quiet' = quiet
      /\ con'.x = con.x /\ con'.y = con.y
  OBVIOUS
<1>1. Drawn => Drawn'
  <2>1. /\ Before(con') = Before(con) /\ Lines(con') = Lines(con)
        /\ \A n : Upto(con', n) = Upto(con, n)
        /\ \A n, k : UptoColumn(con', n, k) = UptoColumn(con, n, k)
    BY SameSpots
  <2>2. \A E : Neat(con, E) => Neat(con', E)
    BY NeatSuperset
  <2> QED BY <1>0, <2>1, <2>2, Zenon DEF Drawn, NeatCell
<1>2. Unmoved => Unmoved'
  BY <1>0 DEF Unmoved
<1> QED BY <1>0, <1>1, <1>2 DEF GlyphInv


\* A step to which nothing but the cell matters.
LEMMA BetweenSuffices ==
  ASSUME pc \in Between, NeatCell(con)
  PROVE  GlyphInv
BY DEF GlyphInv, Drawn, Unmoved, Between

\* A pixel of the glyph, ...
LEMMA PixelNeat ==
  ASSUME IInv, pc = "pixel", NEW chr,
         row \in con.y .. (con.y + CharHeight - 1), col \in con.x .. (con.x + CharWidth - 1),
         Neat(con, UptoColumn(con, row, col)),
         NEW d, d = con \/ d = Ink(con, chr, {Index(col, row)})
  PROVE  Neat(d, UptoColumn(d, row, col + 1)) /\ d.x = con.x /\ d.y = con.y
<1>1. /\ DOMAIN con = Fields
      /\ con.x \in Nat /\ con.x >= CharWidth /\ con.x <= Width /\ con.y \in Nat
      /\ CharHeight \in Nat /\ CharWidth \in Nat /\ Width \in Nat
  BY Coordinates, ConsoleAssumption DEF IInv, Cursor, OnGrid, InLine, PastLine
<1>2. d.x = con.x /\ d.y = con.y
  BY <1>1, Inking
<1>3. row \in Nat /\ col \in Nat
  BY <1>1
<1> DEFINE E == UptoColumn(con, row, col)
           N == {<<col, row>>}
<1>4. E \cap N = {}
  <2>1. <<col, row>> \notin Before(con)
    BY <1>1, <1>3 DEF Before
  <2>2. <<col, row>> \notin CellSpots(con, con.y .. (row - 1))
    BY <1>1, <1>3 DEF CellSpots
  <2>3. <<col, row>> \notin (con.x .. (col - 1)) \X {row}
    BY <1>1, <1>3
  <2> QED BY <2>1, <2>2, <2>3 DEF UptoColumn, Upto
<1>5. E \subseteq Spots /\ N \subseteq Spots
  <2>1. /\ con.x .. (con.x + CharWidth - 1) \subseteq CharWidth .. (Width + CharWidth - 1)
        /\ con.x .. (col - 1) \subseteq CharWidth .. (Width + CharWidth - 1)
        /\ col \in CharWidth .. (Width + CharWidth - 1)
    BY <1>1
  <2>2. con.y .. (row - 1) \subseteq Nat
    BY <1>1, <1>3
  <2>3. Upto(con, row) \subseteq Spots
    BY <2>1, <2>2 DEF Upto, Before, CellSpots, Spots
  <2>4. (con.x .. (col - 1)) \X {row} \subseteq Spots /\ N \subseteq Spots
    BY <1>3, <2>1 DEF Spots
  <2> QED BY <2>3, <2>4 DEF UptoColumn
<1> HIDE DEF E
<1>6. Neat(d, E \cup N)
  <2>1. CASE d = con
    BY <2>1, NeatSuperset DEF E
  <2>2. CASE d = Ink(con, chr, {Index(col, row)})
    <3>1. \A p \in {Index(col, row)} : \E q \in N : p = Index(q[1], q[2])
      OBVIOUS
    <3>2. Neat(con, E)
      BY DEF E
    <3> HIDE DEF N
    <3> QED BY <1>1, <1>4, <1>5, <2>2, <3>1, <3>2, InkNeat
  <2> QED BY <2>1, <2>2
<1>7. E \cup N \subseteq UptoColumn(d, row, col + 1)
  <2>1. Upto(d, row) = Upto(con, row)
    BY <1>2, SameSpots
  <2>2. con.x .. (col - 1) \subseteq con.x .. (col + 1 - 1) /\ col \in con.x .. (col + 1 - 1)
    BY <1>1, <1>3
  <2> QED BY <1>2, <2>1, <2>2 DEF E, UptoColumn
<1>8. Neat(d, UptoColumn(d, row, col + 1))
  BY <1>6, <1>7, NeatSuperset
<1> QED BY <1>2, <1>8

\* ... and its last, which completes a row.
LEMMA RowNeat ==
  ASSUME IInv, row \in con.y .. (con.y + CharHeight - 1), col = con.x + CharWidth,
         Neat(con, UptoColumn(con, row, col))
  PROVE  Neat(con, Upto(con, row + 1))
<1>1. con.y \in Nat /\ row \in Nat /\ CharHeight \in Nat
      /\ con.x \in Nat /\ CharWidth \in Nat
  BY Coordinates, ConsoleAssumption DEF IInv, Cursor
<1>2. con.y .. (row - 1) \subseteq con.y .. (row + 1 - 1) /\ row \in con.y .. (row + 1 - 1)
  BY <1>1
<1> DEFINE columns == con.x .. (con.x + CharWidth - 1)
<1>3. UptoColumn(con, row, col) \subseteq Upto(con, row + 1)
  <2>1. con.x .. (col - 1) = columns
    <3>1. col - 1 = con.x + CharWidth - 1
      BY <1>1
    <3> QED BY <3>1
  <2>2. UptoColumn(con, row, col) = Upto(con, row) \cup (columns \X {row})
    BY <2>1 DEF UptoColumn
  <2>3. \A n : Upto(con, n) = Before(con) \cup (columns \X (con.y .. (n - 1)))
    BY DEF Upto, CellSpots
  <2> HIDE DEF columns
  <2> QED BY <1>2, <2>2, <2>3
<1> QED BY <1>3, NeatSuperset

LEMMA PrintLastGlyph ==
  ASSUME IInv, IInv', Types, GlyphInv, PrintLast, quiet
  PROVE  GlyphInv'
<1>1. /\ OnGrid(con) /\ OnGrid(con') /\ DOMAIN con = Fields
      /\ con.x \in Nat /\ con.x >= CharWidth /\ con.y \in Nat
      /\ CharHeight \in Nat /\ CharWidth \in Nat /\ Width \in Nat
  BY Coordinates, ConsoleAssumption DEF IInv, Cursor, OnGrid
<1>2. Drawn /\ Unmoved
  BY DEF GlyphInv
<1>3. ASSUME pc' \in Between, NeatCell(con)' PROVE GlyphInv'
  BY <1>3 DEF GlyphInv, Drawn, Unmoved, Between
<1>4. CASE NextChar
  <2>1. con' = con /\ NeatCell(con) /\ (pc' \in {"first column", "halt"} \/ (pc' = "rows" /\ row' = con.y))
    BY <1>2, <1>4 DEF NextChar, Step, Drawn, Between
  <2>2. CASE pc' \in {"first column", "halt"}
    BY <1>3, <2>1, <2>2 DEF Between
  <2>3. CASE pc' = "rows" /\ row' = con.y
    <3>1. Before(con) \subseteq Upto(con, con.y)
      BY DEF Upto
    <3>2. Neat(con, Upto(con, con.y))
      BY <2>1, <3>1, NeatSuperset DEF NeatCell
    <3>3. con.y \in con.y .. (con.y + CharHeight)
      BY <1>1
    <3> QED BY <2>1, <2>3, <3>2, <3>3 DEF GlyphInv, Drawn, Unmoved, Between
  <2> QED BY <2>1, <2>2, <2>3
<1>5. CASE TestRow
  <2>1. /\ pc = "rows" /\ con' = con /\ row' = row
        /\ pc' \in {"column", "read x"} /\ (pc' = "column" <=> row < con.y + CharHeight)
    BY <1>5 DEF TestRow, Step
  <2>2. Neat(con, Upto(con, row)) /\ row \in con.y .. (con.y + CharHeight)
    BY <1>2, <2>1 DEF Drawn, Unmoved
  <2>3. CASE pc' = "column"
    <3>1. row \in con.y .. (con.y + CharHeight - 1)
      BY <1>1, <2>1, <2>2, <2>3
    <3> QED BY <2>1, <2>2, <2>3, <3>1, Zenon DEF GlyphInv, Drawn, Unmoved, Between
  <2>4. CASE pc' = "read x"
    <3>1. ~(row < con.y + CharHeight)
      BY <2>1, <2>4
    <3>2. row = con.y + CharHeight
      BY <1>1, <2>2, <3>1
    <3>3. Neat(con, Upto(con, con.y + CharHeight))
      BY <2>2, <3>2
    <3> QED BY <2>1, <2>4, <3>3, Zenon DEF GlyphInv, Drawn, Unmoved, Between
  <2> QED BY <2>1, <2>3, <2>4
<1>6. CASE StartRow
  <2>1. pc = "column" /\ pc' = "columns" /\ col' = con.x /\ con' = con /\ row' = row
    BY <1>6 DEF StartRow, Step
  <2>2. Neat(con, Upto(con, row)) /\ row \in con.y .. (con.y + CharHeight - 1)
    BY <1>2, <2>1 DEF Drawn, Unmoved
  <2>3. Neat(con', UptoColumn(con', row', col'))
    BY <2>1, <2>2, NeatSuperset DEF UptoColumn
  <2>4. col' \in con'.x .. (con'.x + CharWidth)
    BY <1>1, <2>1
  <2> QED BY <2>1, <2>2, <2>3, <2>4, Zenon DEF GlyphInv, Drawn, Unmoved, Between
<1>16. CASE TestColumn
  <2>1. pc = "columns" /\ con' = con /\ col' = col
    BY <1>16 DEF TestColumn, Step
  <2>2. /\ Neat(con, UptoColumn(con, row, col))
        /\ row \in con.y .. (con.y + CharHeight - 1) /\ col \in con.x .. (con.x + CharWidth)
    BY <1>2, <2>1 DEF Drawn, Unmoved
  <2>3. CASE pc' = "pixel" /\ row' = row /\ col < con.x + CharWidth
    <3>1. col \in con.x .. (con.x + CharWidth - 1)
      BY <1>1, <2>2, <2>3
    <3> QED BY <2>1, <2>2, <2>3, <3>1, Zenon DEF GlyphInv, Drawn, Unmoved, Between
  <2>4. CASE pc' = "rows" /\ row' = row + 1 /\ col >= con.x + CharWidth
    <3>1. col = con.x + CharWidth
      BY <1>1, <2>2, <2>4
    <3>2. Neat(con', Upto(con', row'))
      BY <2>1, <2>2, <2>4, <3>1, RowNeat
    <3>3. row' \in con'.y .. (con'.y + CharHeight)
      BY <1>1, <2>1, <2>2, <2>4
    <3> QED BY <2>4, <3>2, <3>3, Zenon DEF GlyphInv, Drawn, Unmoved, Between
  <2> QED BY <1>16, <2>3, <2>4 DEF TestColumn, Step, NextRow
<1>17. CASE DrawPixel
  <2>1. pc = "pixel" /\ pc' = "columns" /\ row' = row /\ col' = col + 1
    BY <1>17 DEF DrawPixel, Step
  <2>2. /\ Neat(con, UptoColumn(con, row, col))
        /\ row \in con.y .. (con.y + CharHeight - 1) /\ col \in con.x .. (con.x + CharWidth - 1)
    BY <1>2, <2>1 DEF Drawn, Unmoved
  <2>3. Neat(con', UptoColumn(con', row, col + 1)) /\ con'.x = con.x /\ con'.y = con.y
    BY <1>17, <2>1, <2>2, PixelDrawn, PixelNeat
  <2>4. col' \in con'.x .. (con'.x + CharWidth)
    BY <1>1, <2>1, <2>2, <2>3
  <2>5. row' \in con'.y .. (con'.y + CharHeight - 1)
    BY <2>1, <2>2, <2>3
  <2>6. Neat(con', UptoColumn(con', row', col'))
    BY <2>1, <2>3
  <2> QED BY <2>1, <2>4, <2>5, <2>6, Zenon DEF GlyphInv, Drawn, Unmoved, Between
<1>7. CASE ReadX
  <2>1. pc = "read x" /\ pc' = "write x" /\ tmp' = con.x /\ con' = con
    BY <1>7 DEF ReadX, Step
  <2>2. Neat(con, Upto(con, con.y + CharHeight))
    BY <1>2, <2>1, Zenon DEF Drawn
  <2> QED BY <2>1, <2>2, Zenon DEF GlyphInv, Drawn, Unmoved, Between
<1>8. CASE WriteX
  <2>1. pc = "write x" /\ pc' = "beyond?" /\ con' = [con EXCEPT !.x = tmp + CharWidth]
    BY <1>8 DEF WriteX, Step
  <2>2. Neat(con, Upto(con, con.y + CharHeight)) /\ tmp = con.x
    BY <1>2, <2>1, Zenon DEF Drawn, Unmoved
  <2>3. InLine(con)
    BY <2>1 DEF IInv, Cursor, PastLine
  <2>4. con'.x = con.x + CharWidth /\ con'.y = con.y /\ con'.text = con.text
    <3>1. con' = [con EXCEPT !.x = con.x + CharWidth]
      BY <2>1, <2>2
    <3> QED BY <1>1, <3>1 DEF Fields
  <2>5. NeatCell(con')
    BY <1>1, <2>2, <2>3, <2>4, UptoBefore, NeatSuperset DEF NeatCell
  <2> QED BY <1>3, <2>1, <2>5 DEF Between
<1>9. CASE TestBeyond \/ TestBelow
  <2>1. /\ pc \in Between /\ con' = con
        /\ pc' \in {"first column", "below?", "clear", "next"}
    BY <1>9 DEF TestBeyond, TestBelow, Step, Between
  <2>2. NeatCell(con)
    BY <1>2, <2>1 DEF Drawn
  <2> QED BY <1>3, <2>1, <2>2 DEF Between
<1>10. CASE ToFirstColumn
  <2>1. pc = "first column" /\ pc' = "read y" /\ con' = FirstColumn(con)
    BY <1>10 DEF ToFirstColumn, Step
  <2>2. NeatCell(con)
    BY <1>2, <2>1 DEF Drawn, Between
  <2>3. con'.y = con.y /\ con'.text = con.text
    BY <1>1, <2>1 DEF FirstColumn, Fields
  <2>4. Before(con) \subseteq Lines(con')
    <3>1. \A q \in Spots : q[2] \in Nat
      BY DEF Spots
    <3> QED BY <1>1, <2>3, <3>1 DEF Before, Lines
  <2>5. Neat(con', Lines(con'))
    BY <2>2, <2>3, <2>4, NeatSuperset DEF NeatCell
  <2> QED BY <2>1, <2>5 DEF GlyphInv, Drawn, Unmoved, Between
<1>11. CASE ReadY
  <2>1. pc = "read y" /\ pc' = "write y" /\ tmp' = con.y /\ con' = con
    BY <1>11 DEF ReadY, Step
  <2>2. Neat(con, Lines(con))
    BY <1>2, <2>1, Zenon DEF Drawn
  <2> QED BY <2>1, <2>2, Zenon DEF GlyphInv, Drawn, Unmoved, Between
<1>12. CASE WriteY
  <2>1. pc = "write y" /\ pc' = "below?" /\ con' = [con EXCEPT !.y = tmp + CharHeight]
    BY <1>12 DEF WriteY, Step
  <2>2. Neat(con, Lines(con)) /\ tmp = con.y
    BY <1>2, <2>1, Zenon DEF Drawn, Unmoved
  <2>3. con'.y = con.y + CharHeight /\ con'.text = con.text
    <3>1. con' = [con EXCEPT !.y = con.y + CharHeight]
      BY <2>1, <2>2
    <3> QED BY <1>1, <3>1 DEF Fields
  <2>4. Lines(con) \subseteq Before(con')
    BY <2>3 DEF Before, Lines
  <2>5. NeatCell(con')
    BY <2>2, <2>3, <2>4, NeatSuperset DEF NeatCell
  <2> QED BY <1>3, <2>1, <2>5 DEF Between
<1>13. CASE Clear
  <2>1. pc' = "reset x" /\ con' = BG_ClearBg(con)
    BY <1>13 DEF Clear, Step
  <2>2. Neat(con', {})
    BY <1>1, <2>1, ClearBgWrites, NeatEmpty
  <2> QED BY <2>1, <2>2, Zenon DEF GlyphInv, Drawn, Unmoved, Between
<1>14. CASE ResetX
  <2>1. pc = "reset x" /\ pc' = "reset y" /\ con' = FirstColumn(con)
    BY <1>14 DEF ResetX, Step
  <2>2. Neat(con, {}) /\ con'.text = con.text
    BY <1>1, <1>2, <2>1 DEF Drawn, FirstColumn, Fields
  <2>3. Neat(con', {})
    BY <2>2, NeatSuperset
  <2> QED BY <2>1, <2>3, Zenon DEF GlyphInv, Drawn, Unmoved, Between
<1>15. CASE ResetY
  <2>1. pc = "reset y" /\ pc' = "next" /\ con' = BG_ResetCursor(con)
    BY <1>15 DEF ResetY, Step
  <2>2. Neat(con, {}) /\ con'.text = con.text
    BY <1>1, <1>2, <2>1 DEF Drawn, BG_ResetCursor, Fields
  <2>3. NeatCell(con')
    BY <2>2, NeatSuperset DEF NeatCell
  <2> QED BY <1>3, <2>1, <2>3 DEF Between
<1> QED BY <1>4, <1>5, <1>6, <1>16, <1>17, <1>7, <1>8, <1>9, <1>10, <1>11, <1>12, <1>13, <1>14, <1>15
        DEF PrintLast

LEMMA GlyphInit == Init => GlyphInv
<1> SUFFICES ASSUME Init PROVE GlyphInv
  OBVIOUS
<1>1. pc = "off" /\ con.text = [p \in Pixels |-> {}]
  BY DEF Init, ConsoleStart, Background
<1> QED BY <1>1, NeatEmpty, BetweenSuffices DEF NeatCell, Between

LEMMA GlyphStep ==
  ASSUME IInv, IInv', ShiftInv, Types, GlyphInv, [Next]_vars
  PROVE  GlyphInv'
<1>1. OnGrid(con) /\ DOMAIN con = Fields
  BY DEF IInv, Cursor, OnGrid
<1>2. ASSUME ~quiet' PROVE GlyphInv'
  BY <1>2 DEF GlyphInv
<1>3. ASSUME UNCHANGED <<con, pc, row, col, tmp, quiet>> PROVE GlyphInv'
  BY <1>3, OthersGlyph
<1>4. ASSUME pc' \in Between, NeatCell(con)' PROVE GlyphInv'
  BY <1>4 DEF GlyphInv, Drawn, Unmoved, Between
<1>5. ASSUME NEW chr \in Early, PrintEarly(chr) PROVE GlyphInv'
  <2>1. pc = "off" /\ pc' = pc /\ quiet' = quiet /\ con' = PrintChar(con, chr)
    BY <1>5 DEF PrintEarly
  <2>2. CASE quiet
    <3>1. NeatCell(con) /\ InLine(con)
      BY <2>1, <2>2 DEF GlyphInv, Drawn, Between, IInv, Cursor, PastLine
    <3>2. NeatCell(con')
      BY <1>1, <2>1, <3>1, PrintCharNeat
    <3> QED BY <1>4, <2>1, <3>2 DEF Between
  <2> QED BY <1>2, <2>1, <2>2
<1>6. CASE EnableInterrupts
  <2>1. pc = "off" /\ pc' = "next" /\ quiet' = quiet /\ con' = con
    BY <1>6 DEF EnableInterrupts
  <2>2. CASE quiet
    <3>1. NeatCell(con)
      BY <2>1, <2>2 DEF GlyphInv, Drawn, Between
    <3> QED BY <1>4, <2>1, <3>1 DEF Between
  <2> QED BY <1>2, <2>1, <2>2
<1>7. CASE PrintLast
  BY <1>2, <1>7, PrintLastGlyph DEF PrintLast
<1>8. CASE INT_KeyboardIntHandler
  <2>1. /\ quiet' = (quiet /\ pc = "halt") /\ pc' = pc
        /\ UNCHANGED con \/ \E code, shifted : con' \in Typed(code, shifted)
    BY <1>8 DEF INT_KeyboardIntHandler, UI_Handle_Keyboard, printing
  <2>2. CASE quiet /\ pc = "halt"
    <3>1. NeatCell(con) /\ InLine(con)
      BY <2>2 DEF GlyphInv, Drawn, Between, IInv, Cursor, PastLine
    <3>2. NeatCell(con')
      BY <1>1, <2>1, <3>1, TypedNeat
    <3> QED BY <1>4, <2>1, <2>2, <3>2 DEF Between
  <2> QED BY <1>2, <2>1, <2>2
<1>9. CASE INT_MouseIntHandler
  <2>1. PICK at \in Places : con' = BG_DrawCursor(con, at)
    BY <1>9 DEF INT_MouseIntHandler
  <2>2. UNCHANGED <<pc, row, col, tmp, quiet>>
    BY <1>9 DEF INT_MouseIntHandler, printing
  <2>3. con'.x = con.x /\ con'.y = con.y /\ con'.text = con.text
    BY <1>1, <2>1, DrawCursorTypes DEF Types
  <2> QED BY <2>2, <2>3, OthersGlyph
<1>10. CASE PressKey \/ PressShift \/ ReleaseShift
  BY <1>3, <1>10 DEF PressKey, PressShift, ReleaseShift, Send, printing
<1>11. CASE UNCHANGED vars
  BY <1>3, <1>11 DEF vars, printing
<1> QED BY <1>5, <1>6, <1>7, <1>8, <1>9, <1>10, <1>11 DEF Next

\* On any screen a glyph is drawn into an empty cell, whatever is printed and
\* typed, backspaced, wrapped and cleared, and however the mouse handler
\* interrupts the last print, unless a key is handled within that print.
THEOREM GlyphsApart == Spec => []GlyphsDoNotOverlap
<1>1. Init => IInv /\ ShiftInv /\ Types /\ GlyphInv
  BY InvInit, ShiftInit, TypesInit, GlyphInit
<1>2. IInv /\ ShiftInv /\ Types /\ GlyphInv /\ [Next]_vars
        => (IInv /\ ShiftInv /\ Types /\ GlyphInv)'
  BY InvNext, ShiftNext, TypesStep, GlyphStep
<1>3. IInv /\ GlyphInv /\ Types => GlyphsDoNotOverlap
  <2> SUFFICES ASSUME IInv, GlyphInv, Types, quiet PROVE GlyphsNeverOverlap
    BY DEF GlyphsDoNotOverlap
  <2>1. Drawn
    BY DEF GlyphInv
  <2>2. \E E : Neat(con, E)
    <3>1. pc \in Between \cup {"rows", "column", "columns", "pixel", "read x", "write x", "read y", "write y", "reset x", "reset y"}
      BY DEF Types, PCs, Between
    <3> QED BY <2>1, <3>1, Zenon DEF Drawn, NeatCell
  <2> QED BY <2>2 DEF Neat, GlyphsNeverOverlap
<1> QED BY <1>1, <1>2, <1>3, PTL DEF Spec

-------------------------------------------------------------------------------
(***************************************************************************)
(* The text under the pointer                                              *)
(***************************************************************************)

Corner == [x |-> 0, y |-> 0]

\* Before the pointer is first drawn the screen shows the text; from then on, as
\* long as the text has not changed, so would it without the pointer.
PointerInv ==
  /\ pc = "off" => moves = 0
  /\ moves = 0 => con.pointer = Corner /\ \A p \in Pixels : con.pixels[p] = con.text[p]
  /\ PointerLeavesNoTrace

\* What the screen of c shows without the pointer.
Under(c) == ClearLastMouseCurPos(c).pixels

LEMMA UnderIs ==
  ASSUME NEW c, DOMAIN c = Fields
  PROVE  Under(c) = [p \in Pixels |->
           IF InArea(c.pointer, p) \in PointerArea THEN c.saved[InArea(c.pointer, p)]
                                                   ELSE c.pixels[p]]
BY DEF Under, ClearLastMouseCurPos, Fields

\* A pixel of the screen is the one at its column and line.
LEMMA AreaPixel ==
  ASSUME NEW at \in Shown, NEW p \in Pixels
  PROVE  Index(at.x + InArea(at, p)[1], at.y + InArea(at, p)[2]) = p
<1> DEFINE W == Width
<1>1. W \in Nat \ {0} /\ Width * Height \in Nat
  <2>1. Width \in Nat /\ Height \in Nat /\ CharWidth \in Nat \ {0} /\ Width >= 2 * CharWidth
    BY ConsoleAssumption
  <2> QED BY <2>1
<1>2. p \in Nat
  BY <1>1 DEF Pixels
<1>3. at.x \in Int /\ at.y \in Int
  BY ConsoleAssumption DEF Shown
<1>4. InArea(at, p) = <<(p % W) - at.x, (p \div W) - at.y>>
  BY DEF InArea
<1>5. \A x, y : Index(x, y) = x + y * W
  BY DEF Index
<1> HIDE DEF W
<1>6. p % W \in Int /\ p \div W \in Int /\ (p % W) + (p \div W) * W = p
  BY <1>1, <1>2
<1>7. at.x + ((p % W) - at.x) = p % W /\ at.y + ((p \div W) - at.y) = p \div W
  BY <1>3, <1>6
<1> QED BY <1>4, <1>5, <1>6, <1>7

\* Wherever the pointer is drawn, the same is under it as before.
LEMMA DrawCursorUnder ==
  ASSUME NEW c, DOMAIN c = Fields, NEW at \in Places
  PROVE  \A p \in Pixels : Under(BG_DrawCursor(c, at))[p] = Under(c)[p]
<1> DEFINE e == ClearLastMouseCurPos(c)
           k == KeptOnScreen(at)
           d == ShowPointer(e, k)
<1>1. DOMAIN e = Fields
  BY DEF ClearLastMouseCurPos, Fields
<1>2. Under(c) = e.pixels
  BY DEF Under
<1> HIDE DEF e
<1>3. k \in Shown
  BY KeptIsShown
<1> HIDE DEF k
<1>4. /\ DOMAIN d = Fields /\ d.pointer = k
      /\ d.saved = [p \in PointerArea |-> e.pixels[Index(k.x + p[1], k.y + p[2])]]
      /\ d.pixels = [p \in Pixels |-> IF InArea(k, p) \in Opaque THEN {Pointer} ELSE e.pixels[p]]
  BY <1>1 DEF ShowPointer, Fields
<1> HIDE DEF d
<1>5. Under(d) = [p \in Pixels |->
        IF InArea(k, p) \in PointerArea THEN d.saved[InArea(k, p)] ELSE d.pixels[p]]
  BY <1>4, UnderIs
<1>6. Opaque \subseteq PointerArea
  BY ConsoleAssumption DEF PointerArea
<1>7. ASSUME NEW p \in Pixels PROVE Under(d)[p] = e.pixels[p]
  <2>1. CASE InArea(k, p) \in PointerArea
    <3>1. Under(d)[p] = d.saved[InArea(k, p)]
      BY <1>5, <2>1
    <3>2. d.saved[InArea(k, p)] = e.pixels[Index(k.x + InArea(k, p)[1], k.y + InArea(k, p)[2])]
      BY <1>4, <2>1
    <3> QED BY <1>3, <3>1, <3>2, AreaPixel
  <2>2. CASE InArea(k, p) \notin PointerArea
    BY <1>4, <1>5, <1>6, <2>2
  <2> QED BY <2>1, <2>2
<1> QED BY <1>2, <1>7 DEF BG_DrawCursor, d, e, k

\* Text written while the pointer has not been drawn, or that leaves the text as
\* it is, shows as it did.
LEMMA WritesUnder ==
  ASSUME DOMAIN con = Fields, PointerInv, Writes(con, con'), moves' = moves,
         ~stale' => ~stale /\ (moves = 0 \/ con'.text = con.text),
         pc' = "off" => pc = "off", moves \in Nat
  PROVE  PointerInv'
<1>1. DOMAIN con' = Fields /\ con'.saved = con.saved /\ con'.pointer = con.pointer
  BY DEF Writes
<1>2. \A p \in Pixels : con.pixels[p] = con.text[p] => con'.pixels[p] = con'.text[p]
  BY DEF Writes
<1>3. /\ Under(con') = [p \in Pixels |->
            IF InArea(con'.pointer, p) \in PointerArea THEN con'.saved[InArea(con'.pointer, p)]
                                                       ELSE con'.pixels[p]]
      /\ Under(con) = [p \in Pixels |->
            IF InArea(con.pointer, p) \in PointerArea THEN con.saved[InArea(con.pointer, p)]
                                                      ELSE con.pixels[p]]
  BY <1>1, UnderIs
<1>4. pc' = "off" => moves' = 0
  BY DEF PointerInv
<1>5. moves' = 0 => con'.pointer = Corner /\ \A p \in Pixels : con'.pixels[p] = con'.text[p]
  BY <1>1, <1>2 DEF PointerInv
<1>6. ASSUME ~stale', NEW p \in Pixels
      PROVE  Under(con')[p] = con'.text[p] \/ InArea(Corner, p) \in PointerArea
  <2>1. Under(con)[p] = con.text[p] \/ InArea(Corner, p) \in PointerArea
    BY <1>6 DEF PointerInv, PointerLeavesNoTrace, Uncovered, Under, Corner
  <2>2. CASE moves = 0
    BY <1>3, <1>5, <2>2
  <2>3. CASE moves # 0
    <3>1. con'.text = con.text
      BY <1>6, <2>3
    <3>2. CASE InArea(con.pointer, p) \in PointerArea
      BY <1>1, <1>3, <2>1, <3>1, <3>2
    <3>3. CASE InArea(con.pointer, p) \notin PointerArea
      BY <1>1, <1>2, <1>3, <2>1, <3>1, <3>3
    <3> QED BY <3>2, <3>3
  <2> QED BY <2>2, <2>3
<1>7. PointerLeavesNoTrace'
  BY <1>6 DEF PointerLeavesNoTrace, Uncovered, Under, Corner
<1> QED BY <1>4, <1>5, <1>7 DEF PointerInv

LEMMA PointerInit == Init => PointerInv
<1> SUFFICES ASSUME Init PROVE PointerInv
  OBVIOUS
<1>1. /\ moves = 0 /\ DOMAIN con = Fields /\ con.pointer = Corner
      /\ con.pixels = [p \in Pixels |-> {}] /\ con.text = [p \in Pixels |-> {}]
  BY DEF Init, ConsoleStart, Background, Corner, Fields
<1>2. \A p \in Pixels : Under(con)[p] = con.text[p] \/ InArea(Corner, p) \in PointerArea
  BY <1>1, UnderIs
<1>3. PointerLeavesNoTrace
  BY <1>2 DEF PointerLeavesNoTrace, Uncovered, Under, Corner
<1> QED BY <1>1, <1>3 DEF PointerInv

LEMMA PointerStep ==
  ASSUME IInv, ShiftInv, Types, PointerInv, [Next]_vars
  PROVE  PointerInv'
<1>1. DOMAIN con = Fields /\ Message /\ ScreenOK(con) /\ moves \in Nat
  BY DEF IInv, Cursor, OnGrid, Types
<1>2. CASE INT_MouseIntHandler
  <2>1. PICK at \in Places : con' = BG_DrawCursor(con, at)
    BY <1>2 DEF INT_MouseIntHandler
  <2>2. pc # "off" /\ pc' = pc /\ moves' = moves + 1 /\ stale' = stale
    BY <1>2 DEF INT_MouseIntHandler, InterruptsOn, printing
  <2>3. moves' # 0
    BY <1>1, <2>2
  <2>4. con'.text = con.text
    BY <1>1, <2>1, DrawCursorTypes
  <2>5. \A p \in Pixels : Under(con')[p] = Under(con)[p]
    BY <1>1, <2>1, DrawCursorUnder
  <2>6. ~stale => \A p \in Pixels :
          Under(con)[p] = con.text[p] \/ InArea(Corner, p) \in PointerArea
    BY DEF PointerInv, PointerLeavesNoTrace, Uncovered, Under, Corner
  <2>7. ~stale' => \A p \in Pixels :
          Under(con')[p] = con'.text[p] \/ InArea(Corner, p) \in PointerArea
    BY <2>2, <2>4, <2>5, <2>6
  <2>8. PointerLeavesNoTrace'
    BY <2>7 DEF PointerLeavesNoTrace, Uncovered, Under, Corner
  <2> QED BY <2>2, <2>3, <2>8 DEF PointerInv
<1>3. CASE ~INT_MouseIntHandler
  <2>1. Writes(con, con')
    BY <1>1, <1>3, OthersWrite
  <2>2. moves' = moves /\ (pc' = "off" => pc = "off")
    <3>1. CASE PrintLast
      BY <3>1 DEF PrintLast, Step, NextChar, TestRow, StartRow, TestColumn, DrawPixel, ReadX, WriteX, TestBeyond,
                  ToFirstColumn, ReadY, WriteY, TestBelow, Clear, ResetX, ResetY
    <3>2. CASE ~PrintLast
      BY <1>3, <3>2 DEF Next, PrintEarly, EnableInterrupts, INT_KeyboardIntHandler, PressKey,
                  PressShift, ReleaseShift, Send, printing, vars
    <3> QED BY <3>1, <3>2
  <2>3. ~stale' => ~stale /\ (moves = 0 \/ con'.text = con.text)
    <3>1. CASE PrintLast \/ INT_KeyboardIntHandler
      <4>1. stale' = (stale \/ (moves > 0 /\ con'.text # con.text))
        BY <3>1 DEF PrintLast, INT_KeyboardIntHandler, ChangesText
      <4>2. moves = 0 \/ moves > 0
        BY <1>1
      <4> QED BY <4>1, <4>2, Zenon
    <3>2. CASE \E chr \in Early : PrintEarly(chr)
      BY <3>2 DEF PrintEarly, PointerInv
    <3>3. CASE UNCHANGED <<con, stale>>
      BY <3>3
    <3> QED BY <1>3, <3>1, <3>2, <3>3
            DEF Next, EnableInterrupts, PressKey, PressShift, ReleaseShift, Send, vars
  <2> QED BY <1>1, <2>1, <2>2, <2>3, WritesUnder
<1> QED BY <1>2, <1>3

\* For every screen, every pointer shape within its area and every place the
\* mouse moves to, what the mouse handler saved is the text under the pointer,
\* although it and the text are drawn by handlers that interrupt the print.
THEOREM TextUnderPointer == Spec => []PointerLeavesNoTrace
<1>1. Init => IInv /\ ShiftInv /\ Types /\ PointerInv
  BY InvInit, ShiftInit, TypesInit, PointerInit
<1>2. IInv /\ ShiftInv /\ Types /\ PointerInv /\ [Next]_vars
        => (IInv /\ ShiftInv /\ Types /\ PointerInv)'
  BY InvNext, ShiftNext, TypesStep, PointerStep
<1>3. PointerInv => PointerLeavesNoTrace
  BY DEF PointerInv
<1> QED BY <1>1, <1>2, <1>3, PTL DEF Spec
===============================================================================
