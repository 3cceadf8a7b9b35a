-------------------------------- MODULE Console --------------------------------
(***************************************************************************)
(* What is written on the screen: graphics/basic_graphics.c.  A console is *)
(* a record of the cursor, the pixels, the pixels saved under the mouse    *)
(* pointer and the pointer's place.  Its operations are functions, for     *)
(* handlers, which nothing interrupts, and are made of smaller ones, for   *)
(* the end of _start, which handlers interrupt.                            *)
(*                                                                         *)
(* A pixel is the set of what was drawn on it since it had the background  *)
(* colour.  A glyph fills its cell, a space draws nothing.  The field      *)
(* "text" is history: the pixels as they would be without the pointer.     *)
(***************************************************************************)
EXTENDS Integers

CONSTANTS
  Width, Height,         \* g_frameBuffer, in pixels
  CharWidth, CharHeight, \* DEFAULT_CUR_X and DEFAULT_CUR_Y, 8 and 16
  PointerWidth, PointerHeight,  \* MOUSE_POINTER_WIDTH and _HEIGHT, 11 and 18
  Opaque                 \* the <<x, y>> at which UI_MousePointer is not 0

ASSUME ConsoleAssumption ==
  /\ CharWidth \in Nat \ {0} /\ CharHeight \in Nat \ {0}
  /\ Width \in Nat /\ Width % CharWidth = 0 /\ Width >= 2 * CharWidth
  /\ Height \in Nat /\ Height >= 2 * CharHeight
  /\ PointerWidth \in 1 .. (Width - 1) /\ PointerHeight \in 1 .. (Height - 1)
  /\ Opaque \subseteq (0 .. (PointerWidth - 1)) \X (0 .. (PointerHeight - 1))

\* Inks that are not characters.
Black == -1001      \* what g_MouseLastCursorBuffer holds first
Pointer == -1002

Background == {}

\* The frame buffer: pixelPerScanLine is taken to be the width.
Pixels == 0 .. (Width * Height - 1)
Index(x, y) == x + y * Width

PointerArea == (0 .. (PointerWidth - 1)) \X (0 .. (PointerHeight - 1))

\* The console BG_Init, BG_SetBgColor and BG_ClearBg leave.
ConsoleStart ==
  [x |-> CharWidth, y |-> CharHeight,
   pixels |-> [i \in Pixels |-> Background],
   text |-> [i \in Pixels |-> Background],
   saved |-> [p \in PointerArea |-> {Black}],
   pointer |-> [x |-> 0, y |-> 0]]

-------------------------------------------------------------------------------
(***************************************************************************)
(* Characters                                                              *)
(***************************************************************************)

Space == 32

\* The pixels of some rows at the cursor that are in the frame buffer.
RowsAt(con, rows) ==
  {Index(x, y) : x \in con.x .. (con.x + CharWidth - 1), y \in rows} \cap Pixels

\* A part of a glyph is drawn over what is there.
Ink(con, chr, inked) ==
  LET Over(p) == [i \in Pixels |-> IF i \in inked THEN (p[i] \ {Pointer, Black}) \cup {chr}
                                                  ELSE p[i]]
  IN  IF chr = Space THEN con
      ELSE [con EXCEPT !.pixels = Over(@), !.text = Over(@)]

DrawRows(con, chr, rows) == Ink(con, chr, RowsAt(con, rows))

CellRows(con) == con.y .. (con.y + CharHeight - 1)

BG_ClearBg(con) ==
  [con EXCEPT !.pixels = [i \in Pixels |-> Background],
              !.text = [i \in Pixels |-> Background]]

BG_ResetCursor(con) == [con EXCEPT !.x = CharWidth, !.y = CharHeight]

ResetOnly(con) == BG_ResetCursor(con)               \* mutant: the text stays
ClearBuffer(con) == BG_ResetCursor(BG_ClearBg(con))

\* Is the cursor behind the last line?
BelowNever(con) == FALSE                            \* mutant: not tested
Below(con) == con.y > Height - CharHeight

FirstColumn(con) == [con EXCEPT !.x = CharWidth]
LineDown(con) == [con EXCEPT !.y = @ + CharHeight]
Bottom(con) == IF Below(con) THEN ClearBuffer(con) ELSE con

BG_NextLine(con) == Bottom(LineDown(FirstColumn(con)))

\* The cursor may stand on the width itself.
BeyondNever(con) == FALSE                           \* mutant: not tested
Beyond(con) == con.x > Width

BG_PutChar(con, chr) ==
  LET drawn == DrawRows(con, chr, CellRows(con))
      right == [drawn EXCEPT !.x = @ + CharWidth]
  IN  Bottom(IF Beyond(right) THEN LineDown(FirstColumn(right)) ELSE right)

BG_PutTab(con) ==
  LET right == [con EXCEPT !.x = @ + CharWidth * 4]
  IN  IF Beyond(right) THEN BG_NextLine(right) ELSE right

\* Backspace: one cell to the left, which is cleared.
BG_ClearChar(con) ==
  LET left == [con EXCEPT !.x = @ - CharWidth]
      Clear(p) == [i \in Pixels |-> IF i \in RowsAt(left, CellRows(left)) THEN Background ELSE p[i]]
  IN  IF con.x <= CharWidth THEN con
      ELSE [left EXCEPT !.pixels = Clear(@), !.text = Clear(@)]

Newline == 10
Tab == 9

\* One character of print.
PrintChar(con, chr) ==
  CASE chr = Newline -> BG_NextLine(con)
    [] chr = Tab -> BG_PutTab(con)
    [] OTHER -> BG_PutChar(con, chr)

-------------------------------------------------------------------------------
(***************************************************************************)
(* The mouse pointer                                                       *)
(***************************************************************************)

\* The place in the pointer's area at place p that pixel i is in.
InArea(p, i) == <<(i % Width) - p.x, (i \div Width) - p.y>>

\* ClearLastMouseCurPos: what was saved under the pointer is put back.
ClearLastMouseCurPos(con) ==
  [con EXCEPT !.pixels = [i \in Pixels |->
     IF InArea(con.pointer, i) \in PointerArea THEN con.saved[InArea(con.pointer, i)] ELSE @[i]]]

\* The pointer stays on the screen, one pixel further in than it has to.
KeptOnScreen(at) ==
  [x |-> IF at.x > Width - PointerWidth THEN Width - PointerWidth - 1 ELSE at.x,
   y |-> IF at.y > Height - PointerHeight THEN Height - PointerHeight - 1 ELSE at.y]

\* Saves what is under the new place and draws the pointer.
ShowPointer(con, at) ==
  [con EXCEPT !.saved = [p \in PointerArea |-> con.pixels[Index(at.x + p[1], at.y + p[2])]],
              !.pixels = [i \in Pixels |-> IF InArea(at, i) \in Opaque THEN {Pointer} ELSE @[i]],
              !.pointer = at]

SaveBeforeClear(con, at) ==                         \* mutant: saved before put back
  LET shown == ShowPointer(con, KeptOnScreen(at))
  IN  [shown EXCEPT !.pixels = ShowPointer(ClearLastMouseCurPos(con), KeptOnScreen(at)).pixels]

BG_DrawCursor(con, at) == ShowPointer(ClearLastMouseCurPos(con), KeptOnScreen(at))
===============================================================================
