-------------------------------- MODULE Pointer --------------------------------
(***************************************************************************)
(* What a mouse driver promises: every movement the mouse reports moves    *)
(* the pointer once, in the order of the reports, within the screen.  It   *)
(* may be one report behind the mouse, not two.                            *)
(***************************************************************************)
EXTENDS Integers, Sequences

CONSTANTS
  Movements,     \* the movements a mouse may report: <<right, up>>
  Places,        \* the places the pointer can be at
  Moved(_, _)    \* where a movement takes the pointer from a place

VARIABLES
  reports,    \* the movements reported and not yet carried out
  position

pointerVars == <<reports, position>>

Init ==
  /\ reports = <<>>
  /\ position \in Places

Report(m) ==
  /\ Len(reports) < 2
  /\ reports' = Append(reports, m)
  /\ UNCHANGED position

CarryOut ==
  /\ reports # <<>>
  /\ position' = Moved(position, Head(reports))
  /\ reports' = Tail(reports)

Next == (\E m \in Movements : Report(m)) \/ CarryOut

Spec == Init /\ [][Next]_pointerVars
===============================================================================
