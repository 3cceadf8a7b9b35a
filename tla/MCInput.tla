-------------------------------- MODULE MCInput --------------------------------
(***************************************************************************)
(* A keyboard with one code and a mouse with two movements.  The firmware  *)
(* has left the keyboard's interrupts on and the mouse's port off.  One    *)
(* movement has bit 3 set in its data bytes, where it marks a first byte.  *)
(***************************************************************************)
EXTENDS Input

MCMovements == {<<9, 12>>, <<-120, -3>>}
===============================================================================
