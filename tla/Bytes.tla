--------------------------------- MODULE Bytes ---------------------------------
(***************************************************************************)
(* Bytes as numbers, and their bits.                                       *)
(***************************************************************************)
EXTENDS Integers

Byte == 0 .. 255

\* b & mask, for a mask of one bit.
Bit(b, mask) == (b \div mask) % 2 = 1
===============================================================================
