-------------------------- MODULE MCPageTableManager --------------------------
(***************************************************************************)
(* Page tables with four entries.  The virtual pages share no table, one,  *)
(* two or three tables with each other; the pool is too small for all.     *)
(***************************************************************************)
EXTENDS PageTableManager

MCPages == {<<0, 0, 0, 0>>, <<0, 0, 0, 3>>, <<0, 0, 2, 0>>, <<0, 1, 0, 3>>, <<3, 2, 1, 0>>}

\* Frame 5 becomes a table sooner or later; frame 9 is a device's.
MCTargets == {5, 9}

\* Zeroes, and words that look like an entry for frame 1.
MCGarbage == {0, 7}
===============================================================================
