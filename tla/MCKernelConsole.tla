---------------------------- MODULE MCKernelConsole ----------------------------
(***************************************************************************)
(* A screen of two lines with three columns for text, and a row to spare.  *)
(***************************************************************************)
EXTENDS KernelConsole

MCEarly == {98, Tab, Newline}

MCLastMessage == <<75, Newline>>

\* The keys a, Enter and backspace.
MCKeys == {30, UI_KB_ENTER, UI_KB_BACKSPACE}

MCOpaque == {<<0, 0>>, <<0, 1>>, <<0, 2>>, <<1, 1>>}

MCPlaces == {[x |-> 1, y |-> 2], [x |-> 3, y |-> 5]}
================================================================================
