----------------------------- MODULE AddressSpace -----------------------------
(***************************************************************************)
(* What mapping memory promises: the processor finds behind every virtual  *)
(* page the frame last asked for, or none, so that mapping a page changes  *)
(* that page and no other.  The promise ends when no frame is left to keep *)
(* it in.                                                                  *)
(***************************************************************************)
CONSTANTS
  Pages,    \* the virtual pages
  Frames,   \* the frames they can be mapped to
  Unmapped  \* what a page without a frame is mapped to

VARIABLES
  requested,  \* the frame last asked for, for each virtual page
  mapping,    \* the frame the processor finds behind it
  lost        \* has the promise ended?

asVars == <<requested, mapping, lost>>

Init ==
  /\ requested = [v \in Pages |-> Unmapped]
  /\ mapping = requested
  /\ lost = FALSE

Map(v, p) ==
  /\ ~lost
  /\ requested' = [requested EXCEPT ![v] = p]
  /\ mapping' = requested'
  /\ UNCHANGED lost

Lose ==
  /\ lost' = TRUE
  /\ mapping' \in [Pages -> Frames \cup {Unmapped}]
  /\ UNCHANGED requested

Next ==
  \/ \E v \in Pages, p \in Frames : Map(v, p)
  \/ Lose

Spec == Init /\ [][Next]_asVars
===============================================================================
