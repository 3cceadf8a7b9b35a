------------------------------ MODULE FramePool ------------------------------
(***************************************************************************)
(* What a page frame allocator promises its callers, whatever way it finds *)
(* a frame: a frame leaves the pool when somebody takes it, is given to    *)
(* nobody else until it is given back, and a request is refused only when  *)
(* the pool is empty.  PageFrameAllocator implements this specification.   *)
(***************************************************************************)
EXTENDS Naturals

CONSTANTS
  NULL,       \* the answer to a request that found no frame
  NoAnswer    \* nothing was requested

VARIABLES
  ready,    \* has the pool been filled?
  pool,     \* the frames a request may be given
  owned,    \* the frames requested or claimed and not yet given back
  result    \* the answer of the last operation, if it was a request

poolVars == <<ready, pool, owned, result>>

Init ==
  /\ ready = FALSE
  /\ pool = {}
  /\ owned = {}
  /\ result = NoAnswer

\* The memory map fills the pool; some frames may be claimed on the way.
Fill ==
  /\ ~ready
  /\ ready' = TRUE
  /\ pool' \subseteq Nat
  /\ owned' \subseteq Nat
  /\ pool' \cap owned' = {}
  /\ UNCHANGED result

\* A request is given some frame of the pool.
Take ==
  /\ ready
  /\ \E f \in pool :
       /\ pool' = pool \ {f}
       /\ owned' = owned \cup {f}
       /\ result' = f
  /\ UNCHANGED ready

\* A request is refused, and only because nothing is left.
Refuse ==
  /\ ready
  /\ pool = {}
  /\ result' = NULL
  /\ UNCHANGED <<ready, pool, owned>>

\* Somebody claims frames by address: those still in the pool become theirs.
Claim ==
  /\ ready
  /\ pool' \subseteq pool
  /\ owned' = owned \cup (pool \ pool')
  /\ result' = NoAnswer
  /\ UNCHANGED ready

\* Frames are given back.  Nobody checks by whom: frames their owners hold may
\* be among them, and frames that were never in the pool.
GiveBack ==
  /\ ready
  /\ owned' \subseteq owned
  /\ pool' \subseteq Nat
  /\ pool \cup (owned \ owned') \subseteq pool'
  /\ pool' \cap owned' = {}
  /\ result' = NoAnswer
  /\ UNCHANGED ready

Next == Fill \/ Take \/ Refuse \/ Claim \/ GiveBack

Spec == Init /\ [][Next]_poolVars
==============================================================================
