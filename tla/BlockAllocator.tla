--------------------------- MODULE BlockAllocator ---------------------------
(***************************************************************************)
(* What a memory pool promises: a block handed out is neither in use nor   *)
(* protected, and a block given back with protection (so that readers that *)
(* still hold its address are not disturbed) is not handed out again       *)
(* before recycle() has reached it.                                        *)
(***************************************************************************)
CONSTANT Blocks

VARIABLES
  live,   \* the blocks in use
  kept    \* the protected ones: given back, and not yet recycled

blockVars == <<live, kept>>

AllocInit == live = {} /\ kept = {}

Take(b) ==
  /\ b \notin live \cup kept
  /\ live' = live \cup {b}
  /\ UNCHANGED kept

GiveBack(b) ==
  /\ b \in live
  /\ live' = live \ {b}
  /\ UNCHANGED kept

Protect(b) ==
  /\ b \in live
  /\ live' = live \ {b}
  /\ kept' = kept \cup {b}

Recycled(b) ==
  /\ b \in kept
  /\ kept' = kept \ {b}
  /\ UNCHANGED live

AllocNext ==
  \E b \in Blocks : Take(b) \/ GiveBack(b) \/ Protect(b) \/ Recycled(b)

AllocSpec == AllocInit /\ [][AllocNext]_blockVars
=============================================================================
