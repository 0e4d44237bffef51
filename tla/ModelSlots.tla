----------------------------- MODULE ModelSlots -----------------------------
(***************************************************************************)
(* What the GPU arbiter promises: one slot on the GPU, and a bounded pool   *)
(* of models parked in CPU RAM.  A model enters the slot only when the slot *)
(* is empty, so a swap always passes through the empty slot.                *)
(***************************************************************************)
EXTENDS Integers, FiniteSets

CONSTANTS Backends, MaxWarm, NoBackend

VARIABLES slot,    \* the model on the GPU, or NoBackend
          parked   \* models whose weights wait in CPU RAM

Init == slot = NoBackend /\ parked = {}

\* A cold load, or the resume of a parked model.
Load(b) ==
  /\ slot = NoBackend
  /\ slot' = b
  /\ parked' = parked \ {b}

Unload ==
  /\ slot # NoBackend
  /\ slot' = NoBackend
  /\ UNCHANGED parked

Park ==
  /\ slot # NoBackend
  /\ slot' = NoBackend
  /\ parked' = parked \union {slot}
  /\ Cardinality(parked') <= MaxWarm

Evict(b) ==
  /\ b \in parked
  /\ parked' = parked \ {b}
  /\ UNCHANGED slot

Next ==
  \/ Unload \/ Park
  \/ \E b \in Backends : Load(b) \/ Evict(b)

Spec == Init /\ [][Next]_<<slot, parked>>
=============================================================================
