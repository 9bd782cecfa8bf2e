----------------------------- MODULE MCXferGuard -----------------------------
(***************************************************************************)
(* The generation check for TLC: two peers, two slots and two descriptors,  *)
(* so that a peer can be added again and its slot then go to another one.   *)
(***************************************************************************)
EXTENDS XferGuard, TLC

\* Peers are interchangeable, and so are slots.
MCSymmetry == Permutations(Keys) \cup Permutations(Slots)
=============================================================================
