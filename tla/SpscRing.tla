------------------------------ MODULE SpscRing ------------------------------
(***************************************************************************)
(* The single-producer single-consumer ring both kinds of worker inbox are  *)
(* made of: XferSpscRing (one per source and destination worker) and        *)
(* CmdRing (control plane to worker).  The ring is an array of RingSize     *)
(* slots and two indices; one slot always stays empty so that head = tail   *)
(* means "empty" and head + 1 = tail means "full".                          *)
(*                                                                          *)
(* These are the pure index computations; the modules that use them say     *)
(* which thread reads and writes which index, and in which order.           *)
(***************************************************************************)
EXTENDS Integers

CONSTANT RingSize       \* kXferSpscSize / kCmdRingSize: number of slots

ASSUME RingSizeAssumption == RingSize \in Nat /\ RingSize >= 2

Slots == 0 .. RingSize - 1

\* (i + 1) & (kXferSpscSize - 1): the slot after slot i, wrapping at the end.
NextSlot(i) == IF i = RingSize - 1 THEN 0 ELSE i + 1

\* Mutant of RingFull: no slot is kept free.
RingFullNever(h, t) == FALSE

\* What a producer that read the indices h and t concludes about the ring.
RingFull(h, t) == NextSlot(h) = t
RingEmpty(h, t) == h = t

\* How many filled slots lie between tail t and head h.
RingLen(h, t) == IF h >= t THEN h - t ELSE h - t + RingSize

\* The k-th filled slot counted from tail t, k = 0 being the oldest.
SlotAt(t, k) == IF t + k < RingSize THEN t + k ELSE t + k - RingSize
=============================================================================
