--------------------------- MODULE BufferOwnership ---------------------------
(***************************************************************************)
(* What the frame allocator of the data plane promises: every pool buffer   *)
(* is at any moment in exactly one place.  It is free in the pool it was    *)
(* carved from, or on its way back there, or in the hands of one worker.    *)
(***************************************************************************)
CONSTANTS Workers, Buffers, Owner

VARIABLES
  free,     \* [w]: buffers worker w can allocate
  inbox,    \* [o][s]: buffers of o that worker s gave back
  held      \* [w]: buffers in use on worker w

vars == <<free, inbox, held>>

Init ==
  /\ free = [w \in Workers |-> {b \in Buffers : Owner[b] = w}]
  /\ inbox = [o \in Workers |-> [s \in Workers |-> {}]]
  /\ held = [w \in Workers |-> {}]

Alloc(w, b) ==
  /\ b \in free[w]
  /\ free' = [free EXCEPT ![w] = @ \ {b}]
  /\ held' = [held EXCEPT ![w] = @ \cup {b}]
  /\ UNCHANGED inbox

FreeOwn(w, b) ==
  /\ b \in held[w] /\ Owner[b] = w
  /\ held' = [held EXCEPT ![w] = @ \ {b}]
  /\ free' = [free EXCEPT ![w] = @ \cup {b}]
  /\ UNCHANGED inbox

GiveBack(w, b) ==
  /\ b \in held[w] /\ Owner[b] # w
  /\ held' = [held EXCEPT ![w] = @ \ {b}]
  /\ inbox' = [inbox EXCEPT ![Owner[b]][w] = @ \cup {b}]
  /\ UNCHANGED free

Collect(o, s) ==
  /\ free' = [free EXCEPT ![o] = @ \cup inbox[o][s]]
  /\ inbox' = [inbox EXCEPT ![o][s] = {}]
  /\ UNCHANGED held

\* A frame crosses shards: its buffer changes hands, not owner.
HandOver(w, v, b) ==
  /\ b \in held[w] /\ v # w
  /\ held' = [held EXCEPT ![w] = @ \ {b}, ![v] = @ \cup {b}]
  /\ UNCHANGED <<free, inbox>>

Next ==
  \/ \E w \in Workers, b \in Buffers :
       Alloc(w, b) \/ FreeOwn(w, b) \/ GiveBack(w, b)
  \/ \E o, s \in Workers : Collect(o, s)
  \/ \E w, v \in Workers, b \in Buffers : HandOver(w, v, b)

Spec == Init /\ [][Next]_vars
=============================================================================
