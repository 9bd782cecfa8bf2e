----------------------------- MODULE ShardQueue -----------------------------
(***************************************************************************)
(* What cross-shard forwarding promises: between any two workers there is   *)
(* a bounded FIFO queue.  A frame is accepted at the end of the queue or    *)
(* dropped before it enters; an accepted frame leaves at the front, once.   *)
(* Frames of one queue are numbered in the order of acceptance.             *)
(***************************************************************************)
EXTENDS Integers, Sequences

CONSTANTS
  NumWorkers,   \* workers are 0 .. NumWorkers - 1
  Capacity      \* frames one queue can hold

VARIABLES
  queue,        \* [dst][src]: the accepted frames not handed on yet
  accepted,     \* [dst][src]: frames accepted so far
  delivered     \* [dst][src]: number of the last frame handed on

vars == <<queue, accepted, delivered>>

Workers == 0 .. NumWorkers - 1

Init ==
  /\ queue = [d \in Workers |-> [s \in Workers |-> <<>>]]
  /\ accepted = [d \in Workers |-> [s \in Workers |-> 0]]
  /\ delivered = [d \in Workers |-> [s \in Workers |-> 0]]

Accept(s, d) ==
  /\ Len(queue[d][s]) < Capacity
  /\ accepted' = [accepted EXCEPT ![d][s] = @ + 1]
  /\ queue' = [queue EXCEPT ![d][s] = Append(@, accepted[d][s] + 1)]
  /\ UNCHANGED delivered

Deliver(s, d) ==
  /\ queue[d][s] # <<>>
  /\ delivered' = [delivered EXCEPT ![d][s] = Head(queue[d][s])]
  /\ queue' = [queue EXCEPT ![d][s] = Tail(@)]
  /\ UNCHANGED accepted

Next == \E s, d \in Workers : s # d /\ (Accept(s, d) \/ Deliver(s, d))

Spec == Init /\ [][Next]_vars
=============================================================================
