------------------------------- MODULE KeyMap -------------------------------
(***************************************************************************)
(* What a peer table promises: a map from keys to file descriptors that     *)
(* holds up to Capacity keys, and an answer to every call.  Inserting a     *)
(* known key replaces its descriptor; an insertion is refused only when the *)
(* map is full.                                                             *)
(***************************************************************************)
EXTENDS Integers, FiniteSets

CONSTANTS Keys, Fds, NoFd, Capacity

VARIABLES
  map,    \* [k]: the descriptor of k, or NoFd
  ret     \* the key of the last call and whether it was carried out

NoCall == [call |-> "none"]
Answer(call, k, ok) == [call |-> call, key |-> k, ok |-> ok]

Init == map = [k \in Keys |-> NoFd] /\ ret = NoCall

(***************************************************************************)
(* A call takes the map m to the map n.                                     *)
(***************************************************************************)
Present(m) == {k \in Keys : m[k] # NoFd}

Insert(m, n, k) ==
  /\ k \in Present(m) \/ Cardinality(Present(m)) < Capacity
  /\ \E fd \in Fds : n = [m EXCEPT ![k] = fd]

Refuse(m, n, k) ==
  /\ k \notin Present(m) /\ Cardinality(Present(m)) = Capacity
  /\ n = m

Remove(m, n, k, ok) ==
  /\ ok = (k \in Present(m))
  /\ n = [m EXCEPT ![k] = NoFd]

\* The map before and the map after are named once: where an instance replaces
\* map by an expression, they are evaluated once a call.
Next ==
  \E k \in Keys, ok \in BOOLEAN :
    \/ /\ ret' = Answer("insert", k, ok)
       /\ \E m \in {map}, n \in {map'} :
            IF ok THEN Insert(m, n, k) ELSE Refuse(m, n, k)
    \/ /\ ret' = Answer("remove", k, ok)
       /\ \E m \in {map}, n \in {map'} : Remove(m, n, k, ok)

Spec == Init /\ [][Next]_<<map, ret>>
=============================================================================
