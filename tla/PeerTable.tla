------------------------------ MODULE PeerTable ------------------------------
(***************************************************************************)
(* The hash table of one data-plane worker: HtInsert, HtRemove, HtLookup.   *)
(* One thread uses it, so a call is a step.  The buffer HtInsert allocates  *)
(* for the peer is assumed to be had: an insertion fails for want of a slot.*)
(***************************************************************************)
EXTENDS ProbeTable

VARIABLES
  ht,     \* [slot]: the entry
  ret     \* the last call, its key and whether it was carried out

HtTypeOK == ht \in [Slots -> Entry]

HtInit == ht = [s \in Slots |-> Empty] /\ ret = [call |-> "none"]

\* The slot s is written, or the call finds none and does nothing.
Call(call, k, s, entry) ==
  /\ ht' = IF s = NoSlot THEN ht ELSE [ht EXCEPT ![s] = entry]
  /\ ret' = [call |-> call, key |-> k, ok |-> s # NoSlot]

\* Mutant: the peer is taken only into a slot never used before or its own.
HtInsertIntoUnused(k, fd) ==
  LET s == HtFind(ht, k)
  IN Call("insert", k, IF s # NoSlot /\ ht[s].occupied = 2 THEN NoSlot ELSE s, Live(k, fd))

\* ProcessCmdAdd: a full table refuses the peer.
HtInsert(k, fd) == Call("insert", k, HtFind(ht, k), Live(k, fd))

\* ProcessCmdRemove: an unknown key is ignored.
HtRemove(k) == Call("remove", k, HtLookup(ht, k), Tombstone)

HtNext ==
  \E k \in Keys :
    \/ \E fd \in Fds : HtInsert(k, fd)
    \/ HtRemove(k)

htVars == <<ht, ret>>

HtSpec == HtInit /\ [][HtNext]_htVars

(***************************************************************************)
(* Properties.                                                              *)
(***************************************************************************)

\* A live entry is found by HtLookup under its key: no key has two entries, and
\* no unused slot separates an entry from the slots its search tries first.
LiveIsFound ==
  \A s \in Slots : ht[s].occupied = 1 => HtLookup(ht, ht[s].key) = s

Map == INSTANCE KeyMap WITH
  Capacity <- TableSize,
  map <- [k \in Keys |-> LET s == HtLookup(ht, k)
                         IN IF s = NoSlot THEN NoFd ELSE ht[s].fd]

\* The table implements a map, answers included: tombstones, collisions and
\* wrap-around do not show, HtInsert refuses a peer only when TableSize others are
\* connected, and HtRemove misses only a key that is not there.  Every call is a
\* call of the map; none is a stuttering step.
MapSpec == Map!Init /\ [][Map!Next]_htVars
=============================================================================
