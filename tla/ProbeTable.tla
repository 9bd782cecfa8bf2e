----------------------------- MODULE ProbeTable -----------------------------
(***************************************************************************)
(* Open addressing with linear probing and tombstones, as the relay uses it *)
(* for its peers.  A slot was never used (occupied = 0), is live (1) or is  *)
(* a tombstone (2), whose key and descriptor no search reads.               *)
(*                                                                          *)
(* The data plane (HtFind) and the control plane (CpRegistryInsert) search  *)
(* such a table differently; both searches are defined here.                *)
(***************************************************************************)
EXTENDS Integers

CONSTANTS
  Keys,         \* client keys
  Fds,          \* file descriptors
  TableSize,    \* kHtCapacity / kCpMaxPeers
  Hash          \* Fnv1a(key) & mask, as a function on Keys

Slots == 0 .. TableSize - 1

ASSUME ProbeAssumption ==
  TableSize \in Nat \ {0} /\ Hash \in [Keys -> Slots]

NoSlot == -1
NoFd == -1

Empty == [occupied |-> 0]
Live(k, fd) == [occupied |-> 1, key |-> k, fd |-> fd]
Tombstone == [occupied |-> 2]

Entry == {Empty, Tombstone} \cup [occupied : {1}, key : Keys, fd : Fds]

\* The i-th slot tried for key k.
Probe(k, i) == (Hash[k] + i) % TableSize

IsLive(e, k) == e.occupied = 1 /\ e.key = k

\* The first probe, counted from 0, in the set S of probes; TableSize if none.
FirstProbe(S) ==
  IF S = {} THEN TableSize ELSE CHOOSE i \in S : \A j \in S : i <= j

(***************************************************************************)
(* Data plane: HtFind, HtLookup (and RouteFind, RouteLookup).               *)
(***************************************************************************)

\* Mutant: a tombstone ends the search.
HtFindStopsAtTombstone(t, k) ==
  LET i == FirstProbe({j \in Slots : \/ t[Probe(k, j)].occupied # 1
                                     \/ IsLive(t[Probe(k, j)], k)})
  IN IF i < TableSize THEN Probe(k, i) ELSE NoSlot

\* The search runs to the key or to an unused slot.  Where the key is missing,
\* the first tombstone passed on the way is preferred to the unused slot.
HtFind(t, k) ==
  LET last == FirstProbe({i \in Slots : \/ t[Probe(k, i)].occupied = 0
                                        \/ IsLive(t[Probe(k, i)], k)})
      tomb == FirstProbe({i \in Slots : i < last /\ t[Probe(k, i)].occupied = 2})
      found == last < TableSize /\ IsLive(t[Probe(k, last)], k)
  IN IF ~found /\ tomb < TableSize THEN Probe(k, tomb)
     ELSE IF last < TableSize THEN Probe(k, last) ELSE NoSlot

HtLookup(t, k) ==
  LET s == HtFind(t, k)
  IN IF s # NoSlot /\ IsLive(t[s], k) THEN s ELSE NoSlot

(***************************************************************************)
(* Control plane: CpRegistryInsert, CpRegistryLookup, CpRegistryRemove.     *)
(***************************************************************************)

\* Insertion takes the first slot that holds the key or is not live.
CpInsertSlot(t, k) ==
  LET i == FirstProbe({j \in Slots : \/ IsLive(t[Probe(k, j)], k)
                                     \/ t[Probe(k, j)].occupied # 1})
  IN IF i < TableSize THEN Probe(k, i) ELSE NoSlot

\* Lookup and removal run to the key or to an unused slot.
CpRegistryLookup(t, k) ==
  LET i == FirstProbe({j \in Slots : \/ IsLive(t[Probe(k, j)], k)
                                     \/ t[Probe(k, j)].occupied = 0})
  IN IF i < TableSize /\ IsLive(t[Probe(k, i)], k)
     THEN Probe(k, i) ELSE NoSlot
=============================================================================
