----------------------------- MODULE CpRegistry -----------------------------
(***************************************************************************)
(* The control plane's registry of peers: a table probed by key, an index   *)
(* from descriptors to entries, the list of watching descriptors and a      *)
(* count.  All of it changes with cp->mutex held, so a call is a step.      *)
(*                                                                          *)
(* Frames name any descriptor and any key: the ones a worker sends can be   *)
(* late, and the key of a PeerGone or ClosePeer frame is the one in its     *)
(* payload.  A connection can come on a descriptor whose last peer is still *)
(* registered.                                                              *)
(***************************************************************************)
EXTENDS ProbeTable, FiniteSets

CONSTANT MaxWatchers    \* kCpMaxWatchers

VARIABLES
  peers,        \* [slot]: the entry
  fd_map,       \* [fd]: the slot of the peer on fd, or NoSlot
  watcher_fds,  \* the watching descriptors, a set: their order is not used
  peer_count,
  overlaid      \* history: descriptors registered over a live entry that had
                \* them, as long as a live entry has them

vars == <<peers, fd_map, watcher_fds, peer_count, overlaid>>

TypeOK ==
  /\ peers \in [Slots -> Entry]
  /\ fd_map \in [Fds -> Slots \cup {NoSlot}]
  /\ watcher_fds \in SUBSET Fds /\ Cardinality(watcher_fds) <= MaxWatchers
  /\ peer_count \in Nat
  /\ overlaid \in SUBSET Fds

Init ==
  /\ peers = [s \in Slots |-> Empty]
  /\ fd_map = [fd \in Fds |-> NoSlot]
  /\ watcher_fds = {}
  /\ peer_count = 0
  /\ overlaid = {}

----------------------------------------------------------------------------

\* The part of the state the two registry functions change, as one value:
\* a PeerGone frame runs one of them twice.  What they return is named by an
\* existential over one value, which TLC evaluates once.
Reg == [peers |-> peers, fd_map |-> fd_map, count |-> peer_count]

OnFd(t, fd) == {s \in Slots : t[s].occupied = 1 /\ t[s].fd = fd}

SetReg(r) ==
  /\ peers' = r.peers /\ fd_map' = r.fd_map /\ peer_count' = r.count
  /\ overlaid' = {fd \in Fds : LET on == OnFd(r.peers, fd)
                               IN Cardinality(on) > 1 \/ (fd \in overlaid /\ on # {})}

\* Mutant: a reconnecting peer keeps its old descriptor in the index.
CpRegistryInsertKeepsOld(r, k, fd) ==
  LET s == CpInsertSlot(r.peers, k)
  IN IF s = NoSlot THEN r
     ELSE [peers |-> [r.peers EXCEPT ![s] = Live(k, fd)],
           fd_map |-> [r.fd_map EXCEPT ![fd] = s],
           count |-> IF IsLive(r.peers[s], k) THEN r.count ELSE r.count + 1]

\* Mutant: a reconnecting peer is counted again.
CpRegistryInsertCountsAgain(r, k, fd) ==
  LET s == CpInsertSlot(r.peers, k)
      unmap == {f \in Fds : IsLive(r.peers[s], k) /\ f = r.peers[s].fd}
  IN IF s = NoSlot THEN r
     ELSE [peers |-> [r.peers EXCEPT ![s] = Live(k, fd)],
           fd_map |-> [f \in Fds |-> CASE f = fd -> s
                                       [] f # fd /\ f \in unmap -> NoSlot
                                       [] OTHER -> r.fd_map[f]],
           count |-> r.count + 1]

\* A known key moves to the new descriptor; a full table drops the peer.
CpRegistryInsert(r, k, fd) ==
  LET s == CpInsertSlot(r.peers, k)
      known == IsLive(r.peers[s], k)
      unmap == {f \in Fds : known /\ f = r.peers[s].fd}
  IN IF s = NoSlot THEN r
     ELSE [peers |-> [r.peers EXCEPT ![s] = Live(k, fd)],
           fd_map |-> [f \in Fds |-> CASE f = fd -> s
                                       [] f # fd /\ f \in unmap -> NoSlot
                                       [] OTHER -> r.fd_map[f]],
           count |-> IF known THEN r.count ELSE r.count + 1]

\* Removes the first entry of k the search meets, if there is one.
CpRegistryRemove(r, k) ==
  LET s == CpRegistryLookup(r.peers, k)
  IN IF s = NoSlot THEN r
     ELSE [peers |-> [r.peers EXCEPT ![s] = Tombstone],
           fd_map |-> [r.fd_map EXCEPT ![r.peers[s].fd] = NoSlot],
           count |-> r.count - 1]

(***************************************************************************)
(* The operations.                                                          *)
(***************************************************************************)

\* DoConnect, for a connection accepted on fd.
CpOnPeerConnect(k, fd) ==
  /\ \E r \in {CpRegistryInsert(Reg, k, fd)} : SetReg(r)
  /\ UNCHANGED watcher_fds

\* Mutant: the limit is not tested.
HandleWatchConnsNoLimit(fd) ==
  /\ watcher_fds' = watcher_fds \cup {fd}
  /\ UNCHANGED <<peers, fd_map, peer_count, overlaid>>

\* CpAddWatcher: past the limit the request is ignored.  The sender is not looked
\* up: a descriptor that is no longer, or not yet, registered can watch.
HandleWatchConns(fd) ==
  /\ watcher_fds' = IF Cardinality(watcher_fds) < MaxWatchers
                    THEN watcher_fds \cup {fd} ELSE watcher_fds
  /\ UNCHANGED <<peers, fd_map, peer_count, overlaid>>

\* A kPeerGone frame received on fd, which names k: CpRegistryRemove, then
\* DoDisconnect, which removes the key once more.
HandlePeerGone(k, fd) ==
  /\ watcher_fds' = watcher_fds \ {fd}
  /\ \E once \in {CpRegistryRemove(Reg, k)} :
       \E twice \in {CpRegistryRemove(once, k)} : SetReg(twice)

\* The descriptor whose watch is dropped is that of the entry found by key.
HandleClosePeer(k) ==
  /\ CpRegistryLookup(peers, k) # NoSlot
  /\ watcher_fds' = watcher_fds \ {peers[CpRegistryLookup(peers, k)].fd}
  /\ \E r \in {CpRegistryRemove(Reg, k)} : SetReg(r)

Next ==
  \/ \E k \in Keys, fd \in Fds : CpOnPeerConnect(k, fd) \/ HandlePeerGone(k, fd)
  \/ \E fd \in Fds : HandleWatchConns(fd)
  \/ \E k \in Keys : HandleClosePeer(k)

Spec == Init /\ [][Next]_vars

(***************************************************************************)
(* Properties.                                                              *)
(***************************************************************************)

LiveSlots == {s \in Slots : peers[s].occupied = 1}

\* What the index says is true: fd_map[fd] is the slot s only when s is live and
\* holds fd (CpRegistryInsert, CpRegistryRemove), whatever keys and descriptors the
\* frames name.  It is complete, too, except for a descriptor that was registered
\* while another live entry had it, until no entry has it.
FdMapConsistent ==
  \A fd \in Fds, s \in Slots :
    /\ fd_map[fd] = s => s \in OnFd(peers, fd)
    /\ s \in OnFd(peers, fd) /\ fd \notin overlaid => fd_map[fd] = s

\* peer_count counts the live entries, and never goes below zero.
CountsLive == peer_count = Cardinality(LiveSlots)

\* One live entry per key: "Peer reconnected; update fd." is what
\* CpRegistryInsert does for a key it already holds.  Does not hold: a
\* tombstone that is probed before the entry gets a second one.
OneEntryPerKey ==
  \A s, t \in LiveSlots : peers[s].key = peers[t].key => s = t

\* Every watching descriptor is that of a registered peer: watcher_fds are the
\* "Watcher fds (peers that sent WatchConns)".  Does not hold: a watcher that
\* reconnects leaves its old descriptor.
WatchersAreRegistered == \A fd \in watcher_fds : fd_map[fd] # NoSlot
=============================================================================
