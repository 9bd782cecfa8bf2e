------------------------------ MODULE XferGuard ------------------------------
(***************************************************************************)
(* Naming the destination of a cross-shard frame.  A source worker finds    *)
(* the destination's descriptor in its copy of the routing table, or in the *)
(* field a forwarding rule cached it in, and then loads the descriptor's    *)
(* generation from the destination worker; the destination worker drops a   *)
(* frame whose generation is not the current one.  Meanwhile peers come and *)
(* go on the destination worker and descriptors are used again.             *)
(*                                                                          *)
(* One source worker and one destination worker; the rings between them are *)
(* FIFO queues (CrossShard implements them).  Which free slot of the hash   *)
(* table a new peer gets depends on its hash and is left open; a slot is a  *)
(* Peer, to which fd_map points, and a removed one keeps its key and        *)
(* descriptor.                                                              *)
(***************************************************************************)
EXTENDS Integers, Sequences

CONSTANTS
  Keys,         \* peers of the destination worker
  Fds, NoKey,
  Slots,        \* of its hash table
  NoSlot,
  MaxAdds,      \* peers added in a behaviour
  MaxQueue      \* frames on their way

ASSUME GuardAssumption ==
  /\ Fds \subseteq Nat /\ NoKey \notin Keys /\ NoSlot \notin Slots
  /\ MaxAdds \in Nat /\ MaxQueue \in Nat

NoFd == -1

VARIABLES
  ht,           \* destination: [slot] the entry
  fd_map,       \* destination: [fd] the slot of the peer read from fd
  fd_gen,       \* destination: [fd] its generation
  open,         \* the descriptors of connections not closed
  dpc,          \* destination: the rest of the command being applied
  routes,       \* source: [key] the descriptor in its routing table
  fwd1_dst_fd,  \* source: [key] the descriptor cached for a rule to key
  x,            \* source: the frame being forwarded
  ring,         \* frames pushed
  sent,         \* history: the frame enqueued for a peer last
  moved,        \* history: descriptors whose peer was added again on another one
  adds          \* history: peers added

vars == <<ht, fd_map, fd_gen, open, dpc, routes, fwd1_dst_fd, x, ring, sent, moved, adds>>
dest == <<ht, fd_map, fd_gen, open, moved>>
history == <<sent, adds>>

Unused == [occupied |-> 0, key |-> NoKey, fd |-> NoFd]
Peer == [occupied : {1, 2}, key : Keys, fd : Fds] \cup {Unused}

NoFrame == [via |-> "none"]
Frame == [via : {"route", "rule"}, want : Keys, dst_fd : Fds]
Pushed == [via : {"route", "rule"}, want : Keys, dst_fd : Fds, dst_gen : Nat,
           owner : Keys \cup {NoKey}]

NoneSent == [via |-> "none"]
Sent == [via : {"route", "rule"}, want : Keys, dst_fd : Fds,
         owner : Keys \cup {NoKey}, to : Keys \cup {NoKey}]

TypeOK ==
  /\ ht \in [Slots -> Peer]
  /\ fd_map \in [Fds -> Slots \cup {NoSlot}]
  /\ fd_gen \in [Fds -> Nat]
  /\ open \in SUBSET Fds
  /\ dpc \in [op : {"idle"}] \cup [op : {"add", "remove"}, key : Keys, fd : Fds]
  /\ routes \in [Keys -> Fds \cup {NoFd}]
  /\ fwd1_dst_fd \in [Keys -> Fds \cup {NoFd}]
  /\ x \in Frame \cup {NoFrame}
  /\ ring \in Seq(Pushed) /\ Len(ring) <= MaxQueue
  /\ sent \in Sent \cup {NoneSent}
  /\ moved \in SUBSET Fds
  /\ adds \in 0 .. MaxAdds

Init ==
  /\ ht = [s \in Slots |-> Unused]
  /\ fd_map = [fd \in Fds |-> NoSlot]
  /\ fd_gen = [fd \in Fds |-> 0]
  /\ open = {}
  /\ dpc = [op |-> "idle"]
  /\ routes = [k \in Keys |-> NoFd]
  /\ fwd1_dst_fd = [k \in Keys |-> NoFd]
  /\ x = NoFrame
  /\ ring = <<>>
  /\ sent = NoneSent
  /\ moved = {}
  /\ adds = 0

source == <<fwd1_dst_fd, x>>

(***************************************************************************)
(* Destination worker.                                                      *)
(***************************************************************************)

IsLive(s, k) == ht[s].occupied = 1 /\ ht[s].key = k

\* HtFind: the entry of k, or else a slot that is not live.
HtFinds(k, s) == IsLive(s, k) \/ (ht[s].occupied # 1 /\ \A t \in Slots : ~IsLive(t, k))

\* ProcessCmdAdd up to BroadcastRouteAdd, for a new connection of k on fd, in slot
\* s.  A peer that is in the table is moved to the new descriptor; the old one
\* stays open, and fd_map[old] at the slot.  A full table refuses a new peer.
CmdAdd(k, fd, s) ==
  /\ dpc.op = "idle" /\ adds < MaxAdds /\ fd \notin open
  /\ HtFinds(k, s)
  /\ ht' = [ht EXCEPT ![s] = [occupied |-> 1, key |-> k, fd |-> fd]]
  /\ fd_map' = [fd_map EXCEPT ![fd] = s]
  /\ fd_gen' = [fd_gen EXCEPT ![fd] = @ + 1]
  /\ open' = open \cup {fd}
  /\ moved' = moved \cup {f \in Fds : ht[s].occupied = 1 /\ ht[s].fd = f}
  /\ dpc' = [op |-> "add", key |-> k, fd |-> fd]
  /\ adds' = adds + 1
  /\ UNCHANGED <<routes, source, ring, sent>>

\* ProcessCmdRemove up to BroadcastRouteRemove, for the live entry of k: its
\* descriptor is closed and leaves fd_map; another that points here does not.
CmdRemove(k, s) ==
  /\ dpc.op = "idle" /\ IsLive(s, k)
  /\ fd_map' = [fd_map EXCEPT ![ht[s].fd] = NoSlot]
  /\ ht' = [ht EXCEPT ![s].occupied = 2]
  /\ open' = open \ {ht[s].fd}
  /\ dpc' = [op |-> "remove", key |-> k, fd |-> ht[s].fd]
  /\ UNCHANGED <<fd_gen, moved, routes, source, ring, history>>

\* RouteSet, RouteRemove on the source's table.
CmdRoute ==
  /\ dpc.op # "idle"
  /\ routes' = [routes EXCEPT ![dpc.key] = IF dpc.op = "add" THEN dpc.fd ELSE NoFd]
  /\ dpc' = [op |-> "idle"]
  /\ UNCHANGED <<dest, source, ring, history>>

\* HandleRecvCqe at end of file: the peer stays until its removal is commanded.
RecvEof(fd) ==
  /\ dpc.op = "idle" /\ fd_map[fd] # NoSlot
  /\ fd_map' = [fd_map EXCEPT ![fd] = NoSlot]
  /\ UNCHANGED <<ht, fd_gen, open, moved, dpc, routes, source, ring, history>>

\* Mutant: the generation is not compared.
AcceptsAny(f) == fd_map[f.dst_fd] # NoSlot

\* The tests of ProcessXfer; whether the slot is live is not one of them.
Accepts(f) == fd_map[f.dst_fd] # NoSlot /\ f.dst_gen = fd_gen[f.dst_fd]

\* The key of the Peer fd_map[fd] points to.
OnFd(fd) == IF fd_map[fd] = NoSlot THEN NoKey ELSE ht[fd_map[fd]].key

\* ProcessXfer, for one frame: it is enqueued for the peer on its descriptor, or
\* dropped.  ProcessXfer and the commands are steps of one thread.
Deliver ==
  /\ dpc.op = "idle" /\ ring # <<>>
  /\ ring' = Tail(ring)
  /\ LET f == Head(ring)
     IN sent' = IF Accepts(f)
                THEN [via |-> f.via, want |-> f.want, dst_fd |-> f.dst_fd,
                      owner |-> f.owner, to |-> OnFd(f.dst_fd)]
                ELSE sent
  /\ UNCHANGED <<dest, dpc, routes, source, adds>>

(***************************************************************************)
(* Source worker.                                                           *)
(***************************************************************************)

\* ForwardMsg: a packet for k, which has a route.
LookupRoute(k) ==
  /\ x = NoFrame /\ routes[k] # NoFd
  /\ x' = [via |-> "route", want |-> k, dst_fd |-> routes[k]]
  /\ UNCHANGED <<dest, dpc, routes, fwd1_dst_fd, ring, history>>

\* ForwardHdData1: Data under a rule to k.  The descriptor found first is kept.
LookupRule(k) ==
  /\ x = NoFrame /\ (fwd1_dst_fd[k] # NoFd \/ routes[k] # NoFd)
  /\ LET fd == IF fwd1_dst_fd[k] # NoFd THEN fwd1_dst_fd[k] ELSE routes[k]
     IN /\ fwd1_dst_fd' = [fwd1_dst_fd EXCEPT ![k] = fd]
        /\ x' = [via |-> "rule", want |-> k, dst_fd |-> fd]
  /\ UNCHANGED <<dest, dpc, routes, ring, history>>

\* XferPush, and the end of ForwardMsg: load the generation and push.  "owner"
\* is for the properties: which peer fd_map had on the descriptor at the load.
XferPush ==
  /\ x # NoFrame /\ Len(ring) < MaxQueue
  /\ ring' = Append(ring, [via |-> x.via, want |-> x.want, dst_fd |-> x.dst_fd,
                           dst_gen |-> fd_gen[x.dst_fd],
                           owner |-> OnFd(x.dst_fd)])
  /\ x' = NoFrame
  /\ UNCHANGED <<dest, dpc, routes, fwd1_dst_fd, history>>

\* A full ring drops the frame.
XferDrop ==
  /\ x # NoFrame /\ Len(ring) = MaxQueue
  /\ x' = NoFrame
  /\ UNCHANGED <<dest, dpc, routes, fwd1_dst_fd, ring, history>>

Next ==
  \/ \E k \in Keys, s \in Slots : CmdRemove(k, s) \/ \E fd \in Fds : CmdAdd(k, fd, s)
  \/ \E fd \in Fds : RecvEof(fd)
  \/ CmdRoute \/ Deliver
  \/ \E k \in Keys : LookupRoute(k) \/ LookupRule(k)
  \/ XferPush \/ XferDrop

Spec == Init /\ [][Next]_vars

(***************************************************************************)
(* Properties.                                                              *)
(***************************************************************************)

\* ProcessXfer enqueues a frame for the peer that was on its descriptor when the
\* source loaded the generation, however late the frame is taken from the ring and
\* whatever peers have come to the descriptor since.  The exception is a
\* descriptor whose peer was added again on another one (ProcessCmdAdd of a
\* connected key): its fd_map entry outlives the peer, its generation stays, and
\* the slot can be another peer's when the frame arrives.
GenerationGuards ==
  sent # NoneSent => sent.to = sent.owner \/ sent.dst_fd \in moved

\* What the generation is for: a frame for k found through the routing table
\* is delivered to k or to no one.  Does not hold: the generation is loaded
\* after the route is read.
RoutedToDestination == sent.via = "route" => sent.to = sent.want

\* At rest, the descriptor a rule to k has cached is not another peer's.  Does
\* not hold: the cached descriptor is never looked up again.
RuleFollowsDestination ==
  dpc.op = "idle" =>
    \A k \in Keys : fwd1_dst_fd[k] # NoFd => OnFd(fwd1_dst_fd[k]) \in {k, NoKey}

(***************************************************************************)
(* The inductive invariant behind GenerationGuards: fd_map and the table    *)
(* agree but for moved descriptors, generations only grow, and a descriptor *)
(* that was not moved changes hands only with its generation.               *)
(***************************************************************************)

MapInv ==
  \A fd \in Fds :
    fd_map[fd] # NoSlot /\ fd \notin moved =>
      ht[fd_map[fd]].occupied = 1 /\ ht[fd_map[fd]].fd = fd

GenInv ==
  \A i \in DOMAIN ring :
    LET f == ring[i]
    IN /\ f.dst_gen <= fd_gen[f.dst_fd]
       /\ f.dst_gen = fd_gen[f.dst_fd] =>
            f.dst_fd \in moved \/ OnFd(f.dst_fd) \in {f.owner, NoKey}

\* Type correctness with the generation argument, as an inductive invariant:
\* every frame in the ring names a generation its descriptor has reached, and
\* while it is the current one no other peer is on a descriptor not moved.
IndInv == TypeOK /\ MapInv /\ GenInv /\ GenerationGuards
=============================================================================
