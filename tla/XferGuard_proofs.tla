--------------------------- MODULE XferGuard_proofs ---------------------------
(***************************************************************************)
(* The generation check, for any peers, slots, descriptors and bounds: a    *)
(* frame is enqueued for the peer that was on the descriptor when its       *)
(* generation was loaded, unless that descriptor's peer was added again on  *)
(* another one.                                                             *)
(*                                                                          *)
(* GenerationGuards speaks of the delivery only.  IndInv adds what must be  *)
(* known of a frame while it waits (GenInv): its generation is one its      *)
(* descriptor has reached, and as long as that is the current one, no other *)
(* peer has come to the descriptor.  That a slot does not change hands      *)
(* under a descriptor that was not moved is MapInv.                         *)
(***************************************************************************)
EXTENDS XferGuard, TLAPS

\* Before the first peer is added no frame is on its way.
LEMMA InitIndInv == Init => IndInv
<1> SUFFICES ASSUME Init PROVE IndInv
  OBVIOUS
<1> USE GuardAssumption
<1>1. TypeOK
  BY DEF Init, TypeOK, NoFd, NoFrame, NoneSent, Peer
<1>2. GenInv
  BY DEF Init, GenInv
<1>3. MapInv
  BY DEF Init, MapInv
<1>4. GenerationGuards
  BY DEF Init, GenerationGuards
<1> QED
  BY <1>1, <1>2, <1>3, <1>4 DEF IndInv

\* A frame in the ring names a descriptor and a generation.
LEMMA PushedType ==
  ASSUME TypeOK, NEW i \in DOMAIN ring
  PROVE  /\ ring[i] \in Pushed /\ ring[i].dst_fd \in Fds
         /\ ring[i].dst_gen \in Nat /\ fd_gen[ring[i].dst_fd] \in Nat
<1>1. ring \in Seq(Pushed) /\ fd_gen \in [Fds -> Nat]
  BY DEF TypeOK
<1>2. ring[i] \in Pushed
  BY <1>1
<1>3. ring[i].dst_fd \in Fds /\ ring[i].dst_gen \in Nat
  BY <1>2 DEF Pushed
<1> QED
  BY <1>1, <1>2, <1>3

\* fd_map leads to a peer or to none.
LEMMA OnFdType ==
  ASSUME TypeOK, NEW fd \in Fds PROVE OnFd(fd) \in Keys \cup {NoKey}
<1>1. fd_map[fd] \in Slots \cup {NoSlot} /\ ht \in [Slots -> Peer]
  BY DEF TypeOK
<1>2. CASE fd_map[fd] = NoSlot
  BY <1>2 DEF OnFd
<1>3. CASE fd_map[fd] # NoSlot
  <2>1. ht[fd_map[fd]] \in Peer
    BY <1>1, <1>3
  <2>2. ht[fd_map[fd]].key \in Keys \cup {NoKey}
    BY <2>1 DEF Peer, Unused
  <2> QED
    BY <1>3, <2>2 DEF OnFd
<1> QED
  BY <1>2, <1>3

\* ProcessCmdAdd gives the descriptor a generation no frame has, and of the
\* others touches only one that it moves.
LEMMA CmdAddIndInv ==
  ASSUME IndInv, NEW k \in Keys, NEW fd \in Fds, NEW s \in Slots, CmdAdd(k, fd, s)
  PROVE  IndInv'
<1> USE GuardAssumption
<1> DEFINE e == [occupied |-> 1, key |-> k, fd |-> fd]
<1>1. /\ ht' = [ht EXCEPT ![s] = e]
      /\ fd_map' = [fd_map EXCEPT ![fd] = s]
      /\ fd_gen' = [fd_gen EXCEPT ![fd] = @ + 1]
      /\ moved' = moved \cup {f \in Fds : ht[s].occupied = 1 /\ ht[s].fd = f}
      /\ UNCHANGED <<ring, sent>>
  BY DEF CmdAdd
<1>2. /\ ht \in [Slots -> Peer] /\ fd_map \in [Fds -> Slots \cup {NoSlot}]
      /\ fd_gen \in [Fds -> Nat] /\ moved \in SUBSET Fds
  BY DEF IndInv, TypeOK
<1>3. e \in Peer
  BY DEF Peer
<1>4. TypeOK'
  <2>1. ht' \in [Slots -> Peer]
    BY <1>1, <1>2, <1>3
  <2>2. /\ fd_map' \in [Fds -> Slots \cup {NoSlot}] /\ moved' \in SUBSET Fds
        /\ fd_gen' \in [Fds -> Nat]
    <3>1. fd_map' \in [Fds -> Slots \cup {NoSlot}]
      BY <1>1, <1>2
    <3>2. moved' \in SUBSET Fds
      BY <1>1, <1>2
    <3>3. fd_gen' \in [Fds -> Nat]
      BY <1>1, <1>2
    <3> QED
      BY <3>1, <3>2, <3>3
  <2>3. adds' \in 0 .. MaxAdds
    BY DEF IndInv, TypeOK, CmdAdd
  <2>4. open' \in SUBSET Fds
    BY DEF IndInv, TypeOK, CmdAdd
  <2>5. dpc' \in [op : {"add", "remove"}, key : Keys, fd : Fds]
    BY DEF CmdAdd
  <2> QED
    BY <2>1, <2>2, <2>3, <2>4, <2>5 DEF IndInv, TypeOK, CmdAdd, source
<1>5. /\ ht'[s].occupied = 1 /\ ht'[s].fd = fd /\ fd_map'[fd] = s
      /\ \A t \in Slots \ {s} : ht'[t] = ht[t]
      /\ \A g \in Fds \ {fd} : fd_map'[g] = fd_map[g] /\ fd_gen'[g] = fd_gen[g]
      /\ fd_gen'[fd] = fd_gen[fd] + 1
  BY <1>1, <1>2
<1>6. ASSUME NEW g \in Fds \ {fd}, g \notin moved', fd_map[g] # NoSlot
      PROVE  ht'[fd_map[g]] = ht[fd_map[g]] /\ g \notin moved
  <2>1. g \notin moved
    BY <1>1, <1>6
  <2>2. ht[fd_map[g]].occupied = 1 /\ ht[fd_map[g]].fd = g
    BY <1>6, <2>1 DEF IndInv, MapInv
  <2>3. fd_map[g] # s
    BY <1>1, <1>6, <2>2
  <2> QED
    BY <1>2, <1>5, <1>6, <2>1, <2>3
<1>7. MapInv'
  <2> SUFFICES ASSUME NEW g \in Fds, fd_map'[g] # NoSlot, g \notin moved'
               PROVE  ht'[fd_map'[g]].occupied = 1 /\ ht'[fd_map'[g]].fd = g
    BY DEF MapInv
  <2>1. CASE g = fd
    BY <1>5, <2>1
  <2>2. CASE g # fd
    <3>1. fd_map'[g] = fd_map[g]
      BY <1>5, <2>2
    <3>2. ht'[fd_map[g]] = ht[fd_map[g]] /\ g \notin moved
      BY <1>6, <2>2, <3>1
    <3> QED
      BY <3>1, <3>2 DEF IndInv, MapInv
  <2> QED
    BY <2>1, <2>2
<1>8. ASSUME NEW g \in Fds \ {fd}
      PROVE  g \in moved' \/ OnFd(g)' \in {OnFd(g), NoKey}
  <2>1. fd_map'[g] = fd_map[g]
    BY <1>5
  <2>2. CASE fd_map[g] = NoSlot
    BY <2>1, <2>2 DEF OnFd
  <2>3. CASE fd_map[g] # NoSlot /\ g \notin moved'
    <3>1. ht'[fd_map[g]] = ht[fd_map[g]]
      BY <1>6, <2>3
    <3> QED
      BY <2>1, <3>1 DEF OnFd
  <2> QED
    BY <2>2, <2>3
<1>9. GenInv'
  <2> SUFFICES ASSUME NEW i \in DOMAIN ring, NEW f, f = ring[i]
               PROVE  /\ f.dst_gen <= fd_gen'[f.dst_fd]
                      /\ f.dst_gen = fd_gen'[f.dst_fd] =>
                           f.dst_fd \in moved' \/ OnFd(f.dst_fd)' \in {f.owner, NoKey}
    BY <1>1 DEF GenInv, OnFd
  <2>1. f.dst_fd \in Fds /\ f.dst_gen \in Nat /\ fd_gen[f.dst_fd] \in Nat
    BY PushedType DEF IndInv
  <2>2. f.dst_gen <= fd_gen[f.dst_fd]
    BY DEF IndInv, GenInv
  <2>3. f.dst_gen = fd_gen[f.dst_fd] =>
          f.dst_fd \in moved \/ OnFd(f.dst_fd) \in {f.owner, NoKey}
    BY DEF IndInv, GenInv
  <2>4. CASE f.dst_fd = fd
    <3>1. fd_gen'[f.dst_fd] = fd_gen[f.dst_fd] + 1
      BY <1>5, <2>4
    <3> QED
      BY <2>1, <2>2, <3>1
  <2>5. CASE f.dst_fd # fd
    <3>1. fd_gen'[f.dst_fd] = fd_gen[f.dst_fd]
      BY <1>5, <2>1, <2>5
    <3>2. f.dst_fd \in moved' \/ OnFd(f.dst_fd)' \in {OnFd(f.dst_fd), NoKey}
      BY <1>8, <2>1, <2>5
    <3>3. f.dst_fd \in moved => f.dst_fd \in moved'
      BY <1>1
    <3> QED
      BY <2>2, <2>3, <3>1, <3>2, <3>3
  <2> QED
    BY <2>4, <2>5
<1>10. GenerationGuards'
  BY <1>1 DEF IndInv, GenerationGuards
<1> QED
  BY <1>4, <1>7, <1>9, <1>10 DEF IndInv

\* A descriptor that loses its peer keeps its generation and has no peer.
LEMMA LosesPeerIndInv ==
  ASSUME IndInv, NEW fd \in Fds,
         fd_map' = [fd_map EXCEPT ![fd] = NoSlot],
         \A s \in Slots : ht'[s].key = ht[s].key,
         TypeOK', MapInv', UNCHANGED <<fd_gen, ring, sent, moved>>
  PROVE  IndInv'
<1>1. GenInv'
  <2> SUFFICES ASSUME NEW i \in DOMAIN ring
               PROVE  /\ ring[i].dst_gen <= fd_gen[ring[i].dst_fd]
                      /\ ring[i].dst_gen = fd_gen[ring[i].dst_fd] =>
                           \/ ring[i].dst_fd \in moved
                           \/ OnFd(ring[i].dst_fd)' \in {ring[i].owner, NoKey}
    BY DEF GenInv, OnFd
  <2> DEFINE g == ring[i].dst_fd
  <2>1. g \in Fds
    BY PushedType DEF IndInv
  <2>2. fd_map \in [Fds -> Slots \cup {NoSlot}]
    BY DEF IndInv, TypeOK
  <2>3. fd_map'[g] \in {fd_map[g], NoSlot} /\ fd_map[g] \in Slots \cup {NoSlot}
    BY <2>1, <2>2
  <2>4. OnFd(g)' \in {OnFd(g), NoKey}
    BY <2>3 DEF OnFd
  <2> QED
    BY <2>4 DEF IndInv, GenInv
<1>2. GenerationGuards'
  BY DEF IndInv, GenerationGuards
<1> QED
  BY <1>1, <1>2 DEF IndInv

\* ProcessCmdRemove frees the descriptor of the peer; the others that point to
\* its slot were moved.
LEMMA CmdRemoveIndInv ==
  ASSUME IndInv, NEW k \in Keys, NEW s \in Slots, CmdRemove(k, s) PROVE IndInv'
<1> USE GuardAssumption
<1>1. /\ fd_map' = [fd_map EXCEPT ![ht[s].fd] = NoSlot]
      /\ ht' = [ht EXCEPT ![s].occupied = 2]
      /\ ht[s].occupied = 1
      /\ UNCHANGED <<fd_gen, ring, sent, moved>>
  BY DEF CmdRemove, IsLive, history
<1>2. /\ ht \in [Slots -> Peer] /\ fd_map \in [Fds -> Slots \cup {NoSlot}]
  BY DEF IndInv, TypeOK
<1>3. ht[s] \in [occupied : {1, 2}, key : Keys, fd : Fds]
  BY <1>1, <1>2 DEF Peer, Unused
<1>4. ht[s].fd \in Fds
  BY <1>3
<1>5. /\ ht'[s] \in [occupied : {1, 2}, key : Keys, fd : Fds]
      /\ ht'[s].key = ht[s].key
      /\ \A t \in Slots \ {s} : ht'[t] = ht[t]
  BY <1>1, <1>2, <1>3
<1>6. TypeOK'
  <2>1. ht' \in [Slots -> Peer]
    BY <1>1, <1>2, <1>5 DEF Peer
  <2>2. fd_map' \in [Fds -> Slots \cup {NoSlot}]
    BY <1>1, <1>2
  <2>3. open' \in SUBSET Fds
    BY DEF IndInv, TypeOK, CmdRemove
  <2>4. dpc' \in [op : {"add", "remove"}, key : Keys, fd : Fds]
    BY <1>4 DEF CmdRemove
  <2> QED
    BY <2>1, <2>2, <2>3, <2>4 DEF IndInv, TypeOK, CmdRemove, source, history
<1>7. MapInv'
  <2> SUFFICES ASSUME NEW g \in Fds, fd_map'[g] # NoSlot, g \notin moved
               PROVE  ht'[fd_map'[g]].occupied = 1 /\ ht'[fd_map'[g]].fd = g
    BY <1>1 DEF MapInv
  <2>1. g # ht[s].fd /\ fd_map'[g] = fd_map[g] /\ fd_map[g] \in Slots
    BY <1>1, <1>2, <1>4
  <2>2. ht[fd_map[g]].occupied = 1 /\ ht[fd_map[g]].fd = g
    BY <2>1 DEF IndInv, MapInv
  <2>3. ht'[fd_map[g]] = ht[fd_map[g]]
    BY <1>5, <2>1, <2>2
  <2> QED
    BY <2>1, <2>2, <2>3
<1>8. \A t \in Slots : ht'[t].key = ht[t].key
  BY <1>5
<1> QED
  BY <1>1, <1>4, <1>6, <1>7, <1>8, LosesPeerIndInv

\* The end of file takes the peer off its descriptor.
LEMMA RecvEofIndInv ==
  ASSUME IndInv, NEW fd \in Fds, RecvEof(fd) PROVE IndInv'
<1>1. /\ fd_map' = [fd_map EXCEPT ![fd] = NoSlot]
      /\ UNCHANGED <<ht, fd_gen, ring, sent, moved>>
  BY DEF RecvEof, history
<1>2. TypeOK'
  <2>1. fd_map' \in [Fds -> Slots \cup {NoSlot}]
    BY DEF IndInv, TypeOK, RecvEof
  <2> QED
    BY <2>1 DEF IndInv, TypeOK, RecvEof, source, history
<1>3. MapInv'
  <2>1. fd_map \in [Fds -> Slots \cup {NoSlot}]
    BY DEF IndInv, TypeOK
  <2>2. \A g \in Fds : fd_map'[g] \in {fd_map[g], NoSlot}
    BY <1>1, <2>1
  <2> QED
    BY <1>1, <2>2 DEF IndInv, MapInv
<1> QED
  BY <1>1, <1>2, <1>3, LosesPeerIndInv

\* Steps that change neither the destination's tables, nor the ring, nor what
\* was delivered.
LEMMA LocalIndInv ==
  ASSUME IndInv, TypeOK', UNCHANGED <<ht, fd_map, fd_gen, moved, ring, sent>>
  PROVE  IndInv'
BY DEF IndInv, MapInv, GenInv, OnFd, GenerationGuards

\* The source's table, the lookups in it, and a drop.
LEMMA SourceIndInv ==
  ASSUME IndInv,
         \/ CmdRoute
         \/ \E k \in Keys : LookupRoute(k) \/ LookupRule(k)
         \/ XferDrop
  PROVE  IndInv'
<1> USE GuardAssumption
<1>1. CASE CmdRoute
  <2>1. dpc.key \in Keys /\ dpc.fd \in Fds
    BY <1>1 DEF IndInv, TypeOK, CmdRoute
  <2>2. routes' \in [Keys -> Fds \cup {NoFd}]
    BY <1>1, <2>1 DEF IndInv, TypeOK, CmdRoute
  <2>3. TypeOK'
    BY <1>1, <2>2 DEF IndInv, TypeOK, CmdRoute, dest, source, history
  <2> QED
    BY <1>1, <2>3, LocalIndInv DEF CmdRoute, dest, source, history
<1>2. ASSUME NEW k \in Keys, LookupRoute(k) PROVE IndInv'
  <2>1. x' \in Frame
    BY <1>2 DEF IndInv, TypeOK, LookupRoute, Frame
  <2>2. TypeOK'
    BY <1>2, <2>1 DEF IndInv, TypeOK, LookupRoute, dest, history
  <2> QED
    BY <1>2, <2>2, LocalIndInv DEF LookupRoute, dest, history
<1>3. ASSUME NEW k \in Keys, LookupRule(k) PROVE IndInv'
  <2> DEFINE fd == IF fwd1_dst_fd[k] # NoFd THEN fwd1_dst_fd[k] ELSE routes[k]
  <2>1. fd \in Fds
    BY <1>3 DEF IndInv, TypeOK, LookupRule
  <2>2. fwd1_dst_fd' = [fwd1_dst_fd EXCEPT ![k] = fd]
        /\ x' = [via |-> "rule", want |-> k, dst_fd |-> fd]
    BY <1>3 DEF LookupRule
  <2> HIDE DEF fd
  <2>3. x' \in Frame /\ fwd1_dst_fd' \in [Keys -> Fds \cup {NoFd}]
    BY <2>1, <2>2 DEF IndInv, TypeOK, Frame
  <2>4. TypeOK'
    BY <1>3, <2>3 DEF IndInv, TypeOK, LookupRule, dest, history
  <2> QED
    BY <1>3, <2>4, LocalIndInv DEF LookupRule, dest, history
<1>4. CASE XferDrop
  <2>1. TypeOK'
    BY <1>4 DEF IndInv, TypeOK, XferDrop, dest, history
  <2> QED
    BY <1>4, <2>1, LocalIndInv DEF XferDrop, dest, history
<1> QED
  BY <1>1, <1>2, <1>3, <1>4

\* XferPush records the generation and, for the proof, the owner of the moment.
LEMMA XferPushIndInv ==
  ASSUME IndInv, XferPush PROVE IndInv'
<1> USE GuardAssumption
<1> DEFINE f == [via |-> x.via, want |-> x.want, dst_fd |-> x.dst_fd,
                 dst_gen |-> fd_gen[x.dst_fd], owner |-> OnFd(x.dst_fd)]
<1>1. x \in Frame
  BY DEF IndInv, TypeOK, XferPush
<1>2. f \in Pushed
  <2>1. OnFd(x.dst_fd) \in Keys \cup {NoKey}
    BY <1>1, OnFdType DEF IndInv, Frame
  <2> QED
    BY Zenon, <1>1, <2>1 DEF IndInv, TypeOK, Frame, Pushed
<1>3. ring' = Append(ring, f) /\ Len(ring) < MaxQueue
  BY DEF XferPush
<1>4. f.dst_gen = fd_gen[f.dst_fd] /\ f.owner = OnFd(f.dst_fd) /\ f.dst_fd \in Fds
  BY <1>1 DEF Frame
<1> HIDE DEF f
<1>5. ring \in Seq(Pushed) /\ fd_gen \in [Fds -> Nat]
  BY DEF IndInv, TypeOK
<1>6. TypeOK'
  <2>1. ring' \in Seq(Pushed) /\ Len(ring') <= MaxQueue
    BY <1>2, <1>3, <1>5
  <2> QED
    BY <2>1 DEF IndInv, TypeOK, XferPush, dest, history
<1>7. GenInv'
  <2> SUFFICES ASSUME NEW i \in DOMAIN ring'
               PROVE  /\ ring'[i].dst_gen <= fd_gen[ring'[i].dst_fd]
                      /\ ring'[i].dst_gen = fd_gen[ring'[i].dst_fd] =>
                           \/ ring'[i].dst_fd \in moved
                           \/ OnFd(ring'[i].dst_fd) \in {ring'[i].owner, NoKey}
    BY DEF GenInv, XferPush, dest, OnFd
  <2>1. CASE i = Len(ring) + 1
    <3>1. ring'[i] = f
      BY <1>3, <1>5, <2>1
    <3>2. f.dst_gen <= fd_gen[f.dst_fd]
      BY SMTT(30), <1>4, <1>5
    <3>3. OnFd(f.dst_fd) \in {f.owner, NoKey}
      BY <1>4
    <3> QED
      BY <3>1, <3>2, <3>3
  <2>2. CASE i # Len(ring) + 1
    <3>1. i \in DOMAIN ring /\ ring'[i] = ring[i]
      BY <1>2, <1>3, <1>5, <2>2
    <3> QED
      BY <3>1 DEF IndInv, GenInv
  <2> QED
    BY <2>1, <2>2
<1>8. GenerationGuards'
  BY DEF IndInv, GenerationGuards, XferPush, dest, history
<1>9. MapInv'
  BY DEF IndInv, MapInv, XferPush, dest
<1> QED
  BY <1>6, <1>7, <1>8, <1>9 DEF IndInv

\* ProcessXfer delivers only a frame whose generation is current, and GenInv
\* says whose descriptor that is.
LEMMA DeliverIndInv ==
  ASSUME IndInv, Deliver PROVE IndInv'
<1> USE GuardAssumption
<1> DEFINE f == Head(ring)
<1>1. ring \in Seq(Pushed) /\ ring # <<>> /\ ring' = Tail(ring)
  BY DEF IndInv, TypeOK, Deliver
<1>2. f = ring[1] /\ 1 \in DOMAIN ring /\ f \in Pushed
  BY <1>1
<1>3. sent' = IF Accepts(f) THEN [via |-> f.via, want |-> f.want, dst_fd |-> f.dst_fd,
                                  owner |-> f.owner, to |-> OnFd(f.dst_fd)]
              ELSE sent
  BY DEF Deliver
<1>4. f.dst_fd \in Fds /\ OnFd(f.dst_fd) \in Keys \cup {NoKey}
  <2>1. f.dst_fd \in Fds
    BY <1>2 DEF Pushed
  <2> QED
    BY <2>1, OnFdType DEF IndInv
<1>5. Accepts(f) => OnFd(f.dst_fd) = f.owner \/ f.dst_fd \in moved
  <2> SUFFICES ASSUME Accepts(f), f.dst_fd \notin moved PROVE OnFd(f.dst_fd) = f.owner
    OBVIOUS
  <2>1. OnFd(f.dst_fd) \in {f.owner, NoKey}
    BY <1>2 DEF IndInv, GenInv, Accepts
  <2>2. fd_map[f.dst_fd] \in Slots /\ ht[fd_map[f.dst_fd]].occupied = 1
    BY <1>4 DEF IndInv, TypeOK, MapInv, Accepts
  <2>3. OnFd(f.dst_fd) \in Keys
    BY <1>4, <2>2 DEF IndInv, TypeOK, OnFd, Peer, Unused, Accepts
  <2> QED
    BY <2>1, <2>3
<1> HIDE DEF f
<1>6. TypeOK'
  <2>1. sent' \in Sent \cup {NoneSent}
    BY <1>2, <1>3, <1>4 DEF IndInv, TypeOK, Sent, Pushed
  <2>2. ring' \in Seq(Pushed) /\ Len(ring') <= MaxQueue
    BY <1>1 DEF IndInv, TypeOK
  <2> QED
    BY <2>1, <2>2 DEF IndInv, TypeOK, Deliver, dest, source
<1>7. GenInv'
  <2> SUFFICES ASSUME NEW i \in DOMAIN ring'
               PROVE  /\ ring'[i].dst_gen <= fd_gen[ring'[i].dst_fd]
                      /\ ring'[i].dst_gen = fd_gen[ring'[i].dst_fd] =>
                           \/ ring'[i].dst_fd \in moved
                           \/ OnFd(ring'[i].dst_fd) \in {ring'[i].owner, NoKey}
    BY DEF GenInv, Deliver, dest, OnFd
  <2>1. i + 1 \in DOMAIN ring /\ ring'[i] = ring[i + 1]
    BY <1>1
  <2> QED
    BY <2>1 DEF IndInv, GenInv
<1>8. GenerationGuards'
  <2>1. moved' = moved
    BY DEF Deliver, dest
  <2> QED
    BY <1>3, <1>5, <2>1 DEF IndInv, GenerationGuards
<1>9. MapInv'
  BY DEF IndInv, MapInv, Deliver, dest
<1> QED
  BY <1>6, <1>7, <1>8, <1>9 DEF IndInv

\* Every step keeps the invariant.
LEMMA NextIndInv == IndInv /\ [Next]_vars => IndInv'
<1> SUFFICES ASSUME IndInv, [Next]_vars PROVE IndInv'
  OBVIOUS
<1>1. CASE UNCHANGED vars
  BY <1>1 DEF IndInv, TypeOK, MapInv, GenInv, OnFd, GenerationGuards, vars
<1>2. CASE Next
  BY <1>2, CmdAddIndInv, CmdRemoveIndInv, RecvEofIndInv, SourceIndInv,
     DeliverIndInv, XferPushIndInv DEF Next
<1> QED
  BY <1>1, <1>2

\* For all peers, slots, descriptors and bounds, however peers come, go and come
\* again while frames wait in the transfer ring: the frame ProcessXfer enqueues goes
\* to the peer that was on the descriptor when XferPush loaded its generation, or
\* ProcessCmdAdd had moved that descriptor's peer to another one.
THEOREM GenerationsGuard == Spec => [](TypeOK /\ GenerationGuards)
<1>1. IndInv => TypeOK /\ GenerationGuards
  BY DEF IndInv
<1> QED
  BY InitIndInv, NextIndInv, <1>1, PTL DEF Spec
=============================================================================
