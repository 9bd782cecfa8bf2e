---------------------------- MODULE PeerLifecycle ----------------------------
(***************************************************************************)
(* The life of a connection, across the threads that share it:              *)
(*                                                                          *)
(*   - the accept thread hands a descriptor to the data plane (DpAddPeer)   *)
(*     and then registers it with the control plane (CpOnPeerConnect);      *)
(*   - a worker applies the commands of its ring and reads the sockets; it  *)
(*     reports the end of a connection, and the frames that are not         *)
(*     forwarded, on its pipe;                                              *)
(*   - the control thread reads the pipe, keeps the registry and tells the  *)
(*     worker to remove a peer; the worker then closes the descriptor.      *)
(*                                                                          *)
(* The threads name a connection by its key or by its descriptor, and both  *)
(* are used again.  Connections are numbered here so that the properties    *)
(* can tell them apart.                                                     *)
(*                                                                          *)
(* The tables are maps (PeerTable implements one).  The registry and what   *)
(* watchers were last told change together, so reg stands for both.  The    *)
(* keys here belong to one worker.                                          *)
(***************************************************************************)
EXTENDS Integers, Sequences, FiniteSets

CONSTANTS
  Keys, Fds, NoKey,
  MaxConns,     \* connections made in a behaviour
  MaxFrames,    \* frames each connection sends that are not forwarded, and
                \* sends to it that fail
  Envs          \* sets of things that may happen, one of which is at work

\* "overlap": a client reconnects before the relay is done with its previous
\* connection.  "early": a client closes before it is registered.  "note":
\* clients send Ping, NotePreferred, WatchConns.  "close": clients send
\* ClosePeer.  "senderr": a send to a client that closed fails before
\* the receive on it ends.  "badlen": clients send frames of an invalid length.
\* "peergone": clients send PeerGone frames.  "recverr": a receive fails with an
\* error other than a reset.  "revoke": the clients are HD peers, and operators
\* revoke them.
Happenings ==
  {"overlap", "early", "note", "close", "senderr", "badlen", "peergone",
   "recverr", "revoke"}

ASSUME LifecycleAssumption ==
  /\ Fds \subseteq Nat /\ NoKey \notin Keys
  /\ MaxConns \in Nat /\ MaxFrames \in Nat
  /\ Envs \subseteq SUBSET Happenings

NoFd == -1
Conns == 1 .. MaxConns
NoConn == 0

VARIABLES
  conn,         \* the connections made: [key, fd, open, frames]
  fdtab,        \* kernel: [fd] the connection behind the descriptor
  armed,        \* kernel: connections with a receive pending in the ring
  acc,          \* accept thread: [pc, c]
  cmds,         \* the worker's command ring
  ht,           \* worker: [key] the peer, [fd, occupied]
  fd_map,       \* worker: [fd] the key of the peer read from it
  pipe,         \* worker to control thread
  reg,          \* control plane: [key] the registered descriptor
  cp_fd_map,    \* control plane: [fd] the key registered on it
  hd,           \* HD peers: [fd, denied], and what revocation is yet to close
  asked,        \* history: connections somebody had reason to end
  deaf,         \* history: connections whose receive failed
  env           \* the member of Envs at work

kernel == <<fdtab, armed>>
worker == <<ht, fd_map>>
control == <<reg, cp_fd_map>>
vars ==
  <<conn, kernel, acc, cmds, worker, pipe, control, hd, asked, deaf, env>>

Command == [type : {"add"}, key : Keys, fd : Fds] \cup
           [type : {"remove"}, key : Keys]
Message == [type : {"gone"}, fd : Fds, key : Keys] \cup
           [type : {"close"}, fd : Fds, from : Keys, key : Keys] \cup
           [type : {"note"}, fd : Fds, from : Keys]

TypeOK ==
  /\ conn \in Seq([key : Keys, fd : Fds, open : BOOLEAN, frames : 0 .. MaxFrames])
  /\ Len(conn) <= MaxConns
  /\ fdtab \in [Fds -> 0 .. Len(conn)]
  /\ armed \subseteq 1 .. Len(conn)
  /\ acc \in [pc : {"accept", "dp", "cp"}, c : 0 .. Len(conn)]
  /\ cmds \in Seq(Command)
  /\ ht \in [Keys -> [fd : Fds \cup {NoFd}, occupied : BOOLEAN]]
  /\ fd_map \in [Fds -> Keys \cup {NoKey}]
  /\ pipe \in Seq(Message)
  /\ reg \in [Keys -> Fds \cup {NoFd}]
  /\ cp_fd_map \in [Fds -> Keys \cup {NoKey}]
  /\ hd \in [fd : [Keys -> Fds \cup {NoFd}], denied : SUBSET Keys,
             closing : Fds \cup {NoFd}]
  /\ asked \subseteq 1 .. Len(conn) /\ deaf \subseteq 1 .. Len(conn)
  /\ env \in Envs

Idle == [pc |-> "accept", c |-> NoConn]

Init ==
  /\ conn = <<>>
  /\ fdtab = [fd \in Fds |-> NoConn]
  /\ armed = {}
  /\ acc = Idle
  /\ cmds = <<>>
  /\ ht = [k \in Keys |-> [fd |-> NoFd, occupied |-> FALSE]]
  /\ fd_map = [fd \in Fds |-> NoKey]
  /\ pipe = <<>>
  /\ reg = [k \in Keys |-> NoFd]
  /\ cp_fd_map = [fd \in Fds |-> NoKey]
  /\ hd = [fd |-> [k \in Keys |-> NoFd], denied |-> {}, closing |-> NoFd]
  /\ asked = {} /\ deaf = {} /\ env \in Envs

(***************************************************************************)
(* Accept thread.                                                           *)
(***************************************************************************)

FreeFds == {fd \in Fds : fdtab[fd] = NoConn}

\* The relay holds nothing of the key's previous connections.
Forgotten(k) ==
  /\ \A fd \in Fds : fdtab[fd] # NoConn => conn[fdtab[fd]].key # k
  /\ ~ht[k].occupied /\ reg[k] = NoFd

\* accept() returns the lowest free descriptor; the handshake gives the key.
\* HdPeersInsert records the descriptor of an HD peer, and keeps the one it has
\* for a key that comes back; a key that was revoked is refused.
Accept(k) ==
  /\ acc = Idle /\ Len(conn) < MaxConns /\ FreeFds # {}
  /\ "overlap" \in env \/ Forgotten(k)
  /\ k \notin hd.denied
  /\ LET fd == CHOOSE f \in FreeFds : \A g \in FreeFds : f <= g
         c == Len(conn) + 1
     IN /\ conn' = Append(conn, [key |-> k, fd |-> fd, open |-> TRUE, frames |-> 0])
        /\ fdtab' = [fdtab EXCEPT ![fd] = c]
        /\ acc' = [pc |-> "dp", c |-> c]
        /\ hd' = IF "revoke" \in env /\ hd.fd[k] = NoFd
                 THEN [hd EXCEPT !.fd[k] = fd] ELSE hd
  /\ UNCHANGED <<armed, cmds, worker, pipe, control, asked, deaf, env>>

\* HandleConnection: DpAddPeer.
AcceptDp ==
  /\ acc.pc = "dp"
  /\ cmds' = Append(cmds, [type |-> "add", key |-> conn[acc.c].key,
                           fd |-> conn[acc.c].fd])
  /\ acc' = [acc EXCEPT !.pc = "cp"]
  /\ UNCHANGED <<conn, kernel, worker, pipe, control, hd, asked, deaf, env>>

\* CpOnPeerConnect, then back to accept().
AcceptCp ==
  LET k == conn[acc.c].key
      fd == conn[acc.c].fd
  IN /\ acc.pc = "cp"
     /\ reg' = [reg EXCEPT ![k] = fd]
     /\ cp_fd_map' = [f \in Fds |-> CASE f = fd -> k
                                      [] f # fd /\ f = reg[k] -> NoKey
                                      [] OTHER -> cp_fd_map[f]]
     /\ acc' = Idle
     /\ UNCHANGED <<conn, kernel, cmds, worker, pipe, hd, asked, deaf, env>>

ClientClose(c) ==
  /\ conn[c].open
  /\ "early" \in env \/ acc.c # c
  /\ conn' = [conn EXCEPT ![c].open = FALSE]
  /\ UNCHANGED <<kernel, acc, cmds, worker, pipe, control, hd, asked, deaf, env>>

(***************************************************************************)
(* Worker.                                                                  *)
(***************************************************************************)

\* Mutant: no receive is submitted.
CmdAddNotArmed ==
  /\ cmds # <<>> /\ Head(cmds).type = "add"
  /\ LET k == Head(cmds).key
         fd == Head(cmds).fd
     IN /\ ht' = [ht EXCEPT ![k] = [fd |-> fd, occupied |-> TRUE]]
        /\ fd_map' = [fd_map EXCEPT ![fd] = k]
  /\ cmds' = Tail(cmds)
  /\ UNCHANGED <<conn, kernel, acc, pipe, control, hd, asked, deaf, env>>

\* ProcessCmdAdd: the key's entry is overwritten, and a receive is submitted
\* on whatever the descriptor now is.
CmdAdd ==
  /\ cmds # <<>> /\ Head(cmds).type = "add"
  /\ LET k == Head(cmds).key
         fd == Head(cmds).fd
     IN /\ ht' = [ht EXCEPT ![k] = [fd |-> fd, occupied |-> TRUE]]
        /\ fd_map' = [fd_map EXCEPT ![fd] = k]
        /\ armed' = armed \cup ({fdtab[fd]} \ {NoConn})
  /\ cmds' = Tail(cmds)
  /\ UNCHANGED <<conn, fdtab, acc, pipe, control, hd, asked, deaf, env>>

\* Mutant: the peer is dropped and its descriptor stays open.
CmdRemoveNoClose ==
  /\ cmds # <<>> /\ Head(cmds).type = "remove"
  /\ LET k == Head(cmds).key
     IN IF ~ht[k].occupied THEN UNCHANGED <<fdtab, worker>>
        ELSE /\ fd_map' = [fd_map EXCEPT ![ht[k].fd] = NoKey]
             /\ ht' = [ht EXCEPT ![k].occupied = FALSE]
             /\ UNCHANGED fdtab
  /\ cmds' = Tail(cmds)
  /\ UNCHANGED <<conn, armed, acc, pipe, control, hd, asked, deaf, env>>

\* ProcessCmdRemove: close() frees the descriptor.  A receive the ring holds
\* keeps the connection itself alive.
CmdRemove ==
  /\ cmds # <<>> /\ Head(cmds).type = "remove"
  /\ LET k == Head(cmds).key
     IN IF ~ht[k].occupied THEN UNCHANGED <<fdtab, worker>>
        ELSE /\ fd_map' = [fd_map EXCEPT ![ht[k].fd] = NoKey]
             /\ fdtab' = [fdtab EXCEPT ![ht[k].fd] = NoConn]
             /\ ht' = [ht EXCEPT ![k].occupied = FALSE]
  /\ cmds' = Tail(cmds)
  /\ UNCHANGED <<conn, armed, acc, pipe, control, hd, asked, deaf, env>>

\* NotifyPeerClose: the slot's own descriptor and key are reported.
Gone(k) == [type |-> "gone", fd |-> ht[k].fd, key |-> k]

\* Mutant: every completion without data is taken for the end of file.
RecvEofAnyError(c) ==
  /\ c \in armed
  /\ armed' = armed \ {c}
  /\ LET k == fd_map[conn[c].fd]
     IN IF k = NoKey THEN UNCHANGED <<pipe, fd_map>>
        ELSE /\ pipe' = Append(pipe, Gone(k))
             /\ fd_map' = [fd_map EXCEPT ![conn[c].fd] = NoKey]
  /\ UNCHANGED <<conn, fdtab, acc, cmds, ht, control, hd, asked, deaf, env>>

\* Mutant: whatever fd_map has for the descriptor is reported.
RecvEofUnchecked(c) ==
  /\ c \in armed /\ ~conn[c].open
  /\ armed' = armed \ {c}
  /\ pipe' = Append(pipe, [type |-> "gone", fd |-> conn[c].fd,
                           key |-> fd_map[conn[c].fd]])
  /\ fd_map' = [fd_map EXCEPT ![conn[c].fd] = NoKey]
  /\ UNCHANGED <<conn, fdtab, acc, cmds, ht, control, hd, asked, deaf, env>>

\* HandleRecvCqe with end of file.  The completion names the descriptor; the
\* peer reported gone is the one fd_map has for it now.
RecvEof(c) ==
  /\ c \in armed /\ ~conn[c].open
  /\ armed' = armed \ {c}
  /\ LET k == fd_map[conn[c].fd]
     IN IF k = NoKey THEN UNCHANGED <<pipe, fd_map>>
        ELSE /\ pipe' = Append(pipe, Gone(k))
             /\ fd_map' = [fd_map EXCEPT ![conn[c].fd] = NoKey]
  /\ UNCHANGED <<conn, fdtab, acc, cmds, ht, control, hd, asked, deaf, env>>

\* HandleRecvCqe with any other error: nothing is reported, the descriptor stays
\* in fd_map, and no receive is submitted.
RecvError(c) ==
  /\ "recverr" \in env
  /\ c \in armed
  /\ armed' = armed \ {c}
  /\ deaf' = deaf \cup {c}
  /\ UNCHANGED <<conn, fdtab, acc, cmds, worker, pipe, control, hd, asked, env>>

Named(k) == {c \in DOMAIN conn : conn[c].key = k}

\* HandleRecvCqe with a frame of an invalid length: the sender is reported gone
\* and is still read.
RecvBadLen(c) ==
  /\ "badlen" \in env
  /\ c \in armed /\ conn[c].open /\ conn[c].frames < MaxFrames
  /\ fd_map[conn[c].fd] # NoKey
  /\ conn' = [conn EXCEPT ![c].frames = @ + 1]
  /\ pipe' = Append(pipe, Gone(fd_map[conn[c].fd]))
  /\ asked' = asked \cup {c}
  /\ UNCHANGED <<kernel, acc, cmds, worker, control, hd, deaf, env>>

\* HandleRecvCqe with a frame for the control thread (ForwardMsg).  That thread
\* cannot tell a client's PeerGone from a worker's.
RecvFrame(c) ==
  /\ c \in armed /\ conn[c].open /\ conn[c].frames < MaxFrames
  /\ conn' = [conn EXCEPT ![c].frames = @ + 1]
  /\ LET k == fd_map[conn[c].fd]
         \* "from" is the sender, for the properties; it is not in the message.
         note == [type |-> "note", fd |-> ht[k].fd, from |-> conn[c].key]
         close(t) == [type |-> "close", fd |-> ht[k].fd,
                      from |-> conn[c].key, key |-> t]
         gone(t) == [type |-> "gone", fd |-> ht[k].fd, key |-> t]
     IN IF k = NoKey THEN UNCHANGED <<pipe, asked>>
        ELSE \/ /\ "note" \in env
                /\ pipe' = Append(pipe, note)
                /\ UNCHANGED asked
             \/ /\ "close" \in env
                /\ \E t \in Keys : pipe' = Append(pipe, close(t))
                /\ UNCHANGED asked
             \/ /\ "peergone" \in env
                /\ \E t \in Keys : pipe' = Append(pipe, gone(t))
                                    /\ asked' = asked \cup Named(t)
  /\ UNCHANGED <<kernel, acc, cmds, worker, control, hd, deaf, env>>

\* HandleSendCqe with EPIPE or ECONNRESET: the peer is reported gone, and is
\* still read from.
SendError(c) ==
  /\ "senderr" \in env
  /\ ~conn[c].open /\ fdtab[conn[c].fd] = c /\ conn[c].frames < MaxFrames
  /\ fd_map[conn[c].fd] # NoKey
  /\ conn' = [conn EXCEPT ![c].frames = @ + 1]
  /\ LET k == fd_map[conn[c].fd]
     IN pipe' = Append(pipe, Gone(k))
  /\ UNCHANGED <<kernel, acc, cmds, worker, control, hd, asked, deaf, env>>

(***************************************************************************)
(* Control thread: CpProcessFrame, with cp->mutex held.                     *)
(***************************************************************************)

\* Mutant: the index keeps the key.
UnregisterKeepsIndex(k) ==
  /\ reg' = [reg EXCEPT ![k] = NoFd]
  /\ UNCHANGED cp_fd_map

\* CpRegistryRemove.
Unregister(k) ==
  /\ reg' = [reg EXCEPT ![k] = NoFd]
  /\ cp_fd_map' = [fd \in Fds |-> IF fd = reg[k] THEN NoKey ELSE cp_fd_map[fd]]

DpRemovePeer(k) == cmds' = Append(cmds, [type |-> "remove", key |-> k])

\* Mutant: the peer stays registered.
HandlePeerGoneKeeps ==
  /\ pipe # <<>> /\ Head(pipe).type = "gone"
  /\ DpRemovePeer(Head(pipe).key)
  /\ pipe' = Tail(pipe)
  /\ UNCHANGED <<conn, kernel, acc, worker, control, hd, asked, deaf, env>>

\* kPeerGone: the registry forgets the key and the worker is told to.
HandlePeerGone ==
  /\ pipe # <<>> /\ Head(pipe).type = "gone"
  /\ Unregister(Head(pipe).key)
  /\ DpRemovePeer(Head(pipe).key)
  /\ pipe' = Tail(pipe)
  /\ UNCHANGED <<conn, kernel, acc, worker, hd, asked, deaf, env>>

\* kClosePeer: ignored when the key is not registered.
HandleClosePeer ==
  /\ pipe # <<>> /\ Head(pipe).type = "close"
  /\ LET k == Head(pipe).key
     IN IF reg[k] = NoFd THEN UNCHANGED <<cmds, control, asked>>
        ELSE /\ DpRemovePeer(k)
             /\ Unregister(k)
             /\ asked' = asked \cup ({fdtab[reg[k]]} \ {NoConn})
  /\ pipe' = Tail(pipe)
  /\ UNCHANGED <<conn, kernel, acc, worker, hd, deaf, env>>

\* Frames answered to, or recorded for, the peer registered on the descriptor
\* (kPing, kNotePreferred, kWatchConns).
HandleNote ==
  /\ pipe # <<>> /\ Head(pipe).type = "note"
  /\ pipe' = Tail(pipe)
  /\ UNCHANGED <<conn, kernel, acc, cmds, worker, control, hd, asked, deaf, env>>

(***************************************************************************)
(* Operators: PeerRevoke and the like.  The HD registry forgets the peer,   *)
(* the worker is told to remove it, and the descriptor is closed here too.  *)
(***************************************************************************)
Revoke(k) ==
  /\ hd.fd[k] # NoFd /\ hd.closing = NoFd
  /\ DpRemovePeer(k)
  /\ hd' = [fd |-> [hd.fd EXCEPT ![k] = NoFd], denied |-> hd.denied \cup {k},
            closing |-> hd.fd[k]]
  /\ asked' = asked \cup Named(k)
  /\ UNCHANGED <<conn, kernel, acc, worker, pipe, control, deaf, env>>

RevokeClose ==
  /\ hd.closing # NoFd
  /\ fdtab' = [fdtab EXCEPT ![hd.closing] = NoConn]
  /\ hd' = [hd EXCEPT !.closing = NoFd]
  /\ UNCHANGED <<conn, armed, acc, cmds, worker, pipe, control, asked, deaf, env>>

AcceptThread == AcceptDp \/ AcceptCp
Command1 == CmdAdd \/ CmdRemove
ControlThread == HandlePeerGone \/ HandleClosePeer \/ HandleNote

Next ==
  \/ \E k \in Keys : Accept(k) \/ Revoke(k)
  \/ \E c \in DOMAIN conn : ClientClose(c) \/ RecvEof(c) \/ RecvFrame(c)
                            \/ RecvError(c) \/ RecvBadLen(c) \/ SendError(c)
  \/ RevokeClose \/ AcceptThread \/ Command1 \/ ControlThread

\* The threads run; the kernel completes a receive at end of file.  Clients and
\* operators do what they like.  This is weak fairness of AcceptThread, Command1,
\* ControlThread, RevokeClose and RecvEof, spelled out with what enables them: a
\* step of the first and the last two disables it, and a command or message is
\* only taken off its queue by the thread that handles it.
Fairness ==
  /\ []<>(acc = Idle) /\ []<>(hd.closing = NoFd)
  /\ <>[](cmds # <<>>) => []<><<Len(cmds') < Len(cmds)>>_cmds
  /\ <>[](pipe # <<>>) => []<><<Len(pipe') < Len(pipe)>>_pipe
  /\ \A c \in Conns : []<>~(c \in armed /\ ~conn[c].open)

Spec == Init /\ [][Next]_vars /\ Fairness

(***************************************************************************)
(* Properties.                                                              *)
(***************************************************************************)

CloseHasCause ==
  \A fd \in Fds :
    fdtab[fd] # NoConn /\ fdtab'[fd] = NoConn =>
      ~conn[fdtab[fd]].open \/ fdtab[fd] \in asked

\* The relay closes a descriptor only for a reason that is about the connection
\* on it: the client closed it or broke the protocol, or a ClosePeer, a PeerGone
\* frame or a revocation named it.  ProcessCmdRemove closes by key, and the end
\* of file that leads to it is attributed by descriptor.
ClosedForCause == [][CloseHasCause]_vars

\* What the next four properties leave out.  When a peer is reported gone or
\* removed and its socket is still read (failed send, invalid length, PeerGone
\* frame, ClosePeer, revocation), a second report can meet the next connection
\* of its key, and the completion of the pending receive the next holder of its
\* descriptor; when a key has two connections, the report of the first ends the
\* second.  None of the four survives that.
Orderly == env \subseteq {"note", "recverr", "early"}

\* ClosedForCause when every connection is ended by its client and a key has one
\* at a time: descriptors are used again, clients leave at any moment, receives
\* fail.
OrderlyClosedForCause == [][Orderly => CloseHasCause]_vars

\* A frame that reaches the control thread is credited to the peer that sent
\* it, or to none if that peer is not registered, as long as connections are
\* ended by their clients, after they are registered.
FrameCreditedToSender ==
  Orderly /\ "early" \notin env /\ pipe # <<>> /\ Head(pipe).type # "gone" =>
    cp_fd_map[Head(pipe).fd] \in {Head(pipe).from, NoKey}

\* No thread has work left.
Quiet ==
  /\ acc = Idle /\ cmds = <<>> /\ pipe = <<>> /\ hd.closing = NoFd
  /\ \A c \in armed : conn[c].open

\* At rest, a registered peer has a connection: watchers were told PeerGone
\* for every peer that left, and after the PeerPresent.  Holds as long as
\* connections are ended by their clients, after they are registered; a peer
\* whose receive failed stays registered when it leaves.
RegisteredIsConnected ==
  Orderly /\ "early" \notin env /\ Quiet =>
    \A k \in Keys : reg[k] # NoFd =>
      /\ fdtab[reg[k]] # NoConn
      /\ conn[fdtab[reg[k]]].key = k
      /\ conn[fdtab[reg[k]]].open \/ fdtab[reg[k]] \in deaf

\* At rest, a client that is connected is served: it is registered, it can be
\* sent to, and it is read from unless its receive failed, also after other
\* clients left early.  Holds as long as connections are ended by their clients.
ConnectedIsServed ==
  Orderly /\ Quiet =>
    \A c \in DOMAIN conn : conn[c].open =>
      /\ fdtab[conn[c].fd] = c
      /\ c \in armed <=> c \notin deaf
      /\ reg[conn[c].key] = conn[c].fd
      /\ ht[conn[c].key] = [fd |-> conn[c].fd, occupied |-> TRUE]
      /\ fd_map[conn[c].fd] = conn[c].key

\* When a client closes its connection, its descriptor is eventually released,
\* whatever else happens: removals that close it first, reports that name it
\* twice, revocation that closes it twice.  (Except when its receive failed with
\* an error the worker ignores, and when its key connected again before.)
ClosedIsReleased ==
  \A c \in Conns :
    ("overlap" \notin env /\ c \in DOMAIN conn /\ ~conn[c].open) ~>
      (c \in DOMAIN conn /\ (fdtab[conn[c].fd] # c \/ c \in deaf))
=============================================================================
