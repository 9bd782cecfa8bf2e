------------------------------ MODULE SendQueue ------------------------------
(***************************************************************************)
(* The send queue of one peer, and the io_uring sends that empty it.        *)
(*                                                                          *)
(* A worker alternates between handling completions, which enqueue frames   *)
(* and prepare sends, and submitting what was prepared.  Up to MaxInflight  *)
(* sends are prepared or pending at once; completions name the peer only,   *)
(* so each is taken for the frame at the head of the queue.                 *)
(*                                                                          *)
(* A frame is two units long: a send may write both, one (a short write) or *)
(* none (EAGAIN).  Frames in env.zc are sent with SEND_ZC: the kernel reads *)
(* their buffer until it posts a notification.  A buffer holds one frame,   *)
(* or what a short write left of it, and is named by the record of that.    *)
(*                                                                          *)
(* The peer may go: at the end of file its descriptor leaves fd_map, and    *)
(* then, or while it is connected, ProcessCmdRemove drops its queue.        *)
(*                                                                          *)
(* The kernel side is external: it runs the sends in order, on a socket     *)
(* that has room, has none, or is closed.                                   *)
(***************************************************************************)
EXTENDS Integers, Sequences, FiniteSets, SequencesExt

CONSTANTS
  NumFrames,    \* frames enqueued in a behaviour
  MaxInflight,  \* kMaxSendsInflight
  PollBatch,    \* kPollWriteBatch
  MaxDepth,     \* kMaxSendQueueDepth
  Envs          \* what the peer's socket and the host may do

\* zc: the frames longer than kZcThreshold.  zc_ok: the socket supports SEND_ZC.
\* oom: allocations may fail.  leave: the peer may go.  calm: a socket found full
\* stays full until no send is pending, and the worker handles all completions of
\* one submission before it makes the next.
Env == [zc : SUBSET (1 .. NumFrames), zc_ok : BOOLEAN, oom : BOOLEAN,
        leave : BOOLEAN, calm : BOOLEAN]

ASSUME SendAssumption ==
  /\ {NumFrames, MaxInflight, PollBatch, MaxDepth} \subseteq Nat \ {0}
  /\ Envs \subseteq Env

FrameLen == 2
NoFrame == 0

VARIABLES
  queue,            \* send_head ..: the frames queued, [id, len]
  send_next,        \* the id of the first frame not prepared, or NoFrame
  send_inflight, send_queued, send_pending, poll_write_pending,
  no_zc, zc_draining,
  occupied,         \* the peer is in the hash table
  mapped,           \* fd_map has the peer for its descriptor
  notif_map,        \* buffers whose notification is awaited, last first
  phase,            \* worker: "handle" completions, or "submit"
  sq, cq,           \* the rings
  alive,            \* kernel: the client has not closed
  room,             \* kernel: the socket has room
  polled,           \* kernel: a POLLOUT request is armed
  pinned,           \* kernel: buffers it still reads, oldest first
  wire,             \* history: units written, <<id, unit>>
  accepted,         \* history: frames enqueued, in order
  freed,            \* history: buffers freed
  offered,          \* frames offered to the queue
  lost,             \* history: a short write was not resumed
  env               \* the member of Envs at work

here == <<occupied, mapped>>
peer == <<queue, send_next, send_inflight, send_queued, send_pending,
          poll_write_pending, no_zc, zc_draining, here, notif_map>>
kernel == <<alive, room, polled, pinned, wire>>
vars == <<peer, phase, sq, cq, kernel, accepted, freed, offered, lost, env>>

Frame == [id : 1 .. NumFrames, len : 1 .. FrameLen]
Sqe == [op : {"send"}, id : 1 .. NumFrames, len : 1 .. FrameLen, zc : BOOLEAN]
       \cup [op : {"poll"}]
Cqe == [op : {"send"}, res : 0 .. FrameLen, err : {"", "EAGAIN", "EOPNOTSUPP", "EPIPE"},
        more : BOOLEAN]
       \cup [op : {"poll", "notif"}]

TypeOK ==
  /\ queue \in Seq(Frame) /\ Len(queue) <= MaxDepth
  /\ send_next \in 0 .. NumFrames
  /\ send_inflight \in 0 .. MaxInflight /\ send_queued \in 0 .. MaxDepth
  /\ {send_pending, poll_write_pending, no_zc, zc_draining, occupied, mapped}
       \subseteq BOOLEAN
  /\ notif_map \in Seq(Frame)
  /\ phase \in {"handle", "submit"}
  /\ sq \in Seq(Sqe) /\ cq \in Seq(Cqe)
  /\ {alive, room, polled} \subseteq BOOLEAN
  /\ pinned \in Seq(Frame)
  /\ wire \in Seq((1 .. NumFrames) \X (1 .. FrameLen))
  /\ accepted \in Seq(1 .. NumFrames)
  /\ freed \subseteq Frame
  /\ offered \in 0 .. NumFrames /\ lost \in BOOLEAN /\ env \in Envs

Init ==
  /\ queue = <<>> /\ send_next = NoFrame
  /\ send_inflight = 0 /\ send_queued = 0
  /\ send_pending = FALSE /\ poll_write_pending = FALSE
  /\ no_zc = FALSE /\ zc_draining = FALSE
  /\ occupied = TRUE /\ mapped = TRUE /\ notif_map = <<>>
  /\ phase = "handle" /\ sq = <<>> /\ cq = <<>>
  /\ alive = TRUE /\ room = TRUE /\ polled = FALSE /\ pinned = <<>>
  /\ wire = <<>> /\ accepted = <<>> /\ freed = {} /\ offered = 0
  /\ lost = FALSE /\ env \in Envs

(***************************************************************************)
(* Preparing sends.  The part of the state it changes is one value, p, so   *)
(* that the handlers can compose.                                           *)
(***************************************************************************)

P == [queue |-> queue, next |-> send_next, inflight |-> send_inflight,
      no_zc |-> no_zc, sq |-> sq]

SetP(p) ==
  /\ queue' = p.queue /\ send_next' = p.next /\ send_inflight' = p.inflight
  /\ sq' = p.sq

IndexOf(q, id) == SelectInSeq(q, LAMBDA f : f.id = id)
FrameAfter(q, id) ==
  IF IndexOf(q, id) < Len(q) THEN q[IndexOf(q, id) + 1].id ELSE NoFrame

\* len > kZcThreshold: a frame of env.zc, but not what a short write leaves of it.
AboveZcThreshold(item) == item.id \in env.zc /\ item.len = FrameLen

\* SubmitPeerSend of send_next, which then moves on.
SubmitNext(p) ==
  LET item == p.queue[IndexOf(p.queue, p.next)]
  IN [p EXCEPT !.sq = Append(@, [op |-> "send", id |-> item.id, len |-> item.len,
                                 zc |-> ~p.no_zc /\ AboveZcThreshold(item)]),
               !.next = FrameAfter(p.queue, p.next),
               !.inflight = @ + 1]

\* Mutant: the limit on pending sends is not kept.
CanSubmitNoLimit(p) == p.next # NoFrame

CanSubmit(p) == p.next # NoFrame /\ p.inflight < MaxInflight

SubmitOne(p) == IF CanSubmit(p) THEN SubmitNext(p) ELSE p

\* The loops that submit up to n frames.
SubmitUpTo(p, n) ==
  FoldLeftDomain(LAMBDA q, i : SubmitOne(q), p, [i \in 1 .. n |-> i])

\* Arms POLLOUT unless it is armed.
ArmPollWrite(p) ==
  IF poll_write_pending THEN p
  ELSE [p EXCEPT !.sq = Append(@, [op |-> "poll"])]

(***************************************************************************)
(* The worker.                                                              *)
(***************************************************************************)

\* EnqueueSend of a new frame, while completions are handled.
EnqueueSend ==
  /\ phase = "handle" /\ occupied /\ offered < NumFrames
  /\ offered' = offered + 1
  /\ LET item == [id |-> offered + 1, len |-> FrameLen]
         p == [P EXCEPT !.queue = Append(@, item),
                        !.next = IF @ = NoFrame THEN item.id ELSE @]
     IN \/ /\ send_queued >= MaxDepth \/ env.oom
           /\ freed' = freed \cup {item}
           /\ UNCHANGED <<peer, sq, accepted>>
        \/ /\ send_queued < MaxDepth
           /\ SetP(IF send_inflight > 0 /\ ~zc_draining THEN SubmitOne(p) ELSE p)
           /\ send_pending' = (send_pending \/ (send_inflight = 0 /\ ~zc_draining))
           /\ send_queued' = send_queued + 1
           /\ accepted' = Append(accepted, item.id)
           /\ UNCHANGED <<poll_write_pending, no_zc, zc_draining, here, notif_map, freed>>
  /\ UNCHANGED <<phase, cq, kernel, lost, env>>

BatchMayEnd == env.calm => \A i \in DOMAIN cq : cq[i].op # "send"

\* End of a batch of completions: FlushPendingSends, then io_uring_submit.
EndBatch ==
  /\ phase = "handle" /\ BatchMayEnd
  /\ SetP(IF mapped /\ send_pending /\ ~zc_draining
          THEN SubmitUpTo(P, PollBatch) ELSE P)
  /\ send_pending' = (send_pending /\ ~mapped)
  /\ phase' = "submit"
  /\ UNCHANGED <<send_queued, poll_write_pending, no_zc, zc_draining, here, notif_map,
                 cq, kernel, accepted, freed, offered, lost, env>>

\* The item at the head is done with: its buffer waits for a notification
\* (more), or is freed.
Retire(more, item) ==
  /\ notif_map' = IF more THEN <<item>> \o notif_map ELSE notif_map
  /\ freed' = IF more THEN freed ELSE freed \cup {item}

\* Mutant: one more frame is prepared than was retired.
DrainSendQueueNoCount(more) ==
  IF queue = <<>>
  THEN SetP(P) /\ UNCHANGED <<send_queued, notif_map, freed>>
  ELSE /\ Retire(more, Head(queue))
       /\ send_queued' = send_queued - 1
       /\ SetP(SubmitOne([P EXCEPT !.queue = Tail(@),
                                   !.next = IF Len(queue) = 1 THEN NoFrame ELSE @]))

\* DrainSendQueue: retire the head, if there is one, and keep the pipeline full.
DrainSendQueue(more) ==
  LET p == [P EXCEPT !.inflight = IF @ > 0 THEN @ - 1 ELSE 0]
  IN IF queue = <<>>
     THEN SetP(SubmitOne(p)) /\ UNCHANGED <<send_queued, notif_map, freed>>
     ELSE /\ Retire(more, Head(queue))
          /\ send_queued' = send_queued - 1
          /\ SetP(SubmitOne([p EXCEPT !.queue = Tail(@),
                                      !.next = IF Len(queue) = 1 THEN NoFrame ELSE @]))

\* A completion of a send, for a peer that fd_map has.
SendCqe == phase = "handle" /\ mapped /\ cq # <<>> /\ Head(cq).op = "send"

\* It wrote less than the frame at the head.
Short == Head(cq).err = "" /\ queue # <<>> /\ Head(cq).res < Head(queue).len

\* A send that wrote all there was.
SendDone ==
  /\ SendCqe /\ Head(cq).err = "" /\ ~Short
  /\ DrainSendQueue(Head(cq).more)
  /\ cq' = Tail(cq)
  /\ UNCHANGED <<send_pending, poll_write_pending, no_zc, zc_draining, here,
                 phase, kernel, accepted, offered, lost, env>>

\* Mutant: the rest is sent from the buffer that is retired.
SendShortOldBuffer ==
  /\ SendCqe /\ Short
  /\ LET f == Head(queue)
     IN /\ queue' = <<[f EXCEPT !.len = @ - Head(cq).res]>> \o Tail(queue)
        /\ sq' = Append(sq, [op |-> "send", id |-> f.id, len |-> f.len, zc |-> FALSE])
        /\ Retire(Head(cq).more, f)
  /\ cq' = Tail(cq)
  /\ UNCHANGED <<send_next, send_inflight, send_queued, send_pending,
                 poll_write_pending, no_zc, zc_draining, here, phase, kernel,
                 accepted, offered, lost, env>>

\* A short write: the rest is copied to a new item at the head and sent again,
\* without SEND_ZC; the old item is retired.
SendShort ==
  /\ SendCqe /\ Short
  /\ LET f == Head(queue)
         ni == [id |-> f.id, len |-> f.len - Head(cq).res]
     IN /\ queue' = <<ni>> \o Tail(queue)
        /\ sq' = Append(sq, [op |-> "send", id |-> f.id, len |-> ni.len, zc |-> FALSE])
        /\ Retire(Head(cq).more, f)
  /\ cq' = Tail(cq)
  /\ UNCHANGED <<send_next, send_inflight, send_queued, send_pending,
                 poll_write_pending, no_zc, zc_draining, here, phase, kernel,
                 accepted, offered, lost, env>>

\* A short write with no buffer for the rest: the frame is dropped.
SendShortNoBuffer ==
  /\ env.oom
  /\ SendCqe /\ Short
  /\ DrainSendQueue(Head(cq).more)
  /\ lost' = TRUE
  /\ cq' = Tail(cq)
  /\ UNCHANGED <<send_pending, poll_write_pending, no_zc, zc_draining, here,
                 phase, kernel, accepted, offered, env>>

\* A short write with no item for the rest: the frame leaves the queue, and
\* send_queued stays.
SendShortNoItem ==
  /\ env.oom
  /\ SendCqe /\ Short
  /\ Retire(Head(cq).more, Head(queue))
  /\ SetP(SubmitOne([P EXCEPT !.queue = Tail(@), !.inflight = @ - 1]))
  /\ lost' = TRUE
  /\ cq' = Tail(cq)
  /\ UNCHANGED <<send_queued, send_pending, poll_write_pending, no_zc, zc_draining, here,
                 phase, kernel, accepted, offered, env>>

\* Mutant: the frames after the failed one are not taken back.
SendEagainNoRewind ==
  /\ SendCqe /\ Head(cq).err = "EAGAIN"
  /\ SetP(ArmPollWrite([P EXCEPT !.inflight = @ - 1]))
  /\ poll_write_pending' = TRUE
  /\ cq' = Tail(cq)
  /\ UNCHANGED <<send_queued, send_pending, no_zc, zc_draining, here, notif_map,
                 phase, kernel, accepted, freed, offered, lost, env>>

\* Mutant: POLLOUT is not requested.
SendEagainNoPoll ==
  /\ SendCqe /\ Head(cq).err = "EAGAIN"
  /\ SetP([P EXCEPT !.inflight = @ - 1,
                    !.next = IF send_inflight <= Len(queue)
                             THEN queue[send_inflight].id ELSE NoFrame])
  /\ cq' = Tail(cq)
  /\ UNCHANGED <<send_queued, send_pending, poll_write_pending, no_zc, zc_draining,
                 here, notif_map, phase, kernel, accepted, freed, offered, lost, env>>

\* EAGAIN and ENOMEM: the frames not pending are to be sent again, once the
\* socket is writable.  The pending ones are taken to be the first of the queue.
SendEagain ==
  /\ SendCqe /\ Head(cq).err = "EAGAIN"
  /\ SetP(ArmPollWrite([P EXCEPT !.inflight = @ - 1,
                                 !.next = IF send_inflight <= Len(queue)
                                          THEN queue[send_inflight].id ELSE NoFrame]))
  /\ poll_write_pending' = TRUE
  /\ cq' = Tail(cq)
  /\ UNCHANGED <<send_queued, send_pending, no_zc, zc_draining, here, notif_map,
                 phase, kernel, accepted, freed, offered, lost, env>>

\* EOPNOTSUPP: wait for what is pending, then send the queue again, copied.
SendUnsupported ==
  /\ SendCqe /\ Head(cq).err = "EOPNOTSUPP"
  /\ no_zc' = TRUE
  /\ zc_draining' = (send_inflight # 1)
  /\ LET p == [P EXCEPT !.inflight = @ - 1, !.no_zc = TRUE]
     IN SetP(IF send_inflight # 1 THEN p
             ELSE SubmitUpTo([p EXCEPT !.next = IF queue = <<>> THEN NoFrame
                                                ELSE Head(queue).id], MaxInflight))
  /\ cq' = Tail(cq)
  /\ UNCHANGED <<send_queued, send_pending, poll_write_pending, here, notif_map,
                 phase, kernel, accepted, freed, offered, lost, env>>

\* EPIPE, ECONNRESET, ENOTCONN and other errors: the frame is dropped (and the
\* first three tell the control plane, see PeerLifecycle!SendError).
SendFailed ==
  /\ SendCqe /\ Head(cq).err = "EPIPE"
  /\ DrainSendQueue(Head(cq).more)
  /\ cq' = Tail(cq)
  /\ UNCHANGED <<send_pending, poll_write_pending, no_zc, zc_draining, here,
                 phase, kernel, accepted, offered, lost, env>>

\* HandlePollWrite: send a batch, and poll again if some are left.
PollWrite ==
  /\ phase = "handle" /\ mapped /\ cq # <<>> /\ Head(cq).op = "poll"
  /\ LET p == SubmitUpTo(P, PollBatch)
     IN /\ SetP(IF CanSubmit(p) THEN [p EXCEPT !.sq = Append(@, [op |-> "poll"])] ELSE p)
        /\ poll_write_pending' = CanSubmit(p)
  /\ cq' = Tail(cq)
  /\ UNCHANGED <<send_queued, send_pending, no_zc, zc_draining, here, notif_map,
                 phase, kernel, accepted, freed, offered, lost, env>>

\* HandlePollWrite, and HandleSendCqe, for a descriptor that is not in fd_map: a
\* completion without F_MORE frees whatever waits for a notification.
Late ==
  /\ phase = "handle" /\ ~mapped /\ cq # <<>> /\ Head(cq).op # "notif"
  /\ IF Head(cq).op = "send" /\ ~Head(cq).more
     THEN freed' = freed \cup ToSet(notif_map) /\ notif_map' = <<>>
     ELSE UNCHANGED <<notif_map, freed>>
  /\ cq' = Tail(cq)
  /\ UNCHANGED <<queue, send_next, send_inflight, send_queued, send_pending,
                 poll_write_pending, no_zc, zc_draining, here, phase, sq, kernel,
                 accepted, offered, lost, env>>

\* The receive ends with the end of file: fd_map forgets the descriptor.
RecvEof ==
  /\ env.leave /\ phase = "handle" /\ mapped /\ ~alive
  /\ mapped' = FALSE
  /\ UNCHANGED <<queue, send_next, send_inflight, send_queued, send_pending,
                 poll_write_pending, no_zc, zc_draining, occupied, notif_map, phase,
                 sq, cq, kernel, accepted, freed, offered, lost, env>>

\* ProcessCmdRemove and HtRemove: the descriptor is closed; the frames taken for
\* pending wait for a notification, the others are freed.
CmdRemove ==
  /\ env.leave /\ phase = "handle" /\ occupied
  /\ LET n == IF send_inflight < Len(queue) THEN send_inflight ELSE Len(queue)
     IN /\ notif_map' = Reverse(SubSeq(queue, 1, n)) \o notif_map
        /\ freed' = freed \cup ToSet(SubSeq(queue, n + 1, Len(queue)))
  /\ queue' = <<>> /\ send_next' = NoFrame /\ send_inflight' = 0
  /\ send_queued' = 0 /\ send_pending' = FALSE
  /\ occupied' = FALSE /\ mapped' = FALSE /\ alive' = FALSE
  /\ UNCHANGED <<poll_write_pending, no_zc, zc_draining, phase, sq, cq, room,
                 polled, pinned, wire, accepted, offered, lost, env>>

\* HandleSendCqe with NOTIF: the item put on the list last is freed.
Notif ==
  /\ phase = "handle" /\ cq # <<>> /\ Head(cq).op = "notif"
  /\ IF notif_map = <<>> THEN UNCHANGED <<notif_map, freed>>
     ELSE /\ freed' = freed \cup {Head(notif_map)}
          /\ notif_map' = Tail(notif_map)
  /\ cq' = Tail(cq)
  /\ UNCHANGED <<queue, send_next, send_inflight, send_queued, send_pending,
                 poll_write_pending, no_zc, zc_draining, here, phase, sq, kernel,
                 accepted, offered, lost, env>>

(***************************************************************************)
(* The kernel.                                                              *)
(***************************************************************************)

Units(s, n) == [i \in 1 .. n |-> <<s.id, FrameLen - s.len + i>>]

Complete(res, err, more) ==
  cq' = Append(cq, [op |-> "send", res |-> res, err |-> err, more |-> more])

\* A send on a socket with room writes all, and may fill the socket, or writes
\* a part and fills it.  A SEND_ZC that wrote keeps the buffer.
RunSend ==
  /\ phase = "submit" /\ sq # <<>> /\ Head(sq).op = "send" /\ alive /\ room
  /\ LET s == Head(sq)
     IN IF s.zc /\ ~env.zc_ok
        THEN Complete(0, "EOPNOTSUPP", FALSE) /\ UNCHANGED <<room, pinned, wire>>
        ELSE \E n \in 1 .. s.len :
               /\ Complete(n, "", s.zc)
               /\ room' \in IF n < s.len THEN {FALSE} ELSE BOOLEAN
               /\ wire' = wire \o Units(s, n)
               /\ pinned' = IF s.zc THEN Append(pinned, [id |-> s.id, len |-> s.len])
                           ELSE pinned
  /\ sq' = Tail(sq)
  /\ UNCHANGED <<peer, phase, alive, polled, accepted, freed, offered, lost, env>>

\* A send on a full socket, or on a closed one.
RunSendFails ==
  /\ phase = "submit" /\ sq # <<>> /\ Head(sq).op = "send" /\ ~(alive /\ room)
  /\ Complete(0, CASE Head(sq).zc /\ ~env.zc_ok -> "EOPNOTSUPP"
                   [] ~alive                       -> "EPIPE"
                   [] OTHER                        -> "EAGAIN", FALSE)
  /\ sq' = Tail(sq)
  /\ UNCHANGED <<peer, phase, kernel, accepted, freed, offered, lost, env>>

RunPoll ==
  /\ phase = "submit" /\ sq # <<>> /\ Head(sq).op = "poll"
  /\ polled' = TRUE
  /\ sq' = Tail(sq)
  /\ UNCHANGED <<peer, phase, cq, alive, room, pinned, wire, accepted, freed, offered, lost, env>>

\* io_uring_submit returns.
Submitted ==
  /\ phase = "submit" /\ sq = <<>>
  /\ phase' = "handle"
  /\ UNCHANGED <<peer, sq, cq, kernel, accepted, freed, offered, lost, env>>

MayDrain == alive /\ ~room /\ (env.calm => send_inflight = 0)

\* The client reads: the socket has room.
Drained ==
  /\ MayDrain
  /\ room' = TRUE
  /\ UNCHANGED <<peer, phase, sq, cq, alive, polled, pinned, wire, accepted, freed, offered, lost, env>>

\* The client closes.
Close ==
  /\ alive
  /\ alive' = FALSE
  /\ UNCHANGED <<peer, phase, sq, cq, room, polled, pinned, wire, accepted, freed, offered, lost, env>>

Writable ==
  /\ polled /\ (room \/ ~alive)
  /\ polled' = FALSE
  /\ cq' = Append(cq, [op |-> "poll"])
  /\ UNCHANGED <<peer, phase, sq, alive, room, pinned, wire, accepted, freed, offered, lost, env>>

\* The client has acknowledged the oldest buffer the kernel reads.
Unpin ==
  /\ pinned # <<>>
  /\ pinned' = Tail(pinned)
  /\ cq' = Append(cq, [op |-> "notif"])
  /\ UNCHANGED <<peer, phase, sq, alive, room, polled, wire, accepted, freed, offered, lost, env>>

Handle ==
  \/ SendDone \/ SendShort \/ SendShortNoBuffer \/ SendShortNoItem
  \/ SendEagain \/ SendUnsupported \/ SendFailed \/ PollWrite \/ Late \/ Notif
Run == RunSend \/ RunSendFails \/ RunPoll \/ Submitted

Next ==
  \/ EnqueueSend \/ EndBatch \/ RecvEof \/ CmdRemove \/ Handle
  \/ Run \/ Drained \/ Close \/ Writable \/ Unpin

\* Every batch of the worker handles the completions there are, and ends: a
\* completion posted late in one batch is handled in the next.  The kernel runs
\* what is submitted; the client keeps reading.  This is strong fairness of
\* Handle and weak fairness of EndBatch, Run, Drained, Writable and Unpin,
\* spelled out with what enables them: only Handle takes a completion off cq,
\* only Unpin a buffer off pinned, and the others disable themselves.
Fairness ==
  /\ []<>(phase = "handle" /\ cq # <<>>) => []<><<Len(cq') < Len(cq)>>_cq
  /\ []<>(phase = "submit" \/ ~BatchMayEnd) /\ []<>(phase = "handle")
  /\ []<>~MayDrain /\ []<>~(polled /\ (room \/ ~alive))
  /\ <>[](pinned # <<>>) => []<><<Len(pinned') < Len(pinned)>>_pinned

Spec == Init /\ [][Next]_vars /\ Fairness

(***************************************************************************)
(* Properties.                                                              *)
(***************************************************************************)

FrameUnits(id) == [i \in 1 .. FrameLen |-> <<id, i>>]
Stream == FlattenSeq([i \in DOMAIN accepted |-> FrameUnits(accepted[i])])

\* No zero-copy frame is refused among copied ones.
Uniform == env.zc_ok \/ env.zc \in {{}, 1 .. NumFrames}

\* What the socket carries is the frames accepted by EnqueueSend, in order,
\* each once and whole, also after short writes, refused sends and sends repeated
\* without zero copy.  Each completion is taken for the head of the queue, so
\* this is claimed for calm sockets, where a refused send is followed by refused
\* ones only, and for queues in which all zero-copy frames are refused or none
\* is; a frame cut short for want of memory stays cut.
WireInOrder == env.calm /\ Uniform /\ ~lost => IsPrefix(wire, Stream)

\* As long as fd_map has the peer, send_inflight counts the sends prepared or
\* pending, and send_queued the frames queued (or more, once a short write found
\* no item for its rest), however completions and frames are mismatched.
CountsExact ==
  mapped =>
    /\ IF lost THEN send_queued >= Len(queue) ELSE send_queued = Len(queue)
    /\ send_inflight = Len(SelectSeq(sq, LAMBDA s : s.op = "send"))
                       + Len(SelectSeq(cq, LAMBDA c : c.op = "send"))

\* A buffer is freed only when neither a prepared send nor the kernel can read
\* it, while fd_map has the peer.  (A send on a closed socket fails before it
\* reads.)  The list of buffers that wait for a notification is a stack, so this
\* is claimed for at most one zero-copy frame at a time, and for calm sockets.
FreedAfterUse ==
  alive /\ mapped /\ env.calm /\ (env.zc_ok => Cardinality(env.zc) <= 1) =>
    /\ \A i \in DOMAIN sq :
         sq[i].op = "send" => [id |-> sq[i].id, len |-> sq[i].len] \notin freed
    /\ \A i \in DOMAIN pinned : pinned[i] \notin freed

\* Once no more frames come, and unless the connection ends or a frame was cut
\* short for want of memory, every frame accepted is written whole and has its
\* buffer freed, and the queue is empty.  Claimed for calm sockets, and for queues
\* in which all zero-copy frames are refused or none is: zc_draining can stay set
\* in mixed ones.
AcceptedIsSent ==
  (env.calm /\ Uniform /\ offered = NumFrames) ~>
    \/ ~alive \/ lost
    \/ /\ wire = Stream /\ queue = <<>>
       /\ \A i \in DOMAIN accepted : [id |-> accepted[i], len |-> FrameLen] \in freed
=============================================================================
