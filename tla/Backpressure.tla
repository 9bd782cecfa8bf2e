---------------------------- MODULE Backpressure ----------------------------
(***************************************************************************)
(* Receive flow control of one worker.                                      *)
(*                                                                          *)
(* send_pressure counts the frames queued to the worker's peers.  Above a   *)
(* threshold that grows with the number of peers, the worker stops to submit*)
(* receives: a receive that would be submitted is put on a ring of deferred *)
(* descriptors instead.  Completed sends count a minimum pause down, then   *)
(* compare the pressure with a lower threshold, and resume.                 *)
(*                                                                          *)
(* The queues are counters (SendQueue has the frames), a key has one slot of *)
(* the hash table (XferGuard has slots that change hands), and a receive    *)
(* that completes carries 1 .. Burst frames for one peer.  Receives use     *)
(* provided buffers, the default.  The submission ring never fills (GetSqe).*)
(***************************************************************************)
EXTENDS Integers, Sequences, FiniteSets, SequencesExt, FiniteSetsExt

CONSTANTS
  Keys, NoKey,          \* the clients of this worker; null in fd_map
  Fds, NoFd,            \* descriptors; no descriptor
  kPressurePerPeer, kSendPressureMax, kRecvPauseMinBatches,
  kMaxSendQueueDepth, kRecvBudget, kRecvDeferSize,
  Burst,                \* frames one receive carries, at most
  MaxDrops,             \* bound: frames lost at a full transfer ring
  MaxReadds,            \* bound: keys added while they are in the table
  Envs                  \* sets of things that may happen, one is at work

\* "multishot": a receive stays armed after a completion, which is the default.
\* "shard": frames arrive from other workers.  "write": the control thread
\* writes to peers.  "drops": frames for other workers meet a full ring.
\* "leave": clients close.  "close": the control thread removes peers that are
\* connected.  "again": clients connect again before they are removed.
\* "recverr": receives fail with an error the worker does not expect.
Happenings ==
  {"multishot", "shard", "write", "drops", "leave", "close", "again", "recverr"}

ASSUME EnvsAssumption == Envs \subseteq SUBSET Happenings

VARIABLES
  w,        \* the fields of Worker this module is about
  armed,    \* receives pending in the kernel, per descriptor
  open,     \* descriptors that are open
  handling, \* a batch of completions is being handled
  drops,    \* frames lost at a full transfer ring
  readds,   \* keys added while they were in the table
  forgot,   \* history: frames that were queued when their slot was taken anew
  deaf,     \* history: descriptors whose receive failed and was not repeated
  env

hist == <<drops, readds, forgot, deaf, env>>

vars == <<w, armed, open, handling, hist>>

(***************************************************************************)
(* Thresholds.                                                              *)
(***************************************************************************)

SendPressureHigh(n) ==
  Min({Max({n * kPressurePerPeer, kPressurePerPeer}), kSendPressureMax})

PressureResumeDiv(n) == CASE n <= 12 -> 8 [] n \in 13 .. 24 -> 6 [] OTHER -> 4

SendPressureLow(n) == SendPressureHigh(n) \div PressureResumeDiv(n)

(***************************************************************************)
(* The worker's record: ht has the descriptor of every key in the hash      *)
(* table, fd_map the slot every descriptor is read for (by its key, also    *)
(* when the slot was removed since), recv_defer the ring of deferred ones.  *)
(***************************************************************************)
Worker ==
  [ht : [Keys -> Fds \cup {NoFd}], fd_map : [Fds -> Keys \cup {NoKey}],
   send_queued : [Keys -> Nat], send_pressure : Nat, recv_paused : BOOLEAN,
   recv_pause_countdown : 0 .. kRecvPauseMinBatches, peer_count : Nat,
   recv_inflight : 0 .. kRecvBudget, recv_defer : Seq(Fds)]

TypeOK ==
  /\ w \in Worker /\ Len(w.recv_defer) < kRecvDeferSize
  /\ armed \in [Fds -> Nat] /\ open \subseteq Fds
  /\ handling \in BOOLEAN /\ drops \in 0 .. MaxDrops
  /\ readds \in 0 .. MaxReadds /\ forgot \in Nat /\ deaf \subseteq Fds
  /\ env \in Envs

Init ==
  /\ w = [ht |-> [k \in Keys |-> NoFd], fd_map |-> [f \in Fds |-> NoKey],
          send_queued |-> [k \in Keys |-> 0], send_pressure |-> 0,
          recv_paused |-> FALSE, recv_pause_countdown |-> 0,
          peer_count |-> 0, recv_inflight |-> 0, recv_defer |-> <<>>]
  /\ armed = [f \in Fds |-> 0] /\ open = {}
  /\ handling = FALSE /\ drops = 0 /\ readds = 0 /\ forgot = 0
  /\ deaf = {} /\ env \in Envs

(***************************************************************************)
(* Receives.  The operators map the record and what is armed, s, to the     *)
(* record and what is armed after the call.                                 *)
(***************************************************************************)
S == [w |-> w, armed |-> armed]
SetS(s) == \E t \in {s} : w' = t.w /\ armed' = t.armed

\* Mutant of DeferRecv: the end of the ring runs into its start.
DeferRecvNoLimit(s, f) == [s EXCEPT !.w.recv_defer = Append(@, f)]

\* A full ring drops the descriptor.
DeferRecv(s, f) ==
  IF Len(s.w.recv_defer) = kRecvDeferSize - 1 THEN s
  ELSE [s EXCEPT !.w.recv_defer = Append(@, f)]

SubmitRecvNow(s, f) ==
  IF s.w.fd_map[f] = NoKey THEN s
  ELSE [s EXCEPT !.w.recv_inflight = @ + 1, !.armed[f] = @ + 1]

\* Mutant of SubmitRecv: the descriptor is deferred only for the budget.
SubmitRecvIgnoresPause(s, f) ==
  CASE s.w.fd_map[f] = NoKey -> s
    [] s.w.recv_inflight >= kRecvBudget -> DeferRecv(s, f)
    [] OTHER -> SubmitRecvNow(s, f)

\* Mutant of SubmitRecv: a receive the pause forbids is forgotten.
SubmitRecvForgets(s, f) ==
  IF s.w.recv_inflight >= kRecvBudget \/ s.w.recv_paused THEN s
  ELSE SubmitRecvNow(s, f)

SubmitRecv(s, f) ==
  CASE s.w.fd_map[f] = NoKey -> s
    [] s.w.fd_map[f] # NoKey /\ (s.w.recv_inflight >= kRecvBudget \/ s.w.recv_paused)
         -> DeferRecv(s, f)
    [] OTHER -> SubmitRecvNow(s, f)

DrainOne(s) ==
  IF s.w.recv_defer # <<>> /\ s.w.recv_inflight < kRecvBudget /\ ~s.w.recv_paused
  THEN SubmitRecvNow([s EXCEPT !.w.recv_defer = Tail(@)], Head(s.w.recv_defer))
  ELSE s

DrainDeferredRecvs(s) ==
  FoldLeft(LAMBDA t, f : DrainOne(t), s, s.w.recv_defer)

\* The receive of f ended with this completion.
RecvEnds(s, f) ==
  [s EXCEPT !.w.recv_inflight = @ - 1, !.armed[f] = @ - 1]

(***************************************************************************)
(* Sends.                                                                   *)
(***************************************************************************)

\* EnqueueSend: a full queue drops the frame; the threshold is compared after
\* the frame is counted.
EnqueueSend(s, k) ==
  LET t == [s EXCEPT !.w.send_queued[k] = @ + 1, !.w.send_pressure = @ + 1]
  IN CASE s.w.send_queued[k] >= kMaxSendQueueDepth -> s
       [] /\ s.w.send_queued[k] < kMaxSendQueueDepth
          /\ ~t.w.recv_paused
          /\ t.w.send_pressure >= SendPressureHigh(t.w.peer_count)
            -> [t EXCEPT !.w.recv_paused = TRUE,
                         !.w.recv_pause_countdown = kRecvPauseMinBatches]
       [] OTHER -> t

\* n frames for k.
EnqueueSends(s, k, n) ==
  FoldLeft(LAMBDA t, i : EnqueueSend(t, k), s, [i \in 1 .. n |-> i])

\* Mutant of DrainSendQueue: the pause is never lifted here.
DrainSendQueueNoResume(s, k) ==
  [s EXCEPT !.w.send_queued[k] = @ - 1, !.w.send_pressure = Max({@ - 1, 0})]

\* DrainSendQueue: a frame of k is done with.
DrainSendQueue(s, k) ==
  LET t == [s EXCEPT !.w.send_queued[k] = @ - 1,
                     !.w.send_pressure = Max({@ - 1, 0})]
  IN CASE t.w.recv_paused /\ t.w.recv_pause_countdown > 0
            -> [t EXCEPT !.w.recv_pause_countdown = @ - 1]
       [] /\ t.w.recv_paused /\ t.w.recv_pause_countdown = 0
          /\ t.w.send_pressure <= SendPressureLow(t.w.peer_count)
            -> DrainDeferredRecvs([t EXCEPT !.w.recv_paused = FALSE])
       [] OTHER -> t

(***************************************************************************)
(* Completions.                                                             *)
(***************************************************************************)

\* Does a completion leave the receive armed (IORING_CQE_F_MORE)?
More == IF "multishot" \in env THEN BOOLEAN ELSE {FALSE}

\* ProcessCmdAdd.  A key that is in the table gets the new descriptor and an
\* empty queue: what was queued is forgotten and stays counted, the old
\* descriptor stays open and is read, and peer_count counts the key again.
CmdAdd(k, f) ==
  /\ f \notin open
  /\ w.ht[k] # NoFd => "again" \in env /\ readds < MaxReadds
  /\ LET s == [S EXCEPT !.w.ht[k] = f, !.w.fd_map[f] = k,
                        !.w.send_queued[k] = 0, !.w.peer_count = @ + 1]
     IN SetS(SubmitRecv(s, f))
  /\ open' = open \cup {f}
  /\ readds' = IF w.ht[k] # NoFd THEN readds + 1 ELSE readds
  /\ forgot' = forgot + w.send_queued[k]
  /\ deaf' = deaf \ {f}
  /\ handling' = TRUE
  /\ UNCHANGED <<drops, env>>

\* Mutant of HtRemove: the frames queued to the peer stay counted.
HtRemoveKeepsPressure(s, k) ==
  [s EXCEPT !.w.ht[k] = NoFd, !.w.send_queued[k] = 0, !.w.peer_count = @ - 1]

\* HtRemove, after ProcessCmdRemove took the descriptor out of fd_map.
HtRemove(s, k) ==
  LET n == Max({s.w.peer_count - 1, 0})
      t == [s EXCEPT !.w.ht[k] = NoFd, !.w.send_queued[k] = 0, !.w.peer_count = n,
                     !.w.send_pressure = Max({@ - s.w.send_queued[k], 0})]
  IN IF /\ t.w.recv_paused /\ t.w.recv_pause_countdown <= 0
        /\ t.w.send_pressure <= SendPressureLow(n)
     THEN DrainDeferredRecvs([t EXCEPT !.w.recv_paused = FALSE])
     ELSE t

\* Removals follow the end of file, or meet a peer that is still connected.
Removable(k) == w.ht[k] # NoFd /\ (w.fd_map[w.ht[k]] # NoKey => "close" \in env)

\* ProcessCmdRemove.  A receive that is armed stays in the kernel.
CmdRemove(k) ==
  /\ Removable(k)
  /\ SetS(HtRemove([S EXCEPT !.w.fd_map[w.ht[k]] = NoKey], k))
  /\ open' = open \ {w.ht[k]}
  /\ deaf' = deaf \ {w.ht[k]}
  /\ handling' = TRUE
  /\ UNCHANGED <<drops, readds, forgot, env>>

\* ProcessCmdWrite: a frame of the control thread, whether paused or not.
CmdWrite(k) ==
  /\ "write" \in env
  /\ w.ht[k] # NoFd
  /\ SetS(EnqueueSend(S, k))
  /\ handling' = TRUE
  /\ UNCHANGED <<open, hist>>

\* A receive of f carries frames for k; those for no peer are dropped.  The
\* frames of a descriptor no longer in fd_map are ignored.
RecvFrames(f, k) ==
  /\ armed[f] > 0
  /\ \E n \in 1 .. Burst, more \in More :
       LET s0 == IF more THEN S ELSE RecvEnds(S, f)
           s1 == IF w.fd_map[f] # NoKey /\ w.ht[k] # NoFd
                 THEN EnqueueSends(s0, k, n) ELSE s0
       IN SetS(IF more THEN s1 ELSE SubmitRecv(s1, f))
  /\ handling' = TRUE
  /\ UNCHANGED <<open, hist>>

\* A receive of f carries a frame for another worker whose ring is full:
\* XferPush drops it and counts it in send_pressure.
RecvXferDrop(f) ==
  /\ "drops" \in env /\ drops < MaxDrops
  /\ armed[f] > 0 /\ w.fd_map[f] # NoKey
  /\ \E more \in More :
       LET s0 == IF more THEN S ELSE RecvEnds(S, f)
           s1 == [s0 EXCEPT !.w.send_pressure = @ + 1]
       IN SetS(IF more THEN s1 ELSE SubmitRecv(s1, f))
  /\ drops' = drops + 1
  /\ handling' = TRUE
  /\ UNCHANGED <<open, readds, forgot, deaf, env>>

\* ENOBUFS or EINVAL: the receive ends with nothing and is submitted again.
RecvNoBufs(f) ==
  /\ armed[f] > 0
  /\ SetS(SubmitRecv(RecvEnds(S, f), f))
  /\ handling' = TRUE
  /\ UNCHANGED <<open, hist>>

\* Any other error: the receive ended, the descriptor stays in fd_map and is
\* not submitted again.
RecvError(f) ==
  /\ "recverr" \in env
  /\ armed[f] > 0
  /\ SetS(RecvEnds(S, f))
  /\ deaf' = IF w.fd_map[f] # NoKey THEN deaf \cup {f} ELSE deaf
  /\ handling' = TRUE
  /\ UNCHANGED <<open, drops, readds, forgot, env>>

\* Mutant of RecvEof: the receive that ended stays counted.
RecvEofStillCounted(f) ==
  /\ "leave" \in env
  /\ armed[f] > 0
  /\ SetS([S EXCEPT !.w.fd_map[f] = NoKey, !.armed[f] = @ - 1])
  /\ handling' = TRUE
  /\ UNCHANGED <<open, hist>>

\* The end of file: the descriptor is not read again, the peer stays in the
\* table until the control thread removes it.
RecvEof(f) ==
  /\ "leave" \in env
  /\ armed[f] > 0
  /\ SetS([RecvEnds(S, f) EXCEPT !.w.fd_map[f] = NoKey])
  /\ handling' = TRUE
  /\ UNCHANGED <<open, hist>>

\* ProcessXfer delivers a frame from another worker.
XferFrame(f) ==
  /\ "shard" \in env
  /\ w.fd_map[f] # NoKey
  /\ SetS(EnqueueSend(S, w.fd_map[f]))
  /\ handling' = TRUE
  /\ UNCHANGED <<open, hist>>

\* Frames are queued to the slot f is read for.
Sending(f) == w.fd_map[f] # NoKey /\ w.send_queued[w.fd_map[f]] > 0

\* A send on f completed: it is taken for the head of the queue of the slot f is
\* read for, also when it was sent for an earlier connection.  For a descriptor
\* that is no longer in fd_map nothing is taken off a queue.
SendDone(f) ==
  /\ Sending(f)
  /\ SetS(DrainSendQueue(S, w.fd_map[f]))
  /\ handling' = TRUE
  /\ UNCHANGED <<open, hist>>

\* The end of a batch of completions.
EndBatch ==
  /\ handling /\ handling' = FALSE
  /\ SetS(DrainDeferredRecvs(S))
  /\ UNCHANGED <<open, hist>>

Next ==
  \/ \E k \in Keys : CmdRemove(k) \/ CmdWrite(k)
  \/ \E f \in Fds :
       \/ RecvXferDrop(f) \/ RecvNoBufs(f) \/ RecvError(f) \/ RecvEof(f)
       \/ XferFrame(f) \/ SendDone(f)
       \/ \E k \in Keys : CmdAdd(k, f) \/ RecvFrames(f, k)
  \/ EndBatch

\* The clients read what they are sent (weak fairness of SendDone, spelled out
\* with the condition that enables it), and batches end.
Fairness ==
  /\ WF_vars(EndBatch)
  /\ \A f \in Fds :
       <>[]Sending(f) =>
         []<><<w'.send_pressure < w.send_pressure /\ SendDone(f)>>_vars

Spec == Init /\ [][Next]_vars /\ Fairness

(***************************************************************************)
(* Properties.                                                              *)
(***************************************************************************)
Total(f) == MapThenSumSet(LAMBDA x : f[x], DOMAIN f)

\* send_pressure counts every frame queued to a peer once, across enqueues,
\* completions and removals, and what nothing ever takes off again: the frames
\* XferPush dropped and those HtInsert forgot.
PressureExact == w.send_pressure = Total(w.send_queued) + drops + forgot

\* recv_inflight is the number of receives pending in the kernel, also those of
\* descriptors that were closed meanwhile.
InflightExact == w.recv_inflight = Total(armed)

\* A descriptor that is to be read has one receive: pending, or waiting in the
\* ring of deferred ones.  With none the client would never be heard again, as
\* happens after an error that the completion handlers do not expect; two would
\* read the same stream, as happens when ProcessCmdRemove closes a descriptor
\* that is still being read ("close"), which is left out here.
ReadOnce ==
  "close" \notin env =>
    \A f \in Fds : w.fd_map[f] # NoKey =>
      armed[f] + Len(SelectSeq(w.recv_defer, LAMBDA x : x = f))
        = IF f \in deaf THEN 0 ELSE 1

\* A pause bounds what is queued: once the threshold is passed, only the
\* receives already submitted add to it, one each.  Claimed for a worker with
\* single receives whose frames all come from its own clients: a pause does not
\* stop multishot receives, other workers or the control thread's writes.
OvershootBounded ==
  env \subseteq {"leave", "recverr"} =>
    w.send_pressure <
      SendPressureHigh(Cardinality(Keys)) + Burst * Cardinality(Fds)

\* A pause ends, if the clients read what is queued to them.  Does not hold when
\* a peer that leaves takes its queue with it.
PauseEnds == w.recv_paused ~> ~w.recv_paused

\* A client that stays connected is read again after every pause, on a worker
\* with single receives and frames from its own clients only (env = {}), below
\* the receive budget.
ReadAgain ==
  \A f \in Fds :
    env = {} /\ w.fd_map[f] # NoKey ~> armed[f] > 0
=============================================================================
