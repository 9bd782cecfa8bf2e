----------------------------- MODULE CrossShard -----------------------------
(***************************************************************************)
(* Cross-shard forwarding between the io_uring workers of the data plane.   *)
(*                                                                          *)
(* A worker that receives a frame for a peer owned by another worker pushes *)
(* it on the ring reserved for the pair (source, destination), sets its bit *)
(* in the destination's pending_sources, and, only when the ring looked     *)
(* empty, remembers to signal the destination's eventfd at the end of the   *)
(* completion batch.  The destination drains the rings whose bit is set,    *)
(* when its eventfd fires and at the end of every batch of completions.     *)
(*                                                                          *)
(* One step is one access to shared memory: the producer's load of tail,    *)
(* its store of head, its fetch_or; the consumer's exchange, its load of    *)
(* head together with the slot, its store of tail.  The frames of a pair    *)
(* are numbered 1, 2, ... in the order the ring accepts them.               *)
(***************************************************************************)
EXTENDS SpscRing, FiniteSets

CONSTANTS
  NumWorkers,   \* ctx->num_workers
  MaxFrames     \* bound: frames one ring accepts in a behaviour

ASSUME WorkersAssumption == NumWorkers \in Nat /\ MaxFrames \in Nat

Workers == 0 .. NumWorkers - 1

VARIABLES
  head, tail, items,    \* xfer_inbox[src] of worker dst, as [dst][src]
  pending_sources,      \* per worker: sources marked as having data
  xfer_efd,             \* per worker: the eventfd counter is non-zero
  xfer_signal_pending,  \* per worker: destinations to signal after the batch
  pc,                   \* where the worker is in WorkerRun
  dst, cur_tail,        \* XferPush locals: destination, tail as loaded
  rc,                   \* result of XferSpscPush
  mask, x,              \* ProcessXfer locals: sources left, item popped
  ret,                  \* where ProcessXfer returns to in WorkerRun
  accepted,             \* [dst][src]: frames the ring took, in all
  delivered             \* [dst][src]: number of the last frame handed on

ringVars == <<head, tail, items>>
pushVars == <<dst, cur_tail, rc>>
popVars == <<mask, x, ret>>
vars == <<head, tail, items, pending_sources, xfer_efd, xfer_signal_pending,
          pc, dst, cur_tail, rc, mask, x, ret, accepted, delivered>>

\* wait: no completion at hand.  batch: between two completions of a batch.
\* push, mark: inside XferPush.  xchg, pop, take: inside ProcessXfer.
PCs == {"wait", "batch", "push", "mark", "xchg", "pop", "take"}

(***************************************************************************)
(* Type invariant.                                                          *)
(***************************************************************************)
TypeOK ==
  /\ head \in [Workers -> [Workers -> Slots]]
  /\ tail \in [Workers -> [Workers -> Slots]]
  /\ items \in [Workers -> [Workers -> [Slots -> Nat]]]
  /\ pending_sources \in [Workers -> SUBSET Workers]
  /\ xfer_efd \in [Workers -> BOOLEAN]
  /\ xfer_signal_pending \in [Workers -> SUBSET Workers]
  /\ pc \in [Workers -> PCs]
  /\ dst \in [Workers -> Workers]
  /\ cur_tail \in [Workers -> Slots]
  /\ rc \in [Workers -> {0, 1}]
  /\ mask \in [Workers -> SUBSET Workers]
  /\ x \in [Workers -> Nat]
  /\ ret \in [Workers -> {"batch", "wait"}]
  /\ accepted \in [Workers -> [Workers -> Nat]]
  /\ delivered \in [Workers -> [Workers -> Nat]]

Init ==
  /\ head = [d \in Workers |-> [s \in Workers |-> 0]]
  /\ tail = [d \in Workers |-> [s \in Workers |-> 0]]
  /\ items = [d \in Workers |-> [s \in Workers |-> [i \in Slots |-> 0]]]
  /\ pending_sources = [w \in Workers |-> {}]
  /\ xfer_efd = [w \in Workers |-> FALSE]
  /\ xfer_signal_pending = [w \in Workers |-> {}]
  /\ pc = [w \in Workers |-> "wait"]
  /\ dst = [w \in Workers |-> w]
  /\ cur_tail = [w \in Workers |-> 0]
  /\ rc = [w \in Workers |-> 0]
  /\ mask = [w \in Workers |-> {}]
  /\ x = [w \in Workers |-> 0]
  /\ ret = [w \in Workers |-> "wait"]
  /\ accepted = [d \in Workers |-> [s \in Workers |-> 0]]
  /\ delivered = [d \in Workers |-> [s \in Workers |-> 0]]

\* __builtin_ctz: the source served next is the lowest one left in the mask.
FirstOf(S) == CHOOSE s \in S : \A t \in S : s <= t

\* A completion can be handled: the worker waits for one or is in a batch.
InLoop(w) == pc[w] \in {"wait", "batch"}

(***************************************************************************)
(* The producer: ForwardMsg and XferPush, called while a completion is      *)
(* handled.                                                                 *)
(***************************************************************************)

\* A frame for a peer of worker d arrives at w.  XferSpscPush loads tail (head
\* is w's own); a ring that looks full drops the frame.
PushLoadTail(w, d) ==
  /\ InLoop(w)
  /\ d # w
  /\ accepted[d][w] < MaxFrames
  /\ IF RingFull(head[d][w], tail[d][w])
     THEN /\ pc' = [pc EXCEPT ![w] = "batch"]
          /\ UNCHANGED <<dst, cur_tail>>
     ELSE /\ pc' = [pc EXCEPT ![w] = "push"]
          /\ dst' = [dst EXCEPT ![w] = d]
          /\ cur_tail' = [cur_tail EXCEPT ![w] = tail[d][w]]
  /\ UNCHANGED <<ringVars, pending_sources, xfer_efd, xfer_signal_pending, rc,
                 popVars, accepted, delivered>>

\* Mutant of PushStoreHead: head is visible and the slot is not.
PushHeadWithoutItem(w) ==
  LET d == dst[w]
      h == head[d][w]
  IN /\ pc[w] = "push"
     /\ accepted' = [accepted EXCEPT ![d][w] = @ + 1]
     /\ head' = [head EXCEPT ![d][w] = NextSlot(h)]
     /\ rc' = [rc EXCEPT ![w] = IF RingEmpty(h, cur_tail[w]) THEN 1 ELSE 0]
     /\ pc' = [pc EXCEPT ![w] = "mark"]
     /\ UNCHANGED <<items, tail, pending_sources, xfer_efd,
                    xfer_signal_pending, dst, cur_tail, popVars, delivered>>

\* The slot is filled and head published; the result compares head with the
\* tail loaded before, not with the tail of this moment.
PushStoreHead(w) ==
  LET d == dst[w]
      h == head[d][w]
  IN /\ pc[w] = "push"
     /\ accepted' = [accepted EXCEPT ![d][w] = @ + 1]
     /\ items' = [items EXCEPT ![d][w][h] = accepted[d][w] + 1]
     /\ head' = [head EXCEPT ![d][w] = NextSlot(h)]
     /\ rc' = [rc EXCEPT ![w] = IF RingEmpty(h, cur_tail[w]) THEN 1 ELSE 0]
     /\ pc' = [pc EXCEPT ![w] = "mark"]
     /\ UNCHANGED <<tail, pending_sources, xfer_efd, xfer_signal_pending, dst,
                    cur_tail, popVars, delivered>>

\* fetch_or on the destination's pending_sources, after the push; a signal is
\* scheduled only when the push returned 1.
PushMark(w) ==
  LET d == dst[w]
  IN /\ pc[w] = "mark"
     /\ pending_sources' = [pending_sources EXCEPT ![d] = @ \cup {w}]
     /\ xfer_signal_pending' = [xfer_signal_pending EXCEPT
                                  ![w] = IF rc[w] = 1 THEN @ \cup {d} ELSE @]
     /\ pc' = [pc EXCEPT ![w] = "batch"]
     /\ UNCHANGED <<ringVars, xfer_efd, pushVars, popVars, accepted, delivered>>

(***************************************************************************)
(* The completion loop of WorkerRun.                                        *)
(***************************************************************************)

\* A completion that does not touch the transfer rings: a send, a command, a
\* receive whose frames stay on this shard.
OtherCqe(w) ==
  /\ InLoop(w)
  /\ pc' = [pc EXCEPT ![w] = "batch"]
  /\ UNCHANGED <<ringVars, pending_sources, xfer_efd, xfer_signal_pending,
                 pushVars, popVars, accepted, delivered>>

\* kOpPollXfer: the eventfd is readable.  It is drained, then ProcessXfer runs.
PollXferCqe(w) ==
  /\ InLoop(w)
  /\ xfer_efd[w]
  /\ xfer_efd' = [xfer_efd EXCEPT ![w] = FALSE]
  /\ pc' = [pc EXCEPT ![w] = "xchg"]
  /\ ret' = [ret EXCEPT ![w] = "batch"]
  /\ UNCHANGED <<ringVars, pending_sources, xfer_signal_pending, pushVars, mask,
                 x, accepted, delivered>>

\* Mutant of EndBatch: the signals are cleared without being written.
EndBatchNoSignal(w) ==
  /\ pc[w] = "batch"
  /\ xfer_signal_pending' = [xfer_signal_pending EXCEPT ![w] = {}]
  /\ pc' = [pc EXCEPT ![w] = "xchg"]
  /\ ret' = [ret EXCEPT ![w] = "wait"]
  /\ UNCHANGED <<ringVars, pending_sources, xfer_efd, pushVars, mask, x,
                 accepted, delivered>>

\* Mutant of EndBatch: the rings are not drained after the batch.
EndBatchNoDrain(w) ==
  /\ pc[w] = "batch"
  /\ xfer_efd' = [d \in Workers |-> xfer_efd[d] \/ d \in xfer_signal_pending[w]]
  /\ xfer_signal_pending' = [xfer_signal_pending EXCEPT ![w] = {}]
  /\ pc' = [pc EXCEPT ![w] = "wait"]
  /\ UNCHANGED <<ringVars, pending_sources, pushVars, popVars, accepted,
                 delivered>>

\* The batch is over: FlushXferSignals writes one eventfd per destination
\* marked, then ProcessXfer runs before the worker looks for completions again.
EndBatch(w) ==
  /\ pc[w] = "batch"
  /\ xfer_efd' = [d \in Workers |-> xfer_efd[d] \/ d \in xfer_signal_pending[w]]
  /\ xfer_signal_pending' = [xfer_signal_pending EXCEPT ![w] = {}]
  /\ pc' = [pc EXCEPT ![w] = "xchg"]
  /\ ret' = [ret EXCEPT ![w] = "wait"]
  /\ UNCHANGED <<ringVars, pending_sources, pushVars, mask, x, accepted,
                 delivered>>

(***************************************************************************)
(* The consumer: ProcessXfer.                                               *)
(***************************************************************************)

\* The bit mask is taken and cleared in one exchange; nothing marked, return.
ProcessXfer(w) ==
  /\ pc[w] = "xchg"
  /\ mask' = [mask EXCEPT ![w] = pending_sources[w]]
  /\ pending_sources' = [pending_sources EXCEPT ![w] = {}]
  /\ pc' = [pc EXCEPT ![w] = IF pending_sources[w] = {} THEN ret[w] ELSE "pop"]
  /\ UNCHANGED <<ringVars, xfer_efd, xfer_signal_pending, pushVars, x, ret,
                 accepted, delivered>>

\* Mutant of PopLoadHead: the ring is popped once more than it holds items.
PopNoEmptyCheck(w) ==
  LET s == FirstOf(mask[w])
  IN /\ pc[w] = "pop"
     /\ x' = [x EXCEPT ![w] = items[w][s][tail[w][s]]]
     /\ pc' = [pc EXCEPT ![w] = "take"]
     /\ UNCHANGED <<ringVars, pending_sources, xfer_efd, xfer_signal_pending,
                    pushVars, mask, ret, accepted, delivered>>

\* XferSpscPop loads head.  An empty ring ends this source; otherwise the item
\* is copied out of the slot at tail.
PopLoadHead(w) ==
  LET s == FirstOf(mask[w])
  IN /\ pc[w] = "pop"
     /\ IF RingEmpty(head[w][s], tail[w][s])
        THEN /\ mask' = [mask EXCEPT ![w] = @ \ {s}]
             /\ pc' = [pc EXCEPT ![w] = IF mask[w] = {s} THEN ret[w] ELSE "pop"]
             /\ UNCHANGED x
        ELSE /\ x' = [x EXCEPT ![w] = items[w][s][tail[w][s]]]
             /\ pc' = [pc EXCEPT ![w] = "take"]
             /\ UNCHANGED mask
     /\ UNCHANGED <<ringVars, pending_sources, xfer_efd, xfer_signal_pending,
                    pushVars, ret, accepted, delivered>>

\* tail is published, which gives the slot back to the producer, and the item
\* is handed to EnqueueSend (or dropped by the generation check).
PopStoreTail(w) ==
  LET s == FirstOf(mask[w])
  IN /\ pc[w] = "take"
     /\ tail' = [tail EXCEPT ![w][s] = NextSlot(tail[w][s])]
     /\ delivered' = [delivered EXCEPT ![w][s] = x[w]]
     /\ pc' = [pc EXCEPT ![w] = "pop"]
     /\ UNCHANGED <<head, items, pending_sources, xfer_efd, xfer_signal_pending,
                    pushVars, popVars, accepted>>

WorkerStep(w) ==
  \/ PushStoreHead(w)
  \/ PushMark(w)
  \/ PollXferCqe(w)
  \/ EndBatch(w)
  \/ ProcessXfer(w)
  \/ PopLoadHead(w)
  \/ PopStoreTail(w)

Next ==
  \E w \in Workers :
    \/ WorkerStep(w)
    \/ OtherCqe(w)
    \/ \E d \in Workers : PushLoadTail(w, d)

\* A worker never stops inside a handler, and a completion that is posted is
\* handled: the loop is a thread of its own.  Arrivals are not assumed.
Spec == Init /\ [][Next]_vars /\ \A w \in Workers : WF_vars(WorkerStep(w))

\* A relay whose shards all carry other traffic: each worker sees completions
\* again and again, so batches keep ending.
Busy == \A w \in Workers : WF_vars(pc[w] = "wait" /\ OtherCqe(w))

(***************************************************************************)
(* Properties.                                                              *)
(***************************************************************************)

\* The slots f of a ring with indices h and t hold the frames numbered n + 1 .. a.
RingHolds(f, h, t, a, n) ==
  /\ a - n = RingLen(h, t)
  /\ \A k \in 0 .. RingLen(h, t) - 1 : f[SlotAt(t, k)] = n + k + 1

\* The accepted frames not handed on yet are exactly the ring's contents, in
\* order: head and tail never cross, however the producer's stale tail and the
\* consumer's copy of a slot interleave.
RingHoldsUndelivered ==
  \A d, s \in Workers :
    RingHolds(items[d][s], head[d][s], tail[d][s], accepted[d][s], delivered[d][s])

\* While XferPush is between its load of tail and its store of head, the slot
\* it will fill is free, although tail may have moved on since.
PushInFlight ==
  \A w \in Workers :
    pc[w] = "push" =>
      LET h == head[dst[w]][w]
          t == tail[dst[w]][w]
      IN /\ ~RingFull(h, cur_tail[w])
         /\ RingLen(h, t) <= RingLen(h, cur_tail[w])

\* While ProcessXfer drains a source, that source is in the mask, and an item
\* it has copied but not released is the oldest one the ring holds.
PopInFlight ==
  \A w \in Workers :
    /\ pc[w] \in {"pop", "take"} => mask[w] # {}
    /\ pc[w] = "take" =>
         LET s == FirstOf(mask[w])
         IN /\ ~RingEmpty(head[w][s], tail[w][s])
            /\ x[w] = delivered[w][s] + 1

\* The inductive invariant: the ring's contents together with what the
\* producer's stale tail and the consumer's copied item still guarantee.
IndInv == TypeOK /\ RingHoldsUndelivered /\ PushInFlight /\ PopInFlight

\* What ProcessXfer hands on is, ring by ring, frame after frame: none is
\* skipped, repeated or reordered.
FifoDelivery ==
  [][\A d, s \in Workers :
       delivered'[d][s] # delivered[d][s] =>
         delivered'[d][s] = delivered[d][s] + 1]_vars

\* A push that scheduled a signal wakes the destination: it drains the ring,
\* whatever else it is doing and without any other traffic.
SignalDrains ==
  \A d \in Workers : \A s \in Workers \ {d} :
    (d \in xfer_signal_pending[s]) ~> RingEmpty(head[d][s], tail[d][s])

\* On busy shards, every frame a ring accepted is handed on: the wake-up a push
\* may miss is made up for by the drain at the end of the next batch.
AcceptedIsDelivered ==
  Busy =>
    \A d \in Workers : \A s \in Workers \ {d} : \A n \in 1 .. MaxFrames :
      (accepted[d][s] >= n) ~> (delivered[d][s] >= n)

\* A signal for worker d is on its way: the eventfd is set, or a source will
\* set it at the end of its batch or is still inside XferPush.
SignalComing(d) ==
  \/ xfer_efd[d]
  \/ \E s \in Workers :
       \/ d \in xfer_signal_pending[s]
       \/ pc[s] \in {"push", "mark"} /\ dst[s] = d

\* "0 if consumer is already running": no worker waits for completions with
\* frames in its rings and no signal on its way.  Does not hold: see the tail
\* PushStoreHead compares with.
SleeperIsSignalled ==
  \A d \in Workers :
    (pc[d] = "wait" /\ \E s \in Workers : ~RingEmpty(head[d][s], tail[d][s]))
      => SignalComing(d)

\* The rings implement the queues of module ShardQueue.
QueueOf(d, s) ==
  [k \in 1 .. RingLen(head[d][s], tail[d][s]) |->
     items[d][s][SlotAt(tail[d][s], k - 1)]]

Queue == INSTANCE ShardQueue WITH
           Capacity <- RingSize - 1,
           queue <- [d \in Workers |-> [s \in Workers |-> QueueOf(d, s)]]

\* Cross-shard forwarding implements one bounded FIFO queue per ordered pair of
\* workers.
QueueSpec == Queue!Spec
=============================================================================
