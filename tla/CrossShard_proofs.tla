-------------------------- MODULE CrossShard_proofs --------------------------
(***************************************************************************)
(* Proofs about module CrossShard, for any number of workers, any ring size *)
(* and any number of frames.                                                *)
(***************************************************************************)
EXTENDS CrossShard, NaturalsInduction, WellFoundedInduction, TLAPS

(***************************************************************************)
(* Lemmas about the index arithmetic of a ring.                             *)
(***************************************************************************)

\* The slot after a slot is a slot.
LEMMA NextSlotType == ASSUME NEW i \in Slots PROVE NextSlot(i) \in Slots
BY RingSizeAssumption DEF Slots, NextSlot

\* A ring holds between 0 and RingSize - 1 items, none exactly when empty.
LEMMA RingLenType ==
  ASSUME NEW h \in Slots, NEW t \in Slots
  PROVE /\ RingLen(h, t) \in Nat
        /\ RingLen(h, t) <= RingSize - 1
        /\ RingEmpty(h, t) <=> RingLen(h, t) = 0
        /\ RingFull(h, t) <=> RingLen(h, t) = RingSize - 1
BY RingSizeAssumption DEF Slots, RingLen, RingEmpty, RingFull, NextSlot

\* Storing head adds one item at the end, if the ring is not full.
LEMMA RingLenPush ==
  ASSUME NEW h \in Slots, NEW t \in Slots, RingLen(h, t) < RingSize - 1
  PROVE /\ RingLen(NextSlot(h), t) = RingLen(h, t) + 1
        /\ SlotAt(t, RingLen(h, t)) = h
BY RingSizeAssumption DEF Slots, RingLen, NextSlot, SlotAt

\* Storing tail removes the oldest item, if the ring is not empty.
LEMMA RingLenPop ==
  ASSUME NEW h \in Slots, NEW t \in Slots, RingLen(h, t) > 0
  PROVE RingLen(h, NextSlot(t)) = RingLen(h, t) - 1
BY RingSizeAssumption DEF Slots, RingLen, NextSlot

\* The k-th slot of what remains is the (k+1)-th slot of what was there.
LEMMA SlotAtPop ==
  ASSUME NEW t \in Slots, NEW k \in 0 .. RingSize - 2
  PROVE SlotAt(NextSlot(t), k) = SlotAt(t, k + 1)
BY RingSizeAssumption DEF Slots, NextSlot, SlotAt

\* Distinct positions of a ring are distinct slots.
LEMMA SlotAtInjective ==
  ASSUME NEW t \in Slots, NEW j \in 0 .. RingSize - 1, NEW k \in 0 .. RingSize - 1
  PROVE /\ SlotAt(t, j) \in Slots
        /\ SlotAt(t, j) = SlotAt(t, k) => j = k
        /\ SlotAt(t, 0) = t
BY RingSizeAssumption DEF Slots, SlotAt

\* A push into a ring that is not full: it holds one frame more.
LEMMA RingHoldsPush ==
  ASSUME NEW f \in [Slots -> Nat], NEW h \in Slots, NEW t \in Slots,
         NEW a \in Nat, NEW n \in Nat,
         RingHolds(f, h, t, a, n), RingLen(h, t) < RingSize - 1
  PROVE RingHolds([f EXCEPT ![h] = a + 1], NextSlot(h), t, a + 1, n)
<1> DEFINE L == RingLen(h, t)
           g == [f EXCEPT ![h] = a + 1]
<1>1. /\ L \in Nat /\ L <= RingSize - 1 /\ L < RingSize - 1
      /\ RingLen(NextSlot(h), t) = L + 1 /\ SlotAt(t, L) = h
  BY RingLenType, RingLenPush
<1>2. a - n = L /\ \A k \in 0 .. L - 1 : f[SlotAt(t, k)] = n + k + 1
  BY DEF RingHolds
<1>3. g[h] = a + 1 /\ \A i \in Slots : i # h => g[i] = f[i]
  OBVIOUS
<1>4. \A k \in 0 .. L - 1 : SlotAt(t, k) \in Slots /\ SlotAt(t, k) # h
  <2> TAKE k \in 0 .. L - 1
  <2>1. k \in 0 .. RingSize - 1 /\ L \in 0 .. RingSize - 1 /\ k # L
    BY <1>1, RingSizeAssumption
  <2> QED
    BY <1>1, <2>1, SlotAtInjective
<1> HIDE DEF L, g
<1>5. (a + 1) - n = L + 1
  BY <1>1, <1>2
<1>6. \A k \in 0 .. (L + 1) - 1 : g[SlotAt(t, k)] = n + k + 1
  <2> TAKE k \in 0 .. (L + 1) - 1
  <2>1. CASE k = L
    BY <1>1, <1>2, <1>3, <2>1
  <2>2. CASE k # L
    <3>1. k \in 0 .. L - 1
      BY <1>1, <2>2
    <3> QED
      BY <1>2, <1>3, <1>4, <3>1
  <2> QED
    BY <2>1, <2>2
<1>7. RingHolds(g, NextSlot(h), t, a + 1, n)
  BY <1>1, <1>5, <1>6 DEF RingHolds
<1> QED
  BY <1>7 DEF g

\* A pop from a ring that is not empty: the slot at the tail has the next frame,
\* and the ring holds the others.
LEMMA RingHoldsPop ==
  ASSUME NEW f \in [Slots -> Nat], NEW h \in Slots, NEW t \in Slots,
         NEW a \in Nat, NEW n \in Nat,
         RingHolds(f, h, t, a, n), ~RingEmpty(h, t)
  PROVE f[t] = n + 1 /\ RingHolds(f, h, NextSlot(t), a, n + 1)
<1> DEFINE L == RingLen(h, t)
<1>1. /\ L \in Nat /\ L > 0 /\ L <= RingSize - 1
      /\ RingLen(h, NextSlot(t)) = L - 1
  BY RingLenType, RingLenPop
<1>2. a - n = L /\ \A k \in 0 .. L - 1 : f[SlotAt(t, k)] = n + k + 1
  BY DEF RingHolds
<1> HIDE DEF L
<1>3. f[t] = n + 1
  <2>1. SlotAt(t, 0) = t /\ 0 \in 0 .. L - 1
    BY <1>1, RingSizeAssumption, SlotAtInjective
  <2> QED
    BY <1>2, <2>1
<1>4. a - (n + 1) = L - 1
  BY <1>1, <1>2
<1>5. \A k \in 0 .. (L - 1) - 1 : f[SlotAt(NextSlot(t), k)] = (n + 1) + k + 1
  <2> TAKE k \in 0 .. (L - 1) - 1
  <2>1. k + 1 \in 0 .. L - 1 /\ k \in 0 .. RingSize - 2
    BY <1>1, RingSizeAssumption
  <2>2. SlotAt(NextSlot(t), k) = SlotAt(t, k + 1)
    BY <2>1, SlotAtPop
  <2>3. f[SlotAt(t, k + 1)] = n + (k + 1) + 1
    BY <1>2, <2>1
  <2> QED
    BY <2>1, <2>2, <2>3
<1> QED
  BY <1>1, <1>3, <1>4, <1>5 DEF RingHolds

\* The source that ProcessXfer serves next is one of those in the mask.
LEMMA FirstOfType ==
  ASSUME NEW S \in SUBSET Workers, S # {}
  PROVE FirstOf(S) \in S
<1>1. S \subseteq Nat
  BY WorkersAssumption DEF Workers
<1>2. IsWellFoundedOn(OpToRel(<, Nat), Nat)
  BY Zenon, NatLessThanWellFounded
<1>3. PICK m \in S : \A y \in S : ~(<<y, m>> \in OpToRel(<, Nat))
  BY Zenon, <1>1, <1>2, WFMin
<1>4. \A y \in S : ~(y < m)
  BY Zenon, <1>1, <1>3 DEF OpToRel
<1>5. \A y \in S : m <= y
  BY <1>1, <1>4
<1> QED
  BY <1>5 DEF FirstOf

(***************************************************************************)
(* The inductive invariant.                                                 *)
(***************************************************************************)

\* It holds initially: every ring is empty and no worker is inside a call.
LEMMA InitIndInv == Init => IndInv
<1> SUFFICES ASSUME Init PROVE IndInv
  OBVIOUS
<1>1. 0 \in Slots
  BY RingSizeAssumption DEF Slots
<1>2. TypeOK
  BY <1>1, WorkersAssumption DEF Init, TypeOK, PCs
<1>3. RingHoldsUndelivered
  BY <1>1, RingSizeAssumption DEF Init, RingHoldsUndelivered, RingHolds, RingLen, Slots
<1>4. PushInFlight /\ PopInFlight
  BY DEF Init, PushInFlight, PopInFlight
<1> QED
  BY <1>2, <1>3, <1>4 DEF IndInv

\* A push begins: the tail it remembers is the present one.
LEMMA PushLoadTailIndInv ==
  ASSUME IndInv, NEW w \in Workers, NEW d \in Workers, PushLoadTail(w, d)
  PROVE IndInv'
<1> USE DEF IndInv
<1>1. TypeOK'
  <2>0. tail[d][w] \in Slots
    BY DEF TypeOK
  <2>1. dst' \in [Workers -> Workers]
    BY ZenonT(40) DEF TypeOK, PushLoadTail
  <2>3. cur_tail' \in [Workers -> Slots]
    <3>1. cur_tail \in [Workers -> Slots]
      BY DEF TypeOK
    <3>2. cur_tail' = cur_tail \/ cur_tail' = [cur_tail EXCEPT ![w] = tail[d][w]]
      BY DEF PushLoadTail
    <3> QED
      BY <2>0, <3>1, <3>2
  <2>2. pc' \in [Workers -> PCs]
    BY Zenon DEF TypeOK, PushLoadTail, PCs
  <2> QED
    BY <2>1, <2>2, <2>3 DEF TypeOK, PushLoadTail, ringVars, popVars
<1>2. RingHoldsUndelivered'
  BY DEF RingHoldsUndelivered, PushLoadTail, ringVars
<1>3. PushInFlight'
  <2> SUFFICES ASSUME NEW v \in Workers, pc'[v] = "push"
               PROVE /\ ~RingFull(head[dst'[v]][v], cur_tail'[v])
                     /\ RingLen(head[dst'[v]][v], tail[dst'[v]][v])
                          <= RingLen(head[dst'[v]][v], cur_tail'[v])
    BY DEF PushInFlight, PushLoadTail, ringVars
  <2>1. CASE v = w /\ ~RingFull(head[d][w], tail[d][w])
    <3>1. dst'[v] = d /\ cur_tail'[v] = tail[d][w]
      BY <2>1 DEF PushLoadTail, TypeOK
    <3>2. RingLen(head[d][w], tail[d][w]) \in Nat
      BY RingLenType DEF TypeOK
    <3> QED
      BY <2>1, <3>1, <3>2
  <2>2. CASE v = w /\ RingFull(head[d][w], tail[d][w])
    BY <2>2 DEF PushLoadTail, TypeOK
  <2>3. CASE v # w
    BY <2>3 DEF PushLoadTail, TypeOK, PushInFlight
  <2> QED
    BY <2>1, <2>2, <2>3
<1>4. PopInFlight'
  <2> SUFFICES ASSUME NEW v \in Workers, pc'[v] \in {"pop", "take"}
               PROVE v # w /\ pc'[v] = pc[v]
    BY DEF PopInFlight, PushLoadTail, ringVars, popVars
  <2> QED
    BY DEF PushLoadTail, TypeOK
<1> QED
  BY <1>1, <1>2, <1>3, <1>4

\* A push completes: the ring grows by the frame just numbered.
LEMMA PushStoreHeadIndInv ==
  ASSUME IndInv, NEW w \in Workers, PushStoreHead(w)
  PROVE IndInv'
<1> USE DEF IndInv
<1> DEFINE d == dst[w]
           h == head[d][w]
           t == tail[d][w]
           n == accepted[d][w] + 1
           Same(e, s) == /\ head'[e][s] = head[e][s]
                         /\ items'[e][s] = items[e][s]
                         /\ accepted'[e][s] = accepted[e][s]
<1>1. /\ d \in Workers /\ h \in Slots /\ t \in Slots
      /\ cur_tail[w] \in Slots /\ accepted[d][w] \in Nat
      /\ items[d][w] \in [Slots -> Nat]
  BY DEF TypeOK
<1>2. RingLen(h, t) < RingSize - 1
  <2>1. ~RingFull(h, cur_tail[w]) /\ RingLen(h, t) <= RingLen(h, cur_tail[w])
    BY DEF PushInFlight, PushStoreHead
  <2>2. /\ RingLen(h, cur_tail[w]) \in Nat
        /\ RingLen(h, cur_tail[w]) <= RingSize - 1
        /\ RingLen(h, cur_tail[w]) # RingSize - 1
        /\ RingLen(h, t) \in Nat
    BY <1>1, <2>1, RingLenType
  <2> QED
    BY <2>1, <2>2, RingSizeAssumption
<1>3. /\ head'[d][w] = NextSlot(h)
      /\ items'[d][w] = [items[d][w] EXCEPT ![h] = n]
      /\ accepted'[d][w] = n
  BY ZenonT(40), <1>1 DEF PushStoreHead, TypeOK
<1>4. ASSUME NEW e \in Workers, NEW s \in Workers, e # d \/ s # w
      PROVE Same(e, s)
  BY <1>1, <1>4 DEF PushStoreHead, TypeOK
<1>5. tail' = tail /\ delivered' = delivered
  BY DEF PushStoreHead
<1>6. TypeOK'
  <2>1. NextSlot(h) \in Slots
    BY <1>1, NextSlotType
  <2>2. head' \in [Workers -> [Workers -> Slots]]
    <3>1. head \in [Workers -> [Workers -> Slots]]
      BY DEF TypeOK
    <3>2. head' = [head EXCEPT ![d][w] = NextSlot(h)]
      BY DEF PushStoreHead
    <3> QED
      BY <1>1, <2>1, <3>1, <3>2
  <2>3. items' \in [Workers -> [Workers -> [Slots -> Nat]]]
    <3>1. items \in [Workers -> [Workers -> [Slots -> Nat]]]
      BY DEF TypeOK
    <3>2. items' = [items EXCEPT ![d][w][h] = n]
      BY DEF PushStoreHead
    <3> QED
      BY <1>1, <3>1, <3>2
  <2>4. accepted' \in [Workers -> [Workers -> Nat]]
    <3>1. accepted \in [Workers -> [Workers -> Nat]]
      BY DEF TypeOK
    <3>2. accepted' = [accepted EXCEPT ![d][w] = @ + 1]
      BY DEF PushStoreHead
    <3> QED
      BY <1>1, <3>1, <3>2
  <2>5. rc' \in [Workers -> {0, 1}] /\ pc' \in [Workers -> PCs]
    BY DEF PushStoreHead, TypeOK, PCs
  <2> QED
    BY <2>2, <2>3, <2>4, <2>5 DEF TypeOK, PushStoreHead, popVars
<1>7. RingHoldsUndelivered'
  <2> SUFFICES ASSUME NEW e \in Workers, NEW s \in Workers
               PROVE RingHolds(items'[e][s], head'[e][s], tail[e][s],
                               accepted'[e][s], delivered[e][s])
    BY <1>5 DEF RingHoldsUndelivered
  <2>1. RingHolds(items[e][s], head[e][s], tail[e][s], accepted[e][s], delivered[e][s])
    BY DEF RingHoldsUndelivered
  <2>2. CASE e # d \/ s # w
    BY <1>4, <2>1, <2>2
  <2>3. CASE e = d /\ s = w
    <3>1. delivered[d][w] \in Nat
      BY <1>1 DEF TypeOK
    <3>2. RingHolds([items[d][w] EXCEPT ![h] = n], NextSlot(h), t, n, delivered[d][w])
      BY ZenonT(40), <1>1, <1>2, <2>1, <2>3, <3>1, RingHoldsPush
    <3> QED
      BY <1>3, <2>3, <3>2
  <2> QED
    BY <2>2, <2>3
<1>8. PushInFlight'
  <2> SUFFICES ASSUME NEW v \in Workers, pc'[v] = "push"
               PROVE v # w /\ pc[v] = "push" /\ head'[dst[v]][v] = head[dst[v]][v]
    BY DEF PushInFlight, PushStoreHead
  <2>1. v # w /\ pc[v] = "push" /\ dst[v] \in Workers
    BY DEF PushStoreHead, TypeOK
  <2> QED
    BY <1>4, <2>1
<1>9. PopInFlight'
  <2> SUFFICES ASSUME NEW v \in Workers, pc'[v] \in {"pop", "take"}
               PROVE /\ mask[v] # {}
                     /\ pc'[v] = "take" =>
                          /\ ~RingEmpty(head'[v][FirstOf(mask[v])],
                                        tail[v][FirstOf(mask[v])])
                          /\ x[v] = delivered[v][FirstOf(mask[v])] + 1
    BY <1>5 DEF PopInFlight, PushStoreHead, popVars
  <2>1. v # w /\ pc[v] = pc'[v]
    BY DEF PushStoreHead, TypeOK
  <2>2. mask[v] # {} /\ mask[v] \in SUBSET Workers
    BY SMTT(30), <2>1 DEF PopInFlight, TypeOK
  <2>3. ASSUME pc[v] = "take"
        PROVE /\ ~RingEmpty(head'[v][FirstOf(mask[v])],
                            tail[v][FirstOf(mask[v])])
              /\ x[v] = delivered[v][FirstOf(mask[v])] + 1
    <3> DEFINE s == FirstOf(mask[v])
    <3>1. s \in Workers
      BY <2>2, FirstOfType
    <3>2. /\ ~RingEmpty(head[v][s], tail[v][s])
          /\ x[v] = delivered[v][s] + 1
      BY <2>3 DEF PopInFlight
    <3>3. ~RingEmpty(head'[v][s], tail[v][s])
      <4>1. CASE v # d \/ s # w
        BY <1>4, <3>1, <3>2, <4>1
      <4>2. CASE v = d /\ s = w
        <5>1. RingLen(NextSlot(h), t) = RingLen(h, t) + 1 /\ RingLen(h, t) \in Nat
          BY <1>1, <1>2, RingLenPush, RingLenType
        <5>2. NextSlot(h) \in Slots
          BY <1>1, NextSlotType
        <5>3. ~RingEmpty(NextSlot(h), t)
          BY <1>1, <5>1, <5>2, RingLenType
        <5> QED
          BY <1>3, <4>2, <5>3
      <4> QED
        BY <4>1, <4>2
    <3> QED
      BY <3>2, <3>3
  <2> QED
    BY <2>1, <2>2, <2>3
<1> QED
  BY <1>6, <1>7, <1>8, <1>9

\* A step that leaves the rings, the frame counts and the locals of pushes and
\* pops alone preserves the invariant, if it enters neither "push" nor "take".
LEMMA OutsideRings ==
  ASSUME IndInv, TypeOK', NEW w \in Workers, NEW q,
         UNCHANGED <<ringVars, pushVars, accepted, delivered>>,
         \A v \in Workers : v # w => pc'[v] = pc[v] /\ mask'[v] = mask[v],
         x' = x,
         pc'[w] = q, q # "push", q # "take",
         q = "pop" => mask'[w] # {}
  PROVE IndInv'
<1> USE DEF IndInv
<1>1. RingHoldsUndelivered'
  BY DEF RingHoldsUndelivered, ringVars
<1>2. PushInFlight'
  <2> SUFFICES ASSUME NEW v \in Workers, pc'[v] = "push"
               PROVE pc[v] = "push"
    BY DEF PushInFlight, ringVars, pushVars
  <2> QED
    OBVIOUS
<1>3. PopInFlight'
  <2> SUFFICES ASSUME NEW v \in Workers
               PROVE /\ pc'[v] \in {"pop", "take"} => mask'[v] # {}
                     /\ pc'[v] = "take" =>
                          /\ ~RingEmpty(head[v][FirstOf(mask'[v])],
                                        tail[v][FirstOf(mask'[v])])
                          /\ x[v] = delivered[v][FirstOf(mask'[v])] + 1
    BY DEF PopInFlight, ringVars
  <2>1. CASE v = w
    BY <2>1
  <2>2. CASE v # w
    BY <2>2 DEF PopInFlight
  <2> QED
    BY <2>1, <2>2
<1> QED
  BY <1>1, <1>2, <1>3

\* The fetch_or on pending_sources after a push does not touch the rings.
LEMMA PushMarkIndInv ==
  ASSUME IndInv, NEW w \in Workers, PushMark(w)
  PROVE IndInv'
<1>1. TypeOK'
  <2>1. pending_sources' \in [Workers -> SUBSET Workers]
    BY DEF IndInv, TypeOK, PushMark
  <2>2. xfer_signal_pending' \in [Workers -> SUBSET Workers]
    BY DEF IndInv, TypeOK, PushMark
  <2>3. pc' \in [Workers -> PCs]
    BY DEF IndInv, TypeOK, PushMark, PCs
  <2> QED
    BY <2>1, <2>2, <2>3 DEF IndInv, TypeOK, PushMark, ringVars, pushVars, popVars
<1>2. pc'[w] = "batch" /\ \A v \in Workers : v # w => pc'[v] = pc[v]
  BY DEF IndInv, TypeOK, PushMark
<1> QED
  BY <1>1, <1>2, OutsideRings DEF PushMark, popVars

\* A completion that is not about transfers does not touch the rings.
LEMMA OtherCqeIndInv ==
  ASSUME IndInv, NEW w \in Workers, OtherCqe(w)
  PROVE IndInv'
<1>1. TypeOK'
  <2>1. pc' \in [Workers -> PCs]
    BY DEF IndInv, TypeOK, OtherCqe, PCs
  <2> QED
    BY <2>1 DEF IndInv, TypeOK, OtherCqe, ringVars, pushVars, popVars
<1>2. pc'[w] = "batch" /\ \A v \in Workers : v # w => pc'[v] = pc[v]
  BY DEF IndInv, TypeOK, OtherCqe
<1> QED
  BY <1>1, <1>2, OutsideRings DEF OtherCqe, popVars

\* Draining the eventfd leaves the rings to the ProcessXfer that follows.
LEMMA PollXferCqeIndInv ==
  ASSUME IndInv, NEW w \in Workers, PollXferCqe(w)
  PROVE IndInv'
<1>1. TypeOK'
  <2>1. pc' \in [Workers -> PCs] /\ ret' \in [Workers -> {"batch", "wait"}]
    BY DEF IndInv, TypeOK, PollXferCqe, PCs
  <2>2. xfer_efd' \in [Workers -> BOOLEAN]
    BY DEF IndInv, TypeOK, PollXferCqe
  <2> QED
    BY <2>1, <2>2 DEF IndInv, TypeOK, PollXferCqe, ringVars, pushVars
<1>2. pc'[w] = "xchg" /\ \A v \in Workers : v # w => pc'[v] = pc[v]
  BY DEF IndInv, TypeOK, PollXferCqe
<1> QED
  BY <1>1, <1>2, OutsideRings DEF PollXferCqe

\* FlushXferSignals writes eventfds only.
LEMMA EndBatchIndInv ==
  ASSUME IndInv, NEW w \in Workers, EndBatch(w)
  PROVE IndInv'
<1>1. TypeOK'
  <2>1. pc' \in [Workers -> PCs] /\ ret' \in [Workers -> {"batch", "wait"}]
    BY DEF IndInv, TypeOK, EndBatch, PCs
  <2>2. xfer_efd' \in [Workers -> BOOLEAN]
    BY DEF IndInv, TypeOK, EndBatch
  <2>3. xfer_signal_pending' \in [Workers -> SUBSET Workers]
    BY DEF IndInv, TypeOK, EndBatch
  <2> QED
    BY <2>1, <2>2, <2>3 DEF IndInv, TypeOK, EndBatch, ringVars, pushVars
<1>2. pc'[w] = "xchg" /\ \A v \in Workers : v # w => pc'[v] = pc[v]
  BY DEF IndInv, TypeOK, EndBatch
<1> QED
  BY <1>1, <1>2, OutsideRings DEF EndBatch

\* The exchange of pending_sources makes the mask non-empty where pops begin.
LEMMA ProcessXferIndInv ==
  ASSUME IndInv, NEW w \in Workers, ProcessXfer(w)
  PROVE IndInv'
<1>1. ret[w] \in {"batch", "wait"} /\ pending_sources[w] \in SUBSET Workers
  BY DEF IndInv, TypeOK
<1>2. TypeOK'
  <2>1. pc' \in [Workers -> PCs]
    BY <1>1 DEF IndInv, TypeOK, ProcessXfer, PCs
  <2>2. mask' \in [Workers -> SUBSET Workers]
    BY <1>1 DEF IndInv, TypeOK, ProcessXfer
  <2>3. pending_sources' \in [Workers -> SUBSET Workers]
    BY DEF IndInv, TypeOK, ProcessXfer
  <2> QED
    BY <2>1, <2>2, <2>3 DEF IndInv, TypeOK, ProcessXfer, ringVars, pushVars
<1>3. /\ pc'[w] = IF pending_sources[w] = {} THEN ret[w] ELSE "pop"
      /\ mask'[w] = pending_sources[w]
      /\ \A v \in Workers : v # w => pc'[v] = pc[v] /\ mask'[v] = mask[v]
  BY DEF IndInv, TypeOK, ProcessXfer
<1>4. pc'[w] # "push" /\ pc'[w] # "take" /\ (pc'[w] = "pop" => mask'[w] # {})
  BY <1>1, <1>3
<1> QED
  BY <1>2, <1>3, <1>4, OutsideRings DEF ProcessXfer

\* The consumer looks at a ring: it leaves it if empty, else copies the oldest
\* item.
LEMMA PopLoadHeadIndInv ==
  ASSUME IndInv, NEW w \in Workers, PopLoadHead(w)
  PROVE IndInv'
<1> USE DEF IndInv
<1> DEFINE s == FirstOf(mask[w])
           h == head[w][s]
           t == tail[w][s]
<1>1. mask[w] # {} /\ mask[w] \in SUBSET Workers /\ s \in mask[w]
  <2>1. mask[w] # {} /\ mask[w] \in SUBSET Workers
    BY DEF PopInFlight, PopLoadHead, TypeOK
  <2> QED
    BY <2>1, FirstOfType
<1>2. s \in Workers /\ ret[w] \in {"batch", "wait"}
  BY <1>1 DEF TypeOK
<1>3. h \in Slots /\ t \in Slots /\ items[w][s][t] \in Nat
  BY <1>2 DEF TypeOK
<1>4. CASE RingEmpty(h, t)
  <2>1. /\ mask' = [mask EXCEPT ![w] = @ \ {s}]
        /\ pc' = [pc EXCEPT ![w] = IF mask[w] = {s} THEN ret[w] ELSE "pop"]
        /\ UNCHANGED <<ringVars, pushVars, accepted, delivered>>
        /\ x' = x /\ ret' = ret /\ pending_sources' = pending_sources
        /\ xfer_efd' = xfer_efd /\ xfer_signal_pending' = xfer_signal_pending
    BY <1>4 DEF PopLoadHead
  <2>2. /\ mask'[w] = mask[w] \ {s}
        /\ pc'[w] = IF mask[w] = {s} THEN ret[w] ELSE "pop"
        /\ \A v \in Workers : v # w => pc'[v] = pc[v] /\ mask'[v] = mask[v]
    BY SMTT(30), <2>1 DEF TypeOK
  <2>3. pc'[w] # "push" /\ pc'[w] # "take" /\ (pc'[w] = "pop" => mask'[w] # {})
    BY SMTT(30), <1>1, <1>2, <2>2
  <2>4. TypeOK'
    <3>1. pc' \in [Workers -> PCs]
      BY <1>2, <2>1 DEF TypeOK, PCs
    <3>2. mask' \in [Workers -> SUBSET Workers]
      BY SMTT(30), <2>1 DEF TypeOK
    <3> QED
      BY <2>1, <3>1, <3>2 DEF TypeOK, ringVars, pushVars
  <2> QED
    BY SMTT(30), <2>1, <2>2, <2>3, <2>4, OutsideRings
<1>5. CASE ~RingEmpty(h, t)
  <2>1. /\ x' = [x EXCEPT ![w] = items[w][s][t]]
        /\ pc' = [pc EXCEPT ![w] = "take"]
        /\ UNCHANGED <<ringVars, pushVars, accepted, delivered>>
        /\ mask' = mask /\ ret' = ret /\ pending_sources' = pending_sources
        /\ xfer_efd' = xfer_efd /\ xfer_signal_pending' = xfer_signal_pending
    BY SMTT(30), <1>5 DEF PopLoadHead
  <2>2. TypeOK'
    <3>1. pc' \in [Workers -> PCs]
      BY <2>1 DEF TypeOK, PCs
    <3>2. x' \in [Workers -> Nat]
      BY SMTT(30), <1>3, <2>1 DEF TypeOK
    <3> QED
      BY <2>1, <3>1, <3>2 DEF TypeOK, ringVars, pushVars
  <2>3. RingHoldsUndelivered'
    BY <2>1 DEF RingHoldsUndelivered, ringVars
  <2>4. PushInFlight'
    <3> SUFFICES ASSUME NEW v \in Workers, pc'[v] = "push"
                 PROVE pc[v] = "push"
      BY SMTT(30), <2>1 DEF PushInFlight, ringVars, pushVars
    <3> QED
      BY SMTT(30), <2>1 DEF TypeOK
  <2>5. items[w][s][t] = delivered[w][s] + 1
    <3>1. /\ items[w][s] \in [Slots -> Nat]
          /\ accepted[w][s] \in Nat /\ delivered[w][s] \in Nat
      BY <1>2 DEF TypeOK
    <3>2. RingHolds(items[w][s], h, t, accepted[w][s], delivered[w][s])
      BY SMTT(30), <1>2 DEF RingHoldsUndelivered
    <3> QED
      BY <1>3, <1>5, <3>1, <3>2, RingHoldsPop
  <2>6. PopInFlight'
    <3> SUFFICES ASSUME NEW v \in Workers
                 PROVE /\ pc'[v] \in {"pop", "take"} => mask[v] # {}
                       /\ pc'[v] = "take" =>
                            /\ ~RingEmpty(head[v][FirstOf(mask[v])],
                                          tail[v][FirstOf(mask[v])])
                            /\ x'[v] = delivered[v][FirstOf(mask[v])] + 1
      BY SMTT(30), <2>1 DEF PopInFlight, ringVars
    <3>1. CASE v = w
      <4>1. x'[v] = items[w][s][t]
        BY <2>1, <3>1 DEF TypeOK
      <4> QED
        BY <1>1, <1>5, <2>5, <3>1, <4>1
    <3>2. CASE v # w
      BY Zenon, <2>1, <3>2 DEF PopInFlight, TypeOK
    <3> QED
      BY SMTT(30), <3>1, <3>2
  <2> QED
    BY <2>2, <2>3, <2>4, <2>6
<1> QED
  BY <1>4, <1>5

\* The consumer releases a slot: the frame handed on is the next in order, and
\* the ring keeps the others.
LEMMA PopStoreTailIndInv ==
  ASSUME IndInv, NEW w \in Workers, PopStoreTail(w)
  PROVE /\ IndInv'
        /\ \A e, s \in Workers :
             delivered'[e][s] # delivered[e][s] =>
               delivered'[e][s] = delivered[e][s] + 1
<1> USE DEF IndInv
<1> DEFINE s == FirstOf(mask[w])
           h == head[w][s]
           t == tail[w][s]
           n == delivered[w][s]
           L == RingLen(h, t)
<1>1. mask[w] # {} /\ s \in Workers
  <2>1. mask[w] # {} /\ mask[w] \in SUBSET Workers
    BY DEF PopInFlight, PopStoreTail, TypeOK
  <2> QED
    BY <2>1, FirstOfType
<1>2. /\ h \in Slots /\ t \in Slots /\ NextSlot(t) \in Slots
      /\ n \in Nat /\ accepted[w][s] \in Nat
  BY <1>1, NextSlotType DEF TypeOK
<1>3. ~RingEmpty(h, t) /\ x[w] = n + 1
  BY SMTT(30) DEF PopInFlight, PopStoreTail
<1>4. /\ L \in Nat /\ L > 0 /\ L <= RingSize - 1
      /\ RingLen(h, NextSlot(t)) = L - 1
  BY <1>2, <1>3, RingLenType, RingLenPop
<1>5. /\ tail'[w][s] = NextSlot(t)
      /\ delivered'[w][s] = n + 1
      /\ head' = head /\ items' = items /\ accepted' = accepted
  BY <1>1, <1>3 DEF PopStoreTail, TypeOK
<1>6. ASSUME NEW e \in Workers, NEW r \in Workers, e # w \/ r # s
      PROVE tail'[e][r] = tail[e][r] /\ delivered'[e][r] = delivered[e][r]
  BY SMTT(30), <1>1, <1>6 DEF PopStoreTail, TypeOK
<1>7. TypeOK'
  <2>1. tail' \in [Workers -> [Workers -> Slots]]
    <3>1. tail \in [Workers -> [Workers -> Slots]]
      BY DEF TypeOK
    <3>2. tail' = [tail EXCEPT ![w][s] = NextSlot(t)]
      BY SMTT(30) DEF PopStoreTail
    <3> QED
      BY <1>1, <1>2, <3>1, <3>2
  <2>2. delivered' \in [Workers -> [Workers -> Nat]]
    <3>1. delivered \in [Workers -> [Workers -> Nat]] /\ x[w] \in Nat
      BY DEF TypeOK
    <3>2. delivered' = [delivered EXCEPT ![w][s] = x[w]]
      BY DEF PopStoreTail
    <3> QED
      BY <1>1, <3>1, <3>2
  <2>3. pc' \in [Workers -> PCs]
    BY SMTT(30) DEF PopStoreTail, TypeOK, PCs
  <2> QED
    BY SMTT(30), <2>1, <2>2, <2>3 DEF PopStoreTail, TypeOK, pushVars, popVars
<1>8. RingHoldsUndelivered'
  <2> SUFFICES ASSUME NEW e \in Workers, NEW r \in Workers
               PROVE RingHolds(items[e][r], head[e][r], tail'[e][r],
                               accepted[e][r], delivered'[e][r])
    BY SMTT(30), <1>5 DEF RingHoldsUndelivered
  <2>1. RingHolds(items[e][r], head[e][r], tail[e][r], accepted[e][r], delivered[e][r])
    BY DEF RingHoldsUndelivered
  <2>2. CASE e # w \/ r # s
    BY SMTT(30), <1>6, <2>1, <2>2
  <2>3. CASE e = w /\ r = s
    <3>1. items[w][s] \in [Slots -> Nat]
      BY SMTT(30), <1>1 DEF TypeOK
    <3>2. RingHolds(items[w][s], h, NextSlot(t), accepted[w][s], n + 1)
      BY <1>2, <1>3, <2>1, <2>3, <3>1, RingHoldsPop
    <3> QED
      BY <1>5, <2>3, <3>2
  <2> QED
    BY SMTT(30), <2>2, <2>3
<1>9. PushInFlight'
  <2> SUFFICES ASSUME NEW v \in Workers, pc'[v] = "push"
               PROVE /\ ~RingFull(head[dst[v]][v], cur_tail[v])
                     /\ RingLen(head[dst[v]][v], tail'[dst[v]][v])
                          <= RingLen(head[dst[v]][v], cur_tail[v])
    BY <1>5 DEF PushInFlight, PopStoreTail, pushVars
  <2>1. pc[v] = "push" /\ dst[v] \in Workers /\ cur_tail[v] \in Slots
    BY SMTT(30) DEF PopStoreTail, TypeOK
  <2>2. /\ ~RingFull(head[dst[v]][v], cur_tail[v])
        /\ RingLen(head[dst[v]][v], tail[dst[v]][v])
             <= RingLen(head[dst[v]][v], cur_tail[v])
    BY <2>1 DEF PushInFlight
  <2>3. CASE dst[v] # w \/ v # s
    BY SMTT(30), <1>6, <2>1, <2>2, <2>3
  <2>4. CASE dst[v] = w /\ v = s
    <3>1. RingLen(h, cur_tail[v]) \in Nat /\ L <= RingLen(h, cur_tail[v])
      BY SMTT(30), <1>2, <2>1, <2>2, <2>4, RingLenType
    <3>2. RingLen(head[dst[v]][v], tail'[dst[v]][v]) = L - 1
      BY <1>4, <1>5, <2>4
    <3>3. L - 1 <= RingLen(h, cur_tail[v])
      BY SMTT(30), <1>4, <3>1
    <3> QED
      BY SMTT(30), <2>2, <2>4, <3>2, <3>3
  <2> QED
    BY <2>3, <2>4
<1>10. PopInFlight'
  <2> SUFFICES ASSUME NEW v \in Workers
               PROVE /\ pc'[v] \in {"pop", "take"} => mask[v] # {}
                     /\ pc'[v] = "take" =>
                          /\ ~RingEmpty(head[v][FirstOf(mask[v])],
                                        tail'[v][FirstOf(mask[v])])
                          /\ x[v] = delivered'[v][FirstOf(mask[v])] + 1
    BY <1>5 DEF PopInFlight, PopStoreTail, popVars
  <2>1. CASE v = w
    BY SMTT(30), <1>1, <2>1 DEF PopStoreTail, TypeOK
  <2>2. CASE v # w
    <3>1. pc'[v] = pc[v] /\ mask[v] \in SUBSET Workers
      BY SMTT(30), <2>2 DEF PopStoreTail, TypeOK
    <3>2. pc[v] \in {"pop", "take"} => mask[v] # {} /\ FirstOf(mask[v]) \in Workers
      BY SMTT(30), <3>1, FirstOfType DEF PopInFlight
    <3>3. pc[v] = "take" =>
            /\ ~RingEmpty(head[v][FirstOf(mask[v])], tail[v][FirstOf(mask[v])])
            /\ x[v] = delivered[v][FirstOf(mask[v])] + 1
      BY DEF PopInFlight
    <3> QED
      BY <1>6, <2>2, <3>1, <3>2, <3>3
  <2> QED
    BY <2>1, <2>2
<1>11. ASSUME NEW e \in Workers, NEW r \in Workers
       PROVE delivered'[e][r] # delivered[e][r] =>
               delivered'[e][r] = delivered[e][r] + 1
  BY <1>5, <1>6
<1> QED
  BY <1>7, <1>8, <1>9, <1>10, <1>11

(***************************************************************************)
(* The theorems.                                                            *)
(***************************************************************************)

\* Every step preserves the inductive invariant and hands on at most the next
\* frame of each ring.
LEMMA NextIndInv ==
  ASSUME IndInv, [Next]_vars
  PROVE /\ IndInv'
        /\ \A d, s \in Workers :
             delivered'[d][s] # delivered[d][s] =>
               delivered'[d][s] = delivered[d][s] + 1
<1>1. CASE UNCHANGED vars
  BY <1>1 DEF vars, IndInv, TypeOK, RingHoldsUndelivered, PushInFlight,
              PopInFlight
<1>2. ASSUME NEW w \in Workers, PopStoreTail(w)
      PROVE /\ IndInv'
            /\ \A d, s \in Workers :
                 delivered'[d][s] # delivered[d][s] =>
                   delivered'[d][s] = delivered[d][s] + 1
  BY <1>2, PopStoreTailIndInv
<1>3. ASSUME NEW w \in Workers,
             \/ PushStoreHead(w) \/ PushMark(w) \/ PollXferCqe(w)
             \/ EndBatch(w) \/ ProcessXfer(w) \/ PopLoadHead(w) \/ OtherCqe(w)
      PROVE IndInv' /\ delivered' = delivered
  <2>1. IndInv'
    BY SMTT(30), <1>3, PushStoreHeadIndInv, PushMarkIndInv, PollXferCqeIndInv,
       EndBatchIndInv, ProcessXferIndInv, PopLoadHeadIndInv, OtherCqeIndInv
  <2>2. delivered' = delivered
    BY <1>3 DEF PushStoreHead, PushMark, PollXferCqe, EndBatch, ProcessXfer,
                PopLoadHead, OtherCqe
  <2> QED
    BY <2>1, <2>2
<1>4. ASSUME NEW w \in Workers, NEW d \in Workers, PushLoadTail(w, d)
      PROVE IndInv' /\ delivered' = delivered
  <2>1. IndInv'
    BY SMTT(30), <1>4, PushLoadTailIndInv
  <2>2. delivered' = delivered
    BY ZenonT(40), <1>4 DEF PushLoadTail
  <2> QED
    BY <2>1, <2>2
<1>5. CASE Next
  BY <1>2, <1>3, <1>4, <1>5 DEF Next, WorkerStep
<1> QED
  BY SMTT(30), <1>1, <1>5

\* Type correctness and the contents of the rings, for any number of workers
\* and any ring size: what a ring holds is exactly the accepted frames that
\* were not handed on, in order.
THEOREM RingsHoldUndelivered == Spec => [](TypeOK /\ RingHoldsUndelivered)
<1>1. Init => IndInv
  BY InitIndInv
<1>2. IndInv /\ [Next]_vars => IndInv'
  BY NextIndInv
<1>3. IndInv => TypeOK /\ RingHoldsUndelivered
  BY DEF IndInv
<1> QED
  BY <1>1, <1>2, <1>3, PTL DEF Spec

\* ProcessXfer never skips, repeats or reorders a frame of a ring.
THEOREM DeliveryIsFifo == Spec => FifoDelivery
<1>1. Init => IndInv
  BY InitIndInv
<1>2. IndInv /\ [Next]_vars => IndInv'
  BY NextIndInv
<1>3. IndInv /\ [Next]_vars =>
        [\A d, s \in Workers :
           delivered'[d][s] # delivered[d][s] =>
             delivered'[d][s] = delivered[d][s] + 1]_vars
  BY NextIndInv
<1> QED
  BY <1>1, <1>2, <1>3, PTL DEF Spec, FifoDelivery
=============================================================================
