------------------------------ MODULE FramePool ------------------------------
(***************************************************************************)
(* The per-worker frame pools of the data plane, down to the pointers.      *)
(*                                                                          *)
(* Free buffers are chained through their first bytes.  A worker allocates  *)
(* from and frees to its own chain without synchronisation.  A buffer of    *)
(* another worker's pool is pushed with a compare-and-swap on the owner's   *)
(* frame_return_inbox slot reserved for the freeing worker; the owner takes *)
(* a whole slot with one exchange and walks it into its free chain.         *)
(*                                                                          *)
(* A buffer in use holds frame bytes, so its link is garbage.               *)
(***************************************************************************)
EXTENDS Integers, FiniteSets

CONSTANTS
  NumWorkers,   \* ctx->num_workers
  PoolSize,     \* kFramePoolCount: buffers in one worker's pool
  Null,         \* nullptr
  Bytes         \* what a link field holds while the buffer carries a frame

ASSUME PoolAssumption ==
  NumWorkers \in Nat \ {0} /\ PoolSize \in Nat \ {0} /\ Null # Bytes

Workers == 0 .. NumWorkers - 1
Buffers == 1 .. NumWorkers * PoolSize

\* FramePoolOwnerId: pools are disjoint address ranges.
Owner == [b \in Buffers |-> (b - 1) \div PoolSize]

VARIABLES
  next,         \* [b]: node->next
  pool_free,    \* [w]: frame_pool_free
  inbox,        \* [o][s]: frame_return_inbox[s] of worker o
  held,         \* [w]: buffers in use on w (queues, rings towards w)
  pc,           \* where the worker is in the allocator
  buf, old,     \* FrameReturnPush: the node and the slot value it loaded
  retries,      \* FrameReturnPush: failed compare-and-swaps of this call
  src, list,    \* FrameReturnDrain: source slot and chain being walked
  allocating    \* FrameReturnDrain was called by FrameAlloc

pushVars == <<buf, old, retries>>
drainVars == <<src, list, allocating>>
vars == <<next, pool_free, inbox, held, pc, pushVars, drainVars>>

Ptr == Buffers \cup {Null}

TypeOK ==
  /\ next \in [Buffers -> Ptr \cup {Bytes}]
  /\ pool_free \in [Workers -> Ptr]
  /\ inbox \in [Workers -> [Workers -> Ptr]]
  /\ held \in [Workers -> SUBSET Buffers]
  /\ pc \in [Workers -> {"idle", "link", "cas", "xchg", "walk"}]
  /\ buf \in [Workers -> Ptr]
  /\ old \in [Workers -> Ptr]
  /\ retries \in [Workers -> Nat]
  /\ src \in [Workers -> 0 .. NumWorkers]
  /\ list \in [Workers -> Ptr]
  /\ allocating \in [Workers -> BOOLEAN]

\* FramePoolInit: the buffers of a pool are chained in address order.
Init ==
  /\ next = [b \in Buffers |-> IF b % PoolSize = 0 THEN Null ELSE b + 1]
  /\ pool_free = [w \in Workers |-> w * PoolSize + 1]
  /\ inbox = [o \in Workers |-> [s \in Workers |-> Null]]
  /\ held = [w \in Workers |-> {}]
  /\ pc = [w \in Workers |-> "idle"]
  /\ buf = [w \in Workers |-> Null]
  /\ old = [w \in Workers |-> Null]
  /\ retries = [w \in Workers |-> 0]
  /\ src = [w \in Workers |-> 0]
  /\ list = [w \in Workers |-> Null]
  /\ allocating = [w \in Workers |-> FALSE]

\* The head of the free chain goes to the caller, who writes a frame over it.
TakeHead(w) ==
  LET b == pool_free[w]
  IN /\ pool_free' = [pool_free EXCEPT ![w] = next[b]]
     /\ next' = [next EXCEPT ![b] = Bytes]
     /\ held' = [held EXCEPT ![w] = @ \cup {b}]

\* FrameAlloc with a free buffer at hand.
FrameAlloc(w) ==
  /\ pc[w] = "idle"
  /\ pool_free[w] # Null
  /\ TakeHead(w)
  /\ UNCHANGED <<inbox, pc, pushVars, drainVars>>

\* FrameAlloc on an empty pool first reclaims what others gave back.
FrameAllocReclaim(w) ==
  /\ pc[w] = "idle"
  /\ pool_free[w] = Null
  /\ pc' = [pc EXCEPT ![w] = "xchg"]
  /\ allocating' = [allocating EXCEPT ![w] = TRUE]
  /\ UNCHANGED <<next, pool_free, inbox, held, pushVars, src, list>>

\* FrameFree of a buffer of the worker's own pool.
FrameFreeOwn(w, b) ==
  /\ pc[w] = "idle"
  /\ b \in held[w] /\ Owner[b] = w
  /\ next' = [next EXCEPT ![b] = pool_free[w]]
  /\ pool_free' = [pool_free EXCEPT ![w] = b]
  /\ held' = [held EXCEPT ![w] = @ \ {b}]
  /\ UNCHANGED <<inbox, pc, pushVars, drainVars>>

\* FrameFree of another worker's buffer: FrameReturnPush loads the slot.
FrameFreeRemote(w, b) ==
  /\ pc[w] = "idle"
  /\ b \in held[w] /\ Owner[b] # w
  /\ buf' = [buf EXCEPT ![w] = b]
  /\ old' = [old EXCEPT ![w] = inbox[Owner[b]][w]]
  /\ pc' = [pc EXCEPT ![w] = "link"]
  /\ UNCHANGED <<next, pool_free, inbox, held, retries, drainVars>>

\* Mutant of ReturnLink: the node keeps the bytes of the frame.
ReturnNoLink(w) ==
  /\ pc[w] = "link"
  /\ pc' = [pc EXCEPT ![w] = "cas"]
  /\ UNCHANGED <<next, pool_free, inbox, held, pushVars, drainVars>>

\* node->next = old.
ReturnLink(w) ==
  /\ pc[w] = "link"
  /\ next' = [next EXCEPT ![buf[w]] = old[w]]
  /\ pc' = [pc EXCEPT ![w] = "cas"]
  /\ UNCHANGED <<pool_free, inbox, held, pushVars, drainVars>>

\* What a successful compare-and-swap does.
CasSucceeds(w) ==
  /\ inbox' = [inbox EXCEPT ![Owner[buf[w]]][w] = buf[w]]
  /\ held' = [held EXCEPT ![w] = @ \ {buf[w]}]
  /\ pc' = [pc EXCEPT ![w] = "idle"]
  /\ buf' = [buf EXCEPT ![w] = Null]
  /\ old' = [old EXCEPT ![w] = Null]
  /\ retries' = [retries EXCEPT ![w] = 0]

\* Mutant of ReturnCas: a failure does not reload old.
ReturnCasNoReload(w) ==
  /\ pc[w] = "cas"
  /\ IF inbox[Owner[buf[w]]][w] = old[w]
     THEN CasSucceeds(w)
     ELSE /\ retries' = [retries EXCEPT ![w] = @ + 1]
          /\ pc' = [pc EXCEPT ![w] = "link"]
          /\ UNCHANGED <<inbox, held, buf, old>>
  /\ UNCHANGED <<next, pool_free, drainVars>>

\* Mutant of ReturnCas: the same, not counting the retries.
ReturnCasSpins(w) ==
  /\ pc[w] = "cas"
  /\ IF inbox[Owner[buf[w]]][w] = old[w]
     THEN CasSucceeds(w)
     ELSE /\ pc' = [pc EXCEPT ![w] = "link"]
          /\ UNCHANGED <<inbox, held, pushVars>>
  /\ UNCHANGED <<next, pool_free, drainVars>>

\* Mutant of ReturnCas: a plain store.
ReturnStore(w) ==
  /\ pc[w] = "cas"
  /\ CasSucceeds(w)
  /\ UNCHANGED <<next, pool_free, drainVars>>

\* The compare-and-swap; a failure reloads old and links again.
ReturnCas(w) ==
  LET slot == inbox[Owner[buf[w]]][w]
  IN /\ pc[w] = "cas"
     /\ IF slot = old[w]
        THEN CasSucceeds(w)
        ELSE /\ old' = [old EXCEPT ![w] = slot]
             /\ retries' = [retries EXCEPT ![w] = @ + 1]
             /\ pc' = [pc EXCEPT ![w] = "link"]
             /\ UNCHANGED <<inbox, held, buf>>
     /\ UNCHANGED <<next, pool_free, drainVars>>

\* FrameReturnDrain at the end of a batch.
FrameReturnDrain(w) ==
  /\ pc[w] = "idle"
  /\ pc' = [pc EXCEPT ![w] = "xchg"]
  /\ UNCHANGED <<next, pool_free, inbox, held, pushVars, drainVars>>

\* Mutant of DrainExchange: the slot is read and not cleared.
DrainLoad(w) ==
  /\ pc[w] = "xchg"
  /\ IF src[w] < NumWorkers
     THEN /\ list' = [list EXCEPT ![w] = inbox[w][src[w]]]
          /\ src' = [src EXCEPT ![w] = @ + 1]
          /\ pc' = [pc EXCEPT ![w] = "walk"]
          /\ UNCHANGED <<next, pool_free, held, allocating>>
     ELSE /\ pc' = [pc EXCEPT ![w] = "idle"]
          /\ src' = [src EXCEPT ![w] = 0]
          /\ allocating' = [allocating EXCEPT ![w] = FALSE]
          /\ UNCHANGED <<next, pool_free, held, list>>
  /\ UNCHANGED <<inbox, pushVars>>

\* One source slot is taken; after the last one FrameAlloc tries its free
\* chain again (and falls back to malloc when it is still empty).
DrainExchange(w) ==
  /\ pc[w] = "xchg"
  /\ IF src[w] < NumWorkers
     THEN /\ list' = [list EXCEPT ![w] = inbox[w][src[w]]]
          /\ inbox' = [inbox EXCEPT ![w][src[w]] = Null]
          /\ src' = [src EXCEPT ![w] = @ + 1]
          /\ pc' = [pc EXCEPT ![w] = "walk"]
          /\ UNCHANGED <<next, pool_free, held, allocating>>
     ELSE /\ pc' = [pc EXCEPT ![w] = "idle"]
          /\ IF allocating[w] /\ pool_free[w] # Null
             THEN TakeHead(w)
             ELSE UNCHANGED <<next, pool_free, held>>
          /\ src' = [src EXCEPT ![w] = 0]
          /\ allocating' = [allocating EXCEPT ![w] = FALSE]
          /\ UNCHANGED <<list, inbox>>
  /\ UNCHANGED pushVars

\* One node of the chain moves to the free chain.
DrainWalk(w) ==
  LET b == list[w]
  IN /\ pc[w] = "walk"
     /\ IF b = Null
        THEN /\ pc' = [pc EXCEPT ![w] = "xchg"]
             /\ UNCHANGED <<next, pool_free, list>>
        ELSE /\ list' = [list EXCEPT ![w] = next[b]]
             /\ next' = [next EXCEPT ![b] = pool_free[w]]
             /\ pool_free' = [pool_free EXCEPT ![w] = b]
             /\ UNCHANGED pc
     /\ UNCHANGED <<inbox, held, pushVars, src, allocating>>

\* A frame is forwarded to another shard: module CrossShard carries it.
Forward(w, v, b) ==
  /\ pc[w] = "idle"
  /\ b \in held[w] /\ v # w
  /\ held' = [held EXCEPT ![w] = @ \ {b}, ![v] = @ \cup {b}]
  /\ UNCHANGED <<next, pool_free, inbox, pc, pushVars, drainVars>>

Next ==
  \E w \in Workers :
    \/ FrameAlloc(w) \/ FrameAllocReclaim(w) \/ FrameReturnDrain(w)
    \/ ReturnLink(w) \/ ReturnCas(w) \/ DrainExchange(w) \/ DrainWalk(w)
    \/ \E b \in Buffers :
         \/ FrameFreeOwn(w, b)
         \/ FrameFreeRemote(w, b)
         \/ \E v \in Workers : Forward(w, v, b)

\* The thread that is inside the allocator goes on.
Inside(w) == ReturnLink(w) \/ ReturnCas(w) \/ DrainExchange(w) \/ DrainWalk(w)

Spec == Init /\ [][Next]_vars /\ \A w \in Workers : WF_vars(Inside(w))

(***************************************************************************)
(* Properties.                                                              *)
(***************************************************************************)

\* The buffers reachable from pointer p.
Chain(p) ==
  LET upTo[n \in 0 .. Cardinality(Buffers)] ==
        IF n = 0 THEN {p} \cap Buffers
        ELSE upTo[n - 1] \cup ({next[b] : b \in upTo[n - 1]} \cap Buffers)
  IN upTo[Cardinality(Buffers)]

PlacesOf(b) ==
  {<<"held", w>> : w \in {v \in Workers : b \in held[v]}}
    \cup {<<"free", w>> : w \in {v \in Workers : b \in Chain(pool_free[v])}}
    \cup {<<"list", w>> : w \in {v \in Workers : b \in Chain(list[v])}}
    \cup {<<"inbox", e>> : e \in {d \in Workers \X Workers :
                                    b \in Chain(inbox[d[1]][d[2]])}}

\* No buffer is lost or in two places: a chain never runs into a buffer in use,
\* into another chain or, through a push that lost the race with a drain, into
\* a chain that the owner already took.
OnePlace == \A b \in Buffers : Cardinality(PlacesOf(b)) = 1

\* "retries at most once": the compare-and-swap fails only when the owner
\* emptied the slot, and then nobody else can fill it.
RetriesAtMostOnce == \A w \in Workers : retries[w] <= 1

\* A push ends although the owner drains the slot concurrently.
PushEnds == \A w \in Workers : pc[w] = "link" ~> pc[w] = "idle"

Ownership == INSTANCE BufferOwnership WITH
  free <- [w \in Workers |-> Chain(pool_free[w]) \cup Chain(list[w])],
  inbox <- [o \in Workers |-> [s \in Workers |-> Chain(inbox[o][s])]]

\* The pools implement exclusive ownership of buffers (module
\* BufferOwnership): the walk of a drained slot and a failed compare-and-swap
\* are not visible, everything else is one ownership step.
OwnershipSpec == Ownership!Spec
=============================================================================
