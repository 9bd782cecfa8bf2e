# A TLA+ model of the Hyper-DERP relay

Hyper-DERP is a relay: clients connect over TCP, upgrade to DERP or HD framing,
and send frames to each other by public key. This directory holds TLA+ modules
for the concurrent core of the relay, TLC configurations that check them on
small instances, and TLAPS proofs of the theorems that hold for every instance.
`PROJECT.json` maps each definition to the lines it models and lists the
components, runs, mutants, hazards, findings and theorems.

    tlc -workers 2 -config xfer_rings.cfg CrossShard     # model-check one run
    tlapm CrossShard_proofs.tla                          # check the proofs

## 1. The system and its parts

The relay is a set of threads around per-core *workers*.

| part | code | what it does |
|---|---|---|
| accept loop | `src/server.cc` | accepts, upgrades, hands the descriptor to the data plane, then registers the peer with the control plane |
| data plane | `src/data_plane.cc` | one worker thread per shard, one io_uring each: peers of the shard, receive, forward, send |
| transfer rings | `data_plane.cc` | a single-producer single-consumer ring per ordered pair of workers, with an eventfd per destination |
| frame pools | `data_plane.cc` | buffers of each worker, and lists by which other workers give them back |
| peer and route tables | `data_plane.cc` | open-addressing tables by key: a shard's own peers, and where the peers of the others live |
| command rings | `data_plane.cc` | add and remove commands to a worker |
| control plane | `src/control_plane.cc` | registry of peers, watchers, ClosePeer, open-connection broker, route announcements; fed by one pipe per worker |
| HD peers, resolver, relay table | `src/hd_*.cc` | enrolment, forwarding rules, routing policy, routes between relays, audit log |
| ICE, STUN, TURN | `src/ice.cc`, `src/turn.cc` | direct paths |
| WireGuard relay | `src/wg_relay.cc`, `bpf/` | a second relay mode over UDP, with an XDP fast path |
| fleet controller | `src/fleet_controller.cc` | pulls signed policy bundles |

A frame's way through the core: the worker that owns the sender receives it
(flow control decides when it may), finds the destination in its peer table or
routing table, allocates a buffer from its pool, and either enqueues it for a
peer of its own or pushes it on the ring towards the destination's worker with
the generation of the destination's descriptor. That worker pops it, checks the
generation, enqueues it in the peer's send queue and frees the buffer when the
socket took it, over the return list if the buffer is another worker's. Frames that
are not forwarded go to the control thread over the worker's pipe; the control
thread, in turn, sends commands back over the command ring.

## 2. Modules

| module | models | its state and steps |
|---|---|---|
| `SpscRing` | `XferSpscRing` indices | pure operators: next slot, empty, full, occupied slots |
| `CrossShard` | transfer rings, batch loop, eventfd | one step per access to shared memory: a push loads the tail, then stores the slot and head, then marks the signal; a pop loads the head, then copies and stores the tail; a worker waits, handles completions, drains all rings at the end of each batch, flushes signals |
| `ShardQueue` | abstract: one FIFO queue per pair of workers | `CrossShard!QueueSpec` is the refinement |
| `FramePool` | frame pools | pointers and links; the compare-and-swap of a return, the exchange of a drain and the walk are separate steps |
| `BufferOwnership` | abstract: each buffer is in one place | `FramePool!OwnershipSpec` is the refinement |
| `ProbeTable` | linear probing with tombstones | pure operators shared by the two tables below |
| `PeerTable` | `HtInsert`/`HtFind`/`HtLookup`/`HtRemove` | the slots of a worker's peer table, and the answer of the last call |
| `KeyMap` | abstract: a map of bounded capacity, with the answers of its calls | `PeerTable!MapSpec` is the refinement |
| `CpRegistry` | registry and watchers of the control plane | slots, descriptor index, `peer_count`, watchers; connect, gone, WatchConns, ClosePeer. `overlaid` is history: descriptors registered while another live entry had them |
| `PeerLifecycle` | a connection across accept thread, worker and control thread | composes descriptors of the kernel, command ring, pipe, tables, registry and HD peers; connections are numbered as history so that reuse of a key or descriptor shows. Ends of file, failed receives and sends, invalid lengths, PeerGone frames, ClosePeer and revocation end or disturb them |
| `XferGuard` | route copies, forwarding rules' cached descriptors, generations | the source reads the descriptor and loads the generation in separate steps while the destination worker adds and removes peers. `fd_map` points to slots of the table, which change hands; `moved` is history: descriptors whose peer was added again on another one |
| `SendQueue` | the send queue of a peer and its io_uring sends | prepare, submit, complete; short writes, EAGAIN and POLLOUT, zero-copy sends and notifications, refusal of zero copy, failed allocations, closed sockets; end of file and removal of the peer, and completions that come after it |
| `Backpressure` | `send_pressure`, pausing, deferred receives, receive budget | the worker as one record `w`, with keys and descriptors apart; receive, transfer, write of the control thread, completed send, end of file, failed receive, removal, addition (also of a key that is there), end of batch |
| `WgRelay` | the WireGuard relay and its BPF program | peers, links, roster file, candidates, strikes, BPF maps; start, attach, replay, stop, crash, the operator's commands, packets through kernel and user space, the passing of time. `todo` is the rest of the critical section in progress, so that the kernel's program runs between any two map updates; `flight` is the packet under way, which the kernel's program looks up in one step and learns the MAC of in another |
| `MCTables`, `MCXferGuard`, `MCSendQueue`, `MCWgRelay` | instances | keys with chosen home slots (a behaviour runs the peer table or the registry), the symmetry of `xfer_guard`, environments of a socket and of the WireGuard relay |
| `CrossShard_proofs`, `XferGuard_proofs` | theorems | section 5 |

How they fit: `FramePool` takes a frame on its way to another shard as one step,
which `CrossShard` carries; `XferGuard` uses FIFO queues in place of the rings,
which is what `ShardQueue` promises and `CrossShard` is shown to implement;
`PeerLifecycle` uses maps in place of the tables, which is what `KeyMap`
promises and `PeerTable` is shown to implement.

What is abstracted: a frame is a number or an owner, never bytes (`SendQueue`
gives it two units, so that a short write can be told from a whole one); keys
and descriptors are small sets; `accept` returns the lowest free descriptor, as
the kernel does. Memory is sequentially consistent at the grain of one step per
shared access. The rings and lists of the code use acquire/release pairs on the
variables concerned, and the models never let a reader see a slot before the
index that publishes it.

Several modules have a variable `env`, chosen once in `Init` from the constant
`Envs`. It names what the surroundings do in this behaviour (clients reconnect
early, multishot receives are on, allocations fail, ...). A property that needs
calm surroundings says so in its statement, and one run covers several.

## 3. Runs

| run | shows | instance |
|---|---|---|
| `xfer_rings` | rings hold exactly what is accepted and undelivered; delivery is FIFO; a signal leads to a drain; busy shards deliver everything; the rings implement FIFO queues | 2 workers, rings of 3 slots, 3 frames a ring: fills (2 fit), wraps, and both directions interleave |
| `frame_pool` | a buffer is in one place; a return retries at most once and ends; the pointers implement ownership | 2 workers, 2 buffers each: pools run dry, a return races a drain with 0, 1 and 2 buffers listed |
| `tables` | live entries of the peer table are always found, and it implements a bounded map, answers included; what the registry's descriptor index says is true, whatever keys and descriptors frames name, and `peer_count` counts live entries | 4 keys, 3 slots, two pairs with a common home slot, one of which wraps; 3 descriptors, 2 watchers; symmetric in the keys of one home slot and in the descriptors |
| `lifecycle` | while clients end their own connections and a key has one at a time, a connected client is served and descriptors are closed for cause; if they also leave only after they are registered, a frame is credited to its sender and a registered peer is connected. In all surroundings the descriptor of a client that left is released, unless its receive failed | 2 keys, 2 descriptors, 3 connections: each key and descriptor is used again. 7 surroundings: failing receives; the same with clients that leave before they are registered; ClosePeer; failing sends; invalid lengths; PeerGone frames; revocation |
| `xfer_guard` | a frame reaches the peer that was on the descriptor when its generation was loaded, or no one, except on a descriptor whose peer was added again on another one | 2 keys, 2 slots, 2 descriptors, 3 additions, 2 frames under way; symmetric |
| `send_queue` | counters are exact in all surroundings. On calm sockets (a refused send is followed by refused ones) the wire carries the accepted frames whole and in order and all that is accepted is sent, if no zero-copy frame is refused among copied ones; a buffer is freed after its use, with at most one zero-copy frame | 4 frames, 2 pending sends, queue of 3. 6 surroundings: failing allocations; a peer that goes, with one zero-copy frame; two zero-copy frames; zero copy refused; refused for one frame among copied ones; a restless socket |
| `backpressure` | `send_pressure` and the receive counter are exact in all surroundings; a client has one receive, pending or deferred, unless connected peers are removed or its receive failed; with single receives and frames from the worker's own clients, what is queued is bounded, and every client is read again if also none leaves | 2 keys, 2 descriptors, limits scaled down. 8 surroundings: calm; leaving; frames of other workers; removals of connected peers; multishot with drops; writes of the control thread; failing receives; leaving and connecting again |
| `wg_relay` | links are pairs of known peers; while no peer is removed, the kernel's maps hold the current links whenever the lock is free, but for those a full map had no room for; the roster file loads back as the tables, unless the disk is full; an endpoint is relearned only where its own client sent from, and is relearned although another client contends for the slot; a candidate slot is always given up | 2 linked peers and a third client that lost its link; 5 endpoints on 4 addresses, one of them native IPv6; timeouts and gaps of 1 tick, 2 strike policies. 7 surroundings: filling; rebinding with full maps; removing with a full disk; lost packets; roaming to IPv6 and back; a contended slot; yaml configuration. The first three and the last may crash |

Four runs show a property that a comment, test or document of the repository
states and the code does not keep; `findings` in `PROJECT.json` quotes the lines.

| run | what happens |
|---|---|
| `lifecycle_reconnect` | a removal names the key: a client that reconnects before its old connection was cleaned up loses the new one, and the old descriptor is never closed |
| `xfer_guard_race` | the generation is loaded after the route was read: a descriptor that changed hands between the two passes the check |
| `backpressure_stuck` | a pause is counted down by completed sends only: a client that leaves with its queue leaves receiving paused for good |
| `wg_relay_removed` | removing a linked peer takes it out of the table before its endpoint is looked up: the kernel's map keeps forwarding from that endpoint |

Why these bounds are enough: every index wraps, every container is empty, partly
filled and full in some state, every identifier is used for a second owner, and
every pair of threads that share state is present. The theorems of section 5
remove the bounds for the rings and for the generations. Bounds that only keep
the state space finite (`MaxFrames`, `MaxConns`, `MaxAdds`, `MaxQueue`,
`NumFrames`, `MaxDrops`, `MaxReadds`) are constants that appear in guards.
`WgRelay` has one packet under way at a time.

Deadlock is checked in `xfer_rings`, `frame_pool`, `tables`, `xfer_guard_race`,
`wg_relay` and `wg_relay_removed`. In the other runs it is not: their behaviours end when
the bounded supply of connections, additions or frames is used up, and an idle
worker waits for clients.

## 4. Fairness

- `CrossShard`: weak fairness of each worker's own steps. A worker is a thread
  in a loop; only its wait for completions is not scheduled by itself, so
  `OtherCqe` (other traffic) has no fairness. `AcceptedIsDelivered` assumes
  `Busy`, other traffic again and again, explicitly: without it the property
  fails (section 7).
- `FramePool`: weak fairness of a worker inside the allocator. Nothing obliges a
  worker to allocate or free.
- `PeerLifecycle`: weak fairness of the accept thread, of the worker's commands
  and ends of file, of the control thread, and of the close that ends a
  revocation. Clients and operators may do nothing.
- `SendQueue`: the worker ends its batches, the kernel runs what was submitted,
  drains sockets, reports writability and notifications (weak fairness);
  completions are handled (strong fairness, because handling alternates with
  submitting). The client reads or closes.
- `Backpressure`: weak fairness of the end of a batch and of completed sends: a
  client that is read from also reads. `PauseEnds` and `ReadAgain` say nothing
  of clients that stall for ever.
- `WgRelay`: the relay finishes its start and its critical sections, the clock
  ticks, and the clients' WireGuard stacks retry, answer and send the keepalive
  that ends a handshake. TLC is slow at deciding when these large actions are
  enabled, so here, and in `PeerLifecycle`, `SendQueue` and `Backpressure`, weak
  fairness is spelled out with the condition that enables each.
  The model's one packet under way holds up the clock and the clients, which
  nothing in the code does, so their fairness does not depend on it.
  In the surroundings where `env.prompt` holds, nothing is lost and a handshake
  ends within a tick of about five seconds; `RoamerIsRelearned` is only claimed
  there. The operator, moves and crashes have no fairness.

## 5. Proofs

`CrossShard_proofs`, for every `NumWorkers`, `RingSize` and `MaxFrames` that
`CrossShard`'s assumption allows:

- `RingsHoldUndelivered`: `Spec => [](TypeOK /\ RingHoldsUndelivered)`. The
  property is not inductive by itself: between the load of the tail and the
  store of the head a push acts on a stale tail, and a pop on a stale head.
  `IndInv` adds `PushInFlight` (a worker about to store has room by the real
  tail, as the tail only moved towards more room) and `PopInFlight` (a worker
  about to copy has a frame by the real head). `NextIndInv` has one lemma per
  action. The arithmetic of wrapping indices is in six lemmas (`NextSlotType`,
  `RingLenType`, `RingLenPush`, `RingLenPop`, `SlotAtPop`, `SlotAtInjective`),
  what a push and a pop do to the contents in `RingHoldsPush` and `RingHoldsPop`;
  the steps that touch no ring share one lemma, `OutsideRings`.
- `DeliveryIsFifo`: `Spec => FifoDelivery`, an action property, from `IndInv`:
  the slot at the tail holds the frame after the last delivered one.

`XferGuard_proofs`, for all keys, descriptors and bounds:

- `GenerationsGuard`: `Spec => [](TypeOK /\ GenerationGuards)`. `IndInv` adds
  `MapInv` (`fd_map` and the table agree, but for moved descriptors) and `GenInv`
  (no frame on the ring has a generation its descriptor has not reached, and
  while it is the current one, no peer but the one noted at the load is on the
  descriptor, if it was not moved). The exception is the code's: adding a
  connected key on another descriptor leaves the old `fd_map` entry and its
  generation, and the slot it points to can become another peer's. One lemma
  per action; `LosesPeerIndInv` is shared by those that take a peer away.

TLC found no violation of either inductive invariant on the instances of
`xfer_rings` and `xfer_guard` before they were proved; being proved for all
instances, with the types, they are not repeated in the runs. Only
model-checked: all liveness, the three refinements, and every property of the
other modules.

## 6. Mutants

Every property of a passing run has a mutant: a definition that changes one
mapped definition as a plausible slip in the code would (a dropped guard, a
missing reset, a swapped order), defined just before the original and marked
`Mutant`. With the mutant in its place TLC reports the property violated.

## 7. Observations

What the models show about the code beyond the four findings. Each can be
reproduced with the definition or environment named: the property named fails
when the condition that leaves the environment out is dropped.

- *Idle shards may sleep on a frame.* `XferSpscPush` decides whether the ring
  was empty from a tail loaded before its store. The consumer may empty the ring
  in between and wait; no signal is sent (`CrossShard!SleeperIsSignalled`).
- *A rule's cached descriptor is never looked up again*, so a rule may feed the
  peer that has the descriptor now (`XferGuard!RuleFollowsDestination`).
- *The registry can hold two entries of a key*: the insertion stops at the first
  slot that is not live (`CpRegistry!OneEntryPerKey`).
- *A watcher that reconnects leaves its old slot* (`CpRegistry!WatchersAreRegistered`).
- *A client that leaves before it is registered stays registered*
  (`PeerLifecycle`, `"early"` without the condition of `RegisteredIsConnected`).
- *A failed send and the end of file both report the peer gone*; the second may
  close the next connection (`"senderr"`).
- *close() does not disconnect while a receive is armed* (`"close"`).
- *Pending sends may interleave.* Up to 16 sends of a peer are pending, and each
  completion is taken for the head of the queue: if the socket refuses one and
  takes the next, frames are reordered on the wire (`SendQueue!WireInOrder` with
  `MCRestless`).
- *Zero-copy notifications are matched last first*, so with two outstanding a
  buffer may be freed that the kernel still reads (`MCTwoZc`).
- *`zc_draining` may stay set* when an ordinary send completes last (`MCMixed`).
- *Frames dropped at a full ring stay in `send_pressure`* (`"drops"`), and so do
  those queued to a peer that is added again (`"again"`): `PressureExact` counts
  both. With drops `ReadAgain` fails.
- *Multishot receives go on during a pause* (`"multishot"`).
- *More clients than `kRecvBudget`*: a client whose receive completes is read
  again before the deferred ones.
- *A removed and re-added descriptor may be deferred twice*, which can fill the
  ring of deferred receives (`"close"`).
- *A receive that fails with an unexpected error is not repeated and not
  reported*: the client stays connected and unread (`deaf` in `PeerLifecycle` and
  `Backpressure`).
- *An invalid length or a PeerGone frame removes a peer whose socket stays open
  to its client*; the second report may meet the next connection (`"badlen"`,
  `"peergone"`).
- *Revocation closes the descriptor twice*, from the worker and from the
  operator's thread; the second close may hit its next holder (`"revoke"`).

Of the WireGuard relay:

- *A native IPv6 endpoint does not survive a restart.* `FormatEndpoint` writes it
  in brackets, which `ParseHostPort` passes on to `getaddrinfo`; the roster line
  is refused, and with the peer its link (the exception of `RosterIsCurrent`).
- *The roster leaves out* `endpoint_relearn` ("Persisted to the roster",
  `wg_relay.h`) and the label of a peer without a key.
- *A peer restated in the yaml configuration* loses its link, NIC and relearned
  endpoint at every start (`Configured`), unless the configuration has the link.
- *A retry within `kRetryForwardGap`* replaces the index awaited without being
  forwarded, so the answer to the init before it no longer counts.
- *A candidate stays pending* when its peer's link is removed.
- *Blocks recorded before `XdpAttach`* are enforced by the relay and not by the
  kernel, hence `<=` in `XdpHoldsLinks`.
- *A full disk truncates the roster*: the stream is not checked before the file
  is renamed over the old one (`Removing`; `RosterIsCurrent` leaves it out).
- *A MAC may outlive its entry*: the kernel's program learns it after the lookup,
  and the entry may be deleted in between.
- *Strikes go by address and only to IPv4 ones*: with a contender on native IPv6
  or behind the roamer's own NAT, or with both ends of a link moved,
  `RoamerIsRelearned` fails.
- *`XdpDetach` returns at once when this process attached nothing*, so a program
  left by a process that died stays.
- *Two peers may have the same endpoint*; the first in the table is taken as the
  source. The instances give every peer its own.

## 8. Not modelled

Handshakes, TLS, encodings, configuration, metrics and operator channels are
sequences of library calls or formats without shared state of their own
(revocation, which operators start, is in `PeerLifecycle`). The client, SDK and
WireGuard daemon are environment here. The XDP program of the HD mode holds no
state of its own. `components` in `PROJECT.json` lists all parts.

## 9. Plan

In this order; hazards without a property in `PROJECT.json` name the part they
wait for.

1. *Open-connection broker* (`OpenConn`): slots, per-peer counters, timeouts
   against late answers, reuse of descriptors, gateway forwarding. Invariant:
   counters equal live slots; an answer reaches the initiator that asked.
2. *Fleet routing* (`FleetRoutes`): the relay table and RouteAnnounce between
   three relays with a link that goes away; convergence, no wrap of the hop
   count. Proof: a route's next hop is a live neighbour.
3. *Command ring* (`CommandRing`): several producers, bounded retries;
   `PeerLifecycle`'s queue as its abstract specification.
4. *Routes of the workers* (`RouteBroadcast`): concurrent insertions into one
   table; eventual agreement with the peer tables.
5. *Reassembly and dispatch* (`FrameBuffer`): partial frames, rate limiting.
6. *HD peers and resolver* (`HdPeers`, `HdResolve`): enrolment and identifiers;
   the resolver against a reference definition over all small policies.
7. *Audit ring, TURN, ICE, fleet controller*: one module each. TURN hands out
   relay ports in a circle without looking at live allocations; peer identifiers
   wrap after 65535; the list of revoked peers is copied, handled and cleared.
8. *Start, stop and drain*.

Small sequential components can share a run, with a variable that selects the one
a behaviour is about, as in `MCTables`.

Theorems to follow: `WgRelay!LinksArePairs`, `FramePool!OnePlace` from a
chain-free invariant over ownership, `Backpressure!PressureExact` and `OvershootBounded`,
`CpRegistry!FdMapConsistent`, and the refinement `CrossShard` => `ShardQueue`.
