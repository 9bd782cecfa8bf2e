------------------------------ MODULE WgRelay ------------------------------
(***************************************************************************)
(* The WireGuard relay (src/wg_relay.cc) and its XDP fast path              *)
(* (bpf/wg_relay.bpf.c): the table of peers and links with the roster file  *)
(* that outlives the process, the candidate-then-confirm relearning of a    *)
(* roaming peer's endpoint, the strikes and the blocklist, and the BPF maps *)
(* the kernel program forwards from without taking the relay's lock.        *)
(*                                                                          *)
(* Three kinds of actor interleave.  RecvLoop's thread and the operator's   *)
(* commands serialise on peers_mu; the BPF program runs between any two of  *)
(* the map updates a critical section makes.  `todo' is what is left of the *)
(* critical section in progress, so peers_mu is held exactly while it is    *)
(* not empty.  `flight' is the packet between the NIC and HandlePacket: the *)
(* BPF program looks up the sender, then learns its MAC, and a packet it    *)
(* passes up waits in the socket.  One packet is under way at a time.  The  *)
(* WireGuard clients are the environment: each sends what the protocol has  *)
(* it send from where it is, and may move.                                  *)
(*                                                                          *)
(* Time is in ticks of about five seconds (wg.ko's retry interval).  Every  *)
(* stamp is kept as an age, capped where the code stops telling ages apart. *)
(* Counters, the drop histogram and peer labels are left out: no decision   *)
(* reads them.                                                              *)
(***************************************************************************)
EXTENDS Integers, Sequences, SequencesExt, FiniteSets

CONSTANTS
  Names,              \* peer names; the client of that name is its machine
  Endpoints,          \* ip:port pairs a packet can come from
  V6,                 \* those of them that are native IPv6
  AddrOf,             \* the address of each endpoint, a member of Addresses
  Addresses,
  NoEp,
  PartnerOf,          \* whom each client's own WireGuard config talks to
  IdxOf,              \* the two sender indices each client alternates between
  kCandidateTimeout, kRelearnCooldown, kRetryForwardGap,
  kStrikePolicy,      \* sequence of [strikes, window, block]
  Envs                \* the circumstances a run starts in, see env

ASSUME PolicyAssumption ==
  /\ NoEp \notin Endpoints
  /\ V6 \subseteq Endpoints
  /\ AddrOf \in [Endpoints -> Addresses]
  /\ kStrikePolicy # <<>>
  /\ \A i \in 1..Len(kStrikePolicy) - 1 :
       kStrikePolicy[i].window < kStrikePolicy[i + 1].window

VARIABLES
  env,        \* [xdp, ops, crash, prompt, disk, full, roster, cfg, pool,
              \*  active, sessions, moves]: frozen; disk: roster writes may fail;
              \*  full: the BPF maps may have no room; pool gives each client the
              \*  endpoints it uses, sessions are the clients that start with one
  phase,      \* "down", "loop", "attached", "up": how far WgRelayStart got
  tab,        \* [peers, links], the two vectors peers_mu protects
  strikes,    \* address -> [count, first]
  blocklist,  \* address -> ticks left, 0 when not blocked
  todo,       \* map updates and file writes the lock's holder still has to do
  roster,     \* the roster file
  xdp,        \* [peers, macs, block]: the BPF maps of the attached program
  flight,     \* [at, pkt, to]: the packet under way; to: the partner looked up
  clients,    \* name -> [loc, cur, heard, confirm, session, tried]
  moves       \* client moves still allowed, so that runs are finite

memory == <<tab, strikes, blocklist>>
vars == <<env, phase, memory, todo, roster, xdp, flight, clients, moves>>

None == [ep |-> NoEp, nic |-> 0]
NoXdp == [peers |-> [e \in Endpoints |-> None], macs |-> {},
          block |-> [a \in Addresses |-> 0]]
NoPacket == [at |-> "none"]
Widest == kStrikePolicy[Len(kStrikePolicy)].window
NoStrike == [count |-> 0, first |-> Widest + 1]
NoStrikes == [a \in Addresses |-> NoStrike]
NoBlocks == [a \in Addresses |-> 0]
EmptyTab == [peers |-> <<>>, links |-> <<>>]

--------------------------------------------------------------------------
(* The tables, as peers_mu protects them.                                  *)

PeerRec(n, e, text) ==
  [name |-> n, endpoint |-> e, text |-> text, keyed |-> FALSE, nic |-> 0,
   cand |-> NoEp, set |-> 0, fwd |-> 0, idx |-> 0, responded |-> FALSE,
   relearn |-> kRelearnCooldown]

ClearCand(p) == [p EXCEPT !.cand = NoEp, !.set = 0, !.fwd = 0, !.idx = 0,
                          !.responded = FALSE]

\* Index of a peer by name, and of the first peer an endpoint matches; 0: none.
PeerIdx(t, n) == SelectInSeq(t.peers, LAMBDA p : p.name = n)
SrcPeer(t, e) == SelectInSeq(t.peers, LAMBDA p : p.endpoint = e)
PeerKnown(t, n) == PeerIdx(t, n) # 0
\* A link is the pair of names it was added with; it has no direction.
Sides(l) == {l[1], l[2]}
PeerHasLink(t, n) == \E i \in DOMAIN t.links : n \in Sides(t.links[i])

FindLinkPartnerLocked(t, n) ==
  LET i == SelectInSeq(t.links, LAMBDA l : n \in Sides(l))
  IN  IF i = 0 THEN 0 ELSE PeerIdx(t, CHOOSE m \in Sides(t.links[i]) : m # n)

\* An operator's ip:port parses; FormatEndpoint writes native IPv6 in brackets,
\* which ParseHostPort hands to getaddrinfo as they are, and it refuses them.
FormatEndpoint(e) == IF e \in V6 THEN "bracketed" ELSE "plain"
ParseHostPort(text) == text = "plain"

PeerAddLocked(t, n, e, text) ==
  IF PeerKnown(t, n) \/ ~ParseHostPort(text)
    THEN t
    ELSE [t EXCEPT !.peers = Append(@, PeerRec(n, e, text))]

PeerKeyLocked(t, n) ==
  IF PeerKnown(t, n) THEN [t EXCEPT !.peers[PeerIdx(t, n)].keyed = TRUE] ELSE t

PeerNicLocked(t, n, nic) ==
  IF PeerKnown(t, n) THEN [t EXCEPT !.peers[PeerIdx(t, n)].nic = nic] ELSE t

\* Mutant: the links of the removed peer stay.
PeerRemoveKeepsLinks(t, n) ==
  [t EXCEPT !.peers = SelectSeq(@, LAMBDA p : p.name # n)]

PeerRemoveLocked(t, n) ==
  [peers |-> SelectSeq(t.peers, LAMBDA p : p.name # n),
   links |-> SelectSeq(t.links, LAMBDA l : n \notin Sides(l))]

LinkAddLocked(t, l) ==
  IF \/ l[1] = l[2]
     \/ \E n \in Sides(l) : ~PeerKnown(t, n) \/ PeerHasLink(t, n)
    THEN t
    ELSE [t EXCEPT !.links = Append(@, l)]

LinkRemoveLocked(t, l) ==
  [t EXCEPT !.links = SelectSeq(@, LAMBDA k : Sides(k) # Sides(l))]

--------------------------------------------------------------------------
(* The roster file: what SerializeRoster writes and LoadRosterFile reads.  *)

\* Mutant: the NIC bindings are not written.
SerializeRosterNoNics(t) ==
  [peers |-> [i \in DOMAIN t.peers |->
                [name |-> t.peers[i].name, endpoint |-> t.peers[i].endpoint,
                 text |-> t.peers[i].text, keyed |-> t.peers[i].keyed]],
   links |-> t.links,
   nics  |-> <<>>]

SerializeRoster(t) ==
  [peers |-> [i \in DOMAIN t.peers |->
                [name |-> t.peers[i].name, endpoint |-> t.peers[i].endpoint,
                 text |-> t.peers[i].text, keyed |-> t.peers[i].keyed]],
   links |-> t.links,
   nics  |-> LET bound == SelectSeq(t.peers, LAMBDA p : p.nic # 0)
             IN  [i \in DOMAIN bound |-> <<bound[i].name, bound[i].nic>>]]

\* A peer line adds the peer and, if that worked and it has a key, the key.
AddKeyed(t, p) ==
  LET added == PeerAddLocked(t, p.name, p.endpoint, p.text)
  IN  IF p.keyed /\ added # t THEN PeerKeyLocked(added, p.name) ELSE added

\* What the file is after WriteRosterAtomic: it renames a finished file over the
\* old one.  On a bad disk that fails and the old one stays, or, since the stream
\* is not checked, the lines that got written replace it (cut at a line's end).
WriteRosterAtomic(old, f) ==
  {f} \cup
  IF ~env.disk THEN {}
  ELSE {old}
       \cup {[peers |-> SubSeq(f.peers, 1, i), links |-> <<>>, nics |-> <<>>] :
               i \in 0 .. Len(f.peers)}
       \cup {[f EXCEPT !.links = SubSeq(@, 1, i), !.nics = <<>>] : i \in DOMAIN f.links}
       \cup {[f EXCEPT !.nics = SubSeq(@, 1, i)] : i \in DOMAIN f.nics}

LoadRosterFile(f) ==
  LET peers == FoldLeft(AddKeyed, EmptyTab, f.peers)
      linked == FoldLeft(LinkAddLocked, peers, f.links)
  IN  FoldLeft(LAMBDA t, b : PeerNicLocked(t, b[1], b[2]), linked, f.nics)

\* The yaml configuration replaces peers of the same name, links and all.
ApplyConfig(t, cfg) ==
  LET Replace(u, p) == AddKeyed(PeerRemoveLocked(u, p.name), p)
  IN  FoldLeft(LinkAddLocked, FoldLeft(Replace, t, cfg.peers), cfg.links)

--------------------------------------------------------------------------
(* The BPF map updates of a critical section, in the order it makes them.  *)

Attached == phase \in {"attached", "up"} /\ env.xdp

Op(op, key, val) == [op |-> op, key |-> key, val |-> val]
Save == <<Op("save", NoEp, None)>>

\* nic = 0 is the empty name, which means the first attached NIC.
ResolveNicIfindex(nic) == IF nic = 0 THEN 1 ELSE nic

XdpInsertLinkDir(src, dst) ==
  IF Attached /\ src.endpoint \notin V6 /\ dst.endpoint \notin V6
    THEN <<Op("insert", src.endpoint,
              [ep |-> dst.endpoint, nic |-> ResolveNicIfindex(dst.nic)])>>
    ELSE <<>>

XdpRemoveLinkDir(src) ==
  IF Attached /\ src.endpoint \notin V6
    THEN <<Op("delete", src.endpoint, None)>>
    ELSE <<>>

\* The peers of a link that are in the table, in the link's order.
Ends(t, l) ==
  LET known == SelectSeq(l, LAMBDA n : PeerKnown(t, n))
  IN  [i \in DOMAIN known |-> t.peers[PeerIdx(t, known[i])]]

XdpInsertLinkByNameLocked(t, l) ==
  LET ends == Ends(t, l)
  IN  IF Len(ends) < 2 THEN <<>>
      ELSE XdpInsertLinkDir(ends[1], ends[2]) \o XdpInsertLinkDir(ends[2], ends[1])

XdpRemoveLinkByNameLocked(t, l) ==
  LET ends == Ends(t, l)
  IN  FlattenSeq([i \in DOMAIN ends |-> XdpRemoveLinkDir(ends[i])])

XdpInsertLinks(t, ls) ==
  FlattenSeq([i \in DOMAIN ls |-> XdpInsertLinkByNameLocked(t, ls[i])])

--------------------------------------------------------------------------
(* Start, stop, crash.                                                     *)

ClientsAtHome ==
  [n \in DOMAIN env.pool |->
     [loc |-> env.pool[n][1], cur |-> 0, heard |-> 0, confirm |-> FALSE,
      session |-> n \in env.sessions, tried |-> FALSE]]

Init ==
  /\ env \in Envs
  /\ phase = "down"
  /\ tab = EmptyTab /\ strikes = NoStrikes /\ blocklist = NoBlocks
  /\ todo = <<>>
  /\ roster = env.roster
  /\ xdp = NoXdp /\ flight = NoPacket
  /\ clients = ClientsAtHome
  /\ moves = env.moves

\* WgRelayStart up to the thread it starts: the roster, then the yaml config,
\* which is written back when there is one.
WgRelayStart ==
  /\ phase = "down"
  /\ tab' = ApplyConfig(LoadRosterFile(roster), env.cfg)
  /\ roster' \in IF env.cfg.peers = <<>> /\ env.cfg.links = <<>>
                   THEN {roster} ELSE WriteRosterAtomic(roster, SerializeRoster(tab'))
  /\ phase' = IF env.xdp THEN "loop" ELSE "up"
  /\ UNCHANGED <<env, strikes, blocklist, todo, xdp, flight, clients, moves>>

\* The fresh BPF object comes with empty maps and replaces whatever program the
\* NICs still run; a packet that one is at work on it forwards or passes up.
\* RecvLoop has been serving packets since WgRelayStart.
XdpAttach ==
  /\ phase = "loop"
  /\ phase' = "attached"
  /\ xdp' = NoXdp
  /\ flight' \in IF flight.at = "macs" THEN {NoPacket, [flight EXCEPT !.at = "socket"]}
                 ELSE {flight}
  /\ UNCHANGED <<env, memory, todo, roster, clients, moves>>

\* WgRelayStart's last critical section puts the links loaded from the roster
\* into the map.
XdpReplay ==
  /\ phase = "attached" /\ todo = <<>>
  /\ phase' = "up"
  /\ todo' = XdpInsertLinks(tab, tab.links)
  /\ UNCHANGED <<env, memory, roster, xdp, flight, clients, moves>>

Forget ==
  /\ phase' = "down"
  /\ tab' = EmptyTab /\ strikes' = NoStrikes /\ blocklist' = NoBlocks
  /\ todo' = <<>>
  /\ UNCHANGED <<env, roster, clients, moves>>

\* WgRelayStop joins the loop, detaches what this process attached, and closes
\* the socket; also what a failed XdpAttach does.
WgRelayStop ==
  /\ env.crash /\ phase # "down" /\ todo = <<>>
  /\ xdp' = IF Attached THEN NoXdp ELSE xdp
  /\ flight' = IF Attached \/ flight.at = "socket" THEN NoPacket ELSE flight
  /\ Forget

\* The process dies.  The program stays attached, forwarding from its maps.
Crash ==
  /\ env.crash /\ phase # "down"
  /\ flight' = IF flight.at = "socket" THEN NoPacket ELSE flight
  /\ UNCHANGED xdp
  /\ Forget

\* One map update, or the roster write, of the critical section in progress.  A
\* delete also clears the learned MAC.  An insert that finds the map full, and a
\* write that fails, are logged and the relay goes on.
ApplyOp ==
  /\ todo # <<>>
  /\ todo' = Tail(todo)
  /\ LET o == Head(todo)
     IN  \/ /\ o.op = "insert"
            /\ xdp' = [xdp EXCEPT !.peers[o.key] = o.val]
            /\ UNCHANGED roster
         \/ /\ o.op = "insert" /\ env.full /\ xdp.peers[o.key] = None
            /\ UNCHANGED <<xdp, roster>>
         \/ /\ o.op = "delete"
            /\ xdp' = [xdp EXCEPT !.peers[o.key] = None, !.macs = @ \ {o.key}]
            /\ UNCHANGED roster
         \/ /\ o.op = "save"
            /\ roster' \in WriteRosterAtomic(roster, SerializeRoster(tab))
            /\ UNCHANGED xdp
  /\ UNCHANGED <<env, phase, memory, flight, clients, moves>>

--------------------------------------------------------------------------
(* The operator's commands, reachable once WgRelayStart has returned.      *)

Command(op, t, ops) ==
  /\ op \in env.ops /\ phase = "up" /\ todo = <<>>
  /\ tab' = t
  /\ todo' = ops \o Save
  /\ UNCHANGED <<env, phase, strikes, blocklist, roster, xdp, flight, clients, moves>>

WgRelayPeerAdd(n) ==
  /\ ~PeerKnown(tab, n)
  /\ Command("add", PeerAddLocked(tab, n, env.pool[n][1], "plain"), <<>>)

WgRelayPeerKey(n) ==
  /\ PeerKnown(tab, n)
  /\ Command("key", PeerKeyLocked(tab, n), <<>>)

\* Refuses a NIC that is not attached; `nic' is one of the attached ones.
WgRelayPeerNic(n, nic) ==
  /\ PeerKnown(tab, n)
  /\ LET t == PeerNicLocked(tab, n, nic)
     IN  Command("nic", t,
                 XdpInsertLinks(t, SelectSeq(tab.links, LAMBDA l : n \in Sides(l))))

\* The names of the links are taken before the peer goes, but the lookups that
\* remove their map entries come after, and do not find it.
WgRelayPeerRemove(n) ==
  /\ PeerKnown(tab, n)
  /\ LET removed == SelectSeq(tab.links, LAMBDA l : n \in Sides(l))
         t == PeerRemoveLocked(tab, n)
     IN  Command("remove", t,
                 FlattenSeq([i \in DOMAIN removed |->
                               XdpRemoveLinkByNameLocked(t, removed[i])]))

WgRelayLinkAdd(l) ==
  LET t == LinkAddLocked(tab, l)
  IN  /\ t # tab
      /\ Command("link", t, XdpInsertLinkByNameLocked(t, l))

WgRelayLinkRemove(l) ==
  LET t == LinkRemoveLocked(tab, l)
  IN  /\ t # tab
      /\ Command("unlink", t, XdpRemoveLinkByNameLocked(t, l))

--------------------------------------------------------------------------
(* Packets.  [src, type, to, from, idx]: the source endpoint, the WireGuard *)
(* message type, the client whose key its MAC1 verifies with, the client    *)
(* that sent it (for the receiver, which decrypts it) and, for an init or a *)
(* response, the sender or receiver index.                                  *)

\* Clients after the packet went out to the endpoints `eps'.  A client takes an
\* init or a response made for its key by the partner in its own config.
Deliver(cs, pkt, eps) ==
  [n \in DOMAIN cs |->
     IF cs[n].loc \notin eps \/ n # pkt.to \/ PartnerOf[n] # pkt.from
       THEN cs[n]
     ELSE IF pkt.type = "init"
       THEN [cs[n] EXCEPT !.heard = pkt.idx]
     ELSE IF pkt.type = "response" /\ pkt.idx = cs[n].cur
       THEN [cs[n] EXCEPT !.confirm = TRUE, !.session = TRUE]
     ELSE cs[n]]

\* UDP: of the copies sent to `eps', some get there.  A failed sendto is a copy
\* that does not.  A prompt env (see TickAllowed) loses nothing.
Send(pkt, eps) ==
  \E got \in IF env.prompt THEN {eps} ELSE SUBSET eps :
    clients' = Deliver(clients, pkt, got)

\* HandlePacket returns with the table t, the packet sent on to `eps'.
Forwarded(t, pkt, eps) ==
  /\ tab' = t
  /\ Send(pkt, eps)
  /\ UNCHANGED <<strikes, blocklist, todo>>

Dropped(pkt) == Forwarded(tab, pkt, {})

\* Mutant: a retry also starts the candidate's timeout again.
RetryInitRestarts(p, idx) == [p EXCEPT !.idx = idx, !.set = 0]

\* A retry from the pending candidate brings its fresh index, and no more time.
RetryInit(p, idx) == [p EXCEPT !.idx = idx]

\* Only an init counts.  The peer whose key verifies is the destination, its
\* link partner the presumed sender, whose candidate slot the source takes.
HandleUnknownSrcHandshakeLocked(pkt) ==
  LET d == SelectInSeq(tab.peers, LAMBDA p :
             /\ p.keyed /\ p.name = pkt.to
             /\ FindLinkPartnerLocked(tab, p.name) # 0)
      s == FindLinkPartnerLocked(tab, pkt.to)
      sender == tab.peers[s]
      dst == {tab.peers[d].endpoint}
      refreshed == [tab EXCEPT !.peers[s] = RetryInit(@, pkt.idx)]
  IN  IF pkt.type # "init" \/ d = 0 THEN Dropped(pkt)
      ELSE IF sender.relearn < kRelearnCooldown THEN Dropped(pkt)
      ELSE IF sender.cand = pkt.src
        THEN IF sender.fwd < kRetryForwardGap
               THEN Forwarded(refreshed, pkt, {})
               ELSE Forwarded([refreshed EXCEPT !.peers[s].fwd = 0], pkt, dst)
      ELSE IF sender.cand # NoEp THEN Dropped(pkt)
      ELSE Forwarded([tab EXCEPT !.peers[s] =
                        [@ EXCEPT !.cand = pkt.src, !.set = 0, !.fwd = 0,
                                  !.responded = FALSE, !.idx = pkt.idx]],
                     pkt, dst)

\* Mutant: the map entries are removed after the endpoint has been replaced.
ConfirmRemovesLate(i) ==
  LET p == tab.peers[i]
      t == [tab EXCEPT !.peers[i] =
              [ClearCand(p) EXCEPT !.endpoint = p.cand,
                                   !.text = FormatEndpoint(p.cand),
                                   !.relearn = 0]]
      partner == FindLinkPartnerLocked(tab, p.name)
      link == <<p.name, tab.peers[partner].name>>
  IN  /\ tab' = t
      /\ todo' = IF partner = 0 THEN Save
                 ELSE XdpRemoveLinkByNameLocked(t, link)
                      \o XdpInsertLinkByNameLocked(t, link) \o Save
      /\ strikes' = IF p.cand \in V6 THEN strikes
                    ELSE [strikes EXCEPT ![AddrOf[p.cand]] = NoStrike]
      /\ UNCHANGED <<blocklist, clients>>

\* The candidate with index i becomes the peer's endpoint: map entries out under
\* the old one, in under the new one, roster saved, strikes forgiven.
ConfirmCandidateLocked(i) ==
  LET p == tab.peers[i]
      t == [tab EXCEPT !.peers[i] =
              [ClearCand(p) EXCEPT !.endpoint = p.cand,
                                   !.text = FormatEndpoint(p.cand),
                                   !.relearn = 0]]
      partner == FindLinkPartnerLocked(tab, p.name)
      link == <<p.name, tab.peers[partner].name>>
  IN  /\ tab' = t
      /\ todo' = IF partner = 0 THEN Save
                 ELSE XdpRemoveLinkByNameLocked(tab, link)
                      \o XdpInsertLinkByNameLocked(t, link) \o Save
      /\ strikes' = IF p.cand \in V6 THEN strikes
                    ELSE [strikes EXCEPT ![AddrOf[p.cand]] = NoStrike]
      /\ UNCHANGED <<blocklist, clients>>

Confirmable(src) ==
  SelectInSeq(tab.peers, LAMBDA p : p.cand = src /\ p.responded)

\* Mutant: any response to the peer makes its candidate eligible.
AnswersAnyInit(dst, pkt) == TRUE

\* The response's receiver_index is the sender_index of the candidate's init.
AnswersCandidate(dst, pkt) == dst.idx # 0 /\ pkt.idx = dst.idx

\* From a registered source: to the link partner, if MAC1 agrees with the key
\* the operator stamped.  A response also goes to the destination's candidate
\* endpoint, and makes the candidate eligible when it answers its latest init,
\* unless the first sendto failed.
ForwardToPartner(pkt, s) ==
  LET d == FindLinkPartnerLocked(tab, tab.peers[s].name)
      dst == tab.peers[d]
      mirror == pkt.type = "response" /\ dst.cand # NoEp
  IN  IF \/ d = 0
         \/ pkt.type \in {"init", "response"} /\ dst.keyed /\ pkt.to # dst.name
        THEN Dropped(pkt)
        ELSE \/ Forwarded(
                  IF mirror /\ AnswersCandidate(dst, pkt)
                    THEN [tab EXCEPT !.peers[d].responded = TRUE] ELSE tab,
                  pkt,
                  {dst.endpoint} \cup (IF mirror THEN {dst.cand} ELSE {}))
             \/ ~env.prompt /\ Dropped(pkt)

\* Expired candidates are gone already: Tick sweeps them as time passes.
HandlePacket ==
  LET pkt == flight.pkt
      s == SrcPeer(tab, pkt.src)
  IN  /\ flight.at = "socket" /\ todo = <<>>
      /\ IF pkt.src \notin V6 /\ blocklist[AddrOf[pkt.src]] > 0 THEN Dropped(pkt)
         ELSE IF s # 0 THEN ForwardToPartner(pkt, s)
         ELSE IF pkt.type \in {"init", "response"}
           THEN HandleUnknownSrcHandshakeLocked(pkt)
         ELSE IF pkt.type = "data" /\ Confirmable(pkt.src) # 0
           THEN ConfirmCandidateLocked(Confirmable(pkt.src))
         ELSE Dropped(pkt)
      /\ flight' = NoPacket
      /\ UNCHANGED <<env, phase, roster, xdp, moves>>

\* The BPF program sees every packet first.  Up to its lookup in wg_peers: it
\* drops blocked sources, and passes handshakes and unknown senders up.
wg_relay_xdp(pkt) ==
  IF pkt.src \in V6 THEN "socket"
  ELSE IF xdp.block[AddrOf[pkt.src]] > 0 THEN "none"
  ELSE IF pkt.type \in {"init", "response"} \/ xdp.peers[pkt.src] = None THEN "socket"
  ELSE "macs"

\* The rest of it: it learns the sender's MAC, whatever became of the entry it
\* looked up, and forwards if it knows the partner's MAC.
LearnMac ==
  LET pkt == flight.pkt
  IN  /\ flight.at = "macs"
      /\ xdp' \in {[xdp EXCEPT !.macs = @ \cup {pkt.src}]}
                   \cup (IF env.full THEN {xdp} ELSE {})
      /\ IF flight.to \in xdp'.macs
           THEN Send(pkt, {flight.to}) /\ flight' = NoPacket
           ELSE /\ flight' = IF phase = "down" THEN NoPacket
                              ELSE [flight EXCEPT !.at = "socket"]
                /\ UNCHANGED clients
      /\ UNCHANGED <<env, phase, memory, todo, roster, moves>>

\* A client, whose state becomes c, sends pkt, which may get lost on the way.
Packet(pkt, c) ==
  /\ flight = NoPacket
  /\ LET at == wg_relay_xdp(pkt)
         lost == at = "none" \/ (at = "socket" /\ phase = "down")
     IN  \/ flight' = IF lost THEN NoPacket
                      ELSE [at |-> at, pkt |-> pkt, to |-> xdp.peers[pkt.src].ep]
         \/ ~env.prompt /\ flight' = NoPacket
  /\ clients' = [clients EXCEPT ![pkt.from] = c]
  /\ UNCHANGED <<env, phase, memory, todo, roster, xdp, moves>>

--------------------------------------------------------------------------
(* The clients.  No endpoint is ever used by two of them.                   *)

Message(n, type, idx) ==
  [src |-> clients[n].loc, type |-> type, to |-> PartnerOf[n], from |-> n,
   idx |-> idx]

\* A handshake under a fresh index.  A prompt client retries once a tick.
SendInit(n) ==
  LET idx == IF clients[n].cur = IdxOf[n][1] THEN IdxOf[n][2] ELSE IdxOf[n][1]
  IN  /\ env.prompt => ~clients[n].tried
      /\ Packet(Message(n, "init", idx),
                [clients[n] EXCEPT !.cur = idx, !.tried = env.prompt,
                                   !.confirm = FALSE])

SendResponse(n) ==
  /\ clients[n].heard # 0
  /\ Packet(Message(n, "response", clients[n].heard),
            [clients[n] EXCEPT !.heard = 0, !.session = TRUE])

\* Transport data; the first after a handshake is the initiator's keepalive.
SendData(n) ==
  /\ clients[n].session
  /\ Packet(Message(n, "data", 0), [clients[n] EXCEPT !.confirm = FALSE])

Move(n, e) ==
  /\ moves > 0 /\ e # clients[n].loc
  /\ moves' = moves - 1
  /\ clients' = [clients EXCEPT ![n].loc = e]
  /\ UNCHANGED <<env, phase, memory, todo, roster, xdp, flight>>

--------------------------------------------------------------------------
(* Time, and the sweep RecvLoop runs every second and with every packet.   *)

AtMost(x, bound) == IF x < bound THEN x ELSE bound
OneLess(x) == IF x > 0 THEN x - 1 ELSE 0

\* Mutant: a policy asks for one strike more than it says.
RecordStrikeOneMore(b, e) ==
  LET a == AddrOf[e]
      old == b.strikes[a]
      s == IF old.first > Widest
             THEN [count |-> 1, first |-> 0]
             ELSE [old EXCEPT !.count = @ + 1]
      i == SelectInSeq(kStrikePolicy, LAMBDA pol :
             s.count > pol.strikes /\ s.first <= pol.window)
  IN  IF e \in V6 THEN b
      ELSE IF i = 0 THEN [b EXCEPT !.strikes[a] = s]
      ELSE [b EXCEPT !.strikes[a] = NoStrike,
                     !.block[a] = kStrikePolicy[i].block,
                     !.map[a] = IF Attached THEN kStrikePolicy[i].block ELSE @]

\* b: [strikes, block, map], the map being the BPF blocklist.  The first policy
\* whose count is reached within its window blocks, and the count starts over.
RecordStrikeLocked(b, e) ==
  LET a == AddrOf[e]
      old == b.strikes[a]
      s == IF old.first > Widest
             THEN [count |-> 1, first |-> 0]
             ELSE [old EXCEPT !.count = @ + 1]
      i == SelectInSeq(kStrikePolicy, LAMBDA pol :
             s.count >= pol.strikes /\ s.first <= pol.window)
  IN  IF e \in V6 THEN b
      ELSE IF i = 0 THEN [b EXCEPT !.strikes[a] = s]
      ELSE [b EXCEPT !.strikes[a] = NoStrike,
                     !.block[a] = kStrikePolicy[i].block,
                     !.map[a] = IF Attached THEN kStrikePolicy[i].block ELSE @]

\* Mutant: candidates are kept one tick longer.
ExpireCandidatesLate(t, b) ==
  LET Stale(p) == p.cand # NoEp /\ p.set > kCandidateTimeout + 1
      struck == FoldLeft(LAMBDA c, p : RecordStrikeLocked(c, p.cand),
                         b, SelectSeq(t.peers, Stale))
  IN  [tab |-> [t EXCEPT !.peers = [i \in DOMAIN @ |->
                  IF Stale(@[i]) THEN ClearCand(@[i]) ELSE @[i]]],
       bad |-> [struck EXCEPT !.strikes = [a \in Addresses |->
                  IF @[a].first > Widest THEN NoStrike ELSE @[a]]]]

ExpireCandidatesLocked(t, b) ==
  LET Stale(p) == p.cand # NoEp /\ p.set > kCandidateTimeout
      struck == FoldLeft(LAMBDA c, p : RecordStrikeLocked(c, p.cand),
                         b, SelectSeq(t.peers, Stale))
  IN  [tab |-> [t EXCEPT !.peers = [i \in DOMAIN @ |->
                  IF Stale(@[i]) THEN ClearCand(@[i]) ELSE @[i]]],
       bad |-> [struck EXCEPT !.strikes = [a \in Addresses |->
                  IF @[a].first > Widest THEN NoStrike ELSE @[a]]]]

Aged(p) ==
  [p EXCEPT !.set = IF p.cand = NoEp THEN 0 ELSE @ + 1,
            !.fwd = IF p.cand = NoEp THEN 0 ELSE AtMost(@ + 1, kRetryForwardGap),
            !.relearn = AtMost(@ + 1, kRelearnCooldown)]

\* Prompt clients try once in every tick (wg.ko's interval), and a handshake
\* under way completes within the tick.
TickAllowed ==
  env.prompt =>
    /\ flight = NoPacket
    /\ \A n \in env.active :
         clients[n].tried /\ clients[n].heard = 0 /\ ~clients[n].confirm

Tick ==
  /\ phase # "down" /\ todo = <<>> /\ TickAllowed
  /\ LET older == [a \in Addresses |->
                     [strikes[a] EXCEPT !.first = AtMost(@ + 1, Widest + 1)]]
         swept == ExpireCandidatesLocked(
                    [tab EXCEPT !.peers = [i \in DOMAIN @ |-> Aged(@[i])]],
                    [strikes |-> older,
                     block |-> [a \in Addresses |-> OneLess(blocklist[a])],
                     map |-> [a \in Addresses |-> OneLess(xdp.block[a])]])
     IN  /\ tab' = swept.tab
         /\ strikes' = swept.bad.strikes
         /\ blocklist' = swept.bad.block
         /\ xdp' = [xdp EXCEPT !.block = swept.bad.map]
  /\ clients' = [n \in DOMAIN clients |-> [clients[n] EXCEPT !.tried = FALSE]]
  /\ UNCHANGED <<env, phase, todo, roster, flight, moves>>

--------------------------------------------------------------------------
Operator ==
  \E n \in DOMAIN env.pool :
    \/ WgRelayPeerAdd(n)
    \/ WgRelayPeerKey(n)
    \/ \E nic \in {0, 2} : WgRelayPeerNic(n, nic)
    \/ WgRelayPeerRemove(n)
    \/ \E m \in DOMAIN env.pool :
         \/ WgRelayLinkAdd(<<n, m>>)
         \/ WgRelayLinkRemove(<<n, m>>)

Client(n) ==
  \/ SendInit(n)
  \/ SendResponse(n)
  \/ SendData(n)
  \/ \E i \in DOMAIN env.pool[n] : Move(n, env.pool[n][i])

Next ==
  \/ WgRelayStart \/ XdpAttach \/ XdpReplay
  \/ WgRelayStop \/ Crash
  \/ ApplyOp
  \/ Operator
  \/ LearnMac \/ HandlePacket
  \/ \E n \in env.active : Client(n)
  \/ Tick

Ready == todo = <<>> /\ phase # "down"

Pending(n) == PeerKnown(tab, n) /\ tab.peers[PeerIdx(tab, n)].cand # NoEp

\* How old the candidates are.  Only Tick makes one older, so the ages change
\* infinitely often only if there are infinitely many ticks.
Ages == [i \in DOMAIN tab.peers |-> tab.peers[i].set]

\* A prompt client, whose turn comes within a tick.
Prompted(n) == env.prompt /\ n \in env.active

\* Weak fairness of the relay's start-up, of its critical sections, of the BPF
\* program and of RecvLoop; of the clock, wherever a tick changes something (a
\* prompt client's turn to try, or the age of a candidate); and of the prompt
\* clients' WireGuard stacks.  The clock and the clients wait for the packet
\* under way only because the model has one at a time, so their fairness does
\* not depend on it.  Each is written as what cannot last, with the condition
\* under which the action is enabled, as nearly all disable themselves.  Nothing
\* obliges the operator to give commands, a client to move or the process to die.
Fairness ==
  /\ []<>(todo # <<>> \/ phase = "up")
  /\ <>[](todo # <<>>) => []<><<Len(todo') < Len(todo)>>_todo
  /\ []<>(flight.at # "macs") /\ []<>(flight.at # "socket" \/ todo # <<>>)
  /\ []<>~(env.prompt /\ Ready /\ \A n \in env.active : clients[n].tried)
  /\ <>[](~env.prompt /\ Ready /\ \E n \in Names : Pending(n)) => []<><<Ages' # Ages>>_tab
  /\ \A n \in Names : /\ []<>~(Prompted(n) /\ ~clients[n].tried)
                      /\ []<>~(Prompted(n) /\ clients[n].heard # 0)
                      /\ []<>~(Prompted(n) /\ clients[n].confirm)

Spec == Init /\ [][Next]_vars /\ Fairness

--------------------------------------------------------------------------
(* Properties                                                              *)

TypeOK ==
  /\ env \in Envs
  /\ phase \in {"down", "loop", "attached", "up"}
  /\ \A i \in DOMAIN tab.peers :
       LET p == tab.peers[i]
       IN  /\ p.name \in Names /\ p.endpoint \in Endpoints
           /\ p.cand \in Endpoints \cup {NoEp}
           /\ p.set \in 0..kCandidateTimeout /\ p.fwd \in 0..kRetryForwardGap
           /\ p.relearn \in 0..kRelearnCooldown
           /\ p.keyed \in BOOLEAN /\ p.responded \in BOOLEAN
  /\ \A i \in DOMAIN tab.links : Sides(tab.links[i]) \subseteq Names
  /\ \A a \in Addresses :
       /\ strikes[a].first \in 0..Widest + 1
       /\ blocklist[a] \in Nat /\ xdp.block[a] \in Nat
  /\ \A e \in Endpoints : xdp.peers[e].ep \in Endpoints \cup {NoEp}
  /\ flight.at \in {"none", "macs", "socket"}
  /\ xdp.macs \subseteq Endpoints

Quiet == phase = "up" /\ todo = <<>>

\* What the BPF program should do with data from e: go to the link partner's
\* endpoint out of the link partner's NIC.
LinkEntry(e) ==
  LET s == SrcPeer(tab, e)
      d == IF s = 0 THEN 0 ELSE FindLinkPartnerLocked(tab, tab.peers[s].name)
  IN  IF d = 0 \/ {e, tab.peers[d].endpoint} \cap V6 # {} THEN None
      ELSE [ep |-> tab.peers[d].endpoint,
            nic |-> ResolveNicIfindex(tab.peers[d].nic)]

\* Whenever no critical section is in progress, the map the kernel forwards from
\* holds the current links and nothing else (but a link it had no room for), and
\* the kernel blocks no source the relay does not block.  Does not hold:
\* WgRelayPeerRemove takes the peer out of the table before it looks up the
\* endpoints whose entries it has to delete (wg_relay.cc:1990-1993).
XdpHoldsLinks ==
  Quiet /\ env.xdp =>
    /\ \A e \in Endpoints :
         xdp.peers[e] = LinkEntry(e) \/ (env.full /\ xdp.peers[e] = None)
    /\ \A a \in Addresses : xdp.block[a] <= blocklist[a]

\* XdpHoldsLinks, through relearned endpoints, rebound NICs, crashes half way
\* through an update and restarts, as long as no peer is removed.
XdpFollowsLinks == "remove" \notin env.ops => XdpHoldsLinks

\* A link joins two different peers of the table, a peer is in one link at most
\* and names are not repeated, whatever mixture of roster file, yaml config and
\* commands the tables come from ("each peer is in at most one link",
\* LinkAddLocked and PeerRemoveLocked).
LinksArePairs ==
  /\ \A i \in DOMAIN tab.links :
       /\ Cardinality(Sides(tab.links[i])) = 2
       /\ \A n \in Sides(tab.links[i]) : PeerKnown(tab, n)
       /\ \A j \in DOMAIN tab.links \ {i} :
            Sides(tab.links[i]) \cap Sides(tab.links[j]) = {}
  /\ \A i, j \in DOMAIN tab.peers :
       tab.peers[i].name = tab.peers[j].name => i = j

\* What a restart should find again.
Lasting(t) ==
  [peers |-> [i \in DOMAIN t.peers |->
                <<t.peers[i].name, t.peers[i].endpoint, t.peers[i].keyed,
                  t.peers[i].nic>>],
   links |-> t.links]

\* Between critical sections the roster file loads back as the tables in memory,
\* so a crash loses no committed change: every command and every relearned
\* endpoint reached the file (PersistRosterLocked), unless the disk refused it.
\* An endpoint relearned at a native IPv6 address is excepted: the file has it
\* in brackets and ParseHostPort cannot read it back (wg_relay.cc:72-84, 131).
RosterIsCurrent ==
  /\ phase # "down" /\ todo = <<>> /\ ~env.disk
  /\ \A i \in DOMAIN tab.peers : ParseHostPort(tab.peers[i].text)
  => Lasting(LoadRosterFile(roster)) = Lasting(tab)

\* A running relay moves a peer only to where that peer's client sent the packet
\* from that it is handling: the handshake another client starts from an unknown
\* address may take the candidate slot (the sender is inferred from the
\* destination's link), but is never confirmed (ConfirmCandidateLocked and the
\* receiver_index match).
RelearnsOwner ==
  [][\A n \in DOMAIN env.pool :
       LET i == PeerIdx(tab, n)
           j == PeerIdx(tab', n)
       IN  /\ phase' = phase /\ i # 0 /\ j # 0
           /\ tab'.peers[j].endpoint # tab.peers[i].endpoint
           => flight.pkt.from = n /\ tab'.peers[j].endpoint = flight.pkt.src]_vars

\* Every candidate slot is given up again, by confirmation or by the timeout,
\* however often its source retries (ExpireCandidatesLocked; the retry path
\* leaves candidate_set_ns alone).
SlotIsFreed == \A n \in Names : Pending(n) ~> ~Pending(n)

\* The other clients that may take n's candidate slot have native IPv4 addresses,
\* and n never shares one of them.
Strikable(n) ==
  \A m \in env.active \ {n, PartnerOf[n]} : \A e \in Range(env.pool[m]) :
    e \notin V6 /\ \A f \in Range(env.pool[n]) : AddrOf[f] # AddrOf[e]

AtEndpoint(n) == tab.peers[PeerIdx(tab, n)].endpoint = clients[n].loc

\* n has moved, its partner has not.
Away(n) ==
  /\ env.prompt /\ ~env.crash /\ {n, PartnerOf[n]} \subseteq DOMAIN env.pool
  /\ Strikable(n)
  /\ PeerKnown(tab, n) /\ ~AtEndpoint(n)
  /\ PeerKnown(tab, PartnerOf[n]) /\ AtEndpoint(PartnerOf[n])

\* A client that moved is found again, although another client keeps taking its
\* candidate slot without completing a handshake: two expired slots block that
\* source long enough for the roamer's retry ("the strike + blocklist path will
\* catch" it, wg_relay.cc:880-883).  Strikes go by address and only to IPv4 ones:
\* nothing is claimed when that client is on native IPv6, or behind the roamer's
\* own NAT, or when both ends of the link have moved.
RoamerIsRelearned == \A n \in Names : Away(n) ~> ~Away(n)

==========================================================================
