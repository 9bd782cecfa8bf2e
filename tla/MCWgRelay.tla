------------------------------ MODULE MCWgRelay -----------------------------
(* Two linked clients a and b, and a third, c, whose link was given away: its *)
(* own config still talks to b, b's no longer to it.  Endpoints 1, 2 and 5   *)
(* are where a, b and c start, 3 and 4 where a and b may move to.            *)
EXTENDS WgRelay

MCNames == {"a", "b", "c"}
MCPartnerOf == [a |-> "b", b |-> "a", c |-> "b"]
\* a moves within one address.
MCAddrOf == [e \in Endpoints |-> IF e = 3 THEN 1 ELSE e]
MCIdxOf == [a |-> <<1, 2>>, b |-> <<3, 4>>, c |-> <<5, 6>>]
MCPolicy == <<[strikes |-> 2, window |-> 2, block |-> 2],
              [strikes |-> 3, window |-> 5, block |-> 3]>>

Peer(n, e) == [name |-> n, endpoint |-> e, text |-> "plain", keyed |-> TRUE]
NoConfig == [peers |-> <<>>, links |-> <<>>]
Empty == [peers |-> <<>>, links |-> <<>>, nics |-> <<>>]
Paired == [peers |-> <<Peer("a", 1), Peer("b", 2)>>, links |-> <<<<"a", "b">>>>,
           nics |-> <<<<"b", 2>>>>]

Case(xdpOn, ops, crash, prompt, disk, file, cfg, pool, active, budget) ==
  [xdp |-> xdpOn, ops |-> ops, crash |-> crash, prompt |-> prompt,
   disk |-> disk, full |-> FALSE, roster |-> file, cfg |-> cfg, pool |-> pool,
   active |-> active, sessions |-> {}, moves |-> budget]

Homes == [a |-> <<1>>, b |-> <<2>>, c |-> <<5>>]
Pair == [a |-> <<1>>, b |-> <<2>>]

\* The operator fills an initially empty relay that may crash.
Filling == Case(TRUE, {"add", "nic", "link", "unlink"}, TRUE, FALSE, FALSE, Empty,
                NoConfig, Homes, {}, 0)
\* Keys and NICs of two linked peers change, and the BPF maps may be full.
Rebinding == [Case(TRUE, {"key", "nic", "link", "unlink"}, TRUE, FALSE, FALSE,
                   Paired, NoConfig, Pair, {}, 0) EXCEPT !.full = TRUE]
\* Peers are removed and added again, the disk may be full and the relay crash.
Removing == Case(TRUE, {"add", "link", "unlink", "remove"}, TRUE, FALSE, TRUE,
                 Paired, NoConfig, Pair, {}, 0)
\* a has moved while the relay was down, and packets get lost.
Lossy == Case(FALSE, {}, FALSE, FALSE, FALSE, Paired, NoConfig,
              [a |-> <<3>>, b |-> <<2>>], {"a", "b"}, 0)
\* b moves to native IPv6, and back.
Roaming == Case(TRUE, {}, FALSE, TRUE, FALSE, Paired, NoConfig,
                [a |-> <<1>>, b |-> <<2, 4>>], {"a", "b"}, 2)
\* a moves while c keeps trying to reach b and sends what its last session with b
\* left it; everyone answers within a tick.
Contended == [Case(FALSE, {}, FALSE, TRUE, FALSE, Paired, NoConfig,
                   [a |-> <<1, 3>>, b |-> <<2>>, c |-> <<5>>],
                   {"a", "b", "c"}, 2) EXCEPT !.sessions = {"c"}]
\* A yaml config that restates a, and so takes its link away, at every start;
\* the operator links again, a moves, and the relay may crash.
Configured == Case(TRUE, {"link"}, TRUE, TRUE, FALSE, Paired,
                   [peers |-> <<Peer("a", 1)>>, links |-> <<>>],
                   [a |-> <<1, 3>>, b |-> <<2>>], {"a", "b"}, 1)

MCEnvs == {Filling, Rebinding, Removing, Lossy, Roaming, Contended, Configured}
RemovingEnvs == {Removing}
=============================================================================
