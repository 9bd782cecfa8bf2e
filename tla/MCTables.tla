------------------------------ MODULE MCTables ------------------------------
(***************************************************************************)
(* The worker's hash table and the control plane's registry, one at a time: *)
(* `plane' says which of the two a behaviour is about.  Four keys in three  *)
(* slots, so that both fill up and turn one away: k1 and k2 share a home    *)
(* slot, k3 and k4 the one that wraps around.                               *)
(***************************************************************************)
EXTENDS PeerTable, CpRegistry, TLC

CONSTANTS k1, k2, k3, k4, f1, f2, f3

MCKeys == {k1, k2, k3, k4}
MCHash == k1 :> 0 @@ k2 :> 0 @@ k3 :> 2 @@ k4 :> 2
MCFds == {f1, f2, f3}

\* Keys of one home slot are interchangeable, and so are descriptors.
MCSymmetry ==
  Permutations({k1, k2}) \cup Permutations({k3, k4}) \cup Permutations(MCFds)

VARIABLE plane

MCInit == plane \in {"data", "control"} /\ HtInit /\ Init

MCNext ==
  \/ plane = "data" /\ HtNext /\ UNCHANGED <<plane, vars>>
  \/ plane = "control" /\ Next /\ UNCHANGED <<plane, htVars>>

\* The slots, indices, counts and watchers of both are what the structs allow:
\* never more watchers than kCpMaxWatchers (HandleWatchConns), and an entry that is
\* live, removed or unused (HtRemove).
MCTypeOK == HtTypeOK /\ TypeOK

MCSpec == MCInit /\ [][MCNext]_<<plane, htVars, vars>>
=============================================================================
