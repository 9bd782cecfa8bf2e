----------------------------- MODULE MCSendQueue -----------------------------
(***************************************************************************)
(* Instances of SendQueue for TLC.                                          *)
(***************************************************************************)
EXTENDS SendQueue

MCCalm == [zc |-> {}, zc_ok |-> TRUE, oom |-> FALSE, leave |-> FALSE, calm |-> TRUE]

\* Copied frames, and allocations that may fail.
MCOom == {[MCCalm EXCEPT !.oom = TRUE]}

\* One zero-copy frame, and a peer that goes.
MCLeave == {[MCCalm EXCEPT !.zc = {2}, !.leave = TRUE]}

\* Two zero-copy frames on their way.
MCTwoZc == {[MCCalm EXCEPT !.zc = {1, 2}]}

\* A socket that refuses zero copy: zero-copy frames only, and one among copied
\* ones.
MCRefused == {[MCCalm EXCEPT !.zc = 1 .. NumFrames, !.zc_ok = FALSE]}
MCMixed == {[MCCalm EXCEPT !.zc = {1}, !.zc_ok = FALSE]}

\* A socket that finds room between two sends of one submission.
MCRestless == {[MCCalm EXCEPT !.calm = FALSE]}

MCEnvs == MCOom \cup MCLeave \cup MCTwoZc \cup MCRefused \cup MCMixed \cup MCRestless
=============================================================================
