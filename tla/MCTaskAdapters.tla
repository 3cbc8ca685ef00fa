---------------------------- MODULE MCTaskAdapters ---------------------------
(***************************************************************************)
(* Instances of TaskAdapters for TLC.                                       *)
(***************************************************************************)
EXTENDS TaskAdapters, TLC

CONSTANTS q1, q2, w1, w2, s1, k1

\* Both requests bring the same key.
OneKey == [q \in Requester |-> k1]

\* One process serves while another starts.
Both == {{q1, q2, w1, w2}, {s1}}

\* Requests and workers of one process are told apart by nothing.
Symmetry == Permutations({q1, q2}) \cup Permutations({w1, w2})
=============================================================================
