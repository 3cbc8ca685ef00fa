--------------------------- MODULE MCAgentRuntime ---------------------------
(***************************************************************************)
(* Instances of AgentRuntime for TLC.  The sets are model values given by  *)
(* each .cfg.                                                              *)
(***************************************************************************)
EXTENDS AgentRuntime, TLC

\* Nothing in AgentRuntime chooses between runs or feedback calls by name.
Symmetry == Permutations(Run) \cup Permutations(Feedback)
=============================================================================
