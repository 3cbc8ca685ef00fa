---------------------------- MODULE MCApplication ----------------------------
(***************************************************************************)
(* Instances of Application for TLC.                                        *)
(***************************************************************************)
EXTENDS Application

\* The parts of the API a client is counted for.
Parts == {"chat", "search", "agent"}
=============================================================================
