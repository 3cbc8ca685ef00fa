-------------------------- MODULE MCIngestionTasks --------------------------
(***************************************************************************)
(* Instances of IngestionTasks for TLC.  The sets are model values given by *)
(* each .cfg.                                                               *)
(***************************************************************************)
EXTENDS IngestionTasks

\* Nothing in IngestionTasks chooses between tasks, workers, processes or keys
\* by name.
Symmetry ==
    Permutations(TaskId) \cup Permutations(WorkerId)
        \cup Permutations(Proc) \cup Permutations(Key)
=============================================================================
