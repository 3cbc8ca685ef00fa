--------------------------- MODULE AgentRunPromise ---------------------------
(***************************************************************************)
(* What the agent runtime promises of a run: its row is created "running", *)
(* settles on an end, and the client is told at most once, exactly the end *)
(* that is stored; from then on the row does not change.  A row may settle *)
(* again before anybody was told (a save whose commit could not be         *)
(* confirmed is followed by the save of the failure), and a run that was   *)
(* cut off may stay "running" or untold for ever.                          *)
(***************************************************************************)
CONSTANTS Run

VARIABLES
    row,   \* the status of the stored row
    told   \* the status the client was told

vars == <<row, told>>

Ends == {"succeeded", "failed", "max_steps"}

Init ==
    /\ row = [r \in Run |-> "absent"]
    /\ told = [r \in Run |-> "nothing"]

Begin(r) ==
    /\ row[r] = "absent"
    /\ row' = [row EXCEPT ![r] = "running"]
    /\ UNCHANGED told

Settle(r) ==
    /\ row[r] # "absent"
    /\ told[r] = "nothing"
    /\ \E end \in Ends : row' = [row EXCEPT ![r] = end]
    /\ UNCHANGED told

Tell(r) ==
    /\ told[r] = "nothing"
    /\ row[r] \in Ends
    /\ told' = [told EXCEPT ![r] = row[r]]
    /\ UNCHANGED row

Next == \E r \in Run : Begin(r) \/ Settle(r) \/ Tell(r)

Spec == Init /\ [][Next]_vars
=============================================================================
