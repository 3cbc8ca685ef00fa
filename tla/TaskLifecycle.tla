---------------------------- MODULE TaskLifecycle ----------------------------
(***************************************************************************)
(* What the ingestion service promises of every task, whoever executes it:  *)
(* "A task moves through: queued -> running -> succeeded/failed"             *)
(* (app/repositories/base.py), every execution takes one of its             *)
(* MaxAttempts attempts, and a task goes back to the queue only while       *)
(* attempts remain.  The life of a task is the pair of its status and the   *)
(* attempts it has used.                                                    *)
(***************************************************************************)
EXTENDS Naturals

CONSTANTS TaskId, MaxAttempts

VARIABLES status, attempts

vars == <<status, attempts>>

Init ==
    /\ status = [t \in TaskId |-> "absent"]
    /\ attempts = [t \in TaskId |-> 0]

Create(t) ==
    /\ status[t] = "absent"
    /\ status' = [status EXCEPT ![t] = "queued"]
    /\ UNCHANGED attempts

Begin(t) ==
    /\ status[t] = "queued"
    /\ attempts[t] < MaxAttempts
    /\ status' = [status EXCEPT ![t] = "running"]
    /\ attempts' = [attempts EXCEPT ![t] = @ + 1]

Finish(t) ==
    /\ status[t] = "running"
    /\ \/ status' = [status EXCEPT ![t] = "succeeded"]
       \/ /\ attempts[t] = MaxAttempts
          /\ status' = [status EXCEPT ![t] = "failed"]
    /\ UNCHANGED attempts

\* A failed execution gives one task back; a restart gives back several.
GiveBack(ts) ==
    /\ \A t \in ts : status[t] = "running" /\ attempts[t] < MaxAttempts
    /\ status' = [t \in TaskId |-> IF t \in ts THEN "queued" ELSE status[t]]
    /\ UNCHANGED attempts

Next ==
    \/ \E t \in TaskId : Create(t) \/ Begin(t) \/ Finish(t)
    \/ \E ts \in SUBSET TaskId : GiveBack(ts)

Spec == Init /\ [][Next]_vars
=============================================================================
