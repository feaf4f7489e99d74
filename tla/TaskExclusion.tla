---------------------------- MODULE TaskExclusion ---------------------------
(***************************************************************************)
(* What the execution leases of integrations/claude promise: a task has at *)
(* most one holder at a time, a run holds a task at most once, and only    *)
(* the holder records anything of the task.  How a holder loses the task   *)
(* (release, expiry, crash) is not said here.                              *)
(***************************************************************************)
CONSTANTS
    Tasks,
    Runs,     \* runs, each with a token of its own
    Records,  \* what a run can record of a task
    Nobody    \* the task is not held

VARIABLES
    holder,    \* the run that may write, per task
    granted,   \* the runs that have held the task
    recorded   \* what was recorded last of the task, and by which run

vars == <<holder, granted, recorded>>

Init ==
    /\ holder = [t \in Tasks |-> Nobody]
    /\ granted = [t \in Tasks |-> {}]
    /\ recorded = [t \in Tasks |-> {}]

\* A run takes a task nobody holds.
Grant(t, r) ==
    /\ holder[t] = Nobody
    /\ r \notin granted[t]
    /\ holder' = [holder EXCEPT ![t] = r]
    /\ granted' = [granted EXCEPT ![t] = @ \cup {r}]
    /\ UNCHANGED recorded

\* The holder records something.
Record(t, x) ==
    /\ holder[t] # Nobody
    /\ recorded' = [recorded EXCEPT ![t] = {<<holder[t], x>>}]
    /\ UNCHANGED <<holder, granted>>

\* The holder gives the task up, or loses it.
Withdraw(t) ==
    /\ holder[t] # Nobody
    /\ holder' = [holder EXCEPT ![t] = Nobody]
    /\ UNCHANGED <<granted, recorded>>

Next ==
    \E t \in Tasks :
        \/ \E r \in Runs : Grant(t, r)
        \/ \E x \in Records : Record(t, x)
        \/ Withdraw(t)

Spec == Init /\ [][Next]_vars

=============================================================================
