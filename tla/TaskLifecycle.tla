---------------------------- MODULE TaskLifecycle ----------------------------
(***************************************************************************)
(* What the scheduler promises about each task, with no queues, inboxes or *)
(* wake latches: a runnable task is dispatched by one loop, stays with it  *)
(* until a verdict, and runs again only after it was made runnable again.  *)
(***************************************************************************)
CONSTANTS Tasks, Loops, None

VARIABLES
    mode,       \* "SCHEDULED", "RUNNING", "PARKED" or "DONE"
    runner      \* the loop executing the task, or None

vars == <<mode, runner>>

Init ==
    /\ mode = [t \in Tasks |-> "DONE"]
    /\ runner = [t \in Tasks |-> None]

Move(t, from, to) ==
    /\ mode[t] = from
    /\ mode' = [mode EXCEPT ![t] = to]

Create(t) == Move(t, "DONE", "SCHEDULED") /\ UNCHANGED runner
Wake(t) == Move(t, "PARKED", "SCHEDULED") /\ UNCHANGED runner

Dispatch(t, l) ==
    /\ Move(t, "SCHEDULED", "RUNNING")
    /\ runner[t] = None
    /\ runner' = [runner EXCEPT ![t] = l]

Verdict(t) ==
    /\ \E to \in {"SCHEDULED", "PARKED", "DONE"} : Move(t, "RUNNING", to)
    /\ runner' = [runner EXCEPT ![t] = None]

Next ==
    \E t \in Tasks :
        \/ Create(t) \/ Wake(t) \/ Verdict(t)
        \/ \E l \in Loops : Dispatch(t, l)

Spec == Init /\ [][Next]_vars
=============================================================================
