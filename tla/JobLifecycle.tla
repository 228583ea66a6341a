---------------------------- MODULE JobLifecycle -----------------------------
(***************************************************************************)
(* What the job rows do, whoever writes them: a row is inserted as         *)
(* pending, from then on its status moves one edge of allowedTransitions   *)
(* at a time, and it may be removed together with its project. A restart   *)
(* may fail several interrupted rows at once.                              *)
(*                                                                         *)
(* The one licence is time. Only for a row past the monitor's stuck limit  *)
(* may a terminal status change: the monitor writes over a success that    *)
(* came after it had looked, and the deploy that it failed writes on.      *)
(***************************************************************************)
EXTENDS JobStates

CONSTANT Jobs

VARIABLES
    status,
    overdue    \* the rows past the stuck limit

vars == <<status, overdue>>

Init ==
    /\ status = [j \in Jobs |-> "absent"]
    /\ overdue = {}

Becomes(j, to) ==
    /\ status' = [status EXCEPT ![j] = to]
    /\ UNCHANGED overdue

Insert(j) ==
    /\ status[j] = "absent"
    /\ Becomes(j, "pending")

Transition(j) ==
    \E to \in Statuses :
        /\ ValidateTransition(status[j], to)
        /\ Becomes(j, to)

\* A project's rows go together.
Remove(S) ==
    /\ \A j \in S : status[j] \in Statuses
    /\ status' = [j \in Jobs |-> IF j \in S THEN "deleted" ELSE status[j]]
    /\ UNCHANGED overdue

\* The rows a crashed process left behind fail together at the next start.
Interrupt(S) ==
    /\ \A j \in S : status[j] \in Executing
    /\ status' = [j \in Jobs |-> IF j \in S THEN "failed" ELSE status[j]]
    /\ UNCHANGED overdue

BecomesOverdue(j) ==
    /\ status[j] \in Executing
    /\ overdue' = overdue \cup {j}
    /\ UNCHANGED status

\* The monitor fails a row that has succeeded since it looked.
MonitorOverrides(j) ==
    /\ j \in overdue
    /\ status[j] = "success"
    /\ Becomes(j, "failed")

\* The deploy of a row the monitor failed writes what was validated before.
LateWrite(j) ==
    /\ j \in overdue
    /\ status[j] = "failed"
    /\ \E from \in Executing, to \in Statuses :
          /\ ValidateTransition(from, to)
          /\ Becomes(j, to)

Next ==
    \/ \E S \in SUBSET Jobs : Remove(S) \/ Interrupt(S)
    \/ \E j \in Jobs : \/ Insert(j) \/ Transition(j) \/ BecomesOverdue(j)
                       \/ MonitorOverrides(j) \/ LateWrite(j)

Spec == Init /\ [][Next]_vars
==============================================================================
