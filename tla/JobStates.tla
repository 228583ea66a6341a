------------------------------ MODULE JobStates ------------------------------
(***************************************************************************)
(* The status vocabulary of a deploy job and its authoritative state graph *)
(* (internal/domain/enums.go, internal/queue/state_machine.go).            *)
(***************************************************************************)

\* The value of the status column of a row that exists.
Statuses == {"pending", "held", "running", "building", "health_check",
             "swapping", "hot_swapping", "success", "failed"}

\* domain.IsTerminal.
Terminal == {"success", "failed"}

\* What the scheduler counts as running RAM and the monitor can call stuck.
Executing == {"running", "building", "health_check", "swapping", "hot_swapping"}

Active == Statuses \ Terminal

allowedTransitions ==
    [pending      |-> {"held", "running", "failed"},
     held         |-> {"pending", "failed"},
     running      |-> {"building", "hot_swapping", "failed"},
     building     |-> {"health_check", "failed"},
     health_check |-> {"swapping", "failed"},
     swapping     |-> {"success", "failed"},
     hot_swapping |-> {"success", "failed"},
     success      |-> {},
     failed       |-> {}]

\* TRUE when the code returns nil. An unknown "from" is an error.
ValidateTransition(from, to) ==
    /\ from \in DOMAIN allowedTransitions
    /\ to \in allowedTransitions[from]

\* A row that was never inserted, and one removed with its project.
NoRow == {"absent", "deleted"}

RowStatuses == Statuses \cup NoRow
==============================================================================
