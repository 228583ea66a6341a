------------------------------- MODULE JobStore ------------------------------
(***************************************************************************)
(* The rows of the SQLite database that the execution plane shares, and    *)
(* the queue manager that guards them: internal/queue/manager.go over      *)
(* internal/infra/db/queries.go, with the API operations that write the    *)
(* same rows (DeployService.Trigger, ProjectService, Manager.Cancel).      *)
(*                                                                         *)
(* A manager call holds m.mu over GetJob, ValidateTransition and the       *)
(* UPDATE. The lock keeps the other manager calls out, and nothing else:   *)
(* the monitor, the project delete and the start-up recovery write rows    *)
(* without it. A call is therefore two steps, Acquire and Commit, and the  *)
(* variable "call" is the lock together with the validated request.        *)
(*                                                                         *)
(* Time is abstract: two sets say which rows are past the monitor's        *)
(* limits, and an environment action adds a row to them.                   *)
(***************************************************************************)
EXTENDS Integers, FiniteSets, JobStates

CONSTANTS
    MaxJobs,        \* bound: the number of jobs ever triggered
    Projects,       \* project ids
    ProjectOf,      \* the project each job is triggered for
    Estimate,       \* ram_estimate_mb of each job's row
    Slugs,          \* safeSlug(name): the Compose project names in use
    Modes,          \* the deploy modes projects are given
    CascadeDelete,  \* whether the driver enforces ON DELETE CASCADE
    MaxFaults       \* bound: how many database writes may fail

\* Jobs are numbered in queued_at order, the order of ListActiveJobs.
Jobs == 1 .. MaxJobs

ASSUME StoreAssumption ==
    /\ MaxJobs \in Nat
    /\ ProjectOf \in [Jobs -> Projects]
    /\ Estimate \in [Jobs -> Nat]
    /\ Slugs # {}
    /\ Modes # {} /\ Modes \subseteq {"rebuild", "hot_swap"}
    /\ CascadeDelete \in BOOLEAN
    /\ MaxFaults \in Nat

VARIABLES
    status,      \* deploy_jobs.status
    heldLong,    \* rows with held_at more than holdAutoFailDuration ago
    overdue,     \* rows with started_at more than stuckJobDuration ago
    project,     \* whether the projects row exists
    slug,        \* safeSlug(projects.name)
    deployMode,  \* projects.deploy_mode
    call,        \* the manager call that holds m.mu, validated but not written
    cancelled,   \* history: jobs whose DELETE /api/queue/:id was acknowledged
    faults       \* database writes that have failed so far

jobVars == <<status, heldLong, overdue>>
projectVars == <<project, slug, deployMode>>
storeVars == <<status, heldLong, overdue, project, slug, deployMode, call,
               cancelled, faults>>

Callers == {"api", "scheduler", "runner"}

NoCall == [by |-> "none", job |-> 0, to |-> "failed"]

StoreTypeOK ==
    /\ status \in [Jobs -> RowStatuses]
    /\ heldLong \subseteq Jobs
    /\ overdue \subseteq Jobs
    /\ project \in [Projects -> {"absent", "present", "deleted"}]
    /\ slug \in [Projects -> Slugs]
    /\ deployMode \in [Projects -> Modes]
    /\ call \in [by : Callers, job : Jobs, to : Statuses] \cup {NoCall}
    /\ cancelled \subseteq Jobs
    /\ faults \in 0 .. MaxFaults

StoreInit ==
    /\ status = [j \in Jobs |-> "absent"]
    /\ heldLong = {}
    /\ overdue = {}
    /\ project = [p \in Projects |-> "absent"]
    /\ slug \in [Projects -> Slugs]
    /\ deployMode \in [Projects -> Modes]
    /\ call = NoCall
    /\ cancelled = {}
    /\ faults = 0

------------------------------------------------------------------------------
(* Row access *)

RowExists(j) == status[j] \in Statuses

\* UPDATE deploy_jobs SET status = s WHERE id = j: matches no row once the
\* row is gone, which is not an error.
UpdateRow(j, s) ==
    status' = IF RowExists(j) THEN [status EXCEPT ![j] = s] ELSE status

\* UpdateJobHeld also writes held_at, so the hold clock starts again.
ResetHeldAt(j, s) ==
    heldLong' = IF s = "held" THEN heldLong \ {j} ELSE heldLong

\* A write that returns an error changes no row.
WriteFails ==
    /\ faults < MaxFaults
    /\ faults' = faults + 1
    /\ UNCHANGED jobVars

------------------------------------------------------------------------------
(* One call of the queue manager *)

\* Mutant: the call writes whatever it was asked for.
AcquireUnvalidated(by, j, to) ==
    /\ call = NoCall
    /\ RowExists(j)
    /\ call' = [by |-> by, job |-> j, to |-> to]

\* Lock, GetJob, ValidateTransition: accepted.
Acquire(by, j, to) ==
    /\ call = NoCall
    /\ RowExists(j)
    /\ ValidateTransition(status[j], to)
    /\ call' = [by |-> by, job |-> j, to |-> to]

\* Lock, GetJob, ValidateTransition: refused, the call returns an error.
Refused(j, to) ==
    /\ call = NoCall
    /\ ~(RowExists(j) /\ ValidateTransition(status[j], to))

\* The UPDATE of UpdateStatus, Hold, MarkStarted, MarkFinished and Cancel.
CommitOk(by, j) ==
    /\ call.by = by
    /\ call.job = j
    /\ UpdateRow(j, call.to)
    /\ ResetHeldAt(j, call.to)
    /\ call' = NoCall
    /\ UNCHANGED <<overdue, faults>>

CommitErr(by, j) ==
    /\ call.by = by
    /\ call.job = j
    /\ WriteFails
    /\ call' = NoCall

------------------------------------------------------------------------------
(* API operations *)

\* DeployService.Trigger checks that the project exists and then inserts.
\* Without foreign keys a request that passed the check still inserts after
\* the project is deleted.
Trigger(j) ==
    /\ \A k \in Jobs : k >= j => status[k] = "absent"
    /\ \/ project[ProjectOf[j]] = "present"
       \/ ~CascadeDelete /\ project[ProjectOf[j]] = "deleted"
    /\ status' = [status EXCEPT ![j] = "pending"]
    /\ UNCHANGED <<heldLong, overdue, projectVars, call, cancelled, faults>>

CancelAcquire(j) ==
    /\ status[j] \in {"pending", "held"}
    /\ Acquire("api", j, "failed")
    /\ UNCHANGED <<jobVars, projectVars, cancelled, faults>>

CancelCommit(j) ==
    /\ \/ CommitOk("api", j) /\ cancelled' = cancelled \cup {j}
       \/ CommitErr("api", j) /\ UNCHANGED cancelled
    /\ UNCHANGED projectVars

CreateProject(p, s, m) ==
    /\ project[p] = "absent"
    /\ project' = [project EXCEPT ![p] = "present"]
    /\ slug' = [slug EXCEPT ![p] = s]
    /\ deployMode' = [deployMode EXCEPT ![p] = m]
    /\ UNCHANGED <<jobVars, call, cancelled, faults>>

UpdateProject(p, s, m) ==
    /\ project[p] = "present"
    /\ slug' = [slug EXCEPT ![p] = s]
    /\ deployMode' = [deployMode EXCEPT ![p] = m]
    /\ UNCHANGED <<jobVars, project, call, cancelled, faults>>

\* DELETE FROM projects, with or without its job rows.
DeleteProject(p) ==
    /\ project[p] = "present"
    /\ project' = [project EXCEPT ![p] = "deleted"]
    /\ status' = [j \in Jobs |->
                    IF CascadeDelete /\ ProjectOf[j] = p /\ RowExists(j)
                    THEN "deleted" ELSE status[j]]
    /\ UNCHANGED <<heldLong, overdue, slug, deployMode, call, cancelled, faults>>

Api ==
    \/ \E j \in Jobs : Trigger(j) \/ CancelAcquire(j)
    \/ \E p \in Projects :
          \/ DeleteProject(p)
          \/ \E s \in Slugs, m \in Modes :
                CreateProject(p, s, m) \/ UpdateProject(p, s, m)

------------------------------------------------------------------------------
(* Start-up *)

\* Mutant: a status of the switch is missed.
InterruptedNoSwap == {"running", "building", "health_check"}

\* The statuses recoverInterruptedJobs resets.
Interrupted == {"running", "building", "health_check", "swapping"}

\* Every interrupted row is failed; a row whose write fails is only logged.
RecoverInterruptedJobs(failing) ==
    LET rows == {j \in Jobs : status[j] \in Interrupted} IN
    /\ failing \subseteq rows
    /\ faults + Cardinality(failing) <= MaxFaults
    /\ faults' = faults + Cardinality(failing)
    /\ status' = [j \in Jobs |-> IF j \in rows \ failing THEN "failed"
                                 ELSE status[j]]

------------------------------------------------------------------------------
(* Environment: time passes *)

HeldTooLong(j) ==
    /\ status[j] = "held"
    /\ j \notin heldLong
    /\ heldLong' = heldLong \cup {j}
    /\ UNCHANGED <<status, overdue, projectVars, call, cancelled, faults>>

StartedTooLongAgo(j) ==
    /\ status[j] \in Executing
    /\ j \notin overdue
    /\ overdue' = overdue \cup {j}
    /\ UNCHANGED <<status, heldLong, projectVars, call, cancelled, faults>>
==============================================================================
