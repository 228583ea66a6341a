------------------------------ MODULE Scheduler ------------------------------
(***************************************************************************)
(* The scheduler goroutine (internal/scheduler/scheduler.go) with the      *)
(* monitor it calls (monitor.go). One tick is a sequence of separate       *)
(* database operations over a snapshot of the rows taken at its start:     *)
(*                                                                         *)
(*   ListActive, CheckHeld, CheckStuck, un-hold, NextPendingAny,           *)
(*   then fail | hold | start-and-spawn the job it picked.                 *)
(*                                                                         *)
(* The monitor's writes take no lock and validate nothing; the others are  *)
(* manager calls.                                                          *)
(***************************************************************************)
EXTENDS JobStore, FiniteSetsExt

CONSTANTS
    AvailableRAM,   \* the RAM budget computed by NewScheduler
    FreeLevels      \* the values MemAvailable of /proc/meminfo may take

ASSUME SchedulerAssumption ==
    /\ AvailableRAM \in Nat \ {0}
    /\ FreeLevels \subseteq Nat
    /\ FreeLevels # {}

VARIABLES
    tick,         \* where the tick is
    heldJobs,     \* snapshot: the rows that were held
    runningJobs,  \* snapshot: the rows that were executing
    fits,         \* the jobs whose estimate is at most "effective"
    todo,         \* what the current loop of the tick has left
    next          \* the pending job the tick picked, 0 for none

schedVars == <<tick, heldJobs, runningJobs, fits, todo, next>>

Ticks == {"off", "wait", "check_held", "fail_held", "fail_stuck", "unhold",
          "dispatch", "reject", "hold", "start", "spawn"}

SchedTypeOK ==
    /\ tick \in Ticks
    /\ heldJobs \subseteq Jobs
    /\ runningJobs \subseteq Jobs
    /\ fits \subseteq Jobs
    /\ todo \subseteq Jobs
    /\ next \in Jobs \cup {0}

SchedInit ==
    /\ tick = "wait"
    /\ heldJobs = {}
    /\ runningJobs = {}
    /\ fits = {}
    /\ todo = {}
    /\ next = 0

\* The tick returns: its locals are gone.
EndTick ==
    /\ tick' = "wait"
    /\ heldJobs' = {}
    /\ runningJobs' = {}
    /\ fits' = {}
    /\ todo' = {}
    /\ next' = 0

------------------------------------------------------------------------------
(* RAM accounting *)

RunningRAM == MapThenSumSet(LAMBDA j : Estimate[j],
                            {j \in Jobs : status[j] \in Executing})

min64(a, b) == IF a < b THEN a ELSE b

\* effective := min64(mem.AvailableMB, s.availableRAM - runningRAM)
Effective(free) == min64(free, AvailableRAM - RunningRAM)

IsImpossible(j) == Estimate[j] > 0 /\ Estimate[j] > AvailableRAM

------------------------------------------------------------------------------
(* The tick *)

\* Mutant: the status list of the snapshot loop misses hot_swapping.
TickStartMissesHotSwaps ==
    /\ tick = "wait"
    /\ heldJobs' = {j \in Jobs : status[j] = "held"}
    /\ runningJobs' = {j \in Jobs : status[j] \in Executing \ {"hot_swapping"}}
    /\ \E free \in FreeLevels :
          fits' = {j \in Jobs : Estimate[j] <= Effective(free)}
    /\ tick' = "check_held"
    /\ UNCHANGED <<todo, next, storeVars>>

\* ListActive and ReadMemInfo.
TickStart ==
    /\ tick = "wait"
    /\ heldJobs' = {j \in Jobs : status[j] = "held"}
    /\ runningJobs' = {j \in Jobs : status[j] \in Executing}
    /\ \E free \in FreeLevels :
          fits' = {j \in Jobs : Estimate[j] <= Effective(free)}
    /\ tick' = "check_held"
    /\ UNCHANGED <<todo, next, storeVars>>

\* Mutant: no limit on how long a row is held.
CheckHeldNoLimit ==
    /\ tick = "check_held"
    /\ todo' = {j \in heldJobs : IsImpossible(j)}
    /\ tick' = "fail_held"
    /\ UNCHANGED <<heldJobs, runningJobs, fits, next, storeVars>>

\* CheckHeld reads the clock once and selects the rows it will fail.
CheckHeld ==
    /\ tick = "check_held"
    /\ todo' = {j \in heldJobs : IsImpossible(j) \/ j \in heldLong}
    /\ tick' = "fail_held"
    /\ UNCHANGED <<heldJobs, runningJobs, fits, next, storeVars>>

\* Mutants: a status of its own for stuck jobs, and a retry of stuck jobs.
MonitorMarksStuck(j) ==
    /\ \/ UpdateRow(j, "stuck") /\ UNCHANGED <<heldLong, overdue, faults>>
       \/ WriteFails
    /\ UNCHANGED <<projectVars, call, cancelled>>

MonitorRequeues(j) ==
    /\ \/ UpdateRow(j, "pending") /\ UNCHANGED <<heldLong, overdue, faults>>
       \/ WriteFails
    /\ UNCHANGED <<projectVars, call, cancelled>>

\* UpdateJobFinished(job, failed) of the monitor: no lock, no validation.
MonitorFails(j) ==
    /\ \/ UpdateRow(j, "failed") /\ UNCHANGED <<heldLong, overdue, faults>>
       \/ WriteFails
    /\ UNCHANGED <<projectVars, call, cancelled>>

FailHeld ==
    /\ tick = "fail_held"
    /\ todo # {}
    /\ MonitorFails(Min(todo))
    /\ todo' = todo \ {Min(todo)}
    /\ UNCHANGED <<tick, heldJobs, runningJobs, fits, next>>

\* Mutant: every started row of the snapshot is taken for stuck.
CheckStuckNoLimit ==
    /\ tick = "fail_held"
    /\ todo = {}
    /\ todo' = runningJobs
    /\ tick' = "fail_stuck"
    /\ UNCHANGED <<heldJobs, runningJobs, fits, next, storeVars>>

\* CheckStuck reads the clock once and selects among the snapshot's rows.
CheckStuck ==
    /\ tick = "fail_held"
    /\ todo = {}
    /\ todo' = {j \in runningJobs : j \in overdue}
    /\ tick' = "fail_stuck"
    /\ UNCHANGED <<heldJobs, runningJobs, fits, next, storeVars>>

FailStuck ==
    /\ tick = "fail_stuck"
    /\ todo # {}
    /\ MonitorFails(Min(todo))
    /\ todo' = todo \ {Min(todo)}
    /\ UNCHANGED <<tick, heldJobs, runningJobs, fits, next>>

\* The rows to un-hold, from the same snapshot.
SelectUnhold ==
    /\ tick = "fail_stuck"
    /\ todo = {}
    /\ todo' = heldJobs \cap fits
    /\ tick' = "unhold"
    /\ heldJobs' = {}
    /\ runningJobs' = {}
    /\ UNCHANGED <<fits, next, storeVars>>

\* queue.UpdateStatus(j, pending); an error is skipped.
UnholdAcquire ==
    /\ tick = "unhold"
    /\ todo # {}
    /\ Acquire("scheduler", Min(todo), "pending")
    /\ UNCHANGED <<schedVars, jobVars, projectVars, cancelled, faults>>

UnholdCommit ==
    /\ tick = "unhold"
    /\ todo # {}
    /\ CommitOk("scheduler", Min(todo)) \/ CommitErr("scheduler", Min(todo))
    /\ todo' = todo \ {Min(todo)}
    /\ UNCHANGED <<tick, heldJobs, runningJobs, fits, next, projectVars, cancelled>>

UnholdRefused ==
    /\ tick = "unhold"
    /\ todo # {}
    /\ Refused(Min(todo), "pending")
    /\ todo' = todo \ {Min(todo)}
    /\ UNCHANGED <<tick, heldJobs, runningJobs, fits, next, storeVars>>

Pending == {j \in Jobs : status[j] = "pending"}

\* NextPendingAny: a fresh query, oldest first.
Pick ==
    /\ tick = "unhold"
    /\ todo = {}
    /\ IF Pending = {}
       THEN EndTick
       ELSE /\ next' = Min(Pending)
            /\ tick' = "dispatch"
            /\ UNCHANGED <<heldJobs, runningJobs, fits, todo>>
    /\ UNCHANGED storeVars

\* Which manager call the picked job gets: MarkFinished(failed), Hold or
\* MarkStarted.
Dispatch ==
    IF IsImpossible(next) THEN [tick |-> "reject", to |-> "failed"]
    ELSE IF next \notin fits THEN [tick |-> "hold", to |-> "held"]
    ELSE [tick |-> "start", to |-> "running"]

DispatchAcquire ==
    /\ tick = "dispatch"
    /\ Acquire("scheduler", next, Dispatch.to)
    /\ tick' = Dispatch.tick
    /\ UNCHANGED <<heldJobs, runningJobs, fits, todo, next, jobVars, projectVars,
                   cancelled, faults>>

DispatchRefused ==
    /\ tick = "dispatch"
    /\ Refused(next, Dispatch.to)
    /\ EndTick
    /\ UNCHANGED storeVars

RejectOrHoldCommit ==
    /\ tick \in {"reject", "hold"}
    /\ CommitOk("scheduler", next) \/ CommitErr("scheduler", next)
    /\ EndTick
    /\ UNCHANGED <<projectVars, cancelled>>

\* MarkStarted returned: go on to Spawn, or abort the dispatch on an error.
StartCommit ==
    /\ tick = "start"
    /\ \/ /\ CommitOk("scheduler", next)
          /\ tick' = "spawn"
          /\ UNCHANGED <<heldJobs, runningJobs, fits, todo, next>>
       \/ CommitErr("scheduler", next) /\ EndTick
    /\ UNCHANGED <<projectVars, cancelled>>

Monitoring == CheckHeld \/ FailHeld \/ CheckStuck \/ FailStuck \/ SelectUnhold

Dispatching ==
    \/ UnholdAcquire \/ UnholdCommit \/ UnholdRefused \/ Pick
    \/ DispatchAcquire \/ DispatchRefused \/ RejectOrHoldCommit \/ StartCommit
==============================================================================
