------------------------------- MODULE Trangly -------------------------------
(***************************************************************************)
(* The execution plane: API writers, the scheduler goroutine and one       *)
(* goroutine per dispatched job over the shared job rows, inside a process *)
(* that may crash or shut down at any point and is started again           *)
(* (internal/bootstrap/app.go and container.go).                           *)
(***************************************************************************)
EXTENDS Scheduler, Runner

CONSTANTS
    MaxStops    \* bound: crashes and shutdowns

ASSUME TranglyAssumption == MaxStops \in Nat

VARIABLES
    proc,    \* "up", "draining" after SIGTERM, "down"
    stops

procVars == <<proc, stops>>
vars == <<storeVars, schedVars, runnerVars, procVars>>

TypeOK ==
    /\ StoreTypeOK
    /\ SchedTypeOK
    /\ RunnerTypeOK
    /\ proc \in {"up", "draining", "down"}
    /\ stops \in 0 .. MaxStops

Init ==
    /\ StoreInit
    /\ SchedInit
    /\ RunnerInit
    /\ proc = "up"
    /\ stops = 0

------------------------------------------------------------------------------
(* Steps of a running process *)

\* The HTTP server takes requests until the shutdown signal.
ApiStep ==
    /\ proc = "up"
    /\ Api
    /\ UNCHANGED <<schedVars, runnerVars, procVars>>

\* A request in flight finishes also while draining.
CancelReturns(j) ==
    /\ CancelCommit(j)
    /\ UNCHANGED <<schedVars, runnerVars, procVars>>

\* supervisor.Spawn(next.ID, runner.Run), the last statement of the tick.
SpawnNext ==
    /\ tick = "spawn"
    /\ Spawn(next)
    /\ EndTick
    /\ UNCHANGED <<storeVars, procVars>>

\* Scheduler.Run selects between the ticker and ctx.Done, so that a tick may
\* still run after the signal.
SchedulerStep ==
    \/ /\ TickStart \/ Monitoring \/ Dispatching
       /\ UNCHANGED <<runnerVars, procVars>>
    \/ SpawnNext

StageStep(j) == Stage(j) /\ UNCHANGED <<schedVars, procVars>>

ReplyStep(j) == Reply(j) /\ UNCHANGED <<schedVars, procVars>>

------------------------------------------------------------------------------
(* The process *)

\* SIGTERM: Run stops serving and drains for at most 30 s.
Shutdown ==
    /\ proc = "up"
    /\ stops < MaxStops
    /\ proc' = "draining"
    /\ stops' = stops + 1
    /\ UNCHANGED <<storeVars, schedVars, runnerVars>>

\* The process is gone: rows, directories and containers stay; goroutines,
\* the tick and the lock do not.
Lose ==
    /\ proc' = "down"
    /\ call' = NoCall
    /\ tick' = "off"
    /\ heldJobs' = {} /\ runningJobs' = {} /\ fits' = {} /\ todo' = {}
    /\ next' = 0
    /\ pc' = [j \in Jobs |-> IF Live(j) THEN "dead"
                             ELSE IF pc[j] = "post" THEN "done" ELSE pc[j]]
    /\ UNCHANGED <<jobVars, projectVars, cancelled, faults, plan, workspaces,
                   dockerVars, historyVars>>

Crash ==
    /\ proc = "up"
    /\ stops < MaxStops
    /\ stops' = stops + 1
    /\ Lose

\* The drain ended or timed out.
Exit ==
    /\ proc = "draining"
    /\ Lose
    /\ UNCHANGED stops

\* NewContainer: NewManager recovers the rows before anything else runs.
Restart ==
    /\ proc = "down"
    /\ proc' = "up"
    /\ tick' = "wait"
    /\ \E failing \in SUBSET Jobs : RecoverInterruptedJobs(failing)
    /\ UNCHANGED <<heldLong, overdue, projectVars, call, cancelled, heldJobs,
                   runningJobs, fits, todo, next, runnerVars, stops>>

\* The row's job is between MarkStarted and Spawn.
SpawnWindow(j) == tick = "spawn" /\ next = j

HoldExpires(j) ==
    HeldTooLong(j) /\ UNCHANGED <<schedVars, runnerVars, procVars>>

\* Also while the goroutine goes on: jobTimeout is 30 min, stuckJobDuration 10.
JobOverdue(j) ==
    StartedTooLongAgo(j) /\ UNCHANGED <<schedVars, runnerVars, procVars>>

------------------------------------------------------------------------------
Next ==
    \/ ApiStep
    \/ SchedulerStep
    \/ \E j \in Jobs : \/ CancelReturns(j)
                       \/ StageStep(j)
                       \/ ReplyStep(j)
                       \/ HoldExpires(j)
                       \/ JobOverdue(j)
    \/ Shutdown
    \/ Crash
    \/ Exit
    \/ Restart

Spec == Init /\ [][Next]_vars

(***************************************************************************)
(* The ticker fires every 5 s, database calls return, time passes, the     *)
(* drain is bounded and the service is started again. Nothing is assumed   *)
(* of the stages of a deploy: a hung docker command may never return.      *)
(***************************************************************************)
Fairness ==
    /\ WF_vars(SchedulerStep)
    /\ \A j \in Jobs : /\ WF_vars(CancelReturns(j))
                       /\ WF_vars(ReplyStep(j))
                       /\ WF_vars(HoldExpires(j))
                       /\ WF_vars(JobOverdue(j))
    /\ WF_vars(Exit)
    /\ WF_vars(Restart)

FairSpec == Spec /\ Fairness
------------------------------------------------------------------------------
(* Safety *)

\* The statuses the row of a live goroutine may have if nobody else wrote it.
PhaseStatus ==
    [load |-> {"running"}, fetch |-> {"running"}, building |-> {"running"},
     hot_swapping |-> {"running"}, build |-> {"building"},
     health_check |-> {"building"}, check |-> {"health_check"},
     swapping |-> {"health_check"}, down |-> {"swapping"}, up |-> {"swapping"},
     copy |-> {"hot_swapping"}, cleanup |-> {"swapping", "hot_swapping"},
     succeed |-> {"swapping", "hot_swapping"},
     abort |-> Executing, fail |-> Executing]

\* While a deploy goroutine runs, its row shows the phase it is in, or the
\* monitor has failed the row, or the row is gone: no interleaving of
\* scheduler ticks, cancels, deletes and late manager writes makes it look
\* pending, held, succeeded or in another phase (runner.go, manager.go).
RowShowsPhase ==
    \A j \in Jobs : Live(j) => status[j] \in PhaseStatus[pc[j]]
                                             \cup {"failed", "deleted"}

\* An executing row is one some goroutine works on. The exceptions are a dead
\* process, the instant between MarkStarted and Spawn, a database write that
\* failed, and hot_swapping rows, which recoverInterruptedJobs overlooks.
OrphansExplained ==
    \A j \in Jobs :
        status[j] \in Executing /\ ~Live(j) /\ ~SpawnWindow(j)
            => \/ proc = "down"
               \/ faults > 0
               \/ status[j] = "hot_swapping"

\* A cancel that was acknowledged is final: the job never runs, whatever the
\* tick in progress had already read about it (Manager.Cancel against the
\* un-hold loop and MarkStarted).
CancelledNeverRuns ==
    \A j \in cancelled : status[j] \in {"failed", "deleted"} /\ pc[j] = "idle"

\* When the tick calls Spawn the job has no goroutine and never had one, so
\* the "already running" error that the tick would only log cannot happen and
\* no job runs twice.
SpawnsOnce == tick = "spawn" => pc[next] = "idle"

\* A row says success, and GitHub is told so, only for a job whose pipeline
\* ran to its end; on the rebuild path the health check passed too.
SuccessIsEarned ==
    \A j \in Jobs : status[j] = "success" \/ j \in posted
        => j \in deployed /\ (plan[j].mode = "rebuild" => j \in checked)

\* From the clone to the cleanup a goroutine's directory holds its own
\* checkout, whatever jobs of the same project do at the same time.
WorkspaceIsolation ==
    \A j \in Jobs :
        pc[j] \in {"building", "build", "health_check", "check", "swapping",
                   "down", "up", "hot_swapping", "copy"}
            => {w \in workspaces : w[1] = WorkspaceDir(j)} = {<<WorkspaceDir(j), j>>}

------------------------------------------------------------------------------
(* Liveness *)

\* No row stays in an executing status for ever, even if a stage hangs, the
\* process crashes or the write of the final status fails: the monitor is the
\* safety net.
ExecutingEnds ==
    \A j \in Jobs : status[j] \in Executing ~> status[j] \notin Executing

\* Every queued job is started, failed or removed; none waits for ever, held
\* or pending, behind hung deploys or a machine that is short of memory.
QueueDrains ==
    \A j \in Jobs : status[j] \in {"pending", "held"}
                        ~> status[j] \notin {"pending", "held"}

------------------------------------------------------------------------------
(* Refinement *)

Lifecycle == INSTANCE JobLifecycle
                WITH Jobs <- Jobs, status <- status, overdue <- overdue

\* All writers together, those that skip the state machine included, keep to
\* JobLifecycle: a terminal row changes only when it is past the stuck limit
\* (a success failed by the monitor, a failed row revived by the deploy that
\* goes on), and every other change is an edge of allowedTransitions
\* (state_machine.go, manager.go, monitor.go:104, queries.go).
ImplementsLifecycle == Lifecycle!Spec
==============================================================================
