-------------------------- MODULE TranglyInvariant ---------------------------
(***************************************************************************)
(* The inductive invariant behind the safety properties of Trangly: what   *)
(* the rows, the goroutines, the lock and the tick know of each other      *)
(* between any two steps.                                                  *)
(***************************************************************************)
EXTENDS Trangly

\* A job without a goroutine was not dispatched, or its dispatch was cut
\* short between MarkStarted and Spawn.
IdleRows ==
    \A j \in Jobs : pc[j] = "idle" =>
        \/ status[j] \in {"absent", "pending", "held", "failed", "deleted"}
        \/ /\ status[j] = "running"
           /\ SpawnWindow(j) \/ proc = "down" \/ faults > 0

\* A goroutine that is gone left a terminal row, or one that explains itself.
FinishedRows ==
    \A j \in Jobs : pc[j] \in {"post", "done", "dead"} =>
        \/ status[j] \in {"success", "failed", "deleted"}
        \/ /\ status[j] \in Executing
           /\ proc = "down" \/ faults > 0 \/ status[j] = "hot_swapping"

\* What the lock holder knows: its own position, and the row it read as far
\* as the writers that ignore the lock can have changed it.
LockInv ==
    /\ call.by = "runner" =>
          /\ pc[call.job] \in Calling
          /\ call.to = CallTo[pc[call.job]]
    /\ call.by = "api" =>
          /\ call.to = "failed"
          /\ pc[call.job] = "idle"
          /\ status[call.job] \in {"pending", "held", "failed", "deleted"}
    /\ call.by = "scheduler" =>
          \/ /\ tick = "unhold" /\ todo # {}
             /\ call.to = "pending"
             /\ status[call.job] \in {"held", "deleted"}
          \/ /\ tick \in {"reject", "hold", "start"}
             /\ call.job = next
             /\ call.to = [reject |-> "failed", hold |-> "held",
                           start |-> "running"][tick]
             /\ status[next] \in {"pending", "deleted"}

\* The picked job has no goroutine yet, and once the tick has locked it
\* nobody can cancel it any more.
PickInv ==
    /\ tick \in {"dispatch", "reject", "hold", "start", "spawn"} =>
          next \in Jobs /\ pc[next] = "idle"
    /\ tick = "dispatch" => status[next] \in {"pending", "failed", "deleted"}
    /\ tick \in {"reject", "hold", "start"} => call.by = "scheduler"
    /\ tick \in {"reject", "hold", "start", "spawn"} => next \notin cancelled
    /\ tick = "spawn" => status[next] \in {"running", "deleted"} /\ call.job # next

\* Nothing survives the process but the rows.
DownInv ==
    /\ tick = "off" <=> proc = "down"
    /\ proc = "down" => /\ call = NoCall
                        /\ \A j \in Jobs : pc[j] \in {"idle", "done", "dead"}

Earned(j) == j \in deployed /\ (plan[j].mode = "rebuild" => j \in checked)

\* How far a goroutine has come is what it has earned.
ProgressInv ==
    \A j \in Jobs :
        /\ pc[j] \in LivePCs \ {"load", "fail"} => plan[j] \in [slug : Slugs, mode : Modes]
        /\ pc[j] \in {"swapping", "down", "up"} => j \in checked
        /\ pc[j] \in {"hot_swapping", "copy"} => plan[j].mode = "hot_swap"
        /\ pc[j] \in {"cleanup", "succeed", "post"} => Earned(j)
        /\ status[j] = "success" => Earned(j)
        /\ j \in posted => Earned(j) /\ pc[j] = "done"

IInv ==
    /\ TypeOK
    /\ RowShowsPhase
    /\ IdleRows
    /\ FinishedRows
    /\ LockInv
    /\ PickInv
    /\ DownInv
    /\ CancelledNeverRuns
    /\ ProgressInv
    /\ WorkspaceIsolation

(***************************************************************************)
(* What the writers that ask no state machine rely on: the monitor writes  *)
(* to rows that are held, and to rows past the stuck limit.                *)
(***************************************************************************)

\* The row of a live goroutine is failed only past the stuck limit.
LiveRowsStand == \A j \in Jobs : Live(j) /\ status[j] = "failed" => j \in overdue

\* A row past the stuck limit was started: it is never dispatched again.
OverdueInv ==
    \A j \in overdue :
        /\ status[j] \in Executing \cup {"success", "failed", "deleted"}
        /\ tick \in {"dispatch", "reject", "hold", "start"} => next # j

\* What the snapshot says of held rows stays true until the un-hold loop, and
\* the loops of the monitor run over parts of the snapshot.
SnapshotInv ==
    /\ \A j \in heldJobs : status[j] \in {"held", "failed", "deleted"} /\ j \notin overdue
    /\ tick \in {"unhold", "dispatch"} => heldJobs = {}
    /\ tick = "fail_held" => todo \subseteq heldJobs
    /\ tick = "fail_stuck" => todo \subseteq overdue

LimitInv == LiveRowsStand /\ OverdueInv /\ SnapshotInv

RefinementInv == IInv /\ LimitInv
==============================================================================
