--------------------------- MODULE LifecycleProofs ---------------------------
(***************************************************************************)
(* Trangly implements JobLifecycle: for any number of jobs, crashes and    *)
(* failed writes, and however long deploys run, all the writers of the     *)
(* rows together take only its steps. What the writers that skip the       *)
(* validation rely on is LimitInv.                                         *)
(***************************************************************************)
EXTENDS TranglyProofs

LifecycleStep == Lifecycle!Next \/ UNCHANGED <<status, overdue>>

\* What JobLifecycle allows past the stuck limit.
LateFail(j, s) == j \in overdue /\ status[j] = "success" /\ s = "failed"

LateRevival(j, s) ==
    /\ j \in overdue /\ status[j] = "failed"
    /\ \E from \in Executing : ValidateTransition(from, s)

\* A write of the row of job j is one edge of the state graph, or none, or it
\* is late.
LegalWrite(j, s) ==
    status[j] \in Statuses => \/ ValidateTransition(status[j], s)
                              \/ status[j] = s
                              \/ LateFail(j, s)
                              \/ LateRevival(j, s)

(* The abstract graph is the code's. *)
LEMMA SameGraph ==
  /\ Lifecycle!Statuses = Statuses /\ Lifecycle!Executing = Executing
  /\ \A from, to : Lifecycle!ValidateTransition(from, to) <=> ValidateTransition(from, to)
BY DEF Lifecycle!Statuses, Statuses, Lifecycle!Executing, Executing,
   Lifecycle!ValidateTransition, ValidateTransition, Lifecycle!allowedTransitions,
   allowedTransitions

(* The UPDATE of one row is a step of the lifecycle. *)
LEMMA LegalWriteIsStep ==
  ASSUME TypeOK, NEW j \in Jobs, NEW s \in Statuses, UpdateRow(j, s), LegalWrite(j, s),
         UNCHANGED overdue
  PROVE  LifecycleStep
<1>0. status \in [Jobs -> RowStatuses]
  BY TypesOfState
<1>1. CASE status' = status
  BY <1>1 DEF LifecycleStep
<1>2. CASE status' # status
  <2>1. status[j] \in Statuses /\ status' = [status EXCEPT ![j] = s] /\ status[j] # s
    BY <1>0, <1>2 DEF UpdateRow, RowExists
  <2>2. Lifecycle!Becomes(j, s)
    BY <2>1 DEF Lifecycle!Becomes
  <2>3. CASE ValidateTransition(status[j], s)
    <3>1. Lifecycle!Transition(j)
      BY <2>2, <2>3, SameGraph DEF Lifecycle!Transition
    <3> QED BY <3>1 DEF LifecycleStep, Lifecycle!Next
  <2>4. CASE LateFail(j, s)
    <3>1. Lifecycle!MonitorOverrides(j)
      BY <2>2, <2>4 DEF LateFail, Lifecycle!MonitorOverrides
    <3> QED BY <3>1 DEF LifecycleStep, Lifecycle!Next
  <2>5. CASE LateRevival(j, s)
    <3>1. Lifecycle!LateWrite(j)
      BY <2>2, <2>5, SameGraph DEF LateRevival, Lifecycle!LateWrite
    <3> QED BY <3>1 DEF LifecycleStep, Lifecycle!Next
  <2> QED BY <2>1, <2>3, <2>4, <2>5 DEF LegalWrite
<1> QED BY <1>1, <1>2

(* What one UPDATE does to LimitInv when the goroutines, the tick and the  *)
(* overdue rows stay as they are.                                          *)
LEMMA UpdateKeepsRows ==
  ASSUME TypeOK, NEW j \in Jobs, NEW s \in Statuses, UpdateRow(j, s)
  PROVE  /\ \A k \in Jobs : k # j => status'[k] = status[k]
         /\ status'[j] \in {status[j], s}
         /\ status[j] \in NoRow => status'[j] = status[j]
<1>0. status \in [Jobs -> RowStatuses]
  BY TypesOfState
<1> QED BY <1>0 DEF UpdateRow, RowExists, NoRow, Statuses

(* The write that the lock holder is about to make is legal, although the  *)
(* row may have changed since it was validated.                            *)
LEMMA CallIsLegal ==
  ASSUME IInv, LiveRowsStand, NEW by \in Callers, NEW j \in Jobs, CommitOk(by, j)
  PROVE  /\ call.to \in Statuses
         /\ LegalWrite(j, call.to)
<1>1. /\ call \in [by : Callers, job : Jobs, to : Statuses]
      /\ call.by = by /\ call.job = j
  BY TypesOfState DEF IInv, CommitOk, Callers, NoCall
<1>2. CASE by = "api"
  BY <1>1, <1>2 DEF IInv, LockInv, LegalWrite, ValidateTransition, allowedTransitions,
     Statuses
<1>3. CASE by = "scheduler"
  BY <1>1, <1>3 DEF IInv, LockInv, LegalWrite, ValidateTransition, allowedTransitions,
     Statuses
<1>4. CASE by = "runner"
  <2>1. pc[j] \in Calling /\ call.to = CallTo[pc[j]] /\ Live(j)
    BY <1>1, <1>4 DEF IInv, LockInv, Live, LivePCs
  <2>2. \/ status[j] \in PhaseStatus[pc[j]] \cup {"deleted"}
        \/ status[j] = "failed" /\ j \in overdue
    BY <2>1 DEF IInv, RowShowsPhase, LiveRowsStand
  <2>3. pc[j] \in {"building", "health_check", "swapping", "hot_swapping", "succeed",
                   "fail"}
    BY <2>1 DEF Calling, CallTo
  <2>4. LegalWrite(j, call.to)
    <3>1. CASE status[j] \in PhaseStatus[pc[j]] \cup {"deleted"}
      BY <2>1, <2>3, <3>1 DEF LegalWrite, PhaseStatus, CallTo, Executing,
         ValidateTransition, allowedTransitions, Statuses
    <3>2. CASE status[j] = "failed" /\ j \in overdue
      <4>1. \E from \in Executing : ValidateTransition(from, call.to)
        BY <2>1, <2>3 DEF CallTo, Executing, ValidateTransition, allowedTransitions
      <4> QED BY <3>2, <4>1 DEF LegalWrite, LateRevival
    <3> QED BY <2>2, <3>1, <3>2
  <2> QED BY <1>1, <2>4
<1> QED BY <1>1, <1>2, <1>3, <1>4 DEF Callers

------------------------------------------------------------------------------
(* Every step keeps LimitInv and is a step of the lifecycle. *)

LEMMA ApiRefines ==
  ASSUME IInv, LimitInv, ApiStep
  PROVE  LimitInv' /\ LifecycleStep
<1> USE DEF IInv, LimitInv
<1>0. UNCHANGED <<schedVars, runnerVars, procVars>>
  BY DEF ApiStep
<1>t. status \in [Jobs -> RowStatuses]
  BY TypesOfState
<1>1. ASSUME NEW j \in Jobs, Trigger(j)
      PROVE  LimitInv' /\ LifecycleStep
  <2>1. status[j] = "absent" /\ status' = [status EXCEPT ![j] = "pending"]
        /\ UNCHANGED overdue
    BY <1>1, <1>t, StoreAssumption DEF Trigger, Jobs
  <2>2. Lifecycle!Insert(j)
    BY <2>1 DEF Lifecycle!Insert, Lifecycle!Becomes
  <2>3. \A k \in Jobs : k # j => status'[k] = status[k]
    BY <2>1, <1>t
  <2>4. LiveRowsStand'
    BY <1>0, <1>t, <2>1 DEF LiveRowsStand, Live, runnerVars
  <2>5. OverdueInv'
    BY <1>0, <1>t, <2>1, <2>3 DEF OverdueInv, Live, runnerVars, schedVars, Executing,
       TypeOK, StoreTypeOK
  <2>6. SnapshotInv'
    BY <1>0, <1>t, <2>1, <2>3 DEF SnapshotInv, schedVars, TypeOK, SchedTypeOK
  <2> QED BY <2>2, <2>4, <2>5, <2>6 DEF Lifecycle!Next, LifecycleStep
<1>2. ASSUME NEW p \in Projects, DeleteProject(p)
      PROVE  LimitInv' /\ LifecycleStep
  <2> DEFINE S == {j \in Jobs : CascadeDelete /\ ProjectOf[j] = p /\ RowExists(j)}
  <2>1. /\ status' = [j \in Jobs |-> IF j \in S THEN "deleted" ELSE status[j]]
        /\ UNCHANGED overdue
    BY <1>2 DEF DeleteProject
  <2>2. S \in SUBSET Jobs /\ \A j \in S : status[j] \in Statuses
    BY DEF RowExists
  <2>3. Lifecycle!Remove(S)
    BY <2>1, <2>2 DEF Lifecycle!Remove, Lifecycle!Statuses, Statuses
  <2>4. \A k \in Jobs : status'[k] \in {status[k], "deleted"}
    BY <2>1
  <2> HIDE DEF S
  <2>5. LiveRowsStand'
    BY <1>0, <2>1, <2>4 DEF LiveRowsStand, Live, runnerVars
  <2>6. OverdueInv'
    BY <1>0, <2>1, <2>4 DEF OverdueInv, Live, runnerVars, schedVars, TypeOK, StoreTypeOK
  <2>7. SnapshotInv'
    BY <1>0, <2>1, <2>4 DEF SnapshotInv, schedVars, TypeOK, SchedTypeOK
  <2> QED BY <2>2, <2>3, <2>5, <2>6, <2>7 DEF Lifecycle!Next, LifecycleStep
<1>3. ASSUME UNCHANGED jobVars
      PROVE  LimitInv' /\ LifecycleStep
  BY <1>0, <1>3 DEF jobVars, schedVars, runnerVars, LiveRowsStand, Live, OverdueInv,
     SnapshotInv, LifecycleStep
<1>4. ASSUME NEW j \in Jobs, CancelAcquire(j)
      PROVE  UNCHANGED jobVars
  BY <1>4 DEF CancelAcquire
<1>5. ASSUME NEW p \in Projects, NEW s \in Slugs, NEW m \in Modes,
             CreateProject(p, s, m) \/ UpdateProject(p, s, m)
      PROVE  UNCHANGED jobVars
  BY <1>5 DEF CreateProject, UpdateProject
<1> QED BY <1>1, <1>2, <1>3, <1>4, <1>5 DEF ApiStep, Api

(* A write of the monitor: to a row that is held or abandoned. *)
LEMMA MonitorRefines ==
  ASSUME IInv, LimitInv, FailHeld \/ FailStuck, UNCHANGED runnerVars
  PROVE  LimitInv' /\ LifecycleStep
<1> USE DEF IInv, LimitInv
<1>t. status \in [Jobs -> RowStatuses] /\ todo \subseteq Jobs /\ heldJobs \subseteq Jobs
      /\ overdue \subseteq Jobs
  BY TypesOfState DEF TypeOK, StoreTypeOK
<1> DEFINE j == Min(todo)
<1>1. /\ tick \in {"fail_held", "fail_stuck"}
      /\ todo # {} /\ MonitorFails(j) /\ todo' = todo \ {j}
      /\ UNCHANGED <<tick, heldJobs, next>>
  BY DEF FailHeld, FailStuck
<1>2. j \in todo /\ j \in Jobs
  BY <1>1, <1>t, MinOfJobs
<1>3. \/ status[j] \in {"held", "failed", "deleted"} \cup Executing
      \/ status[j] = "success" /\ j \in overdue
  BY <1>1, <1>2 DEF SnapshotInv, OverdueInv
<1>4. Live(j) => j \in overdue \/ status[j] = "deleted"
  <2>1. CASE tick = "fail_stuck"
    BY <1>1, <1>2, <2>1 DEF SnapshotInv
  <2>2. CASE tick = "fail_held"
    <3>1. status[j] \in {"held", "failed", "deleted"}
      BY <1>1, <1>2, <2>2 DEF SnapshotInv
    <3> HIDE DEF j
    <3>2. Live(j) => status[j] # "held"
      BY <1>2 DEF RowShowsPhase, Live, LivePCs, Stages, Calling, CallTo, PhaseStatus,
         Executing
    <3> QED BY <1>2, <3>1, <3>2 DEF LiveRowsStand
  <2> QED BY <1>1, <2>1, <2>2
<1> HIDE DEF j
<1>5. CASE UNCHANGED jobVars
  BY <1>1, <1>5 DEF jobVars, runnerVars, LiveRowsStand, Live, OverdueInv, SnapshotInv,
     LifecycleStep
<1>6. CASE UpdateRow(j, "failed") /\ UNCHANGED <<heldLong, overdue, faults>>
  <2>1. LegalWrite(j, "failed")
    BY <1>3 DEF LegalWrite, LateFail, ValidateTransition, allowedTransitions, Executing,
       Statuses
  <2>2. LifecycleStep
    BY <1>2, <1>6, <2>1, LegalWriteIsStep DEF Statuses
  <2>3. /\ \A k \in Jobs : k # j => status'[k] = status[k]
        /\ status'[j] \in {status[j], "failed"}
        /\ status[j] = "deleted" => status'[j] = "deleted"
    BY <1>2, <1>6, UpdateKeepsRows DEF Statuses, NoRow
  <2>4. LiveRowsStand'
    BY <1>4, <1>6, <2>3 DEF LiveRowsStand, Live, runnerVars
  <2>5. OverdueInv'
    BY <1>1, <1>6, <1>t, <2>3 DEF OverdueInv, Live, runnerVars
  <2>6. SnapshotInv'
    BY <1>1, <1>6, <1>t, <2>3 DEF SnapshotInv
  <2> QED BY <2>2, <2>4, <2>5, <2>6
<1> QED BY <1>1, <1>5, <1>6 DEF MonitorFails, WriteFails

(* A tick that writes no row: the snapshot, its selections, the pick and   *)
(* the calls that are refused or only validated.                           *)
LEMMA TickReadsRefine ==
  ASSUME IInv, LimitInv, UNCHANGED <<jobVars, runnerVars>>,
         \/ TickStart \/ CheckHeld \/ CheckStuck \/ SelectUnhold
         \/ UnholdAcquire \/ UnholdRefused \/ Pick \/ DispatchAcquire \/ DispatchRefused
  PROVE  LimitInv' /\ LifecycleStep
<1> USE DEF IInv, LimitInv
<1>0. UNCHANGED <<status, overdue, pc>>
  BY DEF jobVars, runnerVars
<1>1. LiveRowsStand'
  BY <1>0 DEF LiveRowsStand, Live
<1>2. ASSUME NEW j \in overdue
      PROVE  status[j] \in Executing \cup {"success", "failed", "deleted"}
  BY <1>2 DEF OverdueInv
<1>s. LifecycleStep
  BY <1>0 DEF LifecycleStep
<1>3. CASE TickStart
  BY <1>0, <1>1, <1>s, <1>2, <1>3 DEF TickStart, OverdueInv, SnapshotInv, Executing
<1>4. CASE CheckHeld \/ CheckStuck \/ SelectUnhold
  BY <1>0, <1>1, <1>s, <1>4 DEF CheckHeld, CheckStuck, SelectUnhold, OverdueInv,
     SnapshotInv, Live
<1>5. CASE UnholdAcquire \/ UnholdRefused
  BY <1>0, <1>1, <1>s, <1>5 DEF UnholdAcquire, UnholdRefused, schedVars, OverdueInv,
     SnapshotInv, Live
<1>6. CASE Pick
  <2>1. CASE Pending = {}
    BY <1>0, <1>1, <1>s, <1>6, <2>1 DEF Pick, EndTick, OverdueInv, SnapshotInv, Live
  <2>2. CASE Pending # {}
    <3>1. /\ tick = "unhold" /\ tick' = "dispatch" /\ next' = Min(Pending)
          /\ UNCHANGED <<heldJobs, todo>>
      BY <1>6, <2>2 DEF Pick
    <3>2. status[next'] = "pending"
      BY <3>1, <2>2, PickedIsPending
    <3>3. OverdueInv'
      BY <1>0, <1>2, <3>2 DEF OverdueInv, Live, Executing
    <3>4. SnapshotInv'
      BY <1>0, <3>1 DEF SnapshotInv
    <3> QED BY <1>0, <1>1, <1>s, <3>3, <3>4
  <2> QED BY <2>1, <2>2
<1>7. CASE DispatchAcquire
  <2>1. tick = "dispatch" /\ tick' \in {"reject", "hold", "start"}
        /\ UNCHANGED <<heldJobs, todo, next>>
    BY <1>7 DEF DispatchAcquire, Dispatch
  <2> QED BY <1>0, <1>1, <1>s, <2>1 DEF OverdueInv, SnapshotInv, Live
<1>8. CASE DispatchRefused
  BY <1>0, <1>1, <1>s, <1>8 DEF DispatchRefused, EndTick, OverdueInv, SnapshotInv, Live
<1> QED BY <1>3, <1>4, <1>5, <1>6, <1>7, <1>8

(* A manager call writes: a step of the lifecycle, on the locked row only. *)
LEMMA CommitRefines ==
  ASSUME IInv, LiveRowsStand, NEW by \in Callers, NEW j \in Jobs, CommitOk(by, j)
  PROVE  /\ LifecycleStep
         /\ call.by = by /\ call.job = j
         /\ \A k \in Jobs : k # j => status'[k] = status[k]
         /\ status'[j] \in {status[j], call.to}
         /\ status[j] = "deleted" => status'[j] = "deleted"
         /\ UNCHANGED overdue
<1>1. /\ call.to \in Statuses /\ LegalWrite(j, call.to) /\ TypeOK
      /\ call.by = by /\ call.job = j
      /\ UpdateRow(j, call.to) /\ UNCHANGED overdue
  BY CallIsLegal DEF IInv, CommitOk
<1> QED BY <1>1, LegalWriteIsStep, UpdateKeepsRows DEF NoRow

LEMMA TickCommitsRefine ==
  ASSUME IInv, LimitInv, UNCHANGED runnerVars,
         UnholdCommit \/ RejectOrHoldCommit \/ StartCommit
  PROVE  LimitInv' /\ LifecycleStep
<1> USE DEF IInv, LimitInv
<1>0. UNCHANGED pc /\ heldJobs \subseteq Jobs /\ todo \subseteq Jobs
      /\ overdue \subseteq Jobs
  BY TypesOfState DEF runnerVars, TypeOK, StoreTypeOK
<1>1. CASE UnholdCommit
  <2> DEFINE j == Min(todo)
  <2>1. /\ tick = "unhold" /\ todo # {} /\ j \in Jobs
        /\ UNCHANGED <<tick, heldJobs, next>>
    BY <1>0, <1>1, MinOfJobs DEF UnholdCommit
  <2>2. CommitOk("scheduler", j) \/ CommitErr("scheduler", j)
    BY <1>1 DEF UnholdCommit
  <2> HIDE DEF j
  <2>3. CASE CommitErr("scheduler", j)
    BY <1>0, <2>1, <2>3 DEF CommitErr, WriteFails, jobVars, LiveRowsStand, Live,
       OverdueInv, SnapshotInv, LifecycleStep
  <2>4. CASE CommitOk("scheduler", j)
    <3>1. /\ call.to = "pending" /\ status[j] \in {"held", "deleted"}
          /\ LifecycleStep
          /\ \A k \in Jobs : k # j => status'[k] = status[k]
          /\ status'[j] \in {status[j], "pending"}
          /\ status[j] = "deleted" => status'[j] = "deleted"
          /\ UNCHANGED overdue
      BY <2>1, <2>4, CommitRefines DEF LockInv, Callers
    <3>2. LiveRowsStand'
      BY <1>0, <3>1 DEF LiveRowsStand, Live
    <3>3. OverdueInv'
      BY <1>0, <2>1, <3>1 DEF OverdueInv, Live, Executing
    <3>4. SnapshotInv'
      BY <2>1 DEF SnapshotInv
    <3> QED BY <3>1, <3>2, <3>3, <3>4
  <2> QED BY <2>2, <2>3, <2>4
<1>2. CASE RejectOrHoldCommit \/ StartCommit
  <2>1. /\ tick \in {"reject", "hold", "start"} /\ next \in Jobs /\ pc[next] = "idle"
        /\ next \notin overdue
        /\ CommitOk("scheduler", next) \/ CommitErr("scheduler", next)
        /\ \/ EndTick
           \/ /\ tick' = "spawn"
              /\ UNCHANGED <<heldJobs, todo, next>>
    BY <1>2 DEF RejectOrHoldCommit, StartCommit, PickInv, OverdueInv
  <2>2. CASE CommitErr("scheduler", next)
    <3>1. /\ UNCHANGED jobVars
          /\ \/ EndTick
             \/ /\ tick' = "spawn"
                /\ UNCHANGED <<heldJobs, todo, next>>
      BY <2>1, <2>2 DEF CommitErr, WriteFails
    <3> QED BY <1>0, <2>1, <3>1 DEF EndTick, jobVars, LiveRowsStand, Live, OverdueInv,
            SnapshotInv, LifecycleStep
  <2>3. CASE CommitOk("scheduler", next)
    <3>1. /\ status[next] \in {"pending", "deleted"}
          /\ LifecycleStep
          /\ \A k \in Jobs : k # next => status'[k] = status[k]
          /\ status[next] = "deleted" => status'[next] = "deleted"
          /\ UNCHANGED overdue
      BY <2>1, <2>3, CommitRefines DEF LockInv, PickInv, Callers
    <3>2. LiveRowsStand'
      BY <1>0, <2>1, <3>1 DEF LiveRowsStand, Live, LivePCs, Stages, Calling, CallTo
    <3>3. OverdueInv'
      BY <1>0, <2>1, <3>1 DEF EndTick, OverdueInv, Live
    <3>4. SnapshotInv'
      <4>1. \A j \in heldJobs : status'[j] \in {"held", "failed", "deleted"}
        BY <1>0, <3>1 DEF SnapshotInv
      <4>2. tick' \in {"wait", "spawn"} /\ (heldJobs' = {} \/ heldJobs' = heldJobs)
        BY <2>1 DEF EndTick
      <4> QED BY <3>1, <4>1, <4>2 DEF SnapshotInv
    <3> QED BY <3>1, <3>2, <3>3, <3>4
  <2> QED BY <2>1, <2>2, <2>3
<1> QED BY <1>1, <1>2

LEMMA SpawnRefines ==
  ASSUME IInv, LimitInv, SpawnNext
  PROVE  LimitInv' /\ LifecycleStep
<1> USE DEF IInv, LimitInv
<1>1. /\ tick = "spawn" /\ next \in Jobs /\ status[next] \in {"running", "deleted"}
      /\ UNCHANGED <<status, overdue>>
      /\ tick' = "wait" /\ heldJobs' = {} /\ todo' = {}
      /\ \A k \in Jobs : k # next => pc'[k] = pc[k]
  BY TypesOfState
     DEF SpawnNext, Spawn, Goto, EndTick, storeVars, PickInv, OverdueInv
<1>2. LiveRowsStand'
  BY <1>1 DEF LiveRowsStand, Live
<1>3. OverdueInv'
  BY <1>1 DEF OverdueInv, Live, TypeOK, StoreTypeOK
<1>4. SnapshotInv'
  BY <1>1 DEF SnapshotInv
<1> QED BY <1>1, <1>2, <1>3, <1>4 DEF LifecycleStep

(* The goroutine of a job writes its row only in manager calls, and only a *)
(* job that is live goes on.                                               *)
LEMMA StageRefines ==
  ASSUME IInv, LimitInv, NEW j \in Jobs, StageStep(j)
  PROVE  LimitInv' /\ LifecycleStep
<1> USE DEF IInv, LimitInv
<1>1. Stage(j) /\ UNCHANGED schedVars
  BY DEF StageStep
<1>2. UNCHANGED <<status, overdue>> /\ \A k \in Jobs : k # j => pc'[k] = pc[k]
  <2>1. pc \in [Jobs -> PCs]
    BY TypesOfState
  <2>2. CASE Load(j) \/ Fetch(j) \/ Build(j) \/ HealthCheck(j) \/ SwapDown(j)
    BY <2>1, <2>2 DEF Load, Fetch, Build, HealthCheck, SwapDown, Goto, storeVars
  <2>3. CASE SwapUp(j) \/ HotSwap(j) \/ Cleanup(j) \/ SetCommitStatus(j)
    BY <2>1, <2>3 DEF SwapUp, HotSwap, Cleanup, SetCommitStatus, Goto, storeVars
  <2>4. CASE Request(j)
    BY <2>1, <2>4 DEF Request, Goto, storeVars, jobVars
  <2> QED BY <1>1, <2>2, <2>3, <2>4 DEF Stage
<1>3. pc[j] \in LivePCs \/ pc'[j] \notin LivePCs
  <2>1. CASE SetCommitStatus(j)
    <3>1. pc'[j] = "done"
      BY <2>1, TypesOfState DEF SetCommitStatus, Goto
    <3> QED BY <3>1 DEF LivePCs, Stages, Calling, CallTo
  <2>2. CASE Load(j) \/ Fetch(j) \/ Build(j) \/ HealthCheck(j) \/ SwapDown(j)
             \/ SwapUp(j) \/ HotSwap(j) \/ Cleanup(j) \/ Request(j)
    BY <2>2 DEF Load, Fetch, Build, HealthCheck, SwapDown, SwapUp, HotSwap, Cleanup,
       Request, LivePCs, Stages
  <2> QED BY <1>1, <2>1, <2>2 DEF Stage
<1>4. LiveRowsStand'
  BY <1>2, <1>3 DEF LiveRowsStand, Live
<1>5. OverdueInv'
  BY <1>1, <1>2, <1>3 DEF OverdueInv, Live, schedVars, TypeOK, StoreTypeOK
<1>6. SnapshotInv'
  BY <1>1, <1>2 DEF SnapshotInv, schedVars
<1> QED BY <1>2, <1>4, <1>5, <1>6 DEF LifecycleStep

LEMMA ReplyRefines ==
  ASSUME IInv, LimitInv, NEW j \in Jobs, ReplyStep(j)
  PROVE  LimitInv' /\ LifecycleStep
<1> USE DEF IInv, LimitInv
<1>1. /\ pc[j] \in Calling /\ Live(j)
      /\ UNCHANGED schedVars
      /\ \/ CommitOk("runner", j) /\ Goto(j, CallOk[pc[j]])
         \/ CommitErr("runner", j) /\ Goto(j, CallErr[pc[j]])
  BY DEF ReplyStep, Reply, Live, LivePCs, OverdueInv
<1>2. \A k \in Jobs : k # j => pc'[k] = pc[k]
  BY <1>1, TypesOfState DEF Goto
<1>3. heldJobs \subseteq Jobs /\ overdue \subseteq Jobs /\ todo \subseteq Jobs
  BY TypesOfState DEF TypeOK, StoreTypeOK
<1>4. CASE CommitErr("runner", j)
  <2>1. UNCHANGED <<status, overdue>>
    BY <1>4 DEF CommitErr, WriteFails, jobVars
  <2>2. LiveRowsStand'
    BY <1>1, <1>2, <2>1 DEF LiveRowsStand, Live
  <2>3. OverdueInv'
    BY <1>1, <1>2, <1>3, <2>1 DEF OverdueInv, Live, schedVars
  <2>4. SnapshotInv'
    BY <1>1, <2>1 DEF SnapshotInv, schedVars
  <2> QED BY <2>1, <2>2, <2>3, <2>4 DEF LifecycleStep
<1>5. CASE CommitOk("runner", j)
  <2>1. /\ LifecycleStep
        /\ call.to = CallTo[pc[j]]
        /\ \A k \in Jobs : k # j => status'[k] = status[k]
        /\ status'[j] \in {status[j], call.to}
        /\ status[j] = "deleted" => status'[j] = "deleted"
        /\ UNCHANGED overdue
    BY <1>5, CommitRefines DEF LockInv, Callers
  <2>2. pc'[j] \in {CallOk[pc[j]], CallErr[pc[j]]}
    BY <1>1, TypesOfState DEF Goto
  <2>3. LiveRowsStand'
    <3>1. Live(j)' /\ status'[j] = "failed" => j \in overdue
      BY <1>1, <2>1, <2>2 DEF LiveRowsStand, Live, LivePCs, Stages, Calling, CallTo,
         CallOk, CallErr
    <3> QED BY <1>2, <2>1, <3>1 DEF LiveRowsStand, Live
  <2>4. OverdueInv'
    <3>1. call.to \in Executing \cup {"success", "failed"}
      BY <1>1, <2>1 DEF Calling, CallTo, Executing
    <3> QED BY <1>1, <1>3, <2>1, <3>1 DEF OverdueInv, schedVars
  <2>5. SnapshotInv'
    <3>1. j \in heldJobs => status[j] = "deleted"
      <4>1. status[j] # "held" /\ (status[j] = "failed" => j \in overdue)
        BY <1>1 DEF RowShowsPhase, LiveRowsStand, Live, LivePCs, Stages, Calling, CallTo,
           PhaseStatus, Executing
      <4> QED BY <4>1 DEF SnapshotInv
    <3> QED BY <1>1, <1>3, <2>1, <3>1 DEF SnapshotInv, schedVars
  <2> QED BY <2>1, <2>3, <2>4, <2>5
<1> QED BY <1>1, <1>4, <1>5

LEMMA CancelRefines ==
  ASSUME IInv, LimitInv, NEW j \in Jobs, CancelReturns(j)
  PROVE  LimitInv' /\ LifecycleStep
<1> USE DEF IInv, LimitInv
<1>1. /\ UNCHANGED <<schedVars, pc>>
      /\ CommitOk("api", j) \/ CommitErr("api", j)
  BY DEF CancelReturns, CancelCommit, runnerVars
<1>2. heldJobs \subseteq Jobs /\ overdue \subseteq Jobs
  BY TypesOfState DEF TypeOK, StoreTypeOK
<1>3. CASE CommitErr("api", j)
  BY <1>1, <1>3 DEF CommitErr, WriteFails, jobVars, schedVars, LiveRowsStand, Live,
     OverdueInv, SnapshotInv, LifecycleStep
<1>4. CASE CommitOk("api", j)
  <2>1. /\ LifecycleStep
        /\ pc[j] = "idle"
        /\ \A k \in Jobs : k # j => status'[k] = status[k]
        /\ status'[j] \in {status[j], "failed"}
        /\ UNCHANGED overdue
    BY <1>4, CommitRefines DEF LockInv, Callers
  <2>2. LiveRowsStand'
    BY <1>1, <2>1 DEF LiveRowsStand, Live, LivePCs, Stages, Calling, CallTo
  <2>3. OverdueInv'
    BY <1>1, <1>2, <2>1 DEF OverdueInv, Live, schedVars
  <2>4. SnapshotInv'
    BY <1>1, <1>2, <2>1 DEF SnapshotInv, schedVars
  <2> QED BY <2>1, <2>2, <2>3, <2>4
<1> QED BY <1>1, <1>3, <1>4

(* Time passes: only a row that was started becomes overdue.               *)
LEMMA ClockRefines ==
  ASSUME IInv, LimitInv, NEW j \in Jobs, HoldExpires(j) \/ JobOverdue(j)
  PROVE  LimitInv' /\ LifecycleStep
<1> USE DEF IInv, LimitInv
<1>1. UNCHANGED <<status, schedVars, pc>>
  BY DEF HoldExpires, JobOverdue, HeldTooLong, StartedTooLongAgo, runnerVars
<1>2. \/ UNCHANGED overdue
      \/ overdue' = overdue \cup {j} /\ status[j] \in Executing
  BY DEF HoldExpires, JobOverdue, HeldTooLong, StartedTooLongAgo
<1>3. status[j] \in Executing =>
        /\ tick \in {"dispatch", "reject", "hold", "start"} => next # j
        /\ j \notin heldJobs
  <2>1. tick = "dispatch" => status[next] \notin Executing
    BY DEF PickInv, Executing
  <2>2. tick \in {"reject", "hold", "start"} => status[next] \notin Executing
    BY DEF PickInv, LockInv, Executing
  <2>3. j \in heldJobs => status[j] \notin Executing
    BY DEF SnapshotInv, Executing
  <2> QED BY <2>1, <2>2, <2>3
<1>4. LiveRowsStand'
  BY <1>1, <1>2 DEF LiveRowsStand, Live
<1>5. OverdueInv'
  BY <1>1, <1>2, <1>3 DEF OverdueInv, schedVars
<1>6. SnapshotInv'
  BY <1>1, <1>2, <1>3 DEF SnapshotInv, schedVars
<1>7. LifecycleStep
  <2>1. CASE UNCHANGED overdue
    BY <1>1, <2>1 DEF LifecycleStep
  <2>2. CASE overdue' = overdue \cup {j} /\ status[j] \in Executing
    <3>1. Lifecycle!BecomesOverdue(j)
      BY <1>1, <2>2, SameGraph DEF Lifecycle!BecomesOverdue
    <3> QED BY <3>1 DEF LifecycleStep, Lifecycle!Next
  <2> QED BY <1>2, <2>1, <2>2
<1> QED BY <1>4, <1>5, <1>6, <1>7

LEMMA ProcessRefines ==
  ASSUME IInv, LimitInv, Shutdown \/ Crash \/ Exit \/ Restart
  PROVE  LimitInv' /\ LifecycleStep
<1> USE DEF IInv, LimitInv
<1>1. CASE Shutdown
  BY <1>1 DEF Shutdown, storeVars, schedVars, runnerVars, LiveRowsStand, Live, OverdueInv,
     SnapshotInv, LifecycleStep
<1>2. CASE Crash \/ Exit
  <2>1. /\ UNCHANGED <<status, overdue>>
        /\ tick' = "off" /\ heldJobs' = {}
        /\ \A k \in Jobs : ~Live(k)'
    <3>1. Lose
      BY <1>2 DEF Crash, Exit
    <3>2. \A k \in Jobs : pc'[k] \in {"dead", "done"}
                          \/ (pc'[k] = pc[k] /\ ~Live(k))
      BY <3>1 DEF Lose
    <3>3. \A k \in Jobs : ~Live(k)'
      BY <3>2 DEF Live, LivePCs, Stages, Calling, CallTo
    <3> QED BY <3>1, <3>3 DEF Lose, jobVars
  <2> QED BY <2>1 DEF LiveRowsStand, OverdueInv, SnapshotInv, TypeOK, StoreTypeOK,
            LifecycleStep
<1>3. CASE Restart
  <2>1. PICK failing \in SUBSET Jobs :
          status' = [j \in Jobs |-> IF status[j] \in Interrupted /\ j \notin failing
                                    THEN "failed" ELSE status[j]]
    BY <1>3, RestartRows
  <2> DEFINE S == {j \in Jobs : status[j] \in Interrupted /\ j \notin failing}
  <2>2. /\ S \in SUBSET Jobs
        /\ \A j \in S : status[j] \in Executing
        /\ status' = [j \in Jobs |-> IF j \in S THEN "failed" ELSE status[j]]
    BY <2>1 DEF Interrupted, Executing
  <2>3. Lifecycle!Interrupt(S)
    BY <1>3, <2>2, SameGraph DEF Lifecycle!Interrupt, Restart
  <2>4. \A k \in Jobs : status'[k] \in {status[k], "failed"}
    BY <2>1
  <2> HIDE DEF S
  <2>5. \A k \in Jobs : ~Live(k)
    BY <1>3 DEF Restart, DownInv, Live, LivePCs, Stages, Calling, CallTo
  <2>6. tick' = "wait" /\ UNCHANGED <<overdue, heldJobs, pc>>
    BY <1>3 DEF Restart, runnerVars
  <2>7. heldJobs \subseteq Jobs /\ overdue \subseteq Jobs
    BY TypesOfState DEF TypeOK, StoreTypeOK
  <2>8. LiveRowsStand'
    BY <2>5, <2>6 DEF LiveRowsStand, Live
  <2>9. OverdueInv'
    BY <2>4, <2>5, <2>6, <2>7 DEF OverdueInv, Live
  <2>10. SnapshotInv'
    BY <2>4, <2>6, <2>7 DEF SnapshotInv
  <2> QED BY <2>2, <2>3, <2>8, <2>9, <2>10 DEF Lifecycle!Next, LifecycleStep
<1> QED BY <1>1, <1>2, <1>3

LEMMA NextRefines ==
  ASSUME IInv, LimitInv, [Next]_vars
  PROVE  LimitInv' /\ LifecycleStep
<1>1. CASE ApiStep
  BY <1>1, ApiRefines
<1>2. CASE SchedulerStep
  <2>1. CASE SpawnNext
    BY <2>1, SpawnRefines
  <2>2. ASSUME TickStart \/ Monitoring \/ Dispatching, UNCHANGED runnerVars
        PROVE  LimitInv' /\ LifecycleStep
    <3>1. CASE FailHeld \/ FailStuck
      BY <2>2, <3>1, MonitorRefines
    <3>2. CASE UnholdCommit \/ RejectOrHoldCommit \/ StartCommit
      BY <2>2, <3>2, TickCommitsRefine
    <3>3. CASE \/ TickStart \/ CheckHeld \/ CheckStuck \/ SelectUnhold
               \/ UnholdAcquire \/ UnholdRefused \/ Pick \/ DispatchAcquire
               \/ DispatchRefused
      <4>1. UNCHANGED jobVars
        BY <3>3 DEF TickStart, CheckHeld, CheckStuck, SelectUnhold, UnholdAcquire,
           UnholdRefused, Pick, DispatchAcquire, DispatchRefused, storeVars, jobVars
      <4> QED BY <2>2, <3>3, <4>1, TickReadsRefine
    <3> QED BY <2>2, <3>1, <3>2, <3>3 DEF Monitoring, Dispatching
  <2> QED BY <1>2, <2>1, <2>2 DEF SchedulerStep
<1>3. CASE \E j \in Jobs : CancelReturns(j)
  BY <1>3, CancelRefines
<1>4. CASE \E j \in Jobs : StageStep(j)
  BY <1>4, StageRefines
<1>5. CASE \E j \in Jobs : ReplyStep(j)
  BY <1>5, ReplyRefines
<1>6. CASE \E j \in Jobs : HoldExpires(j) \/ JobOverdue(j)
  BY <1>6, ClockRefines
<1>7. CASE Shutdown \/ Crash \/ Exit \/ Restart
  BY <1>7, ProcessRefines
<1>8. CASE UNCHANGED vars
  BY <1>8 DEF vars, storeVars, schedVars, runnerVars, LimitInv, LiveRowsStand, Live,
     OverdueInv, SnapshotInv, LifecycleStep
<1> QED BY <1>1, <1>2, <1>3, <1>4, <1>5, <1>6, <1>7, <1>8 DEF Next

LEMMA InitRefines == Init => LimitInv /\ Lifecycle!Init
<1>1. Init => /\ \A j \in Jobs : pc[j] = "idle"
              /\ overdue = {} /\ heldJobs = {} /\ tick = "wait"
              /\ status = [j \in Jobs |-> "absent"]
  BY DEF Init, StoreInit, SchedInit, RunnerInit
<1> QED BY <1>1 DEF Lifecycle!Init, LimitInv, LiveRowsStand, Live, LivePCs, Stages,
        Calling, CallTo, OverdueInv, SnapshotInv

------------------------------------------------------------------------------

(* The strengthened invariant: the monitor writes only to rows that are     *)
(* held or past the stuck limit (monitor.go, scheduler.go).                *)
THEOREM RefinementInvariant == Spec => []RefinementInv
<1>1. Init => RefinementInv
  BY InitInv, InitRefines DEF RefinementInv
<1>2. RefinementInv /\ [Next]_vars => RefinementInv'
  BY NextKeepsIInv, NextRefines DEF RefinementInv
<1> QED BY <1>1, <1>2, PTL DEF Spec

(* The API, the scheduler, the monitor, the goroutines and the recovery    *)
(* together move every row along allowedTransitions (state_machine.go),    *)
(* the monitor and the recovery although they do not ask it; only a row    *)
(* past the stuck limit ever leaves success or failed (monitor.go:104).    *)
THEOREM RowsFollowLifecycle == Spec => ImplementsLifecycle
<1>1. Init => Lifecycle!Init
  BY InitRefines
<1>2. RefinementInv /\ [Next]_vars => [Lifecycle!Next]_(Lifecycle!vars)
  BY NextRefines DEF RefinementInv, LifecycleStep, Lifecycle!vars
<1> QED BY <1>1, <1>2, RefinementInvariant, PTL DEF Spec, ImplementsLifecycle, Lifecycle!Spec
==============================================================================
