---------------------------- MODULE TranglyProofs ----------------------------
(***************************************************************************)
(* Safety of Trangly for every number of jobs, projects, slugs, crashes    *)
(* and failed writes, every estimate and budget: IInv is inductive, and    *)
(* the safety properties follow from it.                                   *)
(***************************************************************************)
EXTENDS TranglyInvariant, FiniteSetTheorems, WellFoundedInduction, TLAPS

(* A set of numbers has a least one.                                       *)
LEMMA LeastNumber ==
    ASSUME NEW A \in SUBSET Nat, A # {}
    PROVE  \E n \in A : \A m \in A : n =< m
<1>1. \E R : /\ IsWellFoundedOn(R, Nat)
            /\ \A x, y \in Nat : x < y => <<x, y>> \in R
  <2> DEFINE Q == OpToRel(<, Nat)
  <2>1. IsWellFoundedOn(Q, Nat)
      BY NatLessThanWellFounded, Zenon
  <2>2. \A x, y \in Nat : x < y => <<x, y>> \in Q
      BY DEF OpToRel
  <2> HIDE DEF Q
  <2> QED
      BY <2>1, <2>2, Zenon
<1>2. PICK R : /\ IsWellFoundedOn(R, Nat)
               /\ \A x, y \in Nat : x < y => <<x, y>> \in R
    BY <1>1
<1>3. PICK n \in A : \A m \in A : ~(<<m, n>> \in R)
    <2>1. IsWellFoundedOn(R, Nat) /\ A \subseteq Nat
        BY <1>2
    <2> QED BY <2>1, WFMin, Zenon
<1>4. ASSUME NEW m \in A PROVE n =< m
  <2>1. n \in Nat /\ m \in Nat
      BY <1>3
  <2>2. m < n => <<m, n>> \in R
      BY <1>2, <2>1, Zenon
  <2> QED
      BY <2>1, <2>2, <1>3
<1> QED BY <1>4

(* A non-empty set of jobs has an oldest member: the loops of the tick and *)
(* NextPendingAny take it.                                                 *)
LEMMA MinOfJobs ==
    ASSUME NEW S \in SUBSET Jobs, S # {}
    PROVE  Min(S) \in S
<1>1. S \in SUBSET Nat
    BY StoreAssumption DEF Jobs
<1> QED
    BY <1>1, LeastNumber DEF Min

(* Sets of jobs are finite, so the failed writes of a recovery are counted. *)
LEMMA SizeOfJobs ==
    \A S \in SUBSET Jobs : /\ Cardinality(S) \in Nat
                           /\ Cardinality(S) = 0 => S = {}
<1>1. IsFiniteSet(Jobs)
    BY StoreAssumption, FS_Interval DEF Jobs
<1> QED
    BY <1>1, FS_Subset, FS_CardinalityType, FS_EmptySet

(* The job NextPendingAny returns. *)
LEMMA PickedIsPending ==
    Pending # {} => Min(Pending) \in Jobs /\ status[Min(Pending)] = "pending"
    BY MinOfJobs DEF Pending

(* The types, apart from the sets the values are drawn from. *)
LEMMA TypesOfState ==
    ASSUME TypeOK
    PROVE  /\ status \in [Jobs -> RowStatuses]
           /\ pc \in [Jobs -> PCs]
           /\ plan \in [Jobs -> [slug : Slugs, mode : Modes] \cup {NoPlan}]
           /\ call \in [by : Callers, job : Jobs, to : Statuses] \cup {NoCall}
           /\ heldJobs \subseteq Jobs /\ todo \subseteq Jobs
           /\ next \in Jobs \cup {0}
           /\ cancelled \subseteq Jobs /\ checked \subseteq Jobs
           /\ deployed \subseteq Jobs /\ posted \subseteq Jobs
           /\ faults \in Nat
    BY StoreAssumption DEF TypeOK, StoreTypeOK, SchedTypeOK, RunnerTypeOK

(* What a restart does to the rows and to the count of failed writes. *)
LEMMA RestartRows ==
    ASSUME TypeOK, Restart
    PROVE  \E failing \in SUBSET Jobs :
              /\ faults' \in 0 .. MaxFaults /\ faults' >= faults
              /\ failing # {} => faults' > 0
              /\ \A j \in failing : status[j] \in Interrupted
              /\ status' = [j \in Jobs |->
                              IF status[j] \in Interrupted /\ j \notin failing
                              THEN "failed" ELSE status[j]]
<1>1. PICK failing \in SUBSET Jobs : RecoverInterruptedJobs(failing)
    BY DEF Restart
<1>2. faults \in Nat /\ Cardinality(failing) \in Nat
      /\ (Cardinality(failing) = 0 => failing = {})
    BY TypesOfState, SizeOfJobs
<1>3. /\ faults' = faults + Cardinality(failing)
      /\ faults + Cardinality(failing) <= MaxFaults
      /\ \A j \in failing : status[j] \in Interrupted
      /\ status' = [j \in Jobs |->
                      IF status[j] \in Interrupted /\ j \notin failing
                      THEN "failed" ELSE status[j]]
    BY <1>1 DEF RecoverInterruptedJobs
<1>4. /\ faults' \in 0 .. MaxFaults /\ faults' >= faults
      /\ failing # {} => faults' > 0
    BY <1>2, <1>3, StoreAssumption
<1> QED
    BY <1>3, <1>4

(* The first start of the process, on an empty database. *)
LEMMA InitInv == Init => IInv
<1> USE StoreAssumption, SchedulerAssumption, TranglyAssumption
    DEF Init, StoreInit, SchedInit, RunnerInit
<1>1. Init => TypeOK
    BY DEF TypeOK, StoreTypeOK, SchedTypeOK, RunnerTypeOK, NoCall, NoPlan,
       RowStatuses, NoRow, Ticks, PCs, Down, Jobs
<1>2. Init => RowShowsPhase
    BY DEF RowShowsPhase, Live, LivePCs, Stages, Calling, CallTo
<1>3. Init => IdleRows /\ FinishedRows
    BY DEF IdleRows, FinishedRows
<1>4. Init => LockInv /\ PickInv /\ DownInv
    BY DEF LockInv, PickInv, DownInv, NoCall
<1>5. Init => CancelledNeverRuns /\ ProgressInv /\ WorkspaceIsolation
    BY DEF CancelledNeverRuns, ProgressInv, WorkspaceIsolation, LivePCs, Stages,
       Calling, CallTo
<1> QED BY <1>1, <1>2, <1>3, <1>4, <1>5 DEF IInv

(* Requests of the API write rows and take the lock. *)
LEMMA ApiKeepsIInv ==
  ASSUME IInv, ApiStep
  PROVE  IInv'
<1> USE StoreAssumption, SchedulerAssumption, TranglyAssumption
    DEF IInv, jobVars, projectVars, storeVars, schedVars, runVars, dockerVars,
        historyVars, runnerVars, procVars
<1>0. proc = "up" /\ UNCHANGED <<schedVars, runnerVars, procVars>>
    BY DEF ApiStep
<1>1. ASSUME NEW j \in Jobs, Trigger(j) PROVE IInv'
  <2>1. TypeOK'
    BY <1>0, <1>1 DEF Trigger, TypeOK, StoreTypeOK, SchedTypeOK, RunnerTypeOK,
       RowStatuses, NoRow, Statuses, Jobs
  <2>2. RowShowsPhase'
    <3>1. /\ status[j] = "absent" /\ UNCHANGED pc
          /\ \A k \in Jobs : k # j => status'[k] = status[k]
      BY <1>0, <1>1, StoreAssumption, TypesOfState DEF Trigger, Jobs
    <3>2. ~Live(j)
      BY <3>1 DEF RowShowsPhase, Live, LivePCs, Stages, Calling, CallTo, PhaseStatus,
         Executing
    <3> QED BY <3>1, <3>2 DEF RowShowsPhase, Live
  <2>3. IdleRows'
    BY <1>0, <1>1 DEF Trigger, IdleRows, SpawnWindow, Jobs
  <2>4. FinishedRows'
    BY <1>0, <1>1 DEF Trigger, FinishedRows, Executing, Jobs
  <2>5. LockInv'
    BY <1>0, <1>1 DEF Trigger, LockInv, NoCall, Calling, CallTo, Jobs
  <2>6. PickInv'
    BY <1>0, <1>1 DEF Trigger, PickInv, Jobs
  <2>7. CancelledNeverRuns'
    BY <1>0, <1>1 DEF Trigger, CancelledNeverRuns, Jobs
  <2>8. ProgressInv'
    BY <1>0, <1>1 DEF Trigger, ProgressInv, Earned, LivePCs, Stages, Calling,
       CallTo, Jobs
  <2>9. DownInv' /\ WorkspaceIsolation'
    BY <1>0, <1>1 DEF Trigger, DownInv, WorkspaceIsolation
  <2> QED
    BY <2>1, <2>2, <2>3, <2>4, <2>5, <2>6, <2>7, <2>8, <2>9 DEF IInv
<1>2. ASSUME NEW j \in Jobs, CancelAcquire(j) PROVE IInv'
  <2>1. TypeOK'
    BY <1>0, <1>2 DEF CancelAcquire, Acquire, RowExists, ValidateTransition,
       allowedTransitions, NoCall, TypeOK, StoreTypeOK, SchedTypeOK,
       RunnerTypeOK, Callers, Statuses
  <2>2. LockInv'
    BY <1>0, <1>2, SMTT(20) DEF CancelAcquire, Acquire, RowExists,
       ValidateTransition, allowedTransitions, NoCall, LockInv, Calling,
       CallTo, RowShowsPhase, Live, LivePCs, Stages, PhaseStatus, Executing,
       FinishedRows, TypeOK, StoreTypeOK, SchedTypeOK, RunnerTypeOK, NoPlan,
       RowStatuses, NoRow, Statuses, PCs, Ticks, Callers, Dirs, WorkspaceDir,
       Down, Mixed
  <2>3. PickInv'
    BY <1>0, <1>2 DEF CancelAcquire, Acquire, RowExists, ValidateTransition,
       allowedTransitions, NoCall, PickInv
  <2>4. DownInv'
    BY <1>0, <1>2 DEF CancelAcquire, Acquire, RowExists, ValidateTransition,
       allowedTransitions, NoCall, DownInv
  <2>5. RowShowsPhase' /\ IdleRows' /\ FinishedRows' /\
        CancelledNeverRuns' /\ ProgressInv' /\ WorkspaceIsolation'
    BY <1>0, <1>2 DEF CancelAcquire, RowShowsPhase, Live, IdleRows,
       SpawnWindow, FinishedRows, CancelledNeverRuns, ProgressInv, Earned,
       WorkspaceIsolation
  <2> QED
    BY <2>1, <2>2, <2>3, <2>4, <2>5 DEF IInv
<1>3. ASSUME NEW p \in Projects, DeleteProject(p) PROVE IInv'
  <2>1. TypeOK'
    BY <1>0, <1>3 DEF DeleteProject, RowExists, TypeOK, StoreTypeOK,
       SchedTypeOK, RunnerTypeOK, RowStatuses, NoRow, Statuses
  <2>2. RowShowsPhase'
    BY <1>0, <1>3 DEF DeleteProject, RowExists, RowShowsPhase, Live, LivePCs,
       Stages, Calling, CallTo, PhaseStatus, Executing
  <2>3. IdleRows'
    BY <1>0, <1>3 DEF DeleteProject, RowExists, IdleRows, SpawnWindow
  <2>4. FinishedRows'
    BY <1>0, <1>3 DEF DeleteProject, RowExists, FinishedRows, Executing
  <2>5. LockInv'
    BY <1>0, <1>3, TypesOfState DEF DeleteProject, RowExists, LockInv, NoCall,
       Calling, CallTo
  <2>6. PickInv'
    BY <1>0, <1>3 DEF DeleteProject, RowExists, PickInv
  <2>7. CancelledNeverRuns'
    BY <1>0, <1>3, TypesOfState DEF DeleteProject, RowExists,
       CancelledNeverRuns
  <2>8. ProgressInv'
    BY <1>0, <1>3 DEF DeleteProject, RowExists, ProgressInv, Earned, LivePCs,
       Stages, Calling, CallTo
  <2>9. DownInv' /\ WorkspaceIsolation'
    BY <1>0, <1>3 DEF DeleteProject, DownInv, WorkspaceIsolation
  <2> QED
    BY <2>1, <2>2, <2>3, <2>4, <2>5, <2>6, <2>7, <2>8, <2>9 DEF IInv
<1>4. ASSUME NEW p \in Projects, NEW s \in Slugs, NEW m \in Modes,
            CreateProject(p, s, m)
     PROVE  IInv'
  <2>1. TypeOK'
    BY <1>0, <1>4 DEF CreateProject, TypeOK, StoreTypeOK, SchedTypeOK,
       RunnerTypeOK
  <2>2. RowShowsPhase' /\ IdleRows' /\ FinishedRows' /\ LockInv' /\
        PickInv' /\ DownInv' /\ CancelledNeverRuns' /\ ProgressInv' /\
        WorkspaceIsolation'
    BY <1>0, <1>4 DEF CreateProject, RowShowsPhase, Live, IdleRows,
       SpawnWindow, FinishedRows, LockInv, PickInv, DownInv,
       CancelledNeverRuns, ProgressInv, Earned, WorkspaceIsolation
  <2> QED
    BY <2>1, <2>2 DEF IInv
<1>5. ASSUME NEW p \in Projects, NEW s \in Slugs, NEW m \in Modes,
            UpdateProject(p, s, m)
     PROVE  IInv'
  <2>1. TypeOK'
    BY <1>0, <1>5 DEF UpdateProject, TypeOK, StoreTypeOK, SchedTypeOK,
       RunnerTypeOK
  <2>2. RowShowsPhase' /\ IdleRows' /\ FinishedRows' /\ LockInv' /\
        PickInv' /\ DownInv' /\ CancelledNeverRuns' /\ ProgressInv' /\
        WorkspaceIsolation'
    BY <1>0, <1>5 DEF UpdateProject, RowShowsPhase, Live, IdleRows,
       SpawnWindow, FinishedRows, LockInv, PickInv, DownInv,
       CancelledNeverRuns, ProgressInv, Earned, WorkspaceIsolation
  <2> QED
    BY <2>1, <2>2 DEF IInv
<1> QED
    BY <1>1, <1>2, <1>3, <1>4, <1>5
       DEF ApiStep, Api

(* A step of the tick before its Spawn. *)
LEMMA TickKeepsIInv ==
  ASSUME IInv, TickStart \/ Monitoring \/ Dispatching,
         UNCHANGED <<runnerVars, procVars>>
  PROVE  IInv'
<1> USE StoreAssumption, SchedulerAssumption, TranglyAssumption
    DEF IInv, jobVars, projectVars, storeVars, schedVars, runVars, dockerVars,
        historyVars, runnerVars, procVars
<1>1. CASE TickStart
  <2>1. TypeOK'
    BY <1>1 DEF TickStart, TypeOK, StoreTypeOK, SchedTypeOK, RunnerTypeOK,
       Ticks
  <2>2. IdleRows'
    BY <1>1 DEF TickStart, IdleRows, SpawnWindow
  <2>3. LockInv'
    BY <1>1 DEF TickStart, LockInv, NoCall, Calling, CallTo
  <2>4. PickInv'
    BY <1>1 DEF TickStart, PickInv
  <2>5. DownInv'
    BY <1>1 DEF TickStart, DownInv, NoCall
  <2>6. RowShowsPhase' /\ FinishedRows' /\ CancelledNeverRuns' /\
        ProgressInv' /\ WorkspaceIsolation'
    BY <1>1 DEF TickStart, RowShowsPhase, Live, FinishedRows,
       CancelledNeverRuns, ProgressInv, Earned, WorkspaceIsolation
  <2> QED
    BY <2>1, <2>2, <2>3, <2>4, <2>5, <2>6 DEF IInv
<1>2. CASE CheckHeld
  <2>1. TypeOK'
    BY <1>2 DEF CheckHeld, TypeOK, StoreTypeOK, SchedTypeOK, RunnerTypeOK,
       Ticks
  <2>2. IdleRows'
    BY <1>2 DEF CheckHeld, IdleRows, SpawnWindow
  <2>3. LockInv'
    BY <1>2 DEF CheckHeld, LockInv, NoCall, Calling, CallTo
  <2>4. PickInv'
    BY <1>2 DEF CheckHeld, PickInv
  <2>5. DownInv'
    BY <1>2 DEF CheckHeld, DownInv, NoCall
  <2>6. RowShowsPhase' /\ FinishedRows' /\ CancelledNeverRuns' /\
        ProgressInv' /\ WorkspaceIsolation'
    BY <1>2 DEF CheckHeld, RowShowsPhase, Live, FinishedRows,
       CancelledNeverRuns, ProgressInv, Earned, WorkspaceIsolation
  <2> QED
    BY <2>1, <2>2, <2>3, <2>4, <2>5, <2>6 DEF IInv
<1>3. CASE FailHeld
  <2>1. TypeOK'
    BY <1>3 DEF FailHeld, MonitorFails, WriteFails, UpdateRow, RowExists,
       RowStatuses, NoRow, Statuses, TypeOK, StoreTypeOK, SchedTypeOK,
       RunnerTypeOK
  <2>2. RowShowsPhase'
    BY <1>3, TypesOfState DEF FailHeld, MonitorFails, WriteFails, UpdateRow,
       RowExists, RowStatuses, NoRow, Statuses, RowShowsPhase, Live, LivePCs,
       Stages, Calling, CallTo, PhaseStatus, Executing
  <2>3. IdleRows'
    BY <1>3, TypesOfState DEF FailHeld, MonitorFails, WriteFails, UpdateRow,
       RowExists, RowStatuses, NoRow, Statuses, IdleRows, SpawnWindow
  <2>4. FinishedRows'
    BY <1>3, TypesOfState DEF FailHeld, MonitorFails, WriteFails, UpdateRow,
       RowExists, RowStatuses, NoRow, Statuses, FinishedRows, Executing
  <2>5. LockInv'
    BY <1>3, TypesOfState DEF FailHeld, MonitorFails, WriteFails, UpdateRow,
       RowExists, RowStatuses, NoRow, Statuses, LockInv, NoCall, Calling,
       CallTo
  <2>6. PickInv'
    BY <1>3 DEF FailHeld, MonitorFails, WriteFails, UpdateRow, RowExists,
       RowStatuses, NoRow, Statuses, PickInv
  <2>7. CancelledNeverRuns'
    BY <1>3, TypesOfState DEF FailHeld, MonitorFails, WriteFails, UpdateRow,
       RowExists, RowStatuses, NoRow, Statuses, CancelledNeverRuns
  <2>8. ProgressInv'
    BY <1>3, TypesOfState DEF FailHeld, MonitorFails, WriteFails, UpdateRow,
       RowExists, RowStatuses, NoRow, Statuses, ProgressInv, Earned, LivePCs,
       Stages, Calling, CallTo
  <2>9. DownInv' /\ WorkspaceIsolation'
    BY <1>3 DEF FailHeld, MonitorFails, WriteFails, DownInv,
       WorkspaceIsolation
  <2> QED
    BY <2>1, <2>2, <2>3, <2>4, <2>5, <2>6, <2>7, <2>8, <2>9 DEF IInv
<1>4. CASE CheckStuck
  <2>1. TypeOK'
    BY <1>4 DEF CheckStuck, TypeOK, StoreTypeOK, SchedTypeOK, RunnerTypeOK,
       Ticks
  <2>2. IdleRows'
    BY <1>4 DEF CheckStuck, IdleRows, SpawnWindow
  <2>3. LockInv'
    BY <1>4 DEF CheckStuck, LockInv, NoCall, Calling, CallTo
  <2>4. PickInv'
    BY <1>4 DEF CheckStuck, PickInv
  <2>5. DownInv'
    BY <1>4 DEF CheckStuck, DownInv, NoCall
  <2>6. RowShowsPhase' /\ FinishedRows' /\ CancelledNeverRuns' /\
        ProgressInv' /\ WorkspaceIsolation'
    BY <1>4 DEF CheckStuck, RowShowsPhase, Live, FinishedRows,
       CancelledNeverRuns, ProgressInv, Earned, WorkspaceIsolation
  <2> QED
    BY <2>1, <2>2, <2>3, <2>4, <2>5, <2>6 DEF IInv
<1>5. CASE FailStuck
  <2>1. TypeOK'
    BY <1>5 DEF FailStuck, MonitorFails, WriteFails, UpdateRow, RowExists,
       RowStatuses, NoRow, Statuses, TypeOK, StoreTypeOK, SchedTypeOK,
       RunnerTypeOK
  <2>2. RowShowsPhase'
    BY <1>5, TypesOfState DEF FailStuck, MonitorFails, WriteFails, UpdateRow,
       RowExists, RowStatuses, NoRow, Statuses, RowShowsPhase, Live, LivePCs,
       Stages, Calling, CallTo, PhaseStatus, Executing
  <2>3. IdleRows'
    BY <1>5, TypesOfState DEF FailStuck, MonitorFails, WriteFails, UpdateRow,
       RowExists, RowStatuses, NoRow, Statuses, IdleRows, SpawnWindow
  <2>4. FinishedRows'
    BY <1>5, TypesOfState DEF FailStuck, MonitorFails, WriteFails, UpdateRow,
       RowExists, RowStatuses, NoRow, Statuses, FinishedRows, Executing
  <2>5. LockInv'
    BY <1>5, TypesOfState DEF FailStuck, MonitorFails, WriteFails, UpdateRow,
       RowExists, RowStatuses, NoRow, Statuses, LockInv, NoCall, Calling,
       CallTo
  <2>6. PickInv'
    BY <1>5 DEF FailStuck, MonitorFails, WriteFails, UpdateRow, RowExists,
       RowStatuses, NoRow, Statuses, PickInv
  <2>7. CancelledNeverRuns'
    BY <1>5, TypesOfState DEF FailStuck, MonitorFails, WriteFails, UpdateRow,
       RowExists, RowStatuses, NoRow, Statuses, CancelledNeverRuns
  <2>8. ProgressInv'
    BY <1>5, TypesOfState DEF FailStuck, MonitorFails, WriteFails, UpdateRow,
       RowExists, RowStatuses, NoRow, Statuses, ProgressInv, Earned, LivePCs,
       Stages, Calling, CallTo
  <2>9. DownInv' /\ WorkspaceIsolation'
    BY <1>5 DEF FailStuck, MonitorFails, WriteFails, DownInv,
       WorkspaceIsolation
  <2> QED
    BY <2>1, <2>2, <2>3, <2>4, <2>5, <2>6, <2>7, <2>8, <2>9 DEF IInv
<1>6. CASE SelectUnhold
  <2>1. TypeOK'
    BY <1>6 DEF SelectUnhold, TypeOK, StoreTypeOK, SchedTypeOK, RunnerTypeOK,
       Ticks
  <2>2. IdleRows'
    BY <1>6 DEF SelectUnhold, IdleRows, SpawnWindow
  <2>3. LockInv'
    BY <1>6 DEF SelectUnhold, LockInv, NoCall, Calling, CallTo
  <2>4. PickInv'
    BY <1>6 DEF SelectUnhold, PickInv
  <2>5. DownInv'
    BY <1>6 DEF SelectUnhold, DownInv, NoCall
  <2>6. RowShowsPhase' /\ FinishedRows' /\ CancelledNeverRuns' /\
        ProgressInv' /\ WorkspaceIsolation'
    BY <1>6 DEF SelectUnhold, RowShowsPhase, Live, FinishedRows,
       CancelledNeverRuns, ProgressInv, Earned, WorkspaceIsolation
  <2> QED
    BY <2>1, <2>2, <2>3, <2>4, <2>5, <2>6 DEF IInv
<1>7. CASE UnholdAcquire
  <2>1. TypeOK'
    BY <1>7, MinOfJobs DEF UnholdAcquire, Acquire, RowExists,
       ValidateTransition, allowedTransitions, NoCall, TypeOK, StoreTypeOK,
       SchedTypeOK, RunnerTypeOK, Callers, Statuses
  <2>2. LockInv'
    BY <1>7 DEF UnholdAcquire, Acquire, RowExists, ValidateTransition,
       allowedTransitions, NoCall, LockInv, Calling, CallTo
  <2>3. PickInv'
    BY <1>7 DEF UnholdAcquire, Acquire, RowExists, ValidateTransition,
       allowedTransitions, NoCall, PickInv
  <2>4. DownInv'
    BY <1>7 DEF UnholdAcquire, Acquire, RowExists, ValidateTransition,
       allowedTransitions, NoCall, DownInv
  <2>5. RowShowsPhase' /\ IdleRows' /\ FinishedRows' /\
        CancelledNeverRuns' /\ ProgressInv' /\ WorkspaceIsolation'
    BY <1>7 DEF UnholdAcquire, RowShowsPhase, Live, IdleRows, SpawnWindow,
       FinishedRows, CancelledNeverRuns, ProgressInv, Earned,
       WorkspaceIsolation
  <2> QED
    BY <2>1, <2>2, <2>3, <2>4, <2>5 DEF IInv
<1>8. CASE UnholdCommit
  <2>1. TypeOK'
    BY <1>8 DEF UnholdCommit, CommitOk, CommitErr, ResetHeldAt, WriteFails,
       NoCall, UpdateRow, RowExists, RowStatuses, NoRow, Statuses, TypeOK,
       StoreTypeOK, SchedTypeOK, RunnerTypeOK, Callers
  <2>2. RowShowsPhase'
    BY <1>8, TypesOfState DEF UnholdCommit, CommitOk, CommitErr, ResetHeldAt,
       WriteFails, NoCall, UpdateRow, RowExists, RowStatuses, NoRow, Statuses,
       RowShowsPhase, Live, LivePCs, Stages, Calling, CallTo, PhaseStatus,
       Executing, LockInv
  <2>3. IdleRows'
    BY <1>8, TypesOfState DEF UnholdCommit, CommitOk, CommitErr, ResetHeldAt,
       WriteFails, NoCall, UpdateRow, RowExists, RowStatuses, NoRow, Statuses,
       IdleRows, SpawnWindow, LockInv, Calling, CallTo
  <2>4. FinishedRows'
    BY <1>8, TypesOfState DEF UnholdCommit, CommitOk, CommitErr, ResetHeldAt,
       WriteFails, NoCall, UpdateRow, RowExists, RowStatuses, NoRow, Statuses,
       FinishedRows, Executing, LockInv, Calling, CallTo
  <2>5. LockInv'
    BY <1>8 DEF UnholdCommit, CommitOk, CommitErr, ResetHeldAt, WriteFails,
       NoCall, UpdateRow, RowExists, RowStatuses, NoRow, Statuses, LockInv,
       Calling, CallTo
  <2>6. PickInv'
    BY <1>8 DEF UnholdCommit, CommitOk, CommitErr, ResetHeldAt, WriteFails,
       NoCall, UpdateRow, RowExists, RowStatuses, NoRow, Statuses, PickInv
  <2>7. DownInv'
    BY <1>8 DEF UnholdCommit, CommitOk, CommitErr, ResetHeldAt, WriteFails,
       NoCall, UpdateRow, RowExists, RowStatuses, NoRow, Statuses, DownInv
  <2>8. CancelledNeverRuns'
    BY <1>8, TypesOfState DEF UnholdCommit, CommitOk, CommitErr, ResetHeldAt,
       WriteFails, NoCall, UpdateRow, RowExists, RowStatuses, NoRow, Statuses,
       CancelledNeverRuns, LockInv, Calling, CallTo
  <2>9. ProgressInv'
    BY <1>8, TypesOfState DEF UnholdCommit, CommitOk, CommitErr, ResetHeldAt,
       WriteFails, NoCall, UpdateRow, RowExists, RowStatuses, NoRow, Statuses,
       ProgressInv, Earned, LivePCs, Stages, Calling, CallTo, LockInv
  <2>10. WorkspaceIsolation'
    BY <1>8 DEF UnholdCommit, WorkspaceIsolation
  <2> QED
    BY <2>1, <2>2, <2>3, <2>4, <2>5, <2>6, <2>7, <2>8, <2>9, <2>10 DEF IInv
<1>9. CASE UnholdRefused
  <2>1. TypeOK'
    BY <1>9 DEF UnholdRefused, Refused, TypeOK, StoreTypeOK, SchedTypeOK,
       RunnerTypeOK
  <2>2. LockInv'
    BY <1>9, TypesOfState DEF UnholdRefused, Refused, LockInv, NoCall,
       Calling, CallTo
  <2>3. RowShowsPhase' /\ IdleRows' /\ FinishedRows' /\ PickInv' /\
        DownInv' /\ CancelledNeverRuns' /\ ProgressInv' /\
        WorkspaceIsolation'
    BY <1>9 DEF UnholdRefused, RowShowsPhase, Live, IdleRows, SpawnWindow,
       FinishedRows, PickInv, DownInv, CancelledNeverRuns, ProgressInv,
       Earned, WorkspaceIsolation
  <2> QED
    BY <2>1, <2>2, <2>3 DEF IInv
<1>10. CASE Pick
  <2>1. TypeOK'
    BY <1>10, PickedIsPending DEF Pick, EndTick, TypeOK, StoreTypeOK,
       SchedTypeOK, RunnerTypeOK, Ticks
  <2>2. IdleRows'
    BY <1>10 DEF Pick, EndTick, IdleRows, SpawnWindow
  <2>3. LockInv'
    BY <1>10, PickedIsPending DEF Pick, EndTick, LockInv, NoCall, Calling,
       CallTo
  <2>4. PickInv'
    BY <1>10, PickedIsPending DEF Pick, EndTick, PickInv, IdleRows,
       SpawnWindow, RowShowsPhase, Live, LivePCs, Stages, Calling, CallTo,
       PhaseStatus, Executing, FinishedRows, TypeOK, StoreTypeOK, SchedTypeOK,
       RunnerTypeOK, NoCall, NoPlan, RowStatuses, NoRow, Statuses, PCs, Ticks,
       Callers, Dirs, WorkspaceDir, Down, Mixed
  <2>5. DownInv'
    BY <1>10 DEF Pick, EndTick, DownInv, NoCall
  <2>6. RowShowsPhase' /\ FinishedRows' /\ CancelledNeverRuns' /\
        ProgressInv' /\ WorkspaceIsolation'
    BY <1>10 DEF Pick, RowShowsPhase, Live, FinishedRows, CancelledNeverRuns,
       ProgressInv, Earned, WorkspaceIsolation
  <2> QED
    BY <2>1, <2>2, <2>3, <2>4, <2>5, <2>6 DEF IInv
<1>11. CASE DispatchAcquire
  <2>1. TypeOK'
    BY <1>11 DEF DispatchAcquire, Dispatch, Acquire, RowExists,
       ValidateTransition, allowedTransitions, NoCall, TypeOK, StoreTypeOK,
       SchedTypeOK, RunnerTypeOK, Ticks, Callers, Statuses, PickInv
  <2>2. IdleRows'
    BY <1>11 DEF DispatchAcquire, Dispatch, Acquire, RowExists,
       ValidateTransition, allowedTransitions, NoCall, IdleRows, SpawnWindow
  <2>3. LockInv'
    BY <1>11, TypesOfState DEF DispatchAcquire, Dispatch, Acquire, RowExists,
       ValidateTransition, allowedTransitions, NoCall, LockInv, Calling,
       CallTo, PickInv
  <2>4. PickInv'
    BY <1>11 DEF DispatchAcquire, Dispatch, Acquire, RowExists,
       ValidateTransition, allowedTransitions, NoCall, PickInv,
       CancelledNeverRuns
  <2>5. DownInv'
    BY <1>11 DEF DispatchAcquire, Dispatch, Acquire, RowExists,
       ValidateTransition, allowedTransitions, NoCall, DownInv
  <2>6. RowShowsPhase' /\ FinishedRows' /\ CancelledNeverRuns' /\
        ProgressInv' /\ WorkspaceIsolation'
    BY <1>11 DEF DispatchAcquire, RowShowsPhase, Live, FinishedRows,
       CancelledNeverRuns, ProgressInv, Earned, WorkspaceIsolation
  <2> QED
    BY <2>1, <2>2, <2>3, <2>4, <2>5, <2>6 DEF IInv
<1>12. CASE DispatchRefused
  <2>1. TypeOK'
    BY <1>12 DEF DispatchRefused, Dispatch, EndTick, Refused, TypeOK,
       StoreTypeOK, SchedTypeOK, RunnerTypeOK, Ticks
  <2>2. IdleRows'
    BY <1>12 DEF DispatchRefused, Dispatch, EndTick, Refused, IdleRows,
       SpawnWindow
  <2>3. LockInv'
    BY <1>12 DEF DispatchRefused, Dispatch, EndTick, Refused, LockInv, NoCall,
       Calling, CallTo
  <2>4. PickInv'
    BY <1>12 DEF DispatchRefused, Dispatch, EndTick, Refused, PickInv
  <2>5. DownInv'
    BY <1>12 DEF DispatchRefused, Dispatch, EndTick, Refused, DownInv, NoCall
  <2>6. RowShowsPhase' /\ FinishedRows' /\ CancelledNeverRuns' /\
        ProgressInv' /\ WorkspaceIsolation'
    BY <1>12 DEF DispatchRefused, EndTick, RowShowsPhase, Live, FinishedRows,
       CancelledNeverRuns, ProgressInv, Earned, WorkspaceIsolation
  <2> QED
    BY <2>1, <2>2, <2>3, <2>4, <2>5, <2>6 DEF IInv
<1>13. CASE RejectOrHoldCommit
  <2>1. TypeOK'
    BY <1>13 DEF RejectOrHoldCommit, EndTick, CommitOk, CommitErr,
       ResetHeldAt, WriteFails, NoCall, UpdateRow, RowExists, RowStatuses,
       NoRow, Statuses, TypeOK, StoreTypeOK, SchedTypeOK, RunnerTypeOK, Ticks,
       Callers
  <2>2. RowShowsPhase'
    BY <1>13, TypesOfState DEF RejectOrHoldCommit, EndTick, CommitOk,
       CommitErr, ResetHeldAt, WriteFails, NoCall, UpdateRow, RowExists,
       RowStatuses, NoRow, Statuses, RowShowsPhase, Live, LivePCs, Stages,
       Calling, CallTo, PhaseStatus, Executing, LockInv
  <2>3. IdleRows'
    BY <1>13, TypesOfState DEF RejectOrHoldCommit, EndTick, CommitOk,
       CommitErr, ResetHeldAt, WriteFails, NoCall, UpdateRow, RowExists,
       RowStatuses, NoRow, Statuses, IdleRows, SpawnWindow, LockInv, Calling,
       CallTo
  <2>4. FinishedRows'
    BY <1>13, TypesOfState DEF RejectOrHoldCommit, EndTick, CommitOk,
       CommitErr, ResetHeldAt, WriteFails, NoCall, UpdateRow, RowExists,
       RowStatuses, NoRow, Statuses, FinishedRows, Executing, LockInv,
       Calling, CallTo
  <2>5. LockInv'
    BY <1>13 DEF RejectOrHoldCommit, EndTick, CommitOk, CommitErr,
       ResetHeldAt, WriteFails, NoCall, UpdateRow, RowExists, RowStatuses,
       NoRow, Statuses, LockInv, Calling, CallTo
  <2>6. PickInv'
    BY <1>13 DEF RejectOrHoldCommit, EndTick, CommitOk, CommitErr,
       ResetHeldAt, WriteFails, NoCall, UpdateRow, RowExists, RowStatuses,
       NoRow, Statuses, PickInv
  <2>7. DownInv'
    BY <1>13 DEF RejectOrHoldCommit, EndTick, CommitOk, CommitErr,
       ResetHeldAt, WriteFails, NoCall, UpdateRow, RowExists, RowStatuses,
       NoRow, Statuses, DownInv
  <2>8. CancelledNeverRuns'
    BY <1>13, TypesOfState DEF RejectOrHoldCommit, EndTick, CommitOk,
       CommitErr, ResetHeldAt, WriteFails, NoCall, UpdateRow, RowExists,
       RowStatuses, NoRow, Statuses, CancelledNeverRuns, LockInv, Calling,
       CallTo
  <2>9. ProgressInv'
    BY <1>13, TypesOfState DEF RejectOrHoldCommit, EndTick, CommitOk,
       CommitErr, ResetHeldAt, WriteFails, NoCall, UpdateRow, RowExists,
       RowStatuses, NoRow, Statuses, ProgressInv, Earned, LivePCs, Stages,
       Calling, CallTo, LockInv
  <2>10. WorkspaceIsolation'
    BY <1>13 DEF RejectOrHoldCommit, EndTick, WorkspaceIsolation
  <2> QED
    BY <2>1, <2>2, <2>3, <2>4, <2>5, <2>6, <2>7, <2>8, <2>9, <2>10 DEF IInv
<1>14. CASE StartCommit
  <2>1. TypeOK'
    BY <1>14 DEF StartCommit, EndTick, CommitOk, CommitErr, ResetHeldAt,
       WriteFails, NoCall, UpdateRow, RowExists, RowStatuses, NoRow, Statuses,
       TypeOK, StoreTypeOK, SchedTypeOK, RunnerTypeOK, Ticks, Callers
  <2>2. RowShowsPhase'
    BY <1>14, TypesOfState DEF StartCommit, EndTick, CommitOk, CommitErr,
       ResetHeldAt, WriteFails, NoCall, UpdateRow, RowExists, RowStatuses,
       NoRow, Statuses, RowShowsPhase, Live, LivePCs, Stages, Calling, CallTo,
       PhaseStatus, Executing, LockInv
  <2>3. IdleRows'
    BY <1>14, TypesOfState DEF StartCommit, EndTick, CommitOk, CommitErr,
       ResetHeldAt, WriteFails, NoCall, UpdateRow, RowExists, RowStatuses,
       NoRow, Statuses, IdleRows, SpawnWindow, LockInv, Calling, CallTo
  <2>4. FinishedRows'
    BY <1>14, TypesOfState DEF StartCommit, EndTick, CommitOk, CommitErr,
       ResetHeldAt, WriteFails, NoCall, UpdateRow, RowExists, RowStatuses,
       NoRow, Statuses, FinishedRows, Executing, LockInv, Calling, CallTo
  <2>5. LockInv'
    BY <1>14 DEF StartCommit, EndTick, CommitOk, CommitErr, ResetHeldAt,
       WriteFails, NoCall, UpdateRow, RowExists, RowStatuses, NoRow, Statuses,
       LockInv, Calling, CallTo
  <2>6. PickInv'
    BY <1>14, TypesOfState DEF StartCommit, EndTick, CommitOk, CommitErr,
       ResetHeldAt, WriteFails, NoCall, UpdateRow, RowExists, RowStatuses,
       NoRow, Statuses, PickInv, LockInv, Calling, CallTo, CancelledNeverRuns,
       Jobs
  <2>7. DownInv'
    BY <1>14 DEF StartCommit, EndTick, CommitOk, CommitErr, ResetHeldAt,
       WriteFails, NoCall, UpdateRow, RowExists, RowStatuses, NoRow, Statuses,
       DownInv
  <2>8. CancelledNeverRuns'
    BY <1>14, TypesOfState DEF StartCommit, EndTick, CommitOk, CommitErr,
       ResetHeldAt, WriteFails, NoCall, UpdateRow, RowExists, RowStatuses,
       NoRow, Statuses, CancelledNeverRuns, LockInv, Calling, CallTo
  <2>9. ProgressInv'
    BY <1>14, TypesOfState DEF StartCommit, EndTick, CommitOk, CommitErr,
       ResetHeldAt, WriteFails, NoCall, UpdateRow, RowExists, RowStatuses,
       NoRow, Statuses, ProgressInv, Earned, LivePCs, Stages, Calling, CallTo,
       LockInv
  <2>10. WorkspaceIsolation'
    BY <1>14 DEF StartCommit, EndTick, WorkspaceIsolation
  <2> QED
    BY <2>1, <2>2, <2>3, <2>4, <2>5, <2>6, <2>7, <2>8, <2>9, <2>10 DEF IInv
<1> QED
    BY <1>1, <1>2, <1>3, <1>4, <1>5, <1>6, <1>7, <1>8, <1>9, <1>10, <1>11,
       <1>12, <1>13, <1>14
       DEF Monitoring, Dispatching

(* The Spawn that ends a tick. *)
LEMMA SpawnKeepsIInv ==
  ASSUME IInv, SpawnNext
  PROVE  IInv'
<1> USE StoreAssumption, SchedulerAssumption, TranglyAssumption
    DEF IInv, jobVars, projectVars, storeVars, schedVars, runVars, dockerVars,
        historyVars, runnerVars, procVars
<1>1. CASE SpawnNext
  <2>1. TypeOK'
    BY <1>1 DEF SpawnNext, Spawn, Goto, Live, EndTick, TypeOK, StoreTypeOK,
       SchedTypeOK, RunnerTypeOK, Ticks, PCs, LivePCs, Stages, Calling, CallTo
  <2>2. RowShowsPhase'
    BY <1>1, TypesOfState DEF SpawnNext, Spawn, Goto, Live, EndTick,
       RowShowsPhase, LivePCs, Stages, Calling, CallTo, PhaseStatus,
       Executing, PickInv
  <2>3. IdleRows'
    BY <1>1, SMTT(20) DEF SpawnNext, Spawn, Goto, Live, EndTick, IdleRows,
       SpawnWindow, TypeOK, StoreTypeOK, SchedTypeOK, RunnerTypeOK, Ticks,
       PCs, LivePCs, Stages, Calling, CallTo
  <2>4. FinishedRows'
    BY <1>1, TypesOfState DEF SpawnNext, Spawn, Goto, Live, EndTick,
       FinishedRows, Executing
  <2>5. LockInv'
    BY <1>1, TypesOfState DEF SpawnNext, Spawn, Goto, Live, EndTick, LockInv,
       NoCall, Calling, CallTo, PickInv
  <2>6. PickInv'
    BY <1>1 DEF SpawnNext, Spawn, Goto, Live, EndTick, PickInv
  <2>7. DownInv'
    BY <1>1 DEF SpawnNext, Spawn, Goto, Live, EndTick, DownInv, NoCall
  <2>8. CancelledNeverRuns'
    BY <1>1, TypesOfState DEF SpawnNext, Spawn, Goto, Live, EndTick,
       CancelledNeverRuns, PickInv
  <2>9. ProgressInv'
    BY <1>1, TypesOfState DEF SpawnNext, Spawn, Goto, Live, EndTick,
       ProgressInv, Earned, LivePCs, Stages, Calling, CallTo, PickInv
  <2>10. WorkspaceIsolation'
    BY <1>1, TypesOfState DEF SpawnNext, Spawn, Goto, Live, EndTick,
       WorkspaceIsolation, WorkspaceDir
  <2> QED
    BY <2>1, <2>2, <2>3, <2>4, <2>5, <2>6, <2>7, <2>8, <2>9, <2>10 DEF IInv
<1> QED
    BY <1>1

(* A step of a deploy goroutine. *)
LEMMA StageKeepsIInv ==
  ASSUME IInv, NEW j \in Jobs, StageStep(j)
  PROVE  IInv'
<1> USE StoreAssumption, SchedulerAssumption, TranglyAssumption
    DEF IInv, jobVars, projectVars, storeVars, schedVars, runVars, dockerVars,
        historyVars, runnerVars, procVars
<1>0. UNCHANGED <<schedVars, procVars>>
    BY DEF StageStep
<1>1. CASE Load(j)
  <2>1. TypeOK'
    BY <1>0, <1>1 DEF Load, Goto, WithoutDir, TypeOK, StoreTypeOK,
       SchedTypeOK, RunnerTypeOK, NoCall, NoPlan, RowStatuses, NoRow,
       Statuses, PCs, LivePCs, Stages, Calling, CallTo, Ticks, Callers, Dirs,
       WorkspaceDir, Down, Mixed
  <2>2. RowShowsPhase'
    BY <1>0, <1>1, TypesOfState DEF Load, Goto, WithoutDir, RowShowsPhase,
       Live, LivePCs, Stages, Calling, CallTo, PhaseStatus, Executing
  <2>3. IdleRows'
    BY <1>0, <1>1, TypesOfState DEF Load, Goto, WithoutDir, IdleRows,
       SpawnWindow
  <2>4. FinishedRows'
    BY <1>0, <1>1, TypesOfState DEF Load, Goto, WithoutDir, FinishedRows,
       Executing
  <2>5. LockInv'
    BY <1>0, <1>1, TypesOfState DEF Load, Goto, WithoutDir, LockInv, NoCall,
       Calling, CallTo
  <2>6. PickInv'
    BY <1>0, <1>1, TypesOfState DEF Load, Goto, WithoutDir, PickInv
  <2>7. DownInv'
    BY <1>0, <1>1 DEF Load, Goto, WithoutDir, DownInv, NoCall
  <2>8. CancelledNeverRuns'
    BY <1>0, <1>1, TypesOfState DEF Load, Goto, WithoutDir, CancelledNeverRuns
  <2>9. ProgressInv'
    BY <1>0, <1>1, SMTT(20) DEF Load, Goto, WithoutDir, ProgressInv, Earned,
       LivePCs, Stages, Calling, CallTo, NoPlan, RowShowsPhase, Live,
       PhaseStatus, Executing, TypeOK, StoreTypeOK, SchedTypeOK, RunnerTypeOK,
       NoCall, RowStatuses, NoRow, Statuses, PCs, Ticks, Callers, Dirs,
       WorkspaceDir, Down, Mixed
  <2>10. WorkspaceIsolation'
    BY <1>0, <1>1, TypesOfState DEF Load, Goto, WithoutDir,
       WorkspaceIsolation, WorkspaceDir
  <2> QED
    BY <2>1, <2>2, <2>3, <2>4, <2>5, <2>6, <2>7, <2>8, <2>9, <2>10 DEF IInv
<1>2. CASE Fetch(j)
  <2>1. TypeOK'
    BY <1>0, <1>2 DEF Fetch, Goto, WithoutDir, TypeOK, StoreTypeOK,
       SchedTypeOK, RunnerTypeOK, PCs, LivePCs, Stages, Calling, CallTo, Dirs,
       WorkspaceDir
  <2>2. RowShowsPhase'
    BY <1>0, <1>2, TypesOfState DEF Fetch, Goto, WithoutDir, RowShowsPhase,
       Live, LivePCs, Stages, Calling, CallTo, PhaseStatus, Executing
  <2>3. IdleRows'
    BY <1>0, <1>2, TypesOfState DEF Fetch, Goto, WithoutDir, IdleRows,
       SpawnWindow
  <2>4. FinishedRows'
    BY <1>0, <1>2, TypesOfState DEF Fetch, Goto, WithoutDir, FinishedRows,
       Executing
  <2>5. LockInv'
    BY <1>0, <1>2, TypesOfState DEF Fetch, Goto, WithoutDir, LockInv, NoCall,
       Calling, CallTo
  <2>6. PickInv'
    BY <1>0, <1>2, TypesOfState DEF Fetch, Goto, WithoutDir, PickInv
  <2>7. DownInv'
    BY <1>0, <1>2 DEF Fetch, Goto, WithoutDir, DownInv, NoCall
  <2>8. CancelledNeverRuns'
    BY <1>0, <1>2, TypesOfState DEF Fetch, Goto, WithoutDir,
       CancelledNeverRuns
  <2>9. ProgressInv'
    BY <1>0, <1>2, TypesOfState DEF Fetch, Goto, WithoutDir, ProgressInv,
       Earned, LivePCs, Stages, Calling, CallTo
  <2>10. WorkspaceIsolation'
    BY <1>0, <1>2, TypesOfState DEF Fetch, Goto, WithoutDir,
       WorkspaceIsolation, WorkspaceDir
  <2> QED
    BY <2>1, <2>2, <2>3, <2>4, <2>5, <2>6, <2>7, <2>8, <2>9, <2>10 DEF IInv
<1>3. CASE Build(j)
  <2>1. TypeOK'
    BY <1>0, <1>3, SMTT(20) DEF Build, Goto, WithoutDir, TypeOK, StoreTypeOK,
       SchedTypeOK, RunnerTypeOK, PCs, LivePCs, Stages, Calling, CallTo, Down,
       Mixed, LockInv, NoCall
  <2>2. RowShowsPhase'
    BY <1>0, <1>3, TypesOfState DEF Build, Goto, WithoutDir, RowShowsPhase,
       Live, LivePCs, Stages, Calling, CallTo, PhaseStatus, Executing
  <2>3. IdleRows'
    BY <1>0, <1>3, TypesOfState DEF Build, Goto, WithoutDir, IdleRows,
       SpawnWindow
  <2>4. FinishedRows'
    BY <1>0, <1>3, TypesOfState DEF Build, Goto, WithoutDir, FinishedRows,
       Executing
  <2>5. LockInv'
    BY <1>0, <1>3, TypesOfState DEF Build, Goto, WithoutDir, LockInv, NoCall,
       Calling, CallTo
  <2>6. PickInv'
    BY <1>0, <1>3, TypesOfState DEF Build, Goto, WithoutDir, PickInv
  <2>7. DownInv'
    BY <1>0, <1>3 DEF Build, Goto, WithoutDir, DownInv, NoCall
  <2>8. CancelledNeverRuns'
    BY <1>0, <1>3, TypesOfState DEF Build, Goto, WithoutDir,
       CancelledNeverRuns
  <2>9. ProgressInv'
    BY <1>0, <1>3, TypesOfState DEF Build, Goto, WithoutDir, ProgressInv,
       Earned, LivePCs, Stages, Calling, CallTo
  <2>10. WorkspaceIsolation'
    BY <1>0, <1>3, TypesOfState DEF Build, Goto, WithoutDir,
       WorkspaceIsolation, WorkspaceDir
  <2> QED
    BY <2>1, <2>2, <2>3, <2>4, <2>5, <2>6, <2>7, <2>8, <2>9, <2>10 DEF IInv
<1>4. CASE HealthCheck(j)
  <2>1. TypeOK'
    BY <1>0, <1>4 DEF HealthCheck, Goto, WithoutDir, TypeOK, StoreTypeOK,
       SchedTypeOK, RunnerTypeOK, PCs, LivePCs, Stages, Calling, CallTo
  <2>2. RowShowsPhase'
    BY <1>0, <1>4, TypesOfState DEF HealthCheck, Goto, WithoutDir,
       RowShowsPhase, Live, LivePCs, Stages, Calling, CallTo, PhaseStatus,
       Executing
  <2>3. IdleRows'
    BY <1>0, <1>4, TypesOfState DEF HealthCheck, Goto, WithoutDir, IdleRows,
       SpawnWindow
  <2>4. FinishedRows'
    BY <1>0, <1>4, TypesOfState DEF HealthCheck, Goto, WithoutDir,
       FinishedRows, Executing
  <2>5. LockInv'
    BY <1>0, <1>4, TypesOfState DEF HealthCheck, Goto, WithoutDir, LockInv,
       NoCall, Calling, CallTo
  <2>6. PickInv'
    BY <1>0, <1>4, TypesOfState DEF HealthCheck, Goto, WithoutDir, PickInv
  <2>7. DownInv'
    BY <1>0, <1>4 DEF HealthCheck, Goto, WithoutDir, DownInv, NoCall
  <2>8. CancelledNeverRuns'
    BY <1>0, <1>4, TypesOfState DEF HealthCheck, Goto, WithoutDir,
       CancelledNeverRuns
  <2>9. ProgressInv'
    BY <1>0, <1>4, TypesOfState DEF HealthCheck, Goto, WithoutDir,
       ProgressInv, Earned, LivePCs, Stages, Calling, CallTo
  <2>10. WorkspaceIsolation'
    BY <1>0, <1>4, TypesOfState DEF HealthCheck, Goto, WithoutDir,
       WorkspaceIsolation, WorkspaceDir
  <2> QED
    BY <2>1, <2>2, <2>3, <2>4, <2>5, <2>6, <2>7, <2>8, <2>9, <2>10 DEF IInv
<1>5. CASE SwapDown(j)
  <2>1. TypeOK'
    BY <1>0, <1>5 DEF SwapDown, Goto, WithoutDir, TypeOK, StoreTypeOK,
       SchedTypeOK, RunnerTypeOK, PCs, LivePCs, Stages, Calling, CallTo, Down,
       Mixed
  <2>2. RowShowsPhase'
    BY <1>0, <1>5 DEF SwapDown, Goto, WithoutDir, RowShowsPhase, Live,
       LivePCs, Stages, Calling, CallTo, PhaseStatus, Executing
  <2>3. IdleRows'
    BY <1>0, <1>5 DEF SwapDown, Goto, WithoutDir, IdleRows, SpawnWindow
  <2>4. FinishedRows'
    BY <1>0, <1>5 DEF SwapDown, Goto, WithoutDir, FinishedRows, Executing
  <2>5. LockInv'
    BY <1>0, <1>5 DEF SwapDown, Goto, WithoutDir, LockInv, NoCall, Calling,
       CallTo
  <2>6. PickInv'
    BY <1>0, <1>5 DEF SwapDown, Goto, WithoutDir, PickInv
  <2>7. DownInv'
    BY <1>0, <1>5 DEF SwapDown, Goto, WithoutDir, DownInv, NoCall
  <2>8. CancelledNeverRuns'
    BY <1>0, <1>5 DEF SwapDown, Goto, WithoutDir, CancelledNeverRuns
  <2>9. ProgressInv'
    BY <1>0, <1>5 DEF SwapDown, Goto, WithoutDir, ProgressInv, Earned,
       LivePCs, Stages, Calling, CallTo
  <2>10. WorkspaceIsolation'
    BY <1>0, <1>5 DEF SwapDown, Goto, WithoutDir, WorkspaceIsolation,
       WorkspaceDir
  <2> QED
    BY <2>1, <2>2, <2>3, <2>4, <2>5, <2>6, <2>7, <2>8, <2>9, <2>10 DEF IInv
<1>6. CASE SwapUp(j)
  <2>1. TypeOK'
    BY <1>0, <1>6 DEF SwapUp, Goto, WithoutDir, TypeOK, StoreTypeOK,
       SchedTypeOK, RunnerTypeOK, PCs, LivePCs, Stages, Calling, CallTo, Down,
       Mixed
  <2>2. RowShowsPhase'
    BY <1>0, <1>6, TypesOfState DEF SwapUp, Goto, WithoutDir, RowShowsPhase,
       Live, LivePCs, Stages, Calling, CallTo, PhaseStatus, Executing
  <2>3. IdleRows'
    BY <1>0, <1>6, TypesOfState DEF SwapUp, Goto, WithoutDir, IdleRows,
       SpawnWindow
  <2>4. FinishedRows'
    BY <1>0, <1>6, TypesOfState DEF SwapUp, Goto, WithoutDir, FinishedRows,
       Executing
  <2>5. LockInv'
    BY <1>0, <1>6, TypesOfState DEF SwapUp, Goto, WithoutDir, LockInv, NoCall,
       Calling, CallTo
  <2>6. PickInv'
    BY <1>0, <1>6, TypesOfState DEF SwapUp, Goto, WithoutDir, PickInv
  <2>7. DownInv'
    BY <1>0, <1>6 DEF SwapUp, Goto, WithoutDir, DownInv, NoCall
  <2>8. CancelledNeverRuns'
    BY <1>0, <1>6, TypesOfState DEF SwapUp, Goto, WithoutDir,
       CancelledNeverRuns
  <2>9. ProgressInv'
    BY <1>0, <1>6, TypesOfState DEF SwapUp, Goto, WithoutDir, ProgressInv,
       Earned, LivePCs, Stages, Calling, CallTo
  <2>10. WorkspaceIsolation'
    BY <1>0, <1>6, TypesOfState DEF SwapUp, Goto, WithoutDir,
       WorkspaceIsolation, WorkspaceDir
  <2> QED
    BY <2>1, <2>2, <2>3, <2>4, <2>5, <2>6, <2>7, <2>8, <2>9, <2>10 DEF IInv
<1>7. CASE HotSwap(j)
  <2>1. TypeOK'
    BY <1>0, <1>7 DEF HotSwap, Goto, WithoutDir, TypeOK, StoreTypeOK,
       SchedTypeOK, RunnerTypeOK, PCs, LivePCs, Stages, Calling, CallTo, Down,
       Mixed
  <2>2. RowShowsPhase'
    BY <1>0, <1>7, TypesOfState DEF HotSwap, Goto, WithoutDir, RowShowsPhase,
       Live, LivePCs, Stages, Calling, CallTo, PhaseStatus, Executing
  <2>3. IdleRows'
    BY <1>0, <1>7, TypesOfState DEF HotSwap, Goto, WithoutDir, IdleRows,
       SpawnWindow
  <2>4. FinishedRows'
    BY <1>0, <1>7, TypesOfState DEF HotSwap, Goto, WithoutDir, FinishedRows,
       Executing
  <2>5. LockInv'
    BY <1>0, <1>7, TypesOfState DEF HotSwap, Goto, WithoutDir, LockInv,
       NoCall, Calling, CallTo
  <2>6. PickInv'
    BY <1>0, <1>7, TypesOfState DEF HotSwap, Goto, WithoutDir, PickInv
  <2>7. DownInv'
    BY <1>0, <1>7 DEF HotSwap, Goto, WithoutDir, DownInv, NoCall
  <2>8. CancelledNeverRuns'
    BY <1>0, <1>7, TypesOfState DEF HotSwap, Goto, WithoutDir,
       CancelledNeverRuns
  <2>9. ProgressInv'
    BY <1>0, <1>7, TypesOfState DEF HotSwap, Goto, WithoutDir, ProgressInv,
       Earned, LivePCs, Stages, Calling, CallTo
  <2>10. WorkspaceIsolation'
    BY <1>0, <1>7, TypesOfState DEF HotSwap, Goto, WithoutDir,
       WorkspaceIsolation, WorkspaceDir
  <2> QED
    BY <2>1, <2>2, <2>3, <2>4, <2>5, <2>6, <2>7, <2>8, <2>9, <2>10 DEF IInv
<1>8. CASE Cleanup(j)
  <2>1. TypeOK'
    BY <1>0, <1>8 DEF Cleanup, Goto, WithoutDir, TypeOK, StoreTypeOK,
       SchedTypeOK, RunnerTypeOK, PCs, LivePCs, Stages, Calling, CallTo, Dirs,
       WorkspaceDir
  <2>2. RowShowsPhase'
    BY <1>0, <1>8 DEF Cleanup, Goto, WithoutDir, RowShowsPhase, Live, LivePCs,
       Stages, Calling, CallTo, PhaseStatus, Executing
  <2>3. IdleRows'
    BY <1>0, <1>8 DEF Cleanup, Goto, WithoutDir, IdleRows, SpawnWindow
  <2>4. FinishedRows'
    BY <1>0, <1>8 DEF Cleanup, Goto, WithoutDir, FinishedRows, Executing
  <2>5. LockInv'
    BY <1>0, <1>8 DEF Cleanup, Goto, WithoutDir, LockInv, NoCall, Calling,
       CallTo
  <2>6. PickInv'
    BY <1>0, <1>8 DEF Cleanup, Goto, WithoutDir, PickInv
  <2>7. DownInv'
    BY <1>0, <1>8 DEF Cleanup, Goto, WithoutDir, DownInv, NoCall
  <2>8. CancelledNeverRuns'
    BY <1>0, <1>8 DEF Cleanup, Goto, WithoutDir, CancelledNeverRuns
  <2>9. ProgressInv'
    BY <1>0, <1>8 DEF Cleanup, Goto, WithoutDir, ProgressInv, Earned, LivePCs,
       Stages, Calling, CallTo
  <2>10. WorkspaceIsolation'
    BY <1>0, <1>8 DEF Cleanup, Goto, WithoutDir, WorkspaceIsolation,
       WorkspaceDir
  <2> QED
    BY <2>1, <2>2, <2>3, <2>4, <2>5, <2>6, <2>7, <2>8, <2>9, <2>10 DEF IInv
<1>9. CASE Request(j)
  <2>1. TypeOK'
    BY <1>0, <1>9, SMTT(20) DEF Request, Goto, WithoutDir, CallTo, CallErr,
       Calling, Acquire, RowExists, ValidateTransition, allowedTransitions,
       NoCall, Refused, TypeOK, StoreTypeOK, SchedTypeOK, RunnerTypeOK,
       Callers, Statuses, PCs, LivePCs, Stages
  <2>2. RowShowsPhase'
    BY <1>0, <1>9, TypesOfState DEF Request, Goto, WithoutDir, CallTo,
       CallErr, Calling, Acquire, RowExists, ValidateTransition,
       allowedTransitions, NoCall, Refused, RowShowsPhase, Live, LivePCs,
       Stages, PhaseStatus, Executing
  <2>3. IdleRows'
    BY <1>0, <1>9, TypesOfState DEF Request, Goto, WithoutDir, CallTo,
       CallErr, Calling, Acquire, RowExists, ValidateTransition,
       allowedTransitions, NoCall, Refused, IdleRows, SpawnWindow
  <2>4. FinishedRows'
    BY <1>0, <1>9, SMTT(20) DEF Request, Goto, WithoutDir, CallTo, CallErr,
       Calling, Acquire, RowExists, ValidateTransition, allowedTransitions,
       NoCall, Refused, FinishedRows, Executing, RowShowsPhase, Live, LivePCs,
       Stages, PhaseStatus, TypeOK, StoreTypeOK, SchedTypeOK, RunnerTypeOK,
       Callers, Statuses, PCs
  <2>5. LockInv'
    BY <1>0, <1>9 DEF Request, Goto, WithoutDir, CallTo, CallErr, Calling,
       Acquire, RowExists, ValidateTransition, allowedTransitions, NoCall,
       Refused, LockInv
  <2>6. PickInv'
    BY <1>0, <1>9, TypesOfState DEF Request, Goto, WithoutDir, CallTo,
       CallErr, Calling, Acquire, RowExists, ValidateTransition,
       allowedTransitions, NoCall, Refused, PickInv
  <2>7. DownInv'
    BY <1>0, <1>9 DEF Request, Goto, WithoutDir, CallTo, CallErr, Calling,
       Acquire, RowExists, ValidateTransition, allowedTransitions, NoCall,
       Refused, DownInv
  <2>8. CancelledNeverRuns'
    BY <1>0, <1>9, TypesOfState DEF Request, Goto, WithoutDir, CallTo,
       CallErr, Calling, Acquire, RowExists, ValidateTransition,
       allowedTransitions, NoCall, Refused, CancelledNeverRuns
  <2>9. ProgressInv'
    BY <1>0, <1>9, TypesOfState DEF Request, Goto, WithoutDir, CallTo,
       CallErr, Calling, Acquire, RowExists, ValidateTransition,
       allowedTransitions, NoCall, Refused, ProgressInv, Earned, LivePCs,
       Stages
  <2>10. WorkspaceIsolation'
    BY <1>0, <1>9, TypesOfState DEF Request, Goto, WithoutDir, CallTo,
       CallErr, Calling, Acquire, RowExists, ValidateTransition,
       allowedTransitions, NoCall, Refused, WorkspaceIsolation, WorkspaceDir
  <2> QED
    BY <2>1, <2>2, <2>3, <2>4, <2>5, <2>6, <2>7, <2>8, <2>9, <2>10 DEF IInv
<1>10. CASE SetCommitStatus(j)
  <2>1. TypeOK'
    BY <1>0, <1>10 DEF SetCommitStatus, Goto, WithoutDir, TypeOK, StoreTypeOK,
       SchedTypeOK, RunnerTypeOK, PCs, LivePCs, Stages, Calling, CallTo
  <2>2. RowShowsPhase'
    BY <1>0, <1>10 DEF SetCommitStatus, Goto, WithoutDir, RowShowsPhase, Live,
       LivePCs, Stages, Calling, CallTo, PhaseStatus, Executing
  <2>3. IdleRows'
    BY <1>0, <1>10 DEF SetCommitStatus, Goto, WithoutDir, IdleRows,
       SpawnWindow
  <2>4. FinishedRows'
    BY <1>0, <1>10 DEF SetCommitStatus, Goto, WithoutDir, FinishedRows,
       Executing
  <2>5. LockInv'
    BY <1>0, <1>10 DEF SetCommitStatus, Goto, WithoutDir, LockInv, NoCall,
       Calling, CallTo
  <2>6. PickInv'
    BY <1>0, <1>10 DEF SetCommitStatus, Goto, WithoutDir, PickInv
  <2>7. DownInv'
    BY <1>0, <1>10 DEF SetCommitStatus, Goto, WithoutDir, DownInv, NoCall
  <2>8. CancelledNeverRuns'
    BY <1>0, <1>10 DEF SetCommitStatus, Goto, WithoutDir, CancelledNeverRuns
  <2>9. ProgressInv'
    BY <1>0, <1>10, TypesOfState DEF SetCommitStatus, Goto, WithoutDir,
       ProgressInv, Earned, LivePCs, Stages, Calling, CallTo
  <2>10. WorkspaceIsolation'
    BY <1>0, <1>10 DEF SetCommitStatus, Goto, WithoutDir, WorkspaceIsolation,
       WorkspaceDir
  <2> QED
    BY <2>1, <2>2, <2>3, <2>4, <2>5, <2>6, <2>7, <2>8, <2>9, <2>10 DEF IInv
<1> QED
    BY <1>1, <1>2, <1>3, <1>4, <1>5, <1>6, <1>7, <1>8, <1>9, <1>10
       DEF StageStep, Stage

(* The write of the manager call that a goroutine or a request is in. *)
LEMMA CallsKeepIInv ==
  ASSUME IInv, NEW j \in Jobs, ReplyStep(j) \/ CancelReturns(j)
  PROVE  IInv'
<1> USE StoreAssumption, SchedulerAssumption, TranglyAssumption
    DEF IInv, jobVars, projectVars, storeVars, schedVars, runVars, dockerVars,
        historyVars, runnerVars, procVars
<1>1. CASE ReplyStep(j)
  <2>1. TypeOK'
    BY <1>1, SMTT(20) DEF ReplyStep, Reply, Goto, CallTo, CallOk, CallErr,
       Calling, CommitOk, CommitErr, ResetHeldAt, WriteFails, NoCall,
       UpdateRow, RowExists, RowStatuses, NoRow, Statuses, TypeOK,
       StoreTypeOK, SchedTypeOK, RunnerTypeOK, Callers, PCs, LivePCs, Stages
  <2>2. RowShowsPhase'
    BY <1>1, TypesOfState DEF ReplyStep, Reply, Goto, CallTo, CallOk, CallErr,
       Calling, CommitOk, CommitErr, ResetHeldAt, WriteFails, NoCall,
       UpdateRow, RowExists, RowStatuses, NoRow, Statuses, RowShowsPhase,
       Live, LivePCs, Stages, PhaseStatus, Executing, LockInv
  <2>3. IdleRows'
    BY <1>1, TypesOfState DEF ReplyStep, Reply, Goto, CallTo, CallOk, CallErr,
       Calling, CommitOk, CommitErr, ResetHeldAt, WriteFails, NoCall,
       UpdateRow, RowExists, RowStatuses, NoRow, Statuses, IdleRows,
       SpawnWindow
  <2>4. FinishedRows'
    BY <1>1, TypesOfState DEF ReplyStep, Reply, Goto, CallTo, CallOk, CallErr,
       Calling, CommitOk, CommitErr, ResetHeldAt, WriteFails, NoCall,
       UpdateRow, RowExists, RowStatuses, NoRow, Statuses, FinishedRows,
       Executing, LockInv, RowShowsPhase, Live, LivePCs, Stages, PhaseStatus
  <2>5. LockInv'
    BY <1>1 DEF ReplyStep, Reply, Goto, CallTo, CallOk, CallErr, Calling,
       CommitOk, CommitErr, ResetHeldAt, WriteFails, NoCall, UpdateRow,
       RowExists, RowStatuses, NoRow, Statuses, LockInv
  <2>6. PickInv'
    BY <1>1, TypesOfState DEF ReplyStep, Reply, Goto, CallTo, CallOk, CallErr,
       Calling, CommitOk, CommitErr, ResetHeldAt, WriteFails, NoCall,
       UpdateRow, RowExists, RowStatuses, NoRow, Statuses, PickInv, LockInv,
       Jobs
  <2>7. DownInv'
    BY <1>1 DEF ReplyStep, Reply, Goto, CallTo, CallOk, CallErr, Calling,
       CommitOk, CommitErr, ResetHeldAt, WriteFails, NoCall, UpdateRow,
       RowExists, RowStatuses, NoRow, Statuses, DownInv
  <2>8. CancelledNeverRuns'
    BY <1>1, TypesOfState DEF ReplyStep, Reply, Goto, CallTo, CallOk, CallErr,
       Calling, CommitOk, CommitErr, ResetHeldAt, WriteFails, NoCall,
       UpdateRow, RowExists, RowStatuses, NoRow, Statuses, CancelledNeverRuns
  <2>9. ProgressInv'
    BY <1>1, TypesOfState DEF ReplyStep, Reply, Goto, CallTo, CallOk, CallErr,
       Calling, CommitOk, CommitErr, ResetHeldAt, WriteFails, NoCall,
       UpdateRow, RowExists, RowStatuses, NoRow, Statuses, ProgressInv,
       Earned, LivePCs, Stages, LockInv
  <2>10. WorkspaceIsolation'
    BY <1>1, TypesOfState DEF ReplyStep, Reply, Goto, CallTo, CallOk, CallErr,
       Calling, CommitOk, CommitErr, ResetHeldAt, WriteFails, NoCall,
       UpdateRow, RowExists, RowStatuses, NoRow, Statuses, WorkspaceIsolation,
       WorkspaceDir
  <2> QED
    BY <2>1, <2>2, <2>3, <2>4, <2>5, <2>6, <2>7, <2>8, <2>9, <2>10 DEF IInv
<1>2. CASE CancelReturns(j)
  <2>1. TypeOK'
    BY <1>2 DEF CancelReturns, CancelCommit, CommitOk, CommitErr, ResetHeldAt,
       WriteFails, NoCall, UpdateRow, RowExists, RowStatuses, NoRow, Statuses,
       TypeOK, StoreTypeOK, SchedTypeOK, RunnerTypeOK, Callers
  <2>2. RowShowsPhase'
    BY <1>2, TypesOfState DEF CancelReturns, CancelCommit, CommitOk,
       CommitErr, ResetHeldAt, WriteFails, NoCall, UpdateRow, RowExists,
       RowStatuses, NoRow, Statuses, RowShowsPhase, Live, LivePCs, Stages,
       Calling, CallTo, PhaseStatus, Executing, LockInv
  <2>3. IdleRows'
    BY <1>2, TypesOfState DEF CancelReturns, CancelCommit, CommitOk,
       CommitErr, ResetHeldAt, WriteFails, NoCall, UpdateRow, RowExists,
       RowStatuses, NoRow, Statuses, IdleRows, SpawnWindow, LockInv, Calling,
       CallTo
  <2>4. FinishedRows'
    BY <1>2, TypesOfState DEF CancelReturns, CancelCommit, CommitOk,
       CommitErr, ResetHeldAt, WriteFails, NoCall, UpdateRow, RowExists,
       RowStatuses, NoRow, Statuses, FinishedRows, Executing, LockInv,
       Calling, CallTo
  <2>5. LockInv'
    BY <1>2 DEF CancelReturns, CancelCommit, CommitOk, CommitErr, ResetHeldAt,
       WriteFails, NoCall, UpdateRow, RowExists, RowStatuses, NoRow, Statuses,
       LockInv, Calling, CallTo
  <2>6. PickInv'
    BY <1>2, TypesOfState DEF CancelReturns, CancelCommit, CommitOk,
       CommitErr, ResetHeldAt, WriteFails, NoCall, UpdateRow, RowExists,
       RowStatuses, NoRow, Statuses, PickInv, LockInv, Calling, CallTo, Jobs
  <2>7. DownInv'
    BY <1>2 DEF CancelReturns, CancelCommit, CommitOk, CommitErr, ResetHeldAt,
       WriteFails, NoCall, UpdateRow, RowExists, RowStatuses, NoRow, Statuses,
       DownInv
  <2>8. CancelledNeverRuns'
    BY <1>2, TypesOfState DEF CancelReturns, CancelCommit, CommitOk,
       CommitErr, ResetHeldAt, WriteFails, NoCall, UpdateRow, RowExists,
       RowStatuses, NoRow, Statuses, CancelledNeverRuns, LockInv, Calling,
       CallTo
  <2>9. ProgressInv'
    BY <1>2, TypesOfState DEF CancelReturns, CancelCommit, CommitOk,
       CommitErr, ResetHeldAt, WriteFails, NoCall, UpdateRow, RowExists,
       RowStatuses, NoRow, Statuses, ProgressInv, Earned, LivePCs, Stages,
       Calling, CallTo, LockInv
  <2>10. WorkspaceIsolation'
    BY <1>2 DEF CancelReturns, CancelCommit, WorkspaceIsolation
  <2> QED
    BY <2>1, <2>2, <2>3, <2>4, <2>5, <2>6, <2>7, <2>8, <2>9, <2>10 DEF IInv
<1> QED
    BY <1>1, <1>2

(* Time passes. *)
LEMMA ClockKeepsIInv ==
  ASSUME IInv, NEW j \in Jobs, HoldExpires(j) \/ JobOverdue(j)
  PROVE  IInv'
<1> USE StoreAssumption, SchedulerAssumption, TranglyAssumption
    DEF IInv, jobVars, projectVars, storeVars, schedVars, runVars, dockerVars,
        historyVars, runnerVars, procVars
<1>1. CASE HoldExpires(j)
  <2>1. TypeOK'
    BY <1>1 DEF HoldExpires, HeldTooLong, TypeOK, StoreTypeOK, SchedTypeOK,
       RunnerTypeOK
  <2>2. RowShowsPhase' /\ IdleRows' /\ FinishedRows' /\ LockInv' /\
        PickInv' /\ DownInv' /\ CancelledNeverRuns' /\ ProgressInv' /\
        WorkspaceIsolation'
    BY <1>1 DEF HoldExpires, HeldTooLong, RowShowsPhase, Live, IdleRows,
       SpawnWindow, FinishedRows, LockInv, PickInv, DownInv,
       CancelledNeverRuns, ProgressInv, Earned, WorkspaceIsolation
  <2> QED
    BY <2>1, <2>2 DEF IInv
<1>2. CASE JobOverdue(j)
  <2>1. TypeOK'
    BY <1>2 DEF JobOverdue, StartedTooLongAgo, TypeOK, StoreTypeOK,
       SchedTypeOK, RunnerTypeOK
  <2>2. RowShowsPhase' /\ IdleRows' /\ FinishedRows' /\ LockInv' /\
        PickInv' /\ DownInv' /\ CancelledNeverRuns' /\ ProgressInv' /\
        WorkspaceIsolation'
    BY <1>2 DEF JobOverdue, StartedTooLongAgo, RowShowsPhase, Live, IdleRows,
       SpawnWindow, FinishedRows, LockInv, PickInv, DownInv,
       CancelledNeverRuns, ProgressInv, Earned, WorkspaceIsolation
  <2> QED
    BY <2>1, <2>2 DEF IInv
<1> QED
    BY <1>1, <1>2

(* The process stops and starts. *)
LEMMA ProcessKeepsIInv ==
  ASSUME IInv, Shutdown \/ Crash \/ Exit \/ Restart
  PROVE  IInv'
<1> USE StoreAssumption, SchedulerAssumption, TranglyAssumption
    DEF IInv, jobVars, projectVars, storeVars, schedVars, runVars, dockerVars,
        historyVars, runnerVars, procVars
<1>1. CASE Shutdown
  <2>1. TypeOK'
    BY <1>1 DEF Shutdown, TypeOK, StoreTypeOK, SchedTypeOK, RunnerTypeOK
  <2>2. IdleRows'
    BY <1>1 DEF Shutdown, IdleRows, SpawnWindow
  <2>3. FinishedRows'
    BY <1>1 DEF Shutdown, FinishedRows, Executing
  <2>4. DownInv'
    BY <1>1 DEF Shutdown, DownInv, NoCall
  <2>5. RowShowsPhase' /\ LockInv' /\ PickInv' /\ CancelledNeverRuns' /\
        ProgressInv' /\ WorkspaceIsolation'
    BY <1>1 DEF Shutdown, RowShowsPhase, Live, LockInv, PickInv,
       CancelledNeverRuns, ProgressInv, Earned, WorkspaceIsolation
  <2> QED
    BY <2>1, <2>2, <2>3, <2>4, <2>5 DEF IInv
<1>2. CASE Crash
  <2>1. TypeOK'
    BY <1>2 DEF Crash, Lose, Live, TypeOK, StoreTypeOK, SchedTypeOK,
       RunnerTypeOK, Ticks, NoCall, Callers, Statuses, PCs, LivePCs, Stages,
       Calling, CallTo
  <2>2. RowShowsPhase'
    BY <1>2 DEF Crash, Lose, Live, RowShowsPhase, LivePCs, Stages, Calling,
       CallTo, PhaseStatus, Executing
  <2>3. IdleRows'
    BY <1>2 DEF Crash, Lose, Live, IdleRows, SpawnWindow
  <2>4. FinishedRows'
    BY <1>2 DEF Crash, Lose, Live, FinishedRows, Executing, RowShowsPhase,
       LivePCs, Stages, Calling, CallTo, PhaseStatus
  <2>5. LockInv'
    BY <1>2 DEF Crash, Lose, Live, LockInv, NoCall, Calling, CallTo
  <2>6. PickInv'
    BY <1>2 DEF Crash, Lose, Live, PickInv
  <2>7. DownInv'
    BY <1>2 DEF Crash, Lose, Live, DownInv, NoCall, TypeOK, StoreTypeOK,
       SchedTypeOK, RunnerTypeOK, Ticks, Callers, Statuses, PCs, LivePCs,
       Stages, Calling, CallTo
  <2>8. CancelledNeverRuns'
    BY <1>2 DEF Crash, Lose, Live, CancelledNeverRuns, TypeOK, StoreTypeOK,
       SchedTypeOK, RunnerTypeOK, Ticks, NoCall, Callers, Statuses, PCs,
       LivePCs, Stages, Calling, CallTo
  <2>9. ProgressInv'
    BY <1>2 DEF Crash, Lose, Live, ProgressInv, Earned, LivePCs, Stages,
       Calling, CallTo
  <2>10. WorkspaceIsolation'
    BY <1>2 DEF Crash, Lose, Live, WorkspaceIsolation, WorkspaceDir
  <2> QED
    BY <2>1, <2>2, <2>3, <2>4, <2>5, <2>6, <2>7, <2>8, <2>9, <2>10 DEF IInv
<1>3. CASE Exit
  <2>1. TypeOK'
    BY <1>3 DEF Exit, Lose, Live, TypeOK, StoreTypeOK, SchedTypeOK,
       RunnerTypeOK, Ticks, NoCall, Callers, Statuses, PCs, LivePCs, Stages,
       Calling, CallTo
  <2>2. RowShowsPhase'
    BY <1>3 DEF Exit, Lose, Live, RowShowsPhase, LivePCs, Stages, Calling,
       CallTo, PhaseStatus, Executing
  <2>3. IdleRows'
    BY <1>3 DEF Exit, Lose, Live, IdleRows, SpawnWindow
  <2>4. FinishedRows'
    BY <1>3 DEF Exit, Lose, Live, FinishedRows, Executing, RowShowsPhase,
       LivePCs, Stages, Calling, CallTo, PhaseStatus
  <2>5. LockInv'
    BY <1>3 DEF Exit, Lose, Live, LockInv, NoCall, Calling, CallTo
  <2>6. PickInv'
    BY <1>3 DEF Exit, Lose, Live, PickInv
  <2>7. DownInv'
    BY <1>3 DEF Exit, Lose, Live, DownInv, NoCall, TypeOK, StoreTypeOK,
       SchedTypeOK, RunnerTypeOK, Ticks, Callers, Statuses, PCs, LivePCs,
       Stages, Calling, CallTo
  <2>8. CancelledNeverRuns'
    BY <1>3 DEF Exit, Lose, Live, CancelledNeverRuns, TypeOK, StoreTypeOK,
       SchedTypeOK, RunnerTypeOK, Ticks, NoCall, Callers, Statuses, PCs,
       LivePCs, Stages, Calling, CallTo
  <2>9. ProgressInv'
    BY <1>3 DEF Exit, Lose, Live, ProgressInv, Earned, LivePCs, Stages,
       Calling, CallTo
  <2>10. WorkspaceIsolation'
    BY <1>3 DEF Exit, Lose, Live, WorkspaceIsolation, WorkspaceDir
  <2> QED
    BY <2>1, <2>2, <2>3, <2>4, <2>5, <2>6, <2>7, <2>8, <2>9, <2>10 DEF IInv
<1>4. CASE Restart
  <2>1. TypeOK'
    BY <1>4, TypesOfState, RestartRows DEF Restart, Interrupted, TypeOK,
       StoreTypeOK, SchedTypeOK, RunnerTypeOK, Ticks, RowStatuses, NoRow,
       Statuses
  <2>2. RowShowsPhase'
    BY <1>4, TypesOfState, RestartRows DEF Restart, Interrupted,
       RowShowsPhase, Live, LivePCs, Stages, Calling, CallTo, PhaseStatus,
       Executing
  <2>3. IdleRows'
    BY <1>4, TypesOfState, TypesOfState, RestartRows DEF Restart, Interrupted,
       IdleRows, SpawnWindow
  <2>4. FinishedRows'
    BY <1>4, TypesOfState, TypesOfState, RestartRows DEF Restart, Interrupted,
       FinishedRows, Executing
  <2>5. LockInv'
    BY <1>4, TypesOfState, RestartRows DEF Restart, Interrupted, LockInv,
       NoCall, Calling, CallTo, DownInv
  <2>6. PickInv'
    BY <1>4, TypesOfState, RestartRows DEF Restart, Interrupted, PickInv
  <2>7. DownInv'
    BY <1>4, TypesOfState, RestartRows DEF Restart, Interrupted, DownInv,
       NoCall
  <2>8. CancelledNeverRuns'
    BY <1>4, TypesOfState, TypesOfState, RestartRows DEF Restart, Interrupted,
       CancelledNeverRuns
  <2>9. ProgressInv'
    BY <1>4, TypesOfState, RestartRows DEF Restart, Interrupted, ProgressInv,
       Earned, LivePCs, Stages, Calling, CallTo
  <2>10. WorkspaceIsolation'
    BY <1>4 DEF Restart, WorkspaceIsolation
  <2> QED
    BY <2>1, <2>2, <2>3, <2>4, <2>5, <2>6, <2>7, <2>8, <2>9, <2>10 DEF IInv
<1> QED
    BY <1>1, <1>2, <1>3, <1>4

------------------------------------------------------------------------------
(* Every step of the execution plane. *)
LEMMA NextKeepsIInv == IInv /\ [Next]_vars => IInv'
<1> SUFFICES ASSUME IInv, [Next]_vars PROVE IInv'
    OBVIOUS
<1>1. CASE ApiStep
    BY <1>1, ApiKeepsIInv
<1>2. CASE SchedulerStep
  <2>1. CASE SpawnNext
      BY <2>1, SpawnKeepsIInv
  <2>2. CASE /\ TickStart \/ Monitoring \/ Dispatching
             /\ UNCHANGED <<runnerVars, procVars>>
      BY <2>2, TickKeepsIInv
  <2> QED
      BY <1>2, <2>1, <2>2 DEF SchedulerStep
<1>3. ASSUME NEW j \in Jobs, StageStep(j) PROVE IInv'
    BY <1>3, StageKeepsIInv
<1>4. ASSUME NEW j \in Jobs, ReplyStep(j) \/ CancelReturns(j) PROVE IInv'
    BY <1>4, CallsKeepIInv
<1>5. ASSUME NEW j \in Jobs, HoldExpires(j) \/ JobOverdue(j) PROVE IInv'
    BY <1>5, ClockKeepsIInv
<1>6. CASE Shutdown \/ Crash \/ Exit \/ Restart
    BY <1>6, ProcessKeepsIInv
<1>7. CASE UNCHANGED vars
  <2> USE <1>7 DEF IInv, vars, jobVars, projectVars, storeVars, schedVars,
        runVars, dockerVars, historyVars, runnerVars, procVars
  <2>1. TypeOK'
      BY DEF TypeOK, StoreTypeOK, SchedTypeOK, RunnerTypeOK
  <2>2. RowShowsPhase' /\ IdleRows' /\ FinishedRows' /\ LockInv' /\ PickInv'
      BY DEF RowShowsPhase, Live, IdleRows, SpawnWindow, FinishedRows, LockInv,
         PickInv
  <2>3. DownInv' /\ CancelledNeverRuns' /\ ProgressInv' /\ WorkspaceIsolation'
      BY DEF DownInv, CancelledNeverRuns, ProgressInv, Earned,
         WorkspaceIsolation
  <2> QED
      BY <2>1, <2>2, <2>3
<1> QED
    BY <1>1, <1>2, <1>3, <1>4, <1>5, <1>6, <1>7 DEF Next

(* The inductive invariant holds in every state of every behaviour: the    *)
(* rows, the goroutines, the lock and the tick agree (manager.go,          *)
(* scheduler.go, runner.go).                                               *)
THEOREM InductiveInvariant == Spec => []IInv
<1>1. Init => IInv
    BY InitInv
<1>2. IInv /\ [Next]_vars => IInv'
    BY NextKeepsIInv
<1> QED
    BY <1>1, <1>2, PTL DEF Spec

------------------------------------------------------------------------------
(* The safety properties *)

(* Every variable keeps its type; in particular the monitor, the recovery  *)
(* and the manager write only statuses of the vocabulary (enums.go).       *)
THEOREM TypeCorrect == Spec => []TypeOK
<1>1. IInv => TypeOK
    BY DEF IInv
<1> QED
    BY <1>1, InductiveInvariant, PTL

(* The row of a job whose goroutine runs shows the goroutine's phase,      *)
(* unless it was failed by the monitor or deleted (runner.go:141-204).     *)
THEOREM RowsShowPhases == Spec => []RowShowsPhase
<1>1. IInv => RowShowsPhase
    BY DEF IInv
<1> QED
    BY <1>1, InductiveInvariant, PTL

(* An acknowledged cancel is final (manager.go:192-213 against the tick).  *)
THEOREM CancelIsFinal == Spec => []CancelledNeverRuns
<1>1. IInv => CancelledNeverRuns
    BY DEF IInv
<1> QED
    BY <1>1, InductiveInvariant, PTL

(* No job is spawned twice, so Spawn's error, which the tick only logs,    *)
(* does not occur (scheduler.go:195-202, supervisor.go:28-49).             *)
THEOREM SpawnedAtMostOnce == Spec => []SpawnsOnce
<1>1. IInv => SpawnsOnce
    BY DEF IInv, PickInv, SpawnsOnce
<1> QED
    BY <1>1, InductiveInvariant, PTL

(* An executing row without a goroutine has one of the listed reasons      *)
(* (manager.go:215-238).                                                   *)
THEOREM OrphansAreExplained == Spec => []OrphansExplained
<1>1. IInv => OrphansExplained
    BY TypesOfState
       DEF IInv, OrphansExplained, IdleRows, FinishedRows, Live, PCs, Executing
<1> QED
    BY <1>1, InductiveInvariant, PTL

(* Success is reported only for a pipeline that ran to its end, with the   *)
(* health check on the rebuild path (runner.go:172-204).                   *)
THEOREM ReportedSuccessIsEarned == Spec => []SuccessIsEarned
<1>1. IInv => SuccessIsEarned
    BY DEF IInv, ProgressInv, Earned, SuccessIsEarned
<1> QED
    BY <1>1, InductiveInvariant, PTL

(* The checkout a goroutine works on is its own (pipeline.go:51-55).       *)
THEOREM WorkspacesAreIsolated == Spec => []WorkspaceIsolation
<1>1. IInv => WorkspaceIsolation
    BY DEF IInv
<1> QED
    BY <1>1, InductiveInvariant, PTL
==============================================================================
