------------------------------- MODULE Runner --------------------------------
(***************************************************************************)
(* The goroutine of one deploy job: engine.Supervisor.Spawn around         *)
(* engine.Runner.Run, which drives the stages of internal/deploy.          *)
(*                                                                         *)
(* A goroutine never looks at its row except through the manager call at   *)
(* each phase boundary, and nothing cancels it: the monitor may fail the   *)
(* row, or the row may be deleted, while the stages go on.                 *)
(*                                                                         *)
(* Docker is external. Compose names images and containers after           *)
(* COMPOSE_PROJECT_NAME = slug, so jobs with one slug share them: "image"  *)
(* and "prod" are indexed by the slug, and hold the job whose build or     *)
(* files are there. Any stage may fail (its own error, or the 30-minute    *)
(* job context).                                                           *)
(***************************************************************************)
EXTENDS JobStore

VARIABLES
    pc,          \* where the goroutine of each job is
    plan,        \* the project fields Run read: slug and deploy mode
    workspaces,  \* <<directory, job whose checkout it holds>>
    image,       \* external: the job whose build the slug's image tag names
    prod,        \* external: the job the slug's running containers come from
    checked,     \* history: jobs whose HealthCheckStage returned nil
    deployed,    \* history: jobs whose SwapStage or HotSwapStage returned nil
    posted       \* history: jobs with a "success" commit status on GitHub

runVars == <<pc, plan, workspaces>>
dockerVars == <<image, prod>>
historyVars == <<checked, deployed, posted>>
runnerVars == <<pc, plan, workspaces, image, prod, checked, deployed, posted>>

\* prod[s] when no container runs, and after an interrupted docker cp or up.
Down == 0
Mixed == -1

\* Goroutine positions at which Run is inside a manager call, with the status
\* it asks for and where it goes on success and on error.
CallTo == [building     |-> "building",
           health_check |-> "health_check",
           swapping     |-> "swapping",
           hot_swapping |-> "hot_swapping",
           succeed      |-> "success",
           fail         |-> "failed"]

CallOk == [building     |-> "build",
           health_check |-> "check",
           swapping     |-> "down",
           hot_swapping |-> "copy",
           succeed      |-> "post",
           fail         |-> "done"]

CallErr == [building     |-> "abort",
            health_check |-> "abort",
            swapping     |-> "abort",
            hot_swapping |-> "abort",
            succeed      |-> "post",
            fail         |-> "done"]

Calling == DOMAIN CallTo

Stages == {"load", "fetch", "build", "check", "down", "up", "copy", "cleanup",
           "abort"}

\* Positions of a goroutine the supervisor still tracks.
LivePCs == Stages \cup Calling

\* "idle": not spawned. "post": Run has returned, setCommitStatus is on its
\* own untracked goroutine. "dead": lost with the process.
PCs == LivePCs \cup {"idle", "post", "done", "dead"}

Live(j) == pc[j] \in LivePCs

NoPlan == [slug |-> "none", mode |-> "none"]

\* Mutant: one directory per commit, which two jobs of a project may share.
WorkspaceDirOfCommit(j) == <<ProjectOf[j], 1>>

\* filepath.Join(base, projectID, jobID).
WorkspaceDir(j) == <<ProjectOf[j], j>>

Dirs == Projects \X Jobs

RunnerTypeOK ==
    /\ pc \in [Jobs -> PCs]
    /\ plan \in [Jobs -> [slug : Slugs, mode : Modes] \cup {NoPlan}]
    /\ workspaces \subseteq Dirs \X Jobs
    /\ image \in [Slugs -> Jobs \cup {Down}]
    /\ prod \in [Slugs -> Jobs \cup {Down, Mixed}]
    /\ checked \subseteq Jobs
    /\ deployed \subseteq Jobs
    /\ posted \subseteq Jobs

RunnerInit ==
    /\ pc = [j \in Jobs |-> "idle"]
    /\ plan = [j \in Jobs |-> NoPlan]
    /\ workspaces = {}
    /\ image = [s \in Slugs |-> Down]
    /\ prod = [s \in Slugs |-> Down]
    /\ checked = {}
    /\ deployed = {}
    /\ posted = {}

------------------------------------------------------------------------------
(* Steps of Run *)

Goto(j, to) == pc' = [pc EXCEPT ![j] = to]

\* Supervisor.Spawn: an error when the id is already active, which the
\* scheduler only logs.
Spawn(j) ==
    /\ IF Live(j) THEN UNCHANGED pc ELSE Goto(j, "load")
    /\ UNCHANGED <<plan, workspaces, dockerVars, historyVars>>

\* Open the log, read the project row, obtain an installation token.
Load(j) ==
    /\ pc[j] = "load"
    /\ \/ /\ project[ProjectOf[j]] = "present"
          /\ plan' = [plan EXCEPT ![j] = [slug |-> slug[ProjectOf[j]],
                                          mode |-> deployMode[ProjectOf[j]]]]
          /\ Goto(j, "fetch")
       \/ Goto(j, "fail") /\ UNCHANGED plan
    /\ UNCHANGED <<workspaces, dockerVars, historyVars, storeVars>>

\* os.RemoveAll of a workspace directory.
WithoutDir(dir) == {w \in workspaces : w[1] # dir}

\* FetchStage, ResolveHEAD and the .env file. Clone starts by removing the
\* directory. None of the error returns here cleans up, so a failure after
\* the clone leaves the checkout behind.
Fetch(j) ==
    /\ pc[j] = "fetch"
    /\ \/ /\ workspaces' = WithoutDir(WorkspaceDir(j))
                              \cup {<<WorkspaceDir(j), j>>}
          /\ \/ Goto(j, IF plan[j].mode = "hot_swap" THEN "hot_swapping"
                                                     ELSE "building")
             \/ Goto(j, "fail")
       \/ workspaces' = WithoutDir(WorkspaceDir(j)) /\ Goto(j, "fail")
    /\ UNCHANGED <<plan, dockerVars, historyVars, storeVars>>

\* BuildStage: a failed build leaves the tag where it was.
Build(j) ==
    /\ pc[j] = "build"
    /\ \/ image' = [image EXCEPT ![plan[j].slug] = j] /\ Goto(j, "health_check")
       \/ Goto(j, "abort") /\ UNCHANGED image
    /\ UNCHANGED <<plan, workspaces, prod, historyVars, storeVars>>

\* Mutant: the error of HealthCheckStage is logged and the deploy goes on.
HealthCheckNotFatal(j) ==
    /\ pc[j] = "check"
    /\ \/ checked' = checked \cup {j}
       \/ UNCHANGED checked
    /\ Goto(j, "swapping")
    /\ UNCHANGED <<plan, workspaces, dockerVars, deployed, posted, storeVars>>

\* DetectMode and HealthCheckStage.
HealthCheck(j) ==
    /\ pc[j] = "check"
    /\ \/ checked' = checked \cup {j} /\ Goto(j, "swapping")
       \/ Goto(j, "abort") /\ UNCHANGED checked
    /\ UNCHANGED <<plan, workspaces, dockerVars, deployed, posted, storeVars>>

\* SwapStage, compose down and the removal of conflicting containers: errors
\* are not fatal.
SwapDown(j) ==
    /\ pc[j] = "down"
    /\ \/ prod' = [prod EXCEPT ![plan[j].slug] = Down]
       \/ UNCHANGED prod
    /\ Goto(j, "up")
    /\ UNCHANGED <<plan, workspaces, image, historyVars, storeVars>>

\* SwapStage, compose up --force-recreate from whatever image the tag names. On an
\* error none, some or the former containers run; the stage returns and restarts
\* nothing.
SwapUp(j) ==
    /\ pc[j] = "up"
    /\ \/ /\ prod' = [prod EXCEPT ![plan[j].slug] = image[plan[j].slug]]
          /\ deployed' = deployed \cup {j}
          /\ Goto(j, "cleanup")
       \/ /\ \E p \in {prod[plan[j].slug], Down, Mixed} : prod' = [prod EXCEPT ![plan[j].slug] = p]
          /\ Goto(j, "abort")
          /\ UNCHANGED deployed
    /\ UNCHANGED <<plan, workspaces, image, checked, posted, storeVars>>

\* HotSwapStage: an error when no container runs; docker cp may stop after
\* some of the containers.
HotSwap(j) ==
    /\ pc[j] = "copy"
    /\ \/ /\ prod[plan[j].slug] # Down
          /\ \/ /\ prod' = [prod EXCEPT ![plan[j].slug] = j]
                /\ deployed' = deployed \cup {j}
                /\ Goto(j, "cleanup")
             \/ /\ prod' = [prod EXCEPT ![plan[j].slug] = Mixed]
                /\ Goto(j, "abort")
                /\ UNCHANGED deployed
       \/ Goto(j, "abort") /\ UNCHANGED <<prod, deployed>>
    /\ UNCHANGED <<plan, workspaces, image, checked, posted, storeVars>>

\* CleanupStage on its own context; a removal that fails is only logged.
Cleanup(j) ==
    /\ pc[j] \in {"cleanup", "abort"}
    /\ \/ workspaces' = WithoutDir(WorkspaceDir(j))
       \/ UNCHANGED workspaces
    /\ Goto(j, IF pc[j] = "cleanup" THEN "succeed" ELSE "fail")
    /\ UNCHANGED <<plan, dockerVars, historyVars, storeVars>>

\* A manager call is refused, or reads and validates.
Request(j) ==
    /\ pc[j] \in Calling
    /\ \/ /\ Acquire("runner", j, CallTo[pc[j]])
          /\ UNCHANGED <<pc, jobVars, projectVars, cancelled, faults>>
       \/ /\ Refused(j, CallTo[pc[j]])
          /\ Goto(j, CallErr[pc[j]])
          /\ UNCHANGED storeVars
    /\ UNCHANGED <<plan, workspaces, dockerVars, historyVars>>

\* The manager call writes and returns.
Reply(j) ==
    /\ pc[j] \in Calling
    /\ \/ CommitOk("runner", j) /\ Goto(j, CallOk[pc[j]])
       \/ CommitErr("runner", j) /\ Goto(j, CallErr[pc[j]])
    /\ UNCHANGED <<plan, workspaces, dockerVars, historyVars, projectVars, cancelled>>

\* go setCommitStatus(success), whatever MarkFinished returned.
SetCommitStatus(j) ==
    /\ pc[j] = "post"
    /\ \/ posted' = posted \cup {j}
       \/ UNCHANGED posted
    /\ Goto(j, "done")
    /\ UNCHANGED <<plan, workspaces, dockerVars, checked, deployed, storeVars>>

Stage(j) ==
    \/ Load(j) \/ Fetch(j) \/ Build(j) \/ HealthCheck(j) \/ SwapDown(j)
    \/ SwapUp(j) \/ HotSwap(j) \/ Cleanup(j) \/ Request(j) \/ SetCommitStatus(j)
==============================================================================
