------------------------------- MODULE Webhook -------------------------------
(***************************************************************************)
(* POST /webhooks/github: the handler and its deduplicator                 *)
(* (internal/webhook/handler.go), GitHubWebhookService                     *)
(* (internal/app/github_webhook_service.go) and DeployService.Trigger      *)
(* (internal/app/deploy_service.go), against an administrator who connects *)
(* apps and edits the one project of the repository.                       *)
(*                                                                         *)
(* A delivery is one event of GitHub, known by its X-GitHub-Delivery. It   *)
(* may be requested again (redelivered), also while the first request is   *)
(* still being handled. A request stops between two database statements or *)
(* two critical sections of the deduplicator.                              *)
(***************************************************************************)
EXTENDS GitHubAppRow, Naturals

CONSTANTS
    Deliveries,
    KindOf,       \* "push" (to the branch Watched), "tag", "installation",
                  \* "ignored", "malformed"
    AppOf,        \* the app that signed a delivery
    Requests,     \* bound: HTTP requests
    MaxProjects,  \* bound: projects created for the repository
    MaxFaults     \* bound: database errors and restarts of the process

Kinds == {"push", "tag", "installation", "ignored", "malformed"}

ASSUME WebhookAssumption ==
    /\ KindOf \in [Deliveries -> Kinds]
    /\ AppOf \in [Deliveries -> Apps]
    /\ MaxProjects \in Nat /\ MaxFaults \in Nat

VARIABLES
    created,   \* the apps created so far; each flow creates a new one
    project,   \* the project of the repository, see Projects
    seen,      \* deduplicator.seen
    at,        \* where each request is
    delivery,  \* the delivery each request carries
    target,    \* the id of the project row a request has read
    answer,    \* the status each request was answered with, 0 before
    jobs,      \* rows inserted for each delivery
    faults,
    skipped,   \* history: deliveries for which no project was to be deployed
    unread,    \* history: deliveries a project wanted, whose lookup of it failed
    again,     \* history: why a delivery may be handled again
    mistaken,  \* history: deliveries taken for one that was handled
    swapped    \* history: the row was replaced under an installation id, or
               \* under a request that had verified its signature

requestVars == <<at, delivery, target, answer>>
history == <<skipped, unread, again, mistaken, swapped>>
vars == <<appVars, created, project, seen, requestVars, jobs, faults, history>>

\* Id 0: no project. Ids are random in the code and never reused.
Projects == [id : 0 .. MaxProjects, watched : BOOLEAN]

Positions == {"idle", "verify", "dedup", "route", "trigger", "insert",
              "logpath", "mark", "answered"}

\* Between the dedup check and Mark.
Handling == {"route", "trigger", "insert", "logpath", "mark"}

TypeOK ==
    /\ AppRowTypeOK
    /\ created \subseteq Apps
    /\ project \in Projects
    /\ seen \subseteq Deliveries
    /\ at \in [Requests -> Positions]
    /\ delivery \in [Requests -> Deliveries \cup {None}]
    /\ target \in [Requests -> 0 .. MaxProjects]
    /\ answer \in [Requests -> {0, 200, 204, 401, 429, 500}]
    /\ jobs \in [Deliveries -> Nat]
    /\ faults \in 0 .. MaxFaults
    /\ skipped \subseteq Deliveries
    /\ unread \subseteq Deliveries
    /\ again \in [Deliveries -> SUBSET {"overlap", "partial", "forgotten"}]
    /\ mistaken \subseteq Deliveries
    /\ swapped \in BOOLEAN

Init ==
    /\ AppRowInit
    /\ created = {}
    /\ project = [id |-> 0, watched |-> FALSE]
    /\ seen = {}
    /\ at = [r \in Requests |-> "idle"]
    /\ delivery = [r \in Requests |-> None]
    /\ target = [r \in Requests |-> 0]
    /\ answer = [r \in Requests |-> 0]
    /\ jobs = [d \in Deliveries |-> 0]
    /\ faults = 0
    /\ skipped = {}
    /\ unread = {}
    /\ again = [d \in Deliveries |-> {}]
    /\ mistaken = {}
    /\ swapped = FALSE

------------------------------------------------------------------------------

Goto(r, pos) == at' = [at EXCEPT ![r] = pos] /\ UNCHANGED answer

Answer(r, code) ==
    /\ at' = [at EXCEPT ![r] = "answered"]
    /\ answer' = [answer EXCEPT ![r] = code]

\* A statement of the database returns an error, or the process restarts.
Fault == faults < MaxFaults /\ faults' = faults + 1

Because(d, reason) == again' = [again EXCEPT ![d] = @ \cup {reason}]

\* GitHub sends, or sends again, a delivery of an app that was connected. The
\* rate limiter in front of the handler may refuse it.
Arrive(r, d) ==
    /\ at[r] = "idle"
    /\ AppOf[d] \in created
    /\ delivery' = [delivery EXCEPT ![r] = d]
    /\ Goto(r, "verify") \/ Answer(r, 429)
    /\ UNCHANGED <<appVars, created, project, seen, target, jobs, faults, history>>

\* Mutant: any well-formed signature is accepted.
VerifyNothing(r) ==
    /\ at[r] = "verify"
    /\ IF app = None THEN Answer(r, 500) ELSE Goto(r, "dedup")
    /\ UNCHANGED <<appVars, created, project, seen, delivery, target, jobs, faults,
                   history>>

\* GetWebhookSecretForRepo and ValidateSignature: an error of GetGitHubApp,
\* the missing row included, is a 500, another app's signature a 401.
Verify(r) ==
    /\ at[r] = "verify"
    /\ \/ /\ IF app = None THEN Answer(r, 500)
             ELSE IF AppOf[delivery[r]] # app THEN Answer(r, 401)
             ELSE Goto(r, "dedup")
          /\ UNCHANGED faults
       \/ Fault /\ Answer(r, 500)
    /\ UNCHANGED <<appVars, created, project, seen, delivery, target, jobs, history>>

\* Another request of the same delivery has passed the check and not marked.
Overlaps(r) == \E q \in Requests \ {r} :
                  delivery[q] = delivery[r] /\ at[q] \in Handling

\* Mutant: the delivery is marked where it is checked, in one critical section.
DedupMarks(r) ==
    /\ at[r] = "dedup"
    /\ IF delivery[r] \in seen THEN Answer(r, 200) ELSE Goto(r, "route")
    /\ seen' = seen \cup {delivery[r]}
    /\ UNCHANGED <<appVars, created, project, delivery, target, jobs, faults,
                   history>>

\* External: what the lookup of d in the deduplicator's map may find. The keys
\* are strings from c.Get, which Fiber (its Immutable option is off) leaves in the
\* memory of the request: later requests overwrite the keys in the map, so that a
\* delivery may not be found, and another may be found in its place.
Found(d) == IF seen = {} THEN {FALSE} ELSE BOOLEAN

\* IsDuplicate.
Dedup(r) ==
    LET d == delivery[r] IN
    /\ at[r] = "dedup"
    /\ \/ /\ TRUE \in Found(d)
          /\ Answer(r, 200)
          /\ mistaken' = IF d \in seen THEN mistaken ELSE mistaken \cup {d}
          /\ UNCHANGED again
       \/ /\ FALSE \in Found(d)
          /\ Goto(r, "route")
          /\ again' = [again EXCEPT ![d] =
                @ \cup (IF Overlaps(r) THEN {"overlap"} ELSE {})
                  \cup (IF d \in seen THEN {"forgotten"} ELSE {})]
          /\ UNCHANGED mistaken
    /\ UNCHANGED <<appVars, created, project, seen, delivery, target, jobs, faults,
                   skipped, unread, swapped>>

\* The project of the repository is to be deployed: a push must be to its
\* default branch, a tag need not.
Wanted(d) ==
    /\ project.id # 0
    /\ KindOf[d] = "push" => project.watched

\* handlePush, handleCreate: GetProjectByRepo. Any error of it, a failing
\* database included, counts as "no project for repo".
RouteDeploy(r) ==
    LET d == delivery[r] IN
    /\ at[r] = "route"
    /\ KindOf[d] \in {"push", "tag"}
    /\ \/ /\ Wanted(d)
          /\ target' = [target EXCEPT ![r] = project.id]
          /\ Goto(r, "trigger")
          /\ UNCHANGED <<faults, skipped, unread>>
       \/ /\ ~Wanted(d)
          /\ skipped' = skipped \cup {d}
          /\ Goto(r, "mark")
          /\ Fault \/ UNCHANGED faults
          /\ UNCHANGED <<target, unread>>
       \/ /\ Wanted(d)
          /\ Fault
          /\ unread' = unread \cup {d}
          /\ Goto(r, "mark")
          /\ UNCHANGED <<target, skipped>>
    /\ UNCHANGED <<appVars, created, project, seen, delivery, jobs, again, mistaken,
                   swapped>>

\* handleInstallation, action "created".
RouteInstallation(r) ==
    LET d == delivery[r] IN
    /\ at[r] = "route"
    /\ KindOf[d] = "installation"
    /\ \/ /\ SetGitHubInstallationID(AppOf[d])
          /\ Goto(r, "mark")
          /\ UNCHANGED faults
       \/ Fault /\ Answer(r, 500) /\ UNCHANGED appVars
    /\ UNCHANGED <<created, project, seen, delivery, target, jobs, history>>

\* ping, deletions, branch creations and other events; a payload that cannot
\* be parsed.
RouteOther(r) ==
    /\ at[r] = "route"
    /\ \/ KindOf[delivery[r]] = "ignored" /\ Goto(r, "mark")
       \/ KindOf[delivery[r]] = "malformed" /\ Answer(r, 500)
    /\ UNCHANGED <<appVars, created, project, seen, delivery, target, jobs, faults,
                   history>>

\* Mutant: a project that has gone is answered with 404, as the API does.
TriggerGetNotFound(r) ==
    /\ at[r] = "trigger"
    /\ \/ project.id = target[r] /\ Goto(r, "insert") /\ UNCHANGED faults
       \/ project.id # target[r] /\ Answer(r, 404) /\ UNCHANGED faults
       \/ Fault /\ Answer(r, 500)
    /\ UNCHANGED <<appVars, created, project, seen, delivery, target, jobs,
                   history>>

\* Trigger: GetProject of the id that was read.
TriggerGet(r) ==
    /\ at[r] = "trigger"
    /\ \/ project.id = target[r] /\ Goto(r, "insert") /\ UNCHANGED faults
       \/ project.id # target[r] /\ Answer(r, 500) /\ UNCHANGED faults
       \/ Fault /\ Answer(r, 500)
    /\ UNCHANGED <<appVars, created, project, seen, delivery, target, jobs, history>>

\* Trigger: InsertJob. Whether the foreign key is enforced when the project
\* has gone meanwhile is the driver's affair.
TriggerInsert(r) ==
    /\ at[r] = "insert"
    /\ \/ /\ jobs' = [jobs EXCEPT ![delivery[r]] = @ + 1]
          /\ Goto(r, "logpath")
          /\ UNCHANGED faults
       \/ project.id # target[r] /\ Answer(r, 500) /\ UNCHANGED <<jobs, faults>>
       \/ Fault /\ Answer(r, 500) /\ UNCHANGED jobs
    /\ UNCHANGED <<appVars, created, project, seen, delivery, target, history>>

\* Trigger: SetJobLogPath. When it fails the job stays queued.
TriggerLogPath(r) ==
    /\ at[r] = "logpath"
    /\ \/ Goto(r, "mark") /\ UNCHANGED <<faults, again>>
       \/ Fault /\ Answer(r, 500) /\ Because(delivery[r], "partial")
    /\ UNCHANGED <<appVars, created, project, seen, delivery, target, jobs,
                   skipped, unread, mistaken, swapped>>

\* Mutant: only the answer.
NoMark(r) ==
    /\ at[r] = "mark"
    /\ Answer(r, 204)
    /\ UNCHANGED <<appVars, created, project, seen, delivery, target, jobs, faults,
                   history>>

Mark(r) ==
    /\ at[r] = "mark"
    /\ seen' = seen \cup {delivery[r]}
    /\ Answer(r, 204)
    /\ UNCHANGED <<appVars, created, project, delivery, target, jobs, faults,
                   history>>

RequestStep(r) ==
    \/ Verify(r) \/ Dedup(r)
    \/ RouteDeploy(r) \/ RouteInstallation(r) \/ RouteOther(r)
    \/ TriggerGet(r) \/ TriggerInsert(r) \/ TriggerLogPath(r)
    \/ Mark(r)

------------------------------------------------------------------------------

\* cleanupLoop, an hour after Mark. A key whose memory has changed is not found by
\* the loop's delete and stays in the map: its Expire is then never taken.
Expire(d) ==
    /\ d \in seen
    /\ seen' = seen \ {d}
    /\ Because(d, "forgotten")
    /\ UNCHANGED <<appVars, created, project, requestVars, jobs, faults,
                   skipped, unread, mistaken, swapped>>

\* The process dies and starts again: its memory is lost, its requests are
\* never answered.
Restart ==
    /\ Fault
    /\ seen' = {}
    /\ at' = [r \in Requests |-> IF at[r] = "idle" THEN "idle" ELSE "answered"]
    /\ again' = [d \in Deliveries |->
          again[d]
          \cup (IF d \in seen THEN {"forgotten"} ELSE {})
          \cup (IF \E r \in Requests : delivery[r] = d
                                      /\ at[r] \in {"logpath", "mark"}
                THEN {"partial"} ELSE {})]
    /\ UNCHANGED <<appVars, created, project, delivery, target, answer, jobs, skipped,
                   unread, mistaken, swapped>>

\* HandleCallback stores a new app, also over another one.
Connect(a) ==
    /\ a \notin created
    /\ created' = created \cup {a}
    /\ UpsertGitHubApp(a)
    /\ swapped' = (swapped \/ inst # None
                   \/ \E r \in Requests : at[r] \in {"dedup", "route"}
                                         /\ KindOf[delivery[r]] = "installation")
    /\ UNCHANGED <<project, seen, requestVars, jobs, faults, skipped,
                   unread, again, mistaken>>

Disconnect ==
    /\ app # None
    /\ DeleteGitHubApp
    /\ UNCHANGED <<created, project, seen, requestVars, jobs, faults, history>>

CreateProject ==
    /\ project.id = 0
    /\ \E n \in 1 .. MaxProjects, w \in BOOLEAN :
          /\ \A r \in Requests : target[r] < n
          /\ project' = [id |-> n, watched |-> w]
    /\ UNCHANGED <<appVars, created, seen, requestVars, jobs, faults, history>>

\* Update of default_branch.
UpdateProject ==
    /\ project.id # 0
    /\ project' = [project EXCEPT !.watched = ~@]
    /\ UNCHANGED <<appVars, created, seen, requestVars, jobs, faults, history>>

DeleteProject ==
    /\ project.id # 0
    /\ project' = [id |-> 0, watched |-> FALSE]
    /\ UNCHANGED <<appVars, created, seen, requestVars, jobs, faults, history>>

Administer ==
    \/ \E a \in Apps : Connect(a)
    \/ Disconnect \/ CreateProject \/ UpdateProject \/ DeleteProject

Next ==
    \/ \E r \in Requests : RequestStep(r) \/ \E d \in Deliveries : Arrive(r, d)
    \/ \E d \in Deliveries : Expire(d)
    \/ Restart
    \/ Administer

Spec == Init /\ [][Next]_vars

------------------------------------------------------------------------------

\* A push or a tag that GitHub was told is handled (204, or 200 for a
\* duplicate) has its job, or no project wanted it when it was routed, or the
\* project that did could not be read, or its id was found under a key that is another's:
\* Mark comes after the job is queued, and only then, so that a delivery that
\* failed can be sent again.
AcknowledgedIsQueued ==
    \A r \in Requests :
        answer[r] \in {200, 204} /\ KindOf[delivery[r]] \in {"push", "tag"}
            => \/ jobs[delivery[r]] > 0
               \/ delivery[r] \in skipped \cup unread \cup mistaken

\* A delivery has more than one job only when two of its requests overlapped,
\* a request failed or died after its job was queued, or the deduplicator
\* forgot the delivery.
DuplicatesExplained ==
    \A d \in Deliveries : jobs[d] > 1 => again[d] # {}

\* The stored installation is one of the stored app, unless the app was
\* replaced without a disconnect or under an installation event in progress:
\* an event of another app is refused before it is routed.
InstallationOfApp == inst \in {None, app} \/ swapped
==============================================================================
