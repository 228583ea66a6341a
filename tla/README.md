# Trangly in TLA+

Trangly is a self-hosted deployment server: a push to GitHub becomes a row in a
SQLite table, a scheduler dispatches rows to goroutines as memory allows, and a
goroutine clones, builds, checks and swaps a Docker Compose project while the
browser follows along. This directory models that machinery in TLA+,
model-checks it with TLC and proves its safety properties with TLAPS. All
paths below are relative to the repository.

1. The system
2. The modules
3. What the runs check
4. Where the code and what it says differ
5. Fairness
6. What is proved
7. What is only model-checked, and what is not modelled
8. Plan

## 1. The system

| Component | State it keeps | Operations | What is hard about it |
|---|---|---|---|
| Job state machine (`internal/queue/state_machine.go`, `domain/enums.go`) | none: a table of statuses | `ValidateTransition` | every writer must go through it, and not every one does |
| Queue manager and rows (`internal/queue/manager.go`, `infra/db/queries.go`) | `deploy_jobs`, `projects`, the mutex `Manager.mu` | `UpdateStatus`, `Hold`, `MarkStarted`, `MarkFinished`, `Cancel`, start-up recovery; trigger, project create, update, delete | the mutex orders the manager's calls only; the monitor and the delete write beside it; every write may fail |
| Scheduler and monitor (`internal/scheduler`) | none between ticks; one snapshot inside a tick | un-hold, dispatch, hold, fail stuck jobs | decisions on a snapshot that is stale when used; a budget counted from rows |
| Deploy engine (`internal/engine`, `internal/deploy`, `infra/git`) | goroutines, workspaces, Docker images and containers | fetch, build, health check, swap, hot swap, cleanup, commit status | jobs of one project run concurrently and share a Compose project; any stage may fail or hang |
| Process (`internal/bootstrap/app.go`) | up, draining, down | start, SIGTERM, crash | rows outlive goroutines; the drain is shorter than a deploy |
| Event streams (`internal/api/sse/stream.go`, `engine/runner.go`, two pages of `internal/ui/static/js`) | subscriptions, bounded channels, the page's lists | publish, subscribe, replay, snapshot, keepalive, reconnect, poll | snapshot, replay and subscription are separate steps; a full channel drops; clients vanish silently |
| Webhook intake (`internal/webhook/handler.go`, `app/github_webhook_service.go`, `app/deploy_service.go`) | remembered deliveries, in memory | verify, deduplicate, route, trigger, mark | redelivery, overlap, a failure after half of the work, a restart |
| GitHub App (`app/github_auth_service.go`, `infra/github`) | the app's row, state tokens, a token cache | manifest flow, installation tokens, disconnect, update-pem | tokens fetched across a disconnect, callbacks loaded twice |
| Accounts and sessions (`app/auth_service.go`, `bootstrap/container.go`, `ui/ui.go`, four pages of `internal/ui/static/js`) | `users`, `jwt_secrets`, the master key file; a token and a cookie in the browser | first start, setup by page and by command, login, profile, password | first starts and setups that overlap; tabs that share one session; redirects that trust the cookie or the token |
| Project page (`ui/static/js/project.js`) | the job shown, the log followed, a stream | load, stream, reconnect, deploy, redeploy | events of several jobs, a stream that begins again and the button's answer all write one job |
| List of deployments (`ui/static/js/datatable.js`, `ListDeploymentsAdvanced`) | query, page, total, rows | sort, search, filter, page; count and read | answers in any order, against controls that have moved on |
| Terminal sessions (`api/http/handlers/terminal.go`, `infra/docker/client.go`, the tab of `project.js`) | a handler and two goroutines per WebSocket; the page's one socket | upgrade, exec, copy both ways, close; list, select, connect, disconnect | handler, goroutines and shell wait for each other; the page may lose its only way to a socket |
| Rate limiter (`api/http/middleware/ratelimit.go`) | a count and an end of window per address | count a request, sweep | the ends of windows, the sweep between two requests |
| Health-check detection (`deploy/healthcheck_detect.go`, `healthcheck.go`) | none | `DetectMode`, `HealthCheckStage` | a decision inside a loop over a map |
| Service (`cmd/trangly/main.go`: install, uninstall, stop) | `setup.conf`, the unit file; systemd's unit, enablement and process | the calls of each command, one at a time | a call fails between two others; systemd acts on what it read, not on the file |
| Preflight, other commands, forms, installer | | | see section 7 |

How they interact. The webhook and the API insert rows as `pending`. Every 5 s
the scheduler reads the active rows once, lets the monitor fail overdue ones,
moves held rows back, picks one pending row and rejects, holds or starts it; the
start is `MarkStarted` followed by `Supervisor.Spawn`. The goroutine moves its
row along by manager calls. Manager calls publish to the dashboard topic, the
goroutine's log writer to the job's topic; SSE handlers copy from channels to
browsers. After a restart `recoverInterruptedJobs` fails the rows of goroutines
that died. The database has a single connection (`db.go:37`), so a statement, or
a transaction, is one atomic step in every module.

What makes each part correct, in short: a row tells the truth about its
goroutine; a cancel sticks; success is earned; nothing executes or waits for ever; a viewer loses nothing silently; an acknowledged
push is queued; a token belongs to the app it is used for; there is one admin
and a session ends for a reason; a page shows what its controls name; a shell
ends with its client; a client is refused only for what it did; what install and
uninstall report is so. Every hazard behind
these is listed with its line in `PROJECT.json`.

## 2. The modules

```
JobStates ── JobStore ─┬─ Scheduler ─┐
    │                  └─ Runner ────┴─ Trangly ─ TranglyInvariant ─ TranglyProofs
    │                                     │  └─ TranglyClaims            └─ LifecycleProofs
    ├─ JobLifecycle  (abstract; INSTANCEd by Trangly)
    └─ Dashboard ── Broadcaster ── LogStream

GitHubAppRow ─┬─ Webhook ─┬─ WebhookClaims
              │           └─ WebhookProofs
              └─ GitHubAuth ── GitHubAuthProofs

Accounts ── AccountsProofs       ProjectPage   DataTable   Terminal

RateLimit | HealthMode | Service ── ServerProofs

MCLiveness = Trangly | LogStream | Terminal                              ── StreamProofs
MCPages    = Dashboard | ProjectPage | DataTable | RateLimit | HealthMode | Service
                                                                         ── PagesProofs
```

**Execution plane**

- `JobStates`: the statuses, `allowedTransitions`, `ValidateTransition`.
- `JobLifecycle`: what a row promises whatever the implementation: it is
  inserted once, moves along `allowedTransitions`, may be removed with its
  project or interrupted by a restart. It has no lock, tick or goroutine. Its one
  licence is time: a row past the stuck limit may leave a terminal status, by two
  writes that are named for what does them. `MonitorOverrides` makes a success a
  failure, `LateWrite` is the deploy of a failed row that writes on.
- `JobStore`: rows and the manager. A manager call is two steps, `Acquire`
  (lock, read, validate) and `Commit` (write, unlock); between them any writer
  that ignores the lock may write. The variable `call` is the lock and the
  validated request. The UPDATEs of the API, monitor and delete are single steps.
- `Scheduler`: one tick as a sequence of its database operations over
  `heldJobs`, `runningJobs`, `fits`, the snapshot of `tick()`. The set `fits`
  (jobs whose estimate is within the effective memory) stands for the number.
- `Runner`: `pc[j]` walks `Run`, `runRebuildPath` and `runHotSwapPath`; a stage
  may succeed, fail or never return; `workspaces`, `image` and `prod` are the
  disk and Docker.
- `Trangly`: the composition inside a process that crashes, drains and restarts;
  properties and fairness.

Abstractions worth knowing. Time is two sets of rows past the monitor's limits,
filled by `HoldExpires` and `JobOverdue`. A row becomes overdue under a live
goroutine too: the stuck limit is 10 minutes, a deploy's own timeout 30. A job's
`Estimate` is a constant: `Trigger` writes 0 at this commit, other values
exercise the rest of the column's domain. They decide which jobs a tick can take
together; no property is about their sum. `CascadeDelete` says whether the SQLite driver enforces
`ON DELETE CASCADE` (the DSN's spelling of the option is the driver's affair).
Failures between the clone and BUILD are one failing step; a scheduler read that
fails is a tick that does not happen; a failed build leaves the old image tag; a
failing `compose up` leaves what served, part of the services (`Mixed`) or none.

**Event plane**

- `Broadcaster`: one topic. `Publish`, `Subscribe` and `Close` (unsub) are one
  step each because of the RWMutex and the non-blocking send.
- `LogStream`: `broadcastWriter` writes the file, then publishes line by line
  from its buffer; `StreamLog` subscribes, replays, then streams. File length
  counts half lines, because a `Write` may end inside one.
- `Dashboard`: writers of a row with a version number as history; the handler
  reads the rows (`ReadSnapshot`), subscribes, sends `init`, streams; the page
  reconnects after an error and polls after the third. A manager call is
  coarser here than in `JobStore`: validate-and-write, then publish.

**GitHub plane**

- `GitHubAppRow`: the one row of `github_app` and its three statements. An
  upsert keeps the installation id, as in the SQL.
- `Webhook`: each request is a pc over `Handler.handle`, `RouteEvent` and
  `Trigger`, one step per statement or critical section; `Expire` and `Restart`
  make the deduplicator forget.
- `GitHubAuth`: callbacks, users of tokens, one disconnect at a time and the
  command-line `update-pem`, whose cache is another process's. Fetching a token
  succeeds only when the key and the installation belong together, which GitHub
  enforces.

**Accounts plane**

- `Accounts`: `boot[p]` walks the start of the server and of `trangly setup`
  (`loadOrCreateMasterKey`, `NewAuthService`, `CreateAdmin`), one step per read
  or write of the data directory, so that two of them overlap. `pc[t]` is what a
  tab shows or waits for: each page looks at the cookie, the token or the API
  and sends the browser on. `asked[t]` is the request whose answer the page
  awaits (`fetch` of `api.js:108`) and `carried[t]` the user of the token it was
  sent with, as long as the server accepts that token; `replaced` are the tabs whose
  request is older than the stored token. Between request and answer any tab may log in or out,
  and a 401 clears whatever is stored when it comes. Requests that read and later
  write (`Login`, `CreateAdmin`, `ChangePassword`) are two steps. Keys and secrets are small
  numbers that only matter up to equality; `overlap` and `disturbed` are history.

**Pages and the rest**

- `ProjectPage`: the page reads the project, then the queue, follows the event
  stream and presses the deploy button, which is there from the first of these
  answers (`shown`) on. The answer of the queue overwrites the job whatever was shown meanwhile. A row is a count of its writes and
  whether it is over; an event may be missing, since how that comes about is
  `Dashboard`'s subject. `logOf` is the job whose log is open: some actions keep
  it in step with `job`, others do not.
- `DataTable`: every request is a record in flight; it is read by the server
  (`ListDeployments`), then answered or lost, in any order. Sort, filters, search
  and page size are one `query`; of the rows only the number of pages is kept. The
  controls work before the first load.
- `Terminal`: `handler`, `output` and `shell` are the three parties of a
  session, `socket` is the fourth; the goroutine that reads the WebSocket is part
  of `handler`, which waits for it only. `SessionStep` is what must happen,
  `SessionMayStep` what may, the end of a shell among it. On the page, `ws` is `_ws`, `due` are
  the callbacks in `$nextTick`.
- `RateLimit`: `Bucket` is the count and the end of window under the mutex. A tick is an
  arbitrary fraction of the window; the sweep may come at any time.
- `HealthMode`: the loop over the services takes them in any order. Ports are
  sequences of five kinds of entries.
- `Service`: a command is the sequence of calls it still makes (`todo`), of
  which each may fail. What systemctl calls do is systemd's behaviour, external to
  the repository: a reload reads the file, a start of a running service does nothing, an
  enabled unit starts at boot, a failed process is started again.

**Composites.** Parts that share no state are checked in one run by a module
that picks one of them in the initial state (`part`) and lets only that one
step: the state spaces add up. `MCLiveness` takes the three parts with
liveness properties, `MCPages` six parts around the deploys.

`MCTrangly`, `MCClaims`, `MCWebhook`, `MCGitHubAuth`, `MCAccounts`, `MCLiveness`
and `MCPages` hold the constants' values for TLC. Operators whose comment begins with
"Mutant" are plausible bugs of the definition that follows them; no
specification uses them, `PROJECT.json` pairs each with the property it breaks.

## 3. What the runs check

| Run | Instance and bounds | Shows |
|---|---|---|
| `safety` | 2 jobs of one project, budget 2, estimates 2 and 1, rebuild, no cascade, 1 crash or shutdown; 3.7 M states | `RowShowsPhase`, `CancelledNeverRuns`, `SpawnsOnce`, `SuccessIsEarned`, `WorkspaceIsolation`, `OrphansExplained`, and that `Trangly` implements `JobLifecycle` |
| `lifecycle` | the same jobs, rebuild and hot swap, cascade; 2.5 M | the inductive invariant `RefinementInv` of the proofs, and that `Trangly` implements `JobLifecycle` |
| `liveness` | deploys: 2 jobs, the second never fits in memory, hung stages, 1 failed write, 1 stop; log: 2 viewers, 2 lines, channels of 1; shells: 2 sessions of a page, 1 request for containers and 1 callback waiting; 0.2 M | `ExecutingEnds`, `QueueDrains`; `NoLineSkipped`, `SubscriptionsReclaimed`; `ShellsExplained`, `SessionsEnd` |
| `pages` | dashboard: 1 row with 4 writes, 2 connections, channels of 1; project: 2 deploys with 3 writes; list: 2 queries of up to 2 pages, 3 requests; limiter: 1 address, limit 2, window of 2 ticks, 7 ticks; health: 2 services with up to 2 entries; service: 2 ports, 1 URL and none; 2.3 M | `DivergenceExplained`, `StreamsNeverGoBack`; `LogsFollowJob`, `JobShownExplained`; `RowsExplained`; `WindowBound`, `RefusedOnlyWhenSpent`; `SkipIsOrderIndependent`; `ServiceAsReported` |
| `webhook` | 3 requests, 5 deliveries (push, tag, installation, ignored, malformed), 2 apps, 2 projects, 1 database error or restart; 4.7 M | `AcknowledgedIsQueued`, `DuplicatesExplained`, `InstallationOfApp` |
| `github` | 2 apps, 2 state tokens, 2 callbacks, 2 users of tokens; 2.3 M up to symmetry | `StateStoresOnce`, `TokenOfApp`, `CacheClearedOrStale` |
| `accounts` | 2 tabs, the setup command, 2 usernames, 1 awaited answer for each tab, 2 secrets, 3 keys, 1 failure or stop; 1.8 M up to symmetry | `AdminsExplained`, `SealedReadable`, `NoSpuriousLogout`, `RedirectsMakeProgress` |
| `claim_*` | see section 4 | each refutes one sentence |

The type invariants `TypeOK` are checked in `safety`, `webhook`, `github` and
`accounts`, those of the composites' parts as `PartsTypeOK` in `liveness` and
`PagesTypeOK` in `pages`.

Why the bounds are enough for the questions asked. Every race of the execution
plane is between a tick, a lock holder, one unlocked writer and at most two
goroutines of one project; two jobs have all of these at once. Any row may be
past its limit at any time, so every order of the monitor and a goroutine is met. A job that
can never fit is not among the runs' jobs; its rejection is an action of the model, and the
proofs cover it. One crash puts a stop at
every point of every behaviour; a second one meets the state a recovery left,
which the first may do already since jobs may be triggered after it. One failed
write hits each write in turn. The channel of 64 is one of 1 here: what matters
is that it can be full. Two connections of a page are an old and a new one.
Three webhook requests are a delivery, its overlap and a later redelivery. Two
tabs and the setup command are the parties that can overlap; a second username is
needed for a second row, a second password is not. A page awaits one answer at a time: the late
refusal of a second request does what that of the first does. Two viewers' lines and two
shells are what one can overtake of the other. Three requests of the list are one
that is shown, one overtaken and one that overtakes. Seven ticks hold three
windows of two ticks, so that two of them touch; addresses do not meet in the
limiter, so one is all of them. Two services differ in every pair of declarations, and
two entries put any entry before any other. The service's state space has no bound but the
ports and URLs. The properties that section 6 proves hold without these bounds.

Deadlock is checked in the execution plane. It is off where the system really
stops: a log that is closed with all viewers gone, a page that was left, bounded
requests that are all answered, a health check that has ended.

What some properties say in more detail:

- `OrphansExplained`: a row in an executing status has a goroutine, except while
  the process is down, in the instant between `MarkStarted` and `Spawn`, after a
  failed write, and for `hot_swapping` rows after a restart. The exceptions are
  what is left to `ExecutingEnds`: the monitor ends them.
- `DivergenceExplained`: what an open dashboard shows is the row, or the event is in
  its channel, or the last write was one that publishes nothing (the monitor,
  the trigger, the delete), or the event fell between snapshot and subscription
  or met a full channel. Those reasons are real and stay until the next event of
  the job or the next connection.
- `StreamsNeverGoBack` exempts rows written without `Manager.mu`: an event may
  then describe a write that has already been overtaken.
- `AcknowledgedIsQueued` is why `Mark` must come last and only on success. It
  excepts deliveries that the deduplicator mistook for others, see `claim_dedup`.
- `DuplicatesExplained` names the three windows: overlapping requests, a failure or
  crash between insert and `Mark`, and a deduplicator that forgot.
- `TokenOfApp`: a fetch in flight during a disconnect puts the old app's token
  back into the cache; it is harmless because the cache is keyed by the
  installation, which is what the property depends on.
- `AdminsExplained`: `auth_service.go:18` says there is exactly one admin. The
  check and the insert of `CreateAdmin` are not one transaction; a second row is
  possible in that window only.
- `SealedReadable` names the three ways to lose stored secrets: a key file that
  cannot be read counts as missing and is replaced, two first starts overlap, or
  a reset removes the key and not the database.
- `NoSpuriousLogout` names the late refusal of an older token among the reasons
  for which a session ends, see section 4. No other answer ends the session of a
  token that the server accepts, unless the server cannot read its secret.
- `RedirectsMakeProgress` is a measure over what cookie, token, table and the
  awaited answer let the pages do: a tab that loads a page or gets an answer is
  nearer to the end of its redirects than before, so none is ever sent round in a
  circle by what the pages do. Somebody who logs in or out in another tab may begin a new round.
- `LogsFollowJob`: the log on a project's page is that of the job it shows. A
  stream that begins again with another job while a log is open shows the new job over
  the old log: the `init` handler opens a log only when there is none. A job that
  the page learns of by its end opens none either, and may stand over the log of a
  deploy that the queue's answer took away (`left_open`).
- `JobShownExplained`: events change the status of whatever job is shown, also
  events of another job of the project. So the property speaks of the job the
  status is of, and says it is the latest news of that job, with one exception:
  the answer to the deploy button shows "pending" over events that came before it.
- `RowsExplained`: a list at rest shows what its controls name, unless the last request
  failed or an older answer came after its answer: `load` takes every answer.
- `ImplementsLifecycle` says how far rows obey `allowedTransitions`: to the
  letter while no row is past the stuck limit, and past it but for two named
  writes, of which the monitor's makes a success a failure. In `lifecycle` both
  modes walk their whole path under it; `safety` adds crashes and restarts.
- `SessionsEnd`: the handler of a session whose WebSocket is gone ends, or it
  has closed the shell's input and waits for a shell that goes on. A shell that
  has ended never keeps it. That is what `CloseWrite` before `wg.Wait` buys, and no more
  than that can be said, see section 4.
- `ShellsExplained` names what leaves a shell with no page that can end it: the
  reconnect button or a second callback while a connection is being made, and a
  tab that a deploy's answer changes without `switchTab`.
- `WindowBound` says twice the limit: two windows may touch, so "5 attempts/min"
  for the login (`server.go`) is up to ten within one minute.
- `ServiceAsReported`: after a reported install, systemd has the unit that was
  written and a process runs it, unless one ran before (systemctl start leaves it
  alone, so new flags wait for a restart). After a reported uninstall nothing can start
  the service again; a process that could not be stopped may still run, with a warning.

## 4. Where the code and what it says differ

Each is a run that TLC refutes; the counterexample is the scenario.

- `claim_restart`, `RestartResetsInterrupted`: `queue/manager.go:225` resets
  running, building, health_check and swapping rows; `hot_swapping` is missing,
  so such a row executes without a goroutine until the monitor calls it stuck.
  `manager.go:215` says it "resets any jobs that were left in a non-terminal,
  non-pending" state.
- `claim_checked`, `OnlyCheckedBuildsServe`: two jobs of one project build into
  one image tag; the swap of the first starts the unchecked build of the second.
  `README.md:54`: "swapped only after the health check passes, so a bad build
  never touches production".
- `claim_swap`, `SwapFailureRestoresService`: `deploy/swap.go` takes the
  containers down and, when `compose up` fails, returns the error. `swap.go:24`:
  "On failure, it attempts to restart the previous containers."
- `claim_ignored`, `IgnoredOnlyWithoutProject`: `app/github_webhook_service.go:106`
  takes every error of the project lookup for a missing project; a database
  error is answered 204 and the delivery remembered, so a push that a project
  wants is lost (deliveries that no project wants are not counted).
  Line 107: "No project configured for this repo — silently ignore."
- `claim_dedup`, `DuplicateWasProcessed`: `webhook/handler.go:149` stores the
  string of `c.Get` as a key of a map that outlives the request. Fiber's strings
  share the request's memory unless `Immutable` is set, and `server.go:66` does
  not set it: the key changes into the ids of later deliveries, and a new one may be
  found there and be answered 200 without being handled. `handler.go:38`:
  "IsDuplicate returns true if the delivery ID has already been processed."

Seen while modelling, described here without a run of its own:

- The monitor may turn a job that has just succeeded into a failed one, and a deploy
  that it failed may write on: it writes from a snapshot without
  `ValidateTransition` (`scheduler/monitor.go:104`). `docs/STRUCTURE.md:362`: "State
  transitions MUST be validated centrally in `state_machine.go`. No ad-hoc status
  string updates elsewhere." `MonitorOverrides` and `LateWrite` of `JobLifecycle` are
  these writes.
- A 401 clears the token that is stored when it comes (`ui/static/js/api.js:98`,
  108, 117): the late refusal of an old token ends the session which another tab, or
  the form of the same login page, has opened since the request was sent.
- A deploy whose answer comes while the project page awaits the queue is replaced by
  what the queue said, and its log stays open (`project.js:78` to 85).
- A shell has a terminal (`docker/client.go:283`), so what runs in it may ignore the
  end of its input; the handler then waits for the output for ever, and the exec
  stays (`api/http/handlers/terminal.go:132`).
- Failures between the clone and BUILD return without cleanup (`engine/runner.go:105`,
  against `cleanup.go:14`, "always called").
- The monitor's writes are not published, although `manager.go:268` says "published
  on every job status change"; a log stream is never ended by a `done` event, although
  the page listens for one (`deployment.js:59`).
- `runInstall` takes a `--port` that is the default for one that was not given, so
  `setup.conf` overrides it (`main.go:381`), and `saveSetupConf`, "called by
  `trangly setup`", has no caller.
- A port entry such as `127.0.0.1:8080:80` counts as no port
  (`healthcheck_detect.go:111`), so a project with only such entries is deployed
  without its file being validated; `DetectMode` is said to look at the first
  service with an exposed port (line 22) and takes the first in map order.

## 5. Fairness

`Trangly!Fairness`: the scheduler's goroutine goes on (a 5 s ticker, database
calls that return), a manager call that has begun finishes, time passes, the
drain is bounded at 30 s and the service is started again (the systemd unit
restarts it). Nothing is assumed of the stages of a deploy: a Docker command may
hang for ever, and the liveness properties hold all the same, through the
monitor. Crashes and failed writes are bounded, not fair.

`MCLiveness!PartFairness` states this for the part `deploys` and adds two more.
Part `log`: stream goroutines run, the keepalive ticks, a `Write` that has begun
publishes its lines; nothing is assumed of clients or of the job. Part `shells`:
handlers and goroutines run, the Docker daemon answers `ExecCreate` and
`ExecAttach` (neither call has a timeout, so a daemon that hangs keeps the
handler). Nothing is assumed of the page, of what is typed, or of a shell: it may
run for ever, also past the end of its input.

## 6. What is proved

Every theorem holds for all values of the constants; what it assumes of them is
the named `ASSUME` of the module that declares them and nothing else. No safety
property of the runs is inductive; each proof strengthens it, shows that
the strengthening holds initially and is kept by every action (one lemma per
action, or per group of actions that disturb the same part), and derives the
property from it.

**`TranglyProofs`** (`StoreAssumption`, the scheduler's assumption and
`TranglyAssumption`): `InductiveInvariant` is `Spec => []IInv`, and
`TypeCorrect`, `RowsShowPhases`, `CancelIsFinal`, `SpawnedAtMostOnce`,
`OrphansAreExplained`, `ReportedSuccessIsEarned`, `WorkspacesAreIsolated` are the
properties of the run `safety`. `IInv` (in `TranglyInvariant`) adds what the
parties know of each other between two steps: the lock holder's request fits its
position, and the row it validated can since only have been changed by a writer
without the lock (`LockInv`); the job a tick has picked has no goroutine, and
once the tick has locked it nobody can cancel it (`PickInv`); rows without a
live goroutine are pending-like, terminal or explained (`IdleRows`,
`FinishedRows`); a dead process holds no lock and no goroutine (`DownInv`); a
goroutine's position is what it has earned (`ProgressInv`). The interesting
steps are the commit of a manager call, where the row may have been failed or
deleted since the validation, and `SpawnNext`, which needs `PickInv` to see that
the job has no goroutine.

**`LifecycleProofs`** proves the refinement: `RowsFollowLifecycle` is
`Spec => ImplementsLifecycle`, where the abstract machine's `status` and `overdue` are the
detailed one's. A deploy may outlive the stuck limit, so the
monitor may fail a row that its goroutine is still moving. One more invariant
is needed, `LimitInv`: the row of a live goroutine is failed only past the limit
(`LiveRowsStand`); a row past the limit was started and is not dispatched again
(`OverdueInv`); and what the snapshot says of held rows stays true until the
un-hold loop, while the loop over stuck rows only has overdue ones (`SnapshotInv`). A
commit of the lock holder is then legal, or the row was failed since its validation, which
needs a goroutine that is live and hence an overdue row: that is `LateWrite`. The
monitor's write is legal, or the row has succeeded since the snapshot:
`MonitorOverrides`. `RefinementInvariant` is `IInv` and `LimitInv`; TLC evaluates it
on every state of `lifecycle`.

**`WebhookProofs`** (`WebhookAssumption`, `AppsAssumption`): the types,
`AcknowledgedIsQueued`, `DuplicatesExplained`, `InstallationOfApp`. `AckInv` says
that a request about to mark, and a delivery that is marked, is settled: it has a
job, or a recorded reason for none. `OnceInv` says that a delivery with no reason to be
handled again is handled by at most one request, by none once it is marked, and is marked
or about to be once it has its job; that is the whole argument for the order of
`IsDuplicate`, the handler and `Mark`. `AppInv` keeps the app of an installation
event in progress until the app is replaced.

**`GitHubAuthProofs`** (`AppsAssumption`): the types, `StateStoresOnce`,
`TokenOfApp`, `CacheClearedOrStale`. `StateInv` says that callbacks let through
hold different, used-up state tokens that have stored nothing yet; `TokenInv`
that a token is kept and served under the installation it was made for, whatever
is disconnected meanwhile; `StaleInv` that after a disconnect only the fetches it
found under way are still under way.

**`AccountsProofs`** (`AccountsAssumption`): the types, `AdminsExplained`,
`SealedReadable`, and the action properties `NoSpuriousLogout` and
`RedirectsMakeProgress`. All rest on `AccountsInvariant`, `Spec => []FullInv`. `WaitInv`: a request waits for its second half only
while the server is up, and the row it read is still there. `AdminInv`: without an
overlap there is one admin at most, and none while somebody is about to insert
one. `KeyInv`: undisturbed, the server's key is the file's, secrets are sealed with
it, and a key is written only where there is none. The session and the redirects
need what a request under way knows: the page that awaits it is still one that can
(`AskInv`); the user of a token the server accepts is in the table, whether
stored (`TokenInv`), without which the login page would send its holder to the setup
page, or carried (`CarriedInv`); a request that was refused while the stored
token is good was sent with an older one, and its tab is in `replaced` (`CarriedInv` again). The cookie comes and goes with the token
(`CookieInv`).

**`ServerProofs`**. Limiter (`RateLimitAssumption`): the types, `WindowBound`,
`RefusedOnlyWhenSpent`. `RateInv` describes how the history of an address falls into windows:
acceptances lie inside their window (`InsideWindow`), windows open more than a window
apart (`WindowsApart`), at most `MaxReq` acceptances share one
(`WindowHoldsMaxReq`), the bucket's count tells how many are in the present one
(`CountIsOfWindow`), and the sweep forgets only windows that are over
(`ForgottenIsOver`). Health check (no assumption): the types and
`SkipIsOrderIndependent`; while the loop runs, no service it has visited decides, and
when it stops, one did, or none does. Service (`ServiceAssumption`): the types and
`ServiceAsReported`. A command has done what the calls it has left do not do any
more: `InstallInv` and `UninstallInv` say for each number of calls left what the
unit file, systemd's copy of it and the process are by then, whatever systemd does
in between; the report at the end is their last case.

**`StreamProofs`**. Log stream (`LogStreamAssumption`, `BroadcasterAssumption`): the
types, and `NoLineSkipped` from `LogInv`: a viewer is subscribed from before its
replay until it is closed, and only lines that are in the file are published. That
only lines of the job are shown (part of the types) needs `LinesOnly` of the
channels. Terminal (`TerminalAssumption`): the types, and `ShellsExplained` from
`TermInv`: a shell was started by a handler and a handler by a socket
(`StartedInOrder`); a socket that is not closed is the page's own or known to be
forgotten (`UsableExplained`), and this survives a connect only because, unless
callbacks raced, the old socket is closed when the callback runs
(`CallbacksInTurn`). `PartsTypeCorrect` carries the types over to `MCLiveness`.

**`PagesProofs`**. Dashboard (`DashboardAssumption`, `BroadcasterAssumption`): the
types, `DivergenceExplained`, and `StreamsNeverGoBack`, an action property. `DashInv`
follows the versions of a row: nothing that is read, queued or shown is newer than
the row, and what has its version has its status (`VersionInv`); a stream that is
not behind with a job has the last announcement in its snapshot or its page, or
as the last event about the job in its channel (`NewsInv`, which gives
`DivergenceExplained`); and a channel holds nothing older than the snapshot or the
page it will be shown on, in order (`OrderInv`, which gives
`StreamsNeverGoBack`), since all writes of the job were made and published under
`Manager.mu`. Project page (`ProjectPageAssumption`): the types, `LogsFollowJob`,
`JobShownExplained`. `LogInv`: a page without a job has no log, or the one that was left open. `ProjectInv`: what the page was told of a job it has seen, or
the last message about the job on the wire says so (`NewsArrive`); and what it shows
is what it saw last, or what the deploy button's answer said (`ShownIsSeen`). List of deployments
(`DataTableAssumption`): the types, `RowsExplained`. `TableInv`: requests are
numbered as they are sent, the last one and its answer are for the controls as they
are (`LatestIsCurrent`), every count is of the past of its own query
(`CountsAreOfQuery`), and a page that was compared with a total of its query exists
unless rows went away (`PageIsOfQuery`). The behaviours of `MCPages` are those of one
part at a time; `PartsAreParts` shows that they are behaviours of every part, so that
all of the above holds of them, and `PagesTypeCorrect` states it for the types.

## 7. What is only model-checked, and what is not modelled

Every safety property and action property of a passing run is proved.
Model-checked only:

- liveness (`ExecutingEnds`, `QueueDrains`, `SubscriptionsReclaimed`,
  `SessionsEnd`), which needs ENABLED and fairness, out of the prover's reach;
- the refuted sentences of section 4, which are counterexamples.

The strengthened invariants of the execution plane are part of the run
`lifecycle`. Those of the other modules are stated in the proof modules, and
were evaluated by TLC on instances like those of the runs before they were proved.

Not modelled: retries and pagination of the GitHub client (each call is one step
that succeeds or fails); cryptography (a key opens what it sealed); preflight
checks and statistics, which keep no state; `status`, the Windows
guide and the banners of the command line; templates, settings, the edit form
and the history's append, which read or send one request; the installer script;
`queue/worker.go` and `scheduler/memory.go`, which nothing calls; the Docker
client's statistics and build, which the deploy path does not call.

Known gaps inside the models:

- one awaited answer for each tab of `Accounts`, the login form's apart;
- one dashboard poll at a time; overlapping polls could answer out of order;
- a log is followed no further after a failed write to its file;
- slugs are given, so collisions are a choice of the instance;
- which installation id a project's row names is not state, so a deploy's token
  request after the app was replaced is one failing stage;
- a failure between the clone and BUILD returns without cleanup
  (`runner.go:111`); `Runner` has the step, but no property is about the
  directories that stay behind, since no later job uses them;
- two administrators who disconnect, store and `update-pem` at once: the
  interleavings are in `GitHubAuth`, and no document says who should win;
- of two password changes that both compared with the old hash the later write
  stands (`auth_service.go:242`), and no document says which should;
- the list of deployments counts and selects in one step, between which rows may
  appear;
- `trangly reset` of a running server is left out.

## 8. Plan

Done, in this order: the execution plane with its proofs, the event plane, the
GitHub plane, the accounts plane; then the limiter, the pages, the terminal,
health-check detection and the service; then the proofs, from the refinement and
the intake to the pages, the terminal and the service. The
order follows what an operator would lose most by.

Next:

1. Pure algorithms as operators against reference definitions over bounded
   inputs: `safeSlug`, `isComposeFile`, `retryDelay` and `WithRetry`,
   `branchFromRef`.
2. Composition: `Webhook`'s jobs feeding `Trangly`'s trigger; project rows with
   their installation id, joining `GitHubAuth` to `Runner`'s token request.
3. Proofs of what the new parts of 1 and 2 promise, and of the safety half of the
   liveness properties: the bound on the ticks after which the monitor has failed
   an overdue row, as an invariant over a count of ticks.
