----------------------------- MODULE ProjectPage -----------------------------
(***************************************************************************)
(* The page of one project: the deployment it shows, the log it follows,   *)
(* its event stream and its deploy button (internal/ui/static/js/          *)
(* project.js, api/http/handlers/project.go and queue.go).                 *)
(*                                                                         *)
(* Of a status only its place in the row's history counts, and whether it  *)
(* is terminal. How an event comes to be missing from a stream is the      *)
(* subject of Dashboard; here any event may be.                            *)
(***************************************************************************)
EXTENDS Naturals, Sequences

CONSTANTS
    Deploys,      \* jobs of this project
    NoDeploy,
    MaxChanges    \* bound: writes to a row

ASSUME ProjectPageAssumption == NoDeploy \notin Deploys /\ MaxChanges \in Nat \ {0}

VARIABLES
    written,    \* number of writes to each row, 0 before the insert
    over,       \* the rows that are success or failed
    at_page,    \* where the page is, see Places
    listing,    \* the active job of the project that GET /api/queue has found
    wire,       \* what the stream has sent and the page has not read
    errors,     \* _sseFailCount
    posts,      \* deploys that this page has queued and not had the answer for
    job,        \* the job shown, with the one its status is of
    logOf,      \* _logSource: the job whose log the page has opened
    left_open,  \* history: the log that was open when the queue's answer took the job away
    told,       \* history: the last write the page has been sent, or has seen
    seen,       \* history: the last write the page has seen
    adopted     \* history: what made the page show the job's id

projectVars == <<written, over, at_page, listing, wire, errors, posts, job,
                 logOf, left_open, told, seen, adopted>>

\* "shown": the project is there and the queue awaited; "listed": its answer is on
\* the way. "failed": the project could not be read. "lost": the stream is given up.
Places == {"loading", "shown", "listed", "connecting", "waiting", "open", "lost", "failed",
           "left"}

MaxErrors == 5

JobView == [id : Deploys, of : Deploys, ver : 1 .. MaxChanges, done : BOOLEAN]
NoJob == [id |-> NoDeploy, of |-> NoDeploy, ver |-> 0, done |-> FALSE]

Message == [kind : {"init", "event"}, of : Deploys, ver : 1 .. MaxChanges,
            done : BOOLEAN]

Nothing == [kind |-> "init", of |-> NoDeploy, ver |-> 0, done |-> FALSE]

ProjectTypeOK ==
    /\ written \in [Deploys -> 0 .. MaxChanges]
    /\ over \subseteq Deploys
    /\ at_page \in Places
    /\ listing \in Message \cup {Nothing}
    /\ \A i \in DOMAIN wire : wire[i] \in Message \cup {Nothing}
    /\ errors \in 0 .. MaxErrors
    /\ posts \subseteq Deploys
    /\ job \in JobView \cup {NoJob}
    /\ logOf \in Deploys \cup {NoDeploy}
    /\ left_open \in Deploys \cup {NoDeploy}
    /\ told \in [Deploys -> 0 .. MaxChanges]
    /\ seen \in [Deploys -> 0 .. MaxChanges]
    /\ adopted \in {"nothing", "queue", "init", "event", "end", "answer"}

ProjectInit ==
    /\ written = [j \in Deploys |-> 0]
    /\ over = {}
    /\ at_page = "loading"
    /\ listing = Nothing
    /\ wire = <<>>
    /\ errors = 0
    /\ posts = {}
    /\ job = NoJob
    /\ logOf = NoDeploy
    /\ left_open = NoDeploy
    /\ told = [j \in Deploys |-> 0]
    /\ seen = [j \in Deploys |-> 0]
    /\ adopted = "nothing"

rowsUnchanged == UNCHANGED <<written, over>>
viewUnchanged == UNCHANGED <<job, logOf, left_open, seen, adopted>>

------------------------------------------------------------------------------
(* The rows *)

\* DeployService.Trigger, for a webhook or another page: no event.
Queued(j) ==
    /\ written[j] = 0
    /\ written' = [written EXCEPT ![j] = 1]
    /\ UNCHANGED <<over, at_page, listing, wire, errors, posts, told>>
    /\ viewUnchanged

\* A new status. Its event reaches the stream, or nobody publishes it, or it is
\* dropped.
StatusChanges(j) ==
    /\ written[j] \in 1 .. MaxChanges - 1
    /\ j \notin over
    /\ written' = [written EXCEPT ![j] = @ + 1]
    /\ over' \in {over, over \cup {j}}
    /\ \/ /\ at_page = "open"
          /\ wire' = Append(wire, [kind |-> "event", of |-> j, ver |-> written'[j],
                                   done |-> j \in over'])
          /\ told' = [told EXCEPT ![j] = written'[j]]
       \/ UNCHANGED <<wire, told>>
    /\ UNCHANGED <<at_page, listing, errors, posts>>
    /\ viewUnchanged

\* What a list of active jobs says of the project: jobs.find takes the first.
Findings ==
    LET active == {j \in Deploys : written[j] > 0 /\ j \notin over}
    IN  IF active = {} THEN {Nothing}
        ELSE {[kind |-> "init", of |-> j, ver |-> written[j], done |-> FALSE] :
                  j \in active}

------------------------------------------------------------------------------
(* Loading and streaming *)

\* _loadProject: the project, whose page has a deploy button from then on; then
\* the queue.
ReadProject ==
    /\ at_page = "loading"
    /\ at_page' \in {"failed", "shown"}
    /\ UNCHANGED <<listing, wire, errors, posts, told>>
    /\ rowsUnchanged
    /\ viewUnchanged

ReadQueue ==
    /\ at_page = "shown"
    /\ at_page' = "listed"
    /\ listing' \in Findings
    /\ UNCHANGED <<wire, errors, posts, told>>
    /\ rowsUnchanged
    /\ viewUnchanged

\* The page shows a job and opens its log.
Show(m, how) ==
    /\ job' = [id |-> m.of, of |-> m.of, ver |-> m.ver, done |-> m.done]
    /\ logOf' = m.of
    /\ adopted' = how

See(m) == seen' = [seen EXCEPT ![m.of] = m.ver]

\* The answer of the queue: its job, or none, is the page's job from then on, also
\* when a deploy has been shown in the meantime, whose log stays open. A queue that
\* cannot be read leaves the job alone and opens its log again.
QueueAnswer ==
    /\ at_page' = "connecting"
    /\ \/ /\ at_page = "listed" /\ listing # Nothing
          /\ Show(listing, "queue")
          /\ See(listing)
          /\ told' = seen'
          /\ UNCHANGED left_open
       \/ /\ at_page = "listed" /\ listing = Nothing
          /\ job' = NoJob /\ adopted' = "nothing" /\ left_open' = logOf
          /\ UNCHANGED <<logOf, seen, told>>
       \/ /\ at_page = "shown"
          /\ logOf' = IF job = NoJob THEN logOf ELSE job.id
          /\ UNCHANGED <<job, left_open, seen, adopted, told>>
    /\ listing' = Nothing
    /\ UNCHANGED <<wire, errors, posts>>
    /\ rowsUnchanged

\* _startDashboardStream: the stream begins with the active jobs.
StreamOpens ==
    /\ at_page = "connecting"
    /\ at_page' = "open"
    /\ errors' = 0
    /\ \E m \in Findings :
           /\ wire' = <<m>>
           /\ told' = IF m = Nothing THEN told ELSE [told EXCEPT ![m.of] = m.ver]
    /\ UNCHANGED <<listing, posts>>
    /\ rowsUnchanged
    /\ viewUnchanged

\* onerror: the fifth failure in a row is the last.
StreamFails ==
    /\ at_page \in {"connecting", "open"}
    /\ errors' = errors + 1
    /\ at_page' = IF errors + 1 = MaxErrors THEN "lost" ELSE "waiting"
    /\ wire' = <<>>
    /\ told' = seen
    /\ UNCHANGED <<listing, posts>>
    /\ rowsUnchanged
    /\ viewUnchanged

StreamAgain ==
    /\ at_page = "waiting"
    /\ at_page' = "connecting"
    /\ UNCHANGED <<listing, wire, errors, posts, told>>
    /\ rowsUnchanged
    /\ viewUnchanged

------------------------------------------------------------------------------
(* Messages and answers *)

\* Mutant: a page that shows a job already does not take over another.
ApplyInitOnce(m) ==
    IF m = Nothing \/ job # NoJob THEN UNCHANGED <<job, logOf, adopted>>
    ELSE /\ job' = [id |-> m.of, of |-> m.of, ver |-> m.ver, done |-> m.done]
         /\ logOf' = IF logOf = NoDeploy THEN m.of ELSE logOf
         /\ adopted' = "init"

\* "init": the job is taken over, its log only when none was opened.
ApplyInit(m) ==
    IF m = Nothing THEN UNCHANGED <<job, logOf, adopted>>
    ELSE /\ job' = [id |-> m.of, of |-> m.of, ver |-> m.ver, done |-> m.done]
         /\ logOf' = IF logOf = NoDeploy THEN m.of ELSE logOf
         /\ adopted' = "init"

\* Mutant: the event's job is shown from then on, the log stays.
ApplyAsNewJob(m) ==
    /\ job' = [id |-> m.of, of |-> m.of, ver |-> m.ver, done |-> m.done]
    /\ adopted' = IF m.done THEN "end" ELSE "event"
    /\ logOf' = IF job = NoJob /\ ~m.done THEN m.of ELSE logOf

\* _applyJobEvent: the status goes to the job that is shown, whichever job of
\* the project the event is about. A page without a job shows the event's, and
\* opens the log unless the event is its end.
ApplyJobEvent(m) ==
    IF job # NoJob
    THEN /\ job' = [job EXCEPT !.of = m.of, !.ver = m.ver, !.done = m.done]
         /\ UNCHANGED <<logOf, adopted>>
    ELSE /\ job' = [id |-> m.of, of |-> m.of, ver |-> m.ver, done |-> m.done]
         /\ adopted' = IF m.done THEN "end" ELSE "event"
         /\ logOf' = IF m.done THEN logOf ELSE m.of

ReadMessage ==
    /\ at_page = "open"
    /\ wire # <<>>
    /\ LET m == Head(wire) IN
           /\ IF m.kind = "init" THEN ApplyInit(m) ELSE ApplyJobEvent(m)
           /\ IF m = Nothing THEN UNCHANGED seen ELSE See(m)
    /\ wire' = Tail(wire)
    /\ UNCHANGED <<at_page, listing, errors, posts, left_open, told>>
    /\ rowsUnchanged

ProjectThere == at_page \notin {"loading", "failed", "left"}

\* triggerDeploy and redeploy, up to the insert. The history's button is there
\* whatever the page shows.
PressDeploy(j) ==
    /\ ProjectThere
    /\ written[j] = 0
    /\ written' = [written EXCEPT ![j] = 1]
    /\ posts' = posts \cup {j}
    /\ UNCHANGED <<over, at_page, listing, wire, errors, told>>
    /\ viewUnchanged

\* The answer shows the job as pending, or is an error and shows nothing.
DeployIsQueued(j) ==
    /\ ProjectThere
    /\ j \in posts
    /\ posts' = posts \ {j}
    /\ \/ /\ Show([of |-> j, ver |-> 1, done |-> FALSE], "answer")
          /\ UNCHANGED <<left_open, seen>>
       \/ viewUnchanged
    /\ UNCHANGED <<at_page, listing, wire, errors, told>>
    /\ rowsUnchanged

\* destroy
ClosePage ==
    /\ at_page # "left"
    /\ at_page' = "left"
    /\ listing' = Nothing /\ wire' = <<>> /\ errors' = 0 /\ posts' = {}
    /\ job' = NoJob /\ logOf' = NoDeploy /\ left_open' = NoDeploy
    /\ adopted' = "nothing"
    /\ UNCHANGED <<told, seen>>
    /\ rowsUnchanged

ProjectNext ==
    \/ \E j \in Deploys : Queued(j) \/ StatusChanges(j) \/ PressDeploy(j)
                              \/ DeployIsQueued(j)
    \/ ReadProject \/ ReadQueue \/ QueueAnswer \/ StreamOpens \/ StreamFails \/ StreamAgain
    \/ ReadMessage \/ ClosePage

ProjectSpec == ProjectInit /\ [][ProjectNext]_projectVars

------------------------------------------------------------------------------

\* The log on the page is the log of the job it shows. It is another one only
\* when a stream has begun with another job while a log was open, or when a page
\* without a job has learnt of one by its end: that opens no log, so there is none,
\* or still that of a deploy whose job the late answer of the queue took away
\* (project.js:78-85, 107-113, 152-158).
LogsFollowJob ==
    job # NoJob =>
        \/ logOf = job.id
        \/ logOf # NoDeploy /\ adopted = "init"
        \/ logOf = left_open /\ adopted = "end"

\* The status shown is the present one of the job it was last heard of, unless
\* the news is on its way, or the last write was not sent to this page, or the
\* answer to the deploy button came after the job's first events (events are
\* applied in order, and an open stream starts from the rows).
JobShownExplained ==
    job # NoJob /\ at_page = "open" =>
        \/ job.ver = written[job.of]
        \/ told[job.of] < written[job.of]
        \/ \E i \in DOMAIN wire : wire[i].of = job.of /\ wire[i].ver > job.ver
        \/ adopted = "answer" /\ job.ver = 1 /\ seen[job.of] > 1
==============================================================================
