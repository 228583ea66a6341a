------------------------------ MODULE Dashboard ------------------------------
(***************************************************************************)
(* The dashboard's view of the job rows: the writers of the rows with and  *)
(* without publishStatusChange (internal/queue/manager.go,                 *)
(* scheduler/monitor.go, app/*.go), the /api/events stream                 *)
(* (api/http/handlers/events.go, api/sse/stream.go) and one page           *)
(* (internal/ui/static/js/dashboard.js).                                   *)
(*                                                                         *)
(* The writers are those of Trangly at a coarser grain: here a manager     *)
(* call validates and writes in one step, and publishes in the next, both  *)
(* under Manager.mu.                                                       *)
(***************************************************************************)
EXTENDS Broadcaster, JobStates

CONSTANTS
    NoStream,
    Jobs,
    MaxWrites,   \* bound: writes to each row
    ReadFails    \* whether GetJob in publishStatusChange may return an error

ASSUME DashboardAssumption ==
    /\ MaxWrites \in Nat
    /\ ReadFails \in BOOLEAN
    /\ NoStream \notin Streams
    /\ "poll" \notin Streams

VARIABLES
    row,         \* status of each row
    ver,         \* history: number of writes to the row
    pending,     \* the event Manager holds mu for, between UPDATE and Publish
    announced,   \* history: ver of the last write that was published
    unlocked,    \* history: jobs written without Manager.mu after their insert
    snap,        \* what a handler or a poll has read and not yet sent
    page,        \* where the page is, see Pages
    cur,         \* the stream the page reads, NoStream when there is none
    fails,       \* _sseFailCount
    view,        \* activeJobs: the status shown, "absent" when not listed
    shown,       \* history: version of what the page last learnt of a job
    behind       \* history: per stream, jobs whose last event was not queued

rowVars == <<row, ver, pending, announced, unlocked>>
pageVars == <<page, cur, fails, view, shown>>
dashVars == <<rowVars, snap, pageVars, behind>>
allDashVars == <<streamVars, dashVars>>

NoEvent == [job |-> 0, status |-> "absent", ver |-> 0]

\* "polled": a poll is under way.
Pages == {"connecting", "open", "waiting", "polling", "polled", "left"}

\* The third failure in a row makes the page poll.
MaxFails == 3

Snapshot == [status : [Jobs -> RowStatuses], ver : [Jobs -> 0 .. MaxWrites]]

DashTypeOK ==
    /\ BroadcasterTypeOK
    /\ row \in [Jobs -> RowStatuses]
    /\ ver \in [Jobs -> 0 .. MaxWrites]
    /\ pending \in [job : Jobs, status : Statuses, ver : 1 .. MaxWrites]
                     \cup {NoEvent}
    /\ announced \in [Jobs -> 0 .. MaxWrites]
    /\ unlocked \subseteq Jobs
    /\ snap \in [Streams \cup {"poll"} -> Snapshot]
    /\ page \in Pages
    /\ cur \in Streams \cup {NoStream}
    /\ fails \in 0 .. MaxFails
    /\ view \in [Jobs -> RowStatuses]
    /\ shown \in [Jobs -> 0 .. MaxWrites]
    /\ behind \in [Streams -> SUBSET Jobs]

EmptySnapshot ==
    [status |-> [j \in Jobs |-> "absent"], ver |-> [j \in Jobs |-> 0]]

DashInit ==
    /\ BroadcasterInit
    /\ row = [j \in Jobs |-> "absent"]
    /\ ver = [j \in Jobs |-> 0]
    /\ pending = NoEvent
    /\ announced = [j \in Jobs |-> 0]
    /\ unlocked = {}
    /\ snap = [r \in Streams \cup {"poll"} |-> EmptySnapshot]
    /\ page = "connecting"
    /\ cur = NoStream
    /\ fails = 0
    /\ view = [j \in Jobs |-> "absent"]
    /\ shown = [j \in Jobs |-> 0]
    /\ behind = [s \in Streams |-> {}]

------------------------------------------------------------------------------
(* The writers *)

Write(j, st) ==
    /\ ver[j] < MaxWrites
    /\ row' = [row EXCEPT ![j] = st]
    /\ ver' = [ver EXCEPT ![j] = @ + 1]

\* DeployService.Trigger publishes nothing.
Trigger(j) ==
    /\ row[j] = "absent"
    /\ Write(j, "pending")
    /\ UNCHANGED <<pending, announced, unlocked>>

\* UpdateStatus, Hold, MarkStarted, MarkFinished, Cancel, up to the publish.
ManagerWrite(j, st) ==
    /\ pending = NoEvent
    /\ ValidateTransition(row[j], st)
    /\ Write(j, st)
    /\ pending' = [job |-> j, status |-> st, ver |-> ver[j] + 1]
    /\ UNCHANGED <<announced, unlocked>>

\* CheckHeld and CheckStuck write the row and publish nothing.
MonitorWrite(j) ==
    /\ row[j] \in Executing \cup {"held"}
    /\ Write(j, "failed")
    /\ unlocked' = unlocked \cup {j}
    /\ UNCHANGED <<pending, announced>>

\* The rows of a deleted project.
DeleteRow(j) ==
    /\ row[j] \in Statuses
    /\ Write(j, "deleted")
    /\ unlocked' = unlocked \cup {j}
    /\ UNCHANGED <<pending, announced>>

\* A handler that has read the rows and is not subscribed yet misses the
\* event, as does a stream whose channel is full.
MissedBy(s, e) ==
    IF \/ at[s] = "snapshot" /\ e.ver > snap[s].ver[e.job]
       \/ s \in Dropping
    THEN behind[s] \cup {e.job}
    ELSE IF s \in subs THEN behind[s] \ {e.job} ELSE behind[s]

\* publishStatusChange: nothing when the row is gone or cannot be read.
PublishStatusChange ==
    /\ pending # NoEvent
    /\ \/ /\ row[pending.job] # "deleted"
          /\ Publish(pending)
          /\ announced' = [announced EXCEPT ![pending.job] = pending.ver]
          /\ behind' = [s \in Streams |-> MissedBy(s, pending)]
       \/ /\ ReadFails \/ row[pending.job] = "deleted"
          /\ UNCHANGED <<chan, announced, behind>>
    /\ pending' = NoEvent
    /\ UNCHANGED <<subs, at, client, row, ver, unlocked, snap, pageVars>>

WriterStep(j) ==
    /\ \/ Trigger(j) \/ MonitorWrite(j) \/ DeleteRow(j)
       \/ \E st \in Statuses : ManagerWrite(j, st)
    /\ UNCHANGED <<streamVars, snap, pageVars, behind>>

------------------------------------------------------------------------------
(* GET /api/events *)

Rows == [status |-> row, ver |-> ver]

\* EventsHandler.Stream: ListAllActive.
ReadSnapshot(s) ==
    /\ page = "connecting" /\ cur = NoStream
    /\ at[s] = "idle"
    /\ cur' = s
    /\ client' = [client EXCEPT ![s] = "here"]
    /\ snap' = [snap EXCEPT ![s] = Rows]
    /\ Move(s, "snapshot")
    /\ UNCHANGED <<subs, chan, rowVars, page, fails, view, shown, behind>>

\* StreamDashboard.
SubscribeDashboard(s) ==
    /\ at[s] = "snapshot"
    /\ Subscribe(s)
    /\ Move(s, "replay")
    /\ UNCHANGED <<chan, client, dashVars>>

\* The jobs the page lists: all that are not terminal.
Listed(st) == IF st \in Active THEN st ELSE "absent"

\* The page takes over a list of active jobs.
Replace(data) ==
    /\ view' = [j \in Jobs |-> Listed(data.status[j])]
    /\ shown' = data.ver

\* Mutant: the body writer, already subscribed, reads the rows itself.
SendFreshInit(s) ==
    /\ at[s] = "replay"
    /\ IF cur = s
       THEN page' = "open" /\ fails' = 0 /\ Replace(Rows)
       ELSE UNCHANGED <<page, fails, view, shown>>
    /\ \/ Move(s, "streaming") /\ UNCHANGED <<subs, chan>>
       \/ Lost(s) /\ Close(s)
    /\ snap' = [snap EXCEPT ![s] = EmptySnapshot]
    /\ UNCHANGED <<client, rowVars, cur, behind>>

\* The "init" event; onopen resets the failure count.
SendInit(s) ==
    /\ at[s] = "replay"
    /\ IF cur = s
       THEN page' = "open" /\ fails' = 0 /\ Replace(snap[s])
       ELSE UNCHANGED <<page, fails, view, shown>>
    /\ \/ Move(s, "streaming") /\ UNCHANGED <<subs, chan>>
       \/ Lost(s) /\ Close(s)
    /\ snap' = [snap EXCEPT ![s] = EmptySnapshot]
    /\ UNCHANGED <<client, rowVars, cur, behind>>

\* Mutant: an event of a job that is not listed is ignored.
ApplyToListedJob(s) ==
    /\ cur = s
    /\ Receive(s)
    /\ LET e == Head(chan[s]) IN
           /\ view' = [view EXCEPT ![e.job] = IF @ = "absent" THEN @
                                              ELSE Listed(e.status)]
           /\ shown' = [shown EXCEPT ![e.job] = e.ver]
    /\ UNCHANGED <<subs, at, client, rowVars, snap, page, cur, fails, behind>>

\* _applyJobStatusEvent: a terminal job is removed, any other one is updated
\* or added.
ApplyJobStatusEvent(s) ==
    /\ cur = s
    /\ Receive(s)
    /\ LET e == Head(chan[s]) IN
           /\ view' = [view EXCEPT ![e.job] = Listed(e.status)]
           /\ shown' = [shown EXCEPT ![e.job] = e.ver]
    /\ UNCHANGED <<subs, at, client, rowVars, snap, page, cur, fails, behind>>

DashboardStreamStep(s) ==
    \/ SubscribeDashboard(s)
    \/ SendInit(s)
    \/ ApplyJobStatusEvent(s)
    \/ (ReceiveLost(s) \/ Keepalive(s)) /\ UNCHANGED dashVars

------------------------------------------------------------------------------
(* The page *)

\* Mutant: the failure count is compared before it is incremented.
OnErrorLate ==
    /\ cur' = NoStream
    /\ fails' = fails + 1
    /\ page' = IF fails = MaxFails THEN "polling" ELSE "waiting"
    /\ UNCHANGED <<rowVars, snap, view, shown, behind>>

\* es.onerror: reconnect after a delay, poll after the third failure.
OnError ==
    /\ cur' = NoStream
    /\ fails' = fails + 1
    /\ page' = IF fails + 1 = MaxFails THEN "polling" ELSE "waiting"
    /\ UNCHANGED <<rowVars, snap, view, shown, behind>>

ConnectFails ==
    /\ page = "connecting" /\ cur = NoStream
    /\ OnError
    /\ UNCHANGED streamVars

ConnectionBreaks(s) ==
    /\ cur = s
    /\ GoAway(s)
    /\ OnError
    /\ UNCHANGED <<subs, chan, at>>

Reconnect ==
    /\ page = "waiting"
    /\ page' = "connecting"
    /\ UNCHANGED <<streamVars, rowVars, snap, cur, fails, view, shown, behind>>

\* _pollActiveJobs: the request reads, the answer arrives. Bound: one poll at
\* a time.
PollReads ==
    /\ page = "polling"
    /\ page' = "polled"
    /\ snap' = [snap EXCEPT !["poll"] = Rows]
    /\ UNCHANGED <<streamVars, rowVars, cur, fails, view, shown, behind>>

PollAnswers ==
    /\ page = "polled"
    /\ page' = "polling"
    /\ Replace(snap["poll"])
    /\ snap' = [snap EXCEPT !["poll"] = EmptySnapshot]
    /\ UNCHANGED <<streamVars, rowVars, cur, fails, behind>>

\* destroy.
Leave ==
    /\ page # "left"
    /\ page' = "left"
    /\ cur' = NoStream
    /\ Replace(EmptySnapshot)
    /\ IF cur = NoStream THEN UNCHANGED client ELSE GoAway(cur)
    /\ UNCHANGED <<subs, chan, at, rowVars, snap, fails, behind>>

PageStep ==
    \/ ConnectFails \/ Reconnect \/ PollReads \/ PollAnswers \/ Leave
    \/ \E s \in Streams : ConnectionBreaks(s)

DashNext ==
    \/ \E j \in Jobs : WriterStep(j)
    \/ PublishStatusChange
    \/ \E s \in Streams : ReadSnapshot(s) \/ DashboardStreamStep(s)
    \/ PageStep

DashSpec == DashInit /\ [][DashNext]_allDashVars

------------------------------------------------------------------------------

\* When an open dashboard shows something else than the row, the difference is
\* on its way, or it is explained: the last write was one nobody publishes, or
\* the event was published between the handler's snapshot and its subscription
\* or met a full channel.
DivergenceExplained ==
    \A s \in Streams, j \in Jobs :
        page = "open" /\ cur = s /\ at[s] = "streaming"
            => \/ view[j] = Listed(row[j])
               \/ announced[j] # ver[j]
               \/ \E i \in DOMAIN chan[s] : chan[s][i].job = j
               \/ j \in behind[s]

\* A dashboard fed by streams never goes back to an older status of a job,
\* over reconnects too, unless the row was written without Manager.mu: the
\* handler reads its snapshot before it subscribes, and events are published
\* in the order of the writes.
StreamsNeverGoBack ==
    [][\A j \in Jobs : page' = "open" /\ j \notin unlocked'
            => shown'[j] >= shown[j]]_<<page, shown, unlocked>>
==============================================================================
