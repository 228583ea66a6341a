------------------------------ MODULE LogStream ------------------------------
(***************************************************************************)
(* One job's log: broadcastWriter (internal/engine/runner.go) appends to   *)
(* the file and publishes complete lines; StreamLog replays the file and   *)
(* goes on with the channel; the page appends what arrives                 *)
(* (internal/ui/static/js/deployment.js).                                  *)
(*                                                                         *)
(* Lines are numbered. The file's length counts half lines, because a      *)
(* Write may end in the middle of one. "got" has the complete lines: a     *)
(* replay may also show the beginning of the last one, and a line may      *)
(* arrive twice, once replayed and once published.                         *)
(***************************************************************************)
EXTENDS Broadcaster

CONSTANT MaxLines   \* bound: lines the job writes

ASSUME LogStreamAssumption == MaxLines \in Nat

VARIABLES
    file,    \* length of the log file in half lines
    cursor,  \* lines cut from the writer's buffer and published
    writer,  \* "idle", "publish" inside Write, "closed", "broken" after an error
    got,     \* lines in the page's logLines
    missed   \* history: lines dropped at a full channel or not replayed

logVars == <<file, cursor, writer, got, missed>>
allLogVars == <<streamVars, logVars>>

Lines == 1 .. MaxLines

LogTypeOK ==
    /\ BroadcasterTypeOK
    /\ file \in 0 .. 2 * MaxLines
    /\ cursor \in 0 .. MaxLines
    /\ writer \in {"idle", "publish", "closed", "broken"}
    /\ got \in [Streams -> SUBSET Lines]
    /\ missed \in [Streams -> SUBSET Lines]

LogInit ==
    /\ BroadcasterInit
    /\ file = 0
    /\ cursor = 0
    /\ writer = "idle"
    /\ got = [s \in Streams |-> {}]
    /\ missed = [s \in Streams |-> {}]

\* The complete lines of a file of this length.
LinesOf(length) == 1 .. length \div 2

------------------------------------------------------------------------------
(* broadcastWriter *)

\* Write appends to the file, up to the end of a line or into the next one.
WriteFile ==
    /\ writer = "idle"
    /\ file' \in file + 1 .. 2 * MaxLines
    /\ writer' = "publish"
    /\ UNCHANGED <<streamVars, cursor, got, missed>>

\* An error of the file ends Write before anything is published. Bound: the
\* model follows the log no further (later Writes publish without the bytes
\* that were not buffered).
WriteFileFails ==
    /\ writer = "idle"
    /\ file' \in file .. 2 * MaxLines
    /\ writer' = "broken"
    /\ UNCHANGED <<streamVars, cursor, got, missed>>

\* The loop of Write publishes the complete lines of its buffer one by one.
PublishLine ==
    /\ writer = "publish"
    /\ IF cursor + 1 \in LinesOf(file)
       THEN /\ Publish(cursor + 1)
            /\ missed' = [s \in Streams |->
                              IF s \in Dropping
                              THEN missed[s] \cup {cursor + 1} ELSE missed[s]]
            /\ cursor' = cursor + 1
            /\ UNCHANGED writer
       ELSE /\ writer' = "idle"
            /\ UNCHANGED <<chan, cursor, missed>>
    /\ UNCHANGED <<subs, at, client, file, got>>

\* Run returns; the last line, if it is not complete, stays in the buffer.
CloseLog ==
    /\ writer = "idle"
    /\ writer' = "closed"
    /\ UNCHANGED <<streamVars, file, cursor, got, missed>>

------------------------------------------------------------------------------
(* StreamLog and the page *)

\* Mutant: the file is replayed first, then the handler subscribes.
ReplayThenSubscribe(s) ==
    \/ /\ at[s] = "idle"
       /\ client' = [client EXCEPT ![s] = "here"]
       /\ Move(s, "snapshot")
       /\ got' = [got EXCEPT ![s] = LinesOf(file)]
       /\ UNCHANGED <<subs, chan, file, cursor, writer, missed>>
    \/ /\ at[s] = "snapshot"
       /\ Subscribe(s)
       /\ Move(s, "streaming")
       /\ UNCHANGED <<chan, client, logVars>>

\* StreamLogs and StreamLog up to the body writer.
OpenLog(s) ==
    /\ at[s] = "idle"
    /\ client' = [client EXCEPT ![s] = "here"]
    /\ Subscribe(s)
    /\ Move(s, "replay")
    /\ UNCHANGED <<chan, logVars>>

\* replayLog sends the file as it is when the scanner reaches its end. A file
\* that cannot be read, or a line longer than the scanner's buffer, ends it
\* early and is only logged.
Replay(s) ==
    /\ at[s] = "replay"
    /\ IF Lost(s) THEN UNCHANGED <<got, missed>>
       ELSE \E k \in 0 .. file \div 2 :
                /\ got' = [got EXCEPT ![s] = 1 .. k]
                /\ missed' = [missed EXCEPT ![s] = @ \cup (LinesOf(file) \ 1 .. k)]
    /\ \/ Move(s, "streaming") /\ UNCHANGED <<subs, chan>>
       \/ Lost(s) /\ Close(s)
    /\ UNCHANGED <<client, file, cursor, writer>>

\* A line of the channel reaches the page.
ReceiveLine(s) ==
    /\ client[s] = "here"
    /\ Receive(s)
    /\ got' = [got EXCEPT ![s] = @ \cup {Head(chan[s])}]
    /\ UNCHANGED <<subs, at, client, file, cursor, writer, missed>>

LogStreamStep(s) ==
    \/ Replay(s)
    \/ ReceiveLine(s)
    \/ (ReceiveLost(s) \/ Keepalive(s)) /\ UNCHANGED logVars

\* The page closes its EventSource on the first error, and never reconnects.
LogClientLeaves(s) ==
    /\ GoAway(s)
    /\ UNCHANGED <<subs, chan, at, logVars>>

LogNext ==
    \/ WriteFile \/ WriteFileFails \/ PublishLine \/ CloseLog
    \/ \E s \in Streams : OpenLog(s) \/ LogStreamStep(s) \/ LogClientLeaves(s)

LogSpec == LogInit /\ [][LogNext]_allLogVars

------------------------------------------------------------------------------

\* No complete line of the log is skipped silently: a page that is still there
\* after the replay has it, or it is in the page's channel, or Write is about
\* to publish it. The exceptions are a full channel, a replay that ended early
\* and a Write that failed (StreamLog subscribes before it replays, and
\* broadcastWriter writes the file before it publishes).
NoLineSkipped ==
    \A s \in Streams :
        at[s] = "streaming" /\ client[s] = "here" /\ writer # "broken"
            => \A l \in LinesOf(file) :
                   \/ l \in got[s] \cup missed[s]
                   \/ \E i \in DOMAIN chan[s] : chan[s][i] = l
                   \/ l > cursor
==============================================================================
