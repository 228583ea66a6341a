---------------------------- MODULE StreamProofs ----------------------------
(***************************************************************************)
(* What goes on while a job's log is read and a shell is used. Each part   *)
(* has its inductive invariant first, then what its steps keep of it, then *)
(* the theorems. Last, what is proved of the parts is carried over to      *)
(* MCLiveness, whose behaviours are those of one part at a time.           *)
(***************************************************************************)
EXTENDS MCLiveness, TranglyProofs

(***************************************************************************)
(* Log streams, for any number of viewers and lines and any capacity of    *)
(* the channels: no line of a job's log is skipped silently. The invariant *)
(* says that a viewer stays subscribed from before its replay until it is  *)
(* closed, and that only lines that are in the file are published.         *)
(***************************************************************************)

\* The types that matter: lines, and how far the file and the writer are.
ViewTypeOK ==
    /\ subs \subseteq Streams
    /\ at \in [Streams -> Positions]
    /\ client \in [Streams -> {"none", "here", "gone"}]
    /\ chan \in [Streams -> Seq(Nat)]
    /\ got \in [Streams -> SUBSET Nat]
    /\ missed \in [Streams -> SUBSET Nat]
    /\ file \in Nat /\ cursor \in Nat
    /\ writer \in {"idle", "publish", "closed", "broken"}

\* A viewer whose request is open is subscribed.
Subscribed == \A s \in Streams : at[s] \in {"replay", "streaming"} => s \in subs

\* The line l has reached viewer s, is on its way, or is known to be missing.
Accounted(s, l) ==
    \/ l \in got[s] \cup missed[s]
    \/ \E i \in DOMAIN chan[s] : chan[s][i] = l
    \/ l > cursor

LogInv ==
    /\ ViewTypeOK
    /\ Subscribed
    /\ cursor <= file \div 2
    /\ NoLineSkipped

------------------------------------------------------------------------------

\* A message that is sent keeps what is in the channel and adds itself.
LEMMA AppendKeeps ==
  ASSUME NEW q \in Seq(Nat), NEW m \in Nat
  PROVE  /\ Append(q, m) \in Seq(Nat)
         /\ \A i \in DOMAIN q : i \in DOMAIN Append(q, m) /\ Append(q, m)[i] = q[i]
         /\ Len(q) + 1 \in DOMAIN Append(q, m)
         /\ Append(q, m)[Len(q) + 1] = m
OBVIOUS

\* A message that is received is the head; the others move up.
LEMMA TailKeeps ==
  ASSUME NEW q \in Seq(Nat), q # <<>>, NEW i \in DOMAIN q
  PROVE  /\ Head(q) \in Nat /\ Tail(q) \in Seq(Nat)
         /\ \/ q[i] = Head(q)
            \/ \E k \in DOMAIN Tail(q) : Tail(q)[k] = q[i]
<1>1. i \in 1 .. Len(q) /\ Len(q) \in Nat
  OBVIOUS
<1>2. CASE i = 1
  BY <1>2
<1>3. CASE i # 1
  <2>1. i - 1 \in DOMAIN Tail(q) /\ Tail(q)[i - 1] = q[i]
    BY <1>1, <1>3
  <2> QED BY <2>1
<1> QED BY <1>2, <1>3

LEMMA HalvesGrow ==
  \A a, b \in Nat : /\ a \div 2 \in Nat
                    /\ a <= b => a \div 2 <= b \div 2
OBVIOUS

LEMMA LogInitInv == LogInit => LogInv
BY DEF LogInit, BroadcasterInit, LogInv, ViewTypeOK, Positions, Subscribed, NoLineSkipped

------------------------------------------------------------------------------
(* The writer *)

LEMMA WriterKeepsInv ==
  ASSUME LogInv, WriteFile \/ WriteFileFails \/ CloseLog
  PROVE  LogInv'
<1> USE LogStreamAssumption DEF LogInv, streamVars
<1>1. /\ UNCHANGED <<subs, chan, at, client, cursor, got, missed>>
      /\ file' \in Nat /\ file' >= file
      /\ writer' \in {"idle", "publish", "closed", "broken"}
      /\ writer' # "broken" => writer # "broken"
  BY DEF WriteFile, WriteFileFails, CloseLog, ViewTypeOK
<1>2. file \div 2 <= file' \div 2 /\ file \div 2 \in Nat /\ file' \div 2 \in Nat
  BY <1>1, HalvesGrow DEF ViewTypeOK
<1>3. ViewTypeOK' /\ Subscribed' /\ cursor' <= file' \div 2
  <2>1. ViewTypeOK' /\ Subscribed'
    BY <1>1 DEF ViewTypeOK, Subscribed
  <2>2. cursor \in Nat /\ cursor <= file \div 2
    BY DEF ViewTypeOK
  <2> HIDE DEF LogInv
  <2>3. cursor <= file' \div 2
    BY <1>2, <2>2
  <2> QED BY <1>1, <2>1, <2>3
<1>4. NoLineSkipped'
  <2> SUFFICES ASSUME NEW s \in Streams, at[s] = "streaming", client[s] = "here",
                      writer # "broken", NEW l \in 1 .. file' \div 2
               PROVE  Accounted(s, l)
    BY <1>1 DEF NoLineSkipped, LinesOf, Accounted
  <2>1. CASE l <= file \div 2
    BY <1>2, <2>1 DEF NoLineSkipped, LinesOf, Accounted
  <2>2. CASE l > file \div 2
    BY <1>2, <2>2 DEF Accounted, ViewTypeOK
  <2> QED BY <1>2, <2>1, <2>2
<1> QED BY <1>3, <1>4

LEMMA PublishKeepsInv ==
  ASSUME LogInv, PublishLine
  PROVE  LogInv'
<1> USE DEF LogInv
<1>1. UNCHANGED <<subs, at, client, file, got>> /\ writer = "publish"
  BY DEF PublishLine
<1>2. CASE cursor + 1 \notin LinesOf(file)
  BY <1>1, <1>2 DEF PublishLine, ViewTypeOK, Subscribed, NoLineSkipped
<1>3. CASE cursor + 1 \in LinesOf(file)
  <2> DEFINE m == cursor + 1
  <2>1. /\ cursor' = m /\ UNCHANGED writer
        /\ chan' = [s \in Streams |-> IF s \in subs /\ ~Full(s)
                                      THEN Append(chan[s], m) ELSE chan[s]]
        /\ missed' = [s \in Streams |-> IF s \in Dropping THEN missed[s] \cup {m}
                                                          ELSE missed[s]]
    BY <1>3 DEF PublishLine, Publish
  <2>2. m \in Nat /\ m <= file \div 2
    BY <1>3 DEF LinesOf, ViewTypeOK
  <2>3. ViewTypeOK'
    <3>1. chan' \in [Streams -> Seq(Nat)]
      BY <2>1, <2>2, AppendKeeps DEF ViewTypeOK
    <3>2. missed' \in [Streams -> SUBSET Nat]
      BY <2>1, <2>2 DEF ViewTypeOK
    <3> QED BY <1>1, <2>1, <2>2, <3>1, <3>2 DEF ViewTypeOK
  <2>4. NoLineSkipped'
    <3> SUFFICES ASSUME NEW s \in Streams, at[s] = "streaming", client[s] = "here",
                        NEW l \in 1 .. file \div 2
                 PROVE  \/ l \in got[s] \cup missed'[s]
                        \/ \E i \in DOMAIN chan'[s] : chan'[s][i] = l
                        \/ l > m
      BY <1>1, <2>1 DEF NoLineSkipped, LinesOf
    <3>1. s \in subs /\ chan[s] \in Seq(Nat) /\ l \in Nat
      BY DEF Subscribed, ViewTypeOK
    <3>2. Accounted(s, l)
      BY <1>1 DEF NoLineSkipped, LinesOf, Accounted
    <3>3. CASE l \in got[s] \cup missed[s]
      BY <2>1, <3>3
    <3>4. CASE \E i \in DOMAIN chan[s] : chan[s][i] = l
      BY <2>1, <2>2, <3>1, <3>4, AppendKeeps
    <3>5. CASE l > cursor
      <4>1. l = m \/ l > m
        BY <3>1, <3>5 DEF ViewTypeOK
      <4>2. CASE l = m
        BY <2>1, <2>2, <3>1, <4>2, AppendKeeps DEF Dropping
      <4> QED BY <4>1, <4>2
    <3> QED BY <3>2, <3>3, <3>4, <3>5 DEF Accounted
  <2>5. Subscribed' /\ cursor' <= file' \div 2
    BY <1>1, <2>1, <2>2 DEF Subscribed
  <2> QED BY <2>3, <2>4, <2>5
<1> QED BY <1>2, <1>3

------------------------------------------------------------------------------
(* The viewers *)

LEMMA ViewersKeepInv ==
  ASSUME LogInv, NEW s \in Streams, OpenLog(s) \/ LogStreamStep(s) \/ LogClientLeaves(s)
  PROVE  LogInv'
<1> USE DEF LogInv
<1>1. CASE OpenLog(s)
  BY <1>1 DEF OpenLog, Subscribe, Move, logVars, ViewTypeOK, Positions, Subscribed,
     NoLineSkipped
<1>2. CASE LogClientLeaves(s)
  BY <1>2 DEF LogClientLeaves, GoAway, logVars, ViewTypeOK, Subscribed, NoLineSkipped
<1>3. CASE Lost(s) /\ (ReceiveLost(s) \/ Keepalive(s)) /\ UNCHANGED logVars
  <2>1. CASE Close(s) /\ UNCHANGED client
    BY <1>3, <2>1 DEF Close, Move, logVars, ViewTypeOK, Positions, Subscribed,
       NoLineSkipped
  <2>2. CASE Receive(s) /\ UNCHANGED <<subs, at, client>>
    <3>1. chan' = [chan EXCEPT ![s] = Tail(chan[s])] /\ chan[s] # <<>>
      BY <2>2 DEF Receive
    <3>2. chan' \in [Streams -> Seq(Nat)]
      BY <3>1 DEF ViewTypeOK
    <3>3. NoLineSkipped'
      BY <1>3, <2>2, <3>1 DEF Lost, logVars, ViewTypeOK, NoLineSkipped
    <3> QED BY <1>3, <2>2, <3>2, <3>3 DEF logVars, ViewTypeOK, Subscribed
  <2> QED BY <1>3, <2>1, <2>2 DEF ReceiveLost, Keepalive
<1>4. CASE ReceiveLine(s)
  <2>1. /\ at[s] = "streaming" /\ chan[s] # <<>> /\ chan[s] \in Seq(Nat)
        /\ chan' = [chan EXCEPT ![s] = Tail(chan[s])]
        /\ got' = [got EXCEPT ![s] = got[s] \cup {Head(chan[s])}]
        /\ UNCHANGED <<subs, at, client, file, cursor, writer, missed>>
    BY <1>4 DEF ReceiveLine, Receive, ViewTypeOK
  <2>2. ViewTypeOK'
    <3>1. Tail(chan[s]) \in Seq(Nat) /\ Head(chan[s]) \in Nat
      BY <2>1
    <3> QED BY <2>1, <3>1 DEF ViewTypeOK
  <2>3. NoLineSkipped'
    <3> SUFFICES ASSUME NEW v \in Streams, at[v] = "streaming", client[v] = "here",
                        writer # "broken", NEW l \in LinesOf(file)
                 PROVE  \/ l \in got'[v] \cup missed[v]
                        \/ \E i \in DOMAIN chan'[v] : chan'[v][i] = l
                        \/ l > cursor
      BY <2>1 DEF NoLineSkipped
    <3>1. Accounted(v, l)
      BY DEF NoLineSkipped, Accounted
    <3>2. CASE v # s
      BY <2>1, <3>1, <3>2 DEF Accounted, ViewTypeOK
    <3>3. CASE v = s
      BY <2>1, <3>1, <3>3, TailKeeps DEF Accounted, ViewTypeOK
    <3> QED BY <3>2, <3>3
  <2> QED BY <2>1, <2>2, <2>3 DEF Subscribed
<1>5. CASE Replay(s)
  <2>1. /\ at[s] = "replay"
        /\ UNCHANGED <<client, file, cursor, writer>>
        /\ \/ Move(s, "streaming") /\ UNCHANGED <<subs, chan>>
           \/ Lost(s) /\ Close(s)
    BY <1>5 DEF Replay
  <2>2. /\ \A v \in Streams : v # s => got'[v] = got[v] /\ missed'[v] = missed[v]
        /\ got' \in [Streams -> SUBSET Nat] /\ missed' \in [Streams -> SUBSET Nat]
        /\ Lost(s) \/ LinesOf(file) \subseteq got'[s] \cup missed'[s]
    <3>1. CASE Lost(s)
      BY <1>5, <3>1 DEF Replay, ViewTypeOK
    <3>2. CASE ~Lost(s)
      <4>1. PICK k \in 0 .. file \div 2 :
              /\ got' = [got EXCEPT ![s] = 1 .. k]
              /\ missed' = [missed EXCEPT ![s] = @ \cup (LinesOf(file) \ 1 .. k)]
        BY <1>5, <3>2 DEF Replay
      <4>2. 1 .. k \subseteq Nat /\ LinesOf(file) \subseteq Nat
        BY <4>1 DEF LinesOf, ViewTypeOK
      <4> QED BY <4>1, <4>2 DEF ViewTypeOK
    <3> QED BY <3>1, <3>2
  <2>3. /\ \A v \in Streams : v # s => chan'[v] = chan[v] /\ at'[v] = at[v]
                                       /\ (v \in subs' <=> v \in subs)
        /\ chan' \in [Streams -> Seq(Nat)] /\ at' \in [Streams -> Positions]
        /\ subs' \subseteq Streams
        /\ \/ at'[s] = "streaming" /\ s \in subs'
           \/ at'[s] = "closed" /\ Lost(s)
    <3>1. CASE Move(s, "streaming") /\ UNCHANGED <<subs, chan>>
      BY <2>1, <3>1 DEF Move, ViewTypeOK, Positions, Subscribed
    <3>2. CASE Lost(s) /\ Close(s)
      BY <2>1, <3>2 DEF Move, Close, ViewTypeOK, Positions, Subscribed
    <3> QED BY <2>1, <3>1, <3>2
  <2>4. ViewTypeOK' /\ Subscribed'
    BY <2>1, <2>2, <2>3 DEF ViewTypeOK, Subscribed
  <2>5. NoLineSkipped'
    <3>1. ASSUME NEW v \in Streams, v # s, at'[v] = "streaming", client'[v] = "here",
                 writer' # "broken", NEW l \in LinesOf(file)
          PROVE  Accounted(v, l)'
      BY <2>1, <2>2, <2>3, <3>1 DEF NoLineSkipped, Accounted
    <3>2. client'[s] = "here" => \A l \in LinesOf(file) : Accounted(s, l)'
      BY <2>1, <2>2 DEF Accounted, Lost
    <3> QED BY <2>1, <3>1, <3>2 DEF NoLineSkipped, Accounted, LinesOf
  <2> QED BY <2>1, <2>4, <2>5
<1> QED BY <1>1, <1>2, <1>3, <1>4, <1>5 DEF LogStreamStep, ReceiveLost, Keepalive

------------------------------------------------------------------------------

LEMMA LogInvInductive == LogInv /\ [LogNext]_allLogVars => LogInv'
<1> SUFFICES ASSUME LogInv, [LogNext]_allLogVars PROVE LogInv'
  OBVIOUS
<1>1. CASE LogNext
  BY <1>1, WriterKeepsInv, PublishKeepsInv, ViewersKeepInv DEF LogNext
<1>2. CASE UNCHANGED allLogVars
  BY <1>2 DEF allLogVars, streamVars, logVars, LogInv, ViewTypeOK, Subscribed, NoLineSkipped
<1> QED BY <1>1, <1>2

\* No complete line of the log is skipped silently: StreamLog subscribes before it
\* replays, and broadcastWriter writes the file before it publishes (stream.go:112,
\* runner.go:337), for every number of viewers, lines and every channel capacity.
THEOREM LinesAreNotSkipped == LogSpec => []NoLineSkipped
<1>1. LogInv => NoLineSkipped
  BY DEF LogInv
<1> QED BY <1>1, LogInitInv, LogInvInductive, PTL DEF LogSpec

\* Only lines of the job are published.
LinesOnly ==
    \A s \in Streams : \A i \in DOMAIN chan[s] : chan[s][i] \in Lines

LogTypeInv == LogInv /\ LogTypeOK /\ LinesOnly

\* A line that is complete is a line of the job.
LEMMA CompleteLines ==
  ASSUME LogTypeInv
  PROVE  /\ LinesOf(file) \subseteq Lines
         /\ \A k \in 0 .. file \div 2 : 1 .. k \subseteq Lines
         /\ file \in Nat /\ file \in 0 .. 2 * MaxLines /\ cursor \in Nat
         /\ MaxLines \in Nat
<1>1. file \in 0 .. 2 * MaxLines /\ MaxLines \in Nat /\ cursor \in 0 .. MaxLines
  BY LogStreamAssumption DEF LogTypeInv, LogTypeOK
<1>2. file \in Nat /\ file \div 2 \in Nat /\ file \div 2 <= MaxLines
  BY <1>1
<1> QED BY <1>1, <1>2 DEF LinesOf, Lines

LEMMA SequencesAre ==
  /\ \A q \in Seq(Nat), l \in Nat :
         /\ Len(Append(q, l)) = Len(q) + 1
         /\ DOMAIN Append(q, l) = 1 .. Len(q) + 1
         /\ \A i \in 1 .. Len(q) : Append(q, l)[i] = q[i]
         /\ Append(q, l)[Len(q) + 1] = l
  /\ \A q \in Seq(Nat) : q # <<>> =>
         /\ Len(q) >= 1
         /\ Len(Tail(q)) = Len(q) - 1
         /\ DOMAIN Tail(q) = 1 .. Len(q) - 1
         /\ \A i \in 1 .. Len(q) - 1 : Tail(q)[i] = q[i + 1]
         /\ Head(q) = q[1]
OBVIOUS

\* A channel that takes a line, loses its first one or is given up stays within its bounds.
LEMMA ChannelBounds ==
  ASSUME LogTypeInv, NEW s \in Streams
  PROVE  /\ chan[s] \in Seq(Nat) /\ Len(chan[s]) \in Nat /\ Len(chan[s]) <= Capacity
         /\ \A l \in Lines : ~Full(s) =>
                /\ Len(Append(chan[s], l)) <= Capacity
                /\ \A i \in DOMAIN Append(chan[s], l) : Append(chan[s], l)[i] \in Lines
         /\ chan[s] # <<>> =>
                /\ Len(Tail(chan[s])) <= Capacity
                /\ \A i \in DOMAIN Tail(chan[s]) : Tail(chan[s])[i] \in Lines
                /\ Head(chan[s]) \in Lines
         /\ Len(<<>>) <= Capacity /\ DOMAIN <<>> = {}
<1> DEFINE q == chan[s]
<1>1. /\ q \in Seq(Nat) /\ Len(q) \in Nat /\ Len(q) <= Capacity
      /\ \A i \in 1 .. Len(q) : q[i] \in Lines
      /\ DOMAIN q = 1 .. Len(q)
      /\ Capacity \in Nat
      /\ Full(s) <=> Len(q) = Capacity
  BY BroadcasterAssumption
     DEF LogTypeInv, LogInv, ViewTypeOK, LogTypeOK, BroadcasterTypeOK, LinesOnly, Full
<1>2. Lines \subseteq Nat
  BY DEF Lines
<1> HIDE DEF q
<1>3. ASSUME NEW l \in Lines, Len(q) # Capacity
      PROVE  /\ Len(Append(q, l)) <= Capacity
             /\ \A i \in DOMAIN Append(q, l) : Append(q, l)[i] \in Lines
  <2>0. q \in Seq(Nat) /\ l \in Nat /\ Len(q) \in Nat /\ Capacity \in Nat /\ Len(q) <= Capacity
    BY <1>1, <1>2
  <2>1. /\ Len(Append(q, l)) = Len(q) + 1 /\ DOMAIN Append(q, l) = 1 .. Len(q) + 1
        /\ \A i \in 1 .. Len(q) : Append(q, l)[i] = q[i]
        /\ Append(q, l)[Len(q) + 1] = l
    BY <2>0, SequencesAre
  <2>2. Len(q) + 1 <= Capacity
    BY <1>3, <2>0
  <2>3. \A i \in 1 .. Len(q) + 1 : i = Len(q) + 1 \/ i \in 1 .. Len(q)
    BY <2>0
  <2> QED BY <1>1, <2>1, <2>2, <2>3
<1>4. ASSUME q # <<>>
      PROVE  /\ Len(Tail(q)) <= Capacity
             /\ \A i \in DOMAIN Tail(q) : Tail(q)[i] \in Lines
             /\ Head(q) \in Lines
  <2>1. /\ Len(q) >= 1 /\ Len(Tail(q)) = Len(q) - 1 /\ DOMAIN Tail(q) = 1 .. Len(q) - 1
        /\ \A i \in 1 .. Len(q) - 1 : Tail(q)[i] = q[i + 1]
        /\ Head(q) = q[1]
    BY <1>1, <1>4, SequencesAre
  <2>2. Len(q) \in Nat /\ Capacity \in Nat /\ Len(q) <= Capacity
    BY <1>1
  <2>3. Len(q) - 1 <= Capacity /\ 1 \in 1 .. Len(q)
        /\ \A i \in 1 .. Len(q) - 1 : i + 1 \in 1 .. Len(q)
    BY <2>1, <2>2
  <2> QED BY <1>1, <2>1, <2>3
<1> QED BY <1>1, <1>3, <1>4 DEF q

LEMMA LogWriterTypes ==
  ASSUME LogTypeInv, WriteFile \/ WriteFileFails \/ CloseLog \/ PublishLine
  PROVE  LogTypeOK' /\ LinesOnly'
<1>1. CASE WriteFile \/ WriteFileFails \/ CloseLog
  <2>1. /\ UNCHANGED <<subs, chan, at, client, cursor, got, missed>>
        /\ writer' \in {"idle", "publish", "closed", "broken"}
        /\ file' \in 0 .. 2 * MaxLines
    BY <1>1, CompleteLines DEF WriteFile, WriteFileFails, CloseLog, streamVars
  <2> QED BY <2>1 DEF LogTypeInv, LogTypeOK, BroadcasterTypeOK, LinesOnly
<1>2. CASE PublishLine /\ cursor + 1 \in LinesOf(file)
  <2>1. /\ Publish(cursor + 1) /\ cursor' = cursor + 1
        /\ UNCHANGED <<subs, at, client, file, got, writer>>
        /\ missed' = [s \in Streams |->
                          IF s \in Dropping THEN missed[s] \cup {cursor + 1} ELSE missed[s]]
    BY <1>2 DEF PublishLine
  <2>2. cursor + 1 \in Lines
    BY <1>2, CompleteLines
  <2>3. cursor' \in 0 .. MaxLines
    BY <2>1, <2>2 DEF Lines
  <2>4. missed' \in [Streams -> SUBSET Lines]
    <3>1. \A s \in Streams : missed[s] \subseteq Lines
      BY DEF LogTypeInv, LogTypeOK
    <3> QED BY <2>1, <2>2, <3>1
  <2>5. ASSUME NEW s \in Streams
        PROVE  /\ Len(chan'[s]) <= Capacity
               /\ \A i \in DOMAIN chan'[s] : chan'[s][i] \in Lines
    <3>1. chan'[s] = IF s \in subs /\ ~Full(s) THEN Append(chan[s], cursor + 1) ELSE chan[s]
      BY <2>1 DEF Publish
    <3>2. CASE ~Full(s) /\ chan'[s] = Append(chan[s], cursor + 1)
      BY <2>2, <3>2, ChannelBounds
    <3>3. CASE chan'[s] = chan[s]
      BY <3>3, ChannelBounds DEF LogTypeInv, LinesOnly
    <3> QED BY <3>1, <3>2, <3>3
  <2>6. DOMAIN chan' = Streams
    BY <2>1 DEF Publish
  <2>7. LogTypeOK'
    BY <2>1, <2>3, <2>4, <2>5, <2>6 DEF LogTypeInv, LogTypeOK, BroadcasterTypeOK
  <2> QED BY <2>5, <2>7 DEF LinesOnly
<1>3. CASE PublishLine /\ cursor + 1 \notin LinesOf(file)
  <2>1. UNCHANGED <<subs, chan, at, client, file, got, cursor, missed>> /\ writer' = "idle"
    BY <1>3 DEF PublishLine
  <2> QED BY <2>1 DEF LogTypeInv, LogTypeOK, BroadcasterTypeOK, LinesOnly
<1> QED BY <1>1, <1>2, <1>3

LEMMA LogViewerTypes ==
  ASSUME LogTypeInv, NEW s \in Streams, OpenLog(s) \/ LogStreamStep(s) \/ LogClientLeaves(s)
  PROVE  LogTypeOK' /\ LinesOnly'
<1>0. /\ subs \subseteq Streams /\ chan \in [Streams -> Seq(Nat)] /\ DOMAIN chan = Streams
      /\ at \in [Streams -> Positions] /\ client \in [Streams -> {"none", "here", "gone"}]
      /\ got \in [Streams -> SUBSET Lines] /\ missed \in [Streams -> SUBSET Lines]
      /\ file \in 0 .. 2 * MaxLines /\ cursor \in 0 .. MaxLines
      /\ writer \in {"idle", "publish", "closed", "broken"}
  BY DEF LogTypeInv, LogInv, ViewTypeOK, LogTypeOK, BroadcasterTypeOK
<1>1. UNCHANGED <<file, cursor, writer>>
  BY DEF OpenLog, LogStreamStep, LogClientLeaves, Replay, ReceiveLine, logVars
<1>2. subs' \subseteq Streams /\ at' \in [Streams -> Positions]
  BY <1>0 DEF OpenLog, LogStreamStep, LogClientLeaves, Replay, ReceiveLine, ReceiveLost,
     Keepalive, Subscribe, Close, Move, Positions
<1>3. client' \in [Streams -> {"none", "here", "gone"}]
  BY <1>0 DEF OpenLog, LogStreamStep, LogClientLeaves, Replay, ReceiveLine, ReceiveLost,
     Keepalive, GoAway
<1>4. \/ chan' = chan
      \/ chan' = [chan EXCEPT ![s] = <<>>]
      \/ chan' = [chan EXCEPT ![s] = Tail(chan[s])] /\ chan[s] # <<>>
  BY DEF OpenLog, LogStreamStep, LogClientLeaves, Replay, ReceiveLine, ReceiveLost,
     Keepalive, Close, Receive
<1>5. ASSUME NEW t \in Streams
      PROVE  /\ Len(chan'[t]) <= Capacity
             /\ \A i \in DOMAIN chan'[t] : chan'[t][i] \in Lines
  <2>1. \/ chan'[t] = chan[t]
        \/ chan'[t] = <<>>
        \/ chan'[t] = Tail(chan[t]) /\ chan[t] # <<>>
    BY <1>0, <1>4
  <2>2. CASE chan'[t] = chan[t]
    BY <2>2, ChannelBounds DEF LogTypeInv, LinesOnly
  <2>3. CASE chan'[t] = <<>>
    BY <2>3, ChannelBounds
  <2>4. CASE chan'[t] = Tail(chan[t]) /\ chan[t] # <<>>
    BY <2>4, ChannelBounds
  <2> QED BY <2>1, <2>2, <2>3, <2>4
<1>6. got' \in [Streams -> SUBSET Lines] /\ missed' \in [Streams -> SUBSET Lines]
  <2>1. CASE UNCHANGED <<got, missed>>
    BY <1>0, <2>1
  <2>2. CASE \E k \in 0 .. file \div 2 :
                 /\ got' = [got EXCEPT ![s] = 1 .. k]
                 /\ missed' = [missed EXCEPT ![s] = @ \cup (LinesOf(file) \ 1 .. k)]
    BY <1>0, <2>2, CompleteLines
  <2>3. CASE ReceiveLine(s)
    <3>1. Head(chan[s]) \in Lines
      BY <2>3, ChannelBounds DEF ReceiveLine, Receive
    <3> QED BY <1>0, <2>3, <3>1 DEF ReceiveLine
  <2> QED BY <2>1, <2>2, <2>3 DEF OpenLog, LogStreamStep, LogClientLeaves, Replay, logVars
<1>7. DOMAIN chan' = Streams
  BY <1>0, <1>4
<1> QED BY <1>0, <1>1, <1>2, <1>3, <1>5, <1>6, <1>7 DEF LogTypeOK, BroadcasterTypeOK, LinesOnly

\* Only complete lines of the job are read, published and shown, a channel never holds more
\* than its capacity, and the types of the stream and the writer are kept.
THEOREM LogTypeCorrect == LogSpec => []LogTypeOK
<1>1. LogInit => LogTypeInv
  <2> SUFFICES ASSUME LogInit PROVE LogTypeInv
    OBVIOUS
  <2>1. \A s \in Streams : chan[s] = <<>> /\ Len(<<>>) = 0 /\ DOMAIN <<>> = {}
    BY DEF LogInit, BroadcasterInit
  <2>2. 0 \in 0 .. 2 * MaxLines /\ 0 \in 0 .. MaxLines /\ Capacity >= 0
    BY LogStreamAssumption, BroadcasterAssumption
  <2>3. LogTypeOK
    BY <2>1, <2>2 DEF LogInit, BroadcasterInit, LogTypeOK, BroadcasterTypeOK, Positions
  <2> QED BY <2>1, <2>3, LogInitInv DEF LogTypeInv, LinesOnly
<1>2. LogTypeInv /\ [LogNext]_allLogVars => LogTypeInv'
  <2> SUFFICES ASSUME LogTypeInv, [LogNext]_allLogVars PROVE LogTypeOK' /\ LinesOnly'
    BY LogInvInductive DEF LogTypeInv
  <2>1. CASE LogNext
    BY <2>1, LogWriterTypes, LogViewerTypes DEF LogNext
  <2>2. CASE UNCHANGED allLogVars
    BY <2>2 DEF allLogVars, streamVars, logVars, LogTypeInv, LogTypeOK, BroadcasterTypeOK,
       LinesOnly
  <2> QED BY <2>1, <2>2
<1>3. LogTypeInv => LogTypeOK
  BY DEF LogTypeInv
<1> QED BY <1>1, <1>2, <1>3, PTL DEF LogSpec

------------------------------------------------------------------------------

(***************************************************************************)
(* Shells, for any number of sessions, of requests and of callbacks that   *)
(* wait. The invariant follows each socket the page can still close: it is *)
(* the page's present one, on the tab that shows it, or it was taken from  *)
(* the page in one of the known ways.                                      *)
(***************************************************************************)

\* A shell was started by a handler, and a handler by a socket.
StartedInOrder ==
    \A s \in Sessions :
        /\ handler[s] # "none" => socket[s] # "none"
        /\ shell[s] # "none" => handler[s] # "none"

\* The page can end a socket that is not closed, or it lost it in one of the known ways.
UsableExplained ==
    \A s \in Sessions :
        Usable(s) => s \in forgotten \/ (s = ws /\ (tab = "terminal" \/ hidden))

\* A callback that no other one can overtake finds the old socket closed.
CallbacksInTurn ==
    /\ due > 1 => raced
    /\ due > 0 /\ ~raced /\ ws # NoSession => ~Usable(ws)
    /\ ~selected => due = 0 /\ ws = NoSession

TermInv ==
    /\ TermTypeOK
    /\ StartedInOrder
    /\ UsableExplained
    /\ CallbacksInTurn

\* What is possible of a socket, whatever the step.
LEMMA TermTypes ==
  ASSUME TermInv
  PROVE  /\ handler \in [Sessions -> {"none", "exec", "serve", "closing", "ended"}]
         /\ output \in [Sessions -> {"off", "on"}]
         /\ shell \in [Sessions -> {"none", "running", "eof", "exited"}]
         /\ socket \in [Sessions -> Sockets]
         /\ tab \in {"terminal", "other", "left"} /\ loads \in Nat /\ due \in Nat
         /\ listed \in BOOLEAN /\ selected \in BOOLEAN /\ raced \in BOOLEAN
         /\ hidden \in BOOLEAN
         /\ ws \in Sessions \cup {NoSession} /\ forgotten \subseteq Sessions
         /\ NoSession \notin Sessions /\ MaxLoads \in Nat /\ MaxDue \in Nat
BY TerminalAssumption DEF TermInv, TermTypeOK

\* Closing a socket leaves none that is usable, and none that was not made.
LEMMA ClosedIs ==
  ASSUME TermInv, NEW s \in Sessions
  PROVE  /\ Closed(s) \in Sockets /\ Closed(s) \notin {"connecting", "open"}
         /\ Closed(s) = "none" <=> socket[s] = "none"
BY TermTypes DEF Closed, Usable, Sockets

LEMMA TermInitInv == TermInit => TermInv
<1> SUFFICES ASSUME TermInit PROVE TermInv
  OBVIOUS
<1>1. TermTypeOK
  <2>1. 0 \in 0 .. MaxLoads /\ 0 \in 0 .. MaxDue
    BY TerminalAssumption
  <2> QED BY <2>1 DEF TermInit, TermTypeOK, Sockets
<1>2. StartedInOrder /\ UsableExplained
  BY DEF TermInit, StartedInOrder, UsableExplained, Usable
<1>3. CallbacksInTurn
  BY DEF TermInit, CallbacksInTurn
<1> QED BY <1>1, <1>2, <1>3 DEF TermInv

\* The handler, its goroutines and the shell: they close sockets and open none.
LEMMA SessionKeepsTerm ==
  ASSUME TermInv, NEW s \in Sessions, SessionStep(s) \/ SessionMayStep(s)
  PROVE  TermInv'
<1>1. UNCHANGED <<tab, listed, loads, termLoading, selected, due, ws, connected, forgotten,
                  raced, hidden>>
  BY DEF SessionStep, SessionMayStep, Exec, OutputEnds, InputEnds, CloseWrite, WaitReturns,
         ShellSeesEOF, Upgrade, OutputFails, InputFails, ShellExits, pageUnchanged, tabVars
<1>2. /\ handler' \in [Sessions -> {"none", "exec", "serve", "closing", "ended"}]
      /\ output' \in [Sessions -> {"off", "on"}]
      /\ shell' \in [Sessions -> {"none", "running", "eof", "exited"}]
      /\ socket' = socket \/ socket' = [socket EXCEPT ![s] = Closed(s)]
  BY TermTypes DEF SessionStep, SessionMayStep, Exec, ExecAttach, Return, OutputEnds, InputEnds,
         CloseWrite, WaitReturns, ShellSeesEOF, Upgrade, OutputFails, InputFails, ShellExits
<1>3. /\ socket' \in [Sessions -> Sockets]
      /\ \A t \in Sessions : /\ Usable(t)' => Usable(t)
                             /\ socket'[t] = "none" <=> socket[t] = "none"
  BY <1>2, ClosedIs, TermTypes DEF Usable
<1>4. TermTypeOK'
  BY <1>1, <1>2, <1>3 DEF TermInv, TermTypeOK
<1>5. StartedInOrder'
  <2>1. \A t \in Sessions :
            /\ handler'[t] # "none" => socket[t] # "none"
            /\ shell'[t] # "none" => handler'[t] # "none"
    BY TermTypes DEF TermInv, StartedInOrder, SessionStep, SessionMayStep, Exec, ExecAttach,
       Return, OutputEnds, InputEnds, CloseWrite, WaitReturns, ShellSeesEOF, Upgrade,
       OutputFails, InputFails, ShellExits
  <2>2. \A t \in Sessions : socket'[t] = "none" <=> socket[t] = "none"
    BY <1>3
  <2> QED BY <2>1, <2>2 DEF StartedInOrder
<1>6. UsableExplained'
  BY <1>1, <1>3 DEF TermInv, UsableExplained, Usable
<1>7. CallbacksInTurn'
  <2>1. ws # NoSession => (Usable(ws)' => Usable(ws))
    BY <1>1, <1>3, TermTypes DEF Usable
  <2> QED BY <1>1, <2>1 DEF TermInv, CallbacksInTurn, Usable
<1> QED BY <1>4, <1>5, <1>6, <1>7 DEF TermInv

\* The new socket of a connectTerminal that finds containers.
LEMMA NewSocket ==
  ASSUME TermInv, listed, connectTerminal
  PROVE  /\ ws' \in Sessions /\ socket[ws'] = "none"
         /\ socket' = [socket EXCEPT ![ws'] = "connecting"]
         /\ socket' \in [Sessions -> Sockets]
         /\ hidden' = (tab # "terminal")
<1>1. /\ Unused # {} /\ ws' = CHOOSE s \in Unused : TRUE
      /\ socket' = [socket EXCEPT ![ws'] = "connecting"]
      /\ hidden' = (tab # "terminal")
  BY DEF connectTerminal
<1>2. ws' \in Unused
  BY <1>1
<1> QED BY <1>1, <1>2, TermTypes DEF Unused, Sockets

\* A new socket takes the place of the old one, which is closed or remembered.
LEMMA ConnectKeepsTerm ==
  ASSUME TermInv, ConnectDue \/ ReconnectButton
  PROVE  TermInv'
<1>1. UNCHANGED <<handler, output, shell, tab, listed, loads, termLoading, selected, connected>>
  BY DEF ConnectDue, ReconnectButton, tabVars
<1>2. /\ connectTerminal
      /\ due' \in 0 .. MaxDue /\ due' <= due /\ (due' > 0 => due > 0)
      /\ forgotten \subseteq forgotten' /\ forgotten' \subseteq forgotten \cup Replaced
  BY TermTypes DEF ConnectDue, ReconnectButton, tabVars, TermInv, TermTypeOK
<1>3. raced' \in BOOLEAN /\ (due' > 1 => raced') /\ (due' > 0 => raced')
  <2>1. CASE ConnectDue
    <3>1. due > 1 => raced
      BY DEF TermInv, CallbacksInTurn
    <3>2. (due' > 1 => due > 1) /\ (due' > 0 => due > 1)
      BY <2>1, TermTypes DEF ConnectDue
    <3>3. raced' = (raced /\ due > 1)
      BY <2>1 DEF ConnectDue
    <3> QED BY <3>1, <3>2, <3>3, Zenon
  <2>2. CASE ReconnectButton
    <3>1. due' = due /\ raced' = (raced \/ due > 0) /\ due \in Nat
      BY <2>2, TermTypes DEF ReconnectButton, tabVars
    <3>2. due' > 1 => due > 0
      BY <3>1
    <3> QED BY <3>1, <3>2, Zenon
  <2> QED BY <2>1, <2>2
<1>4. (ws # NoSession /\ Usable(ws) /\ listed) => ws \in forgotten'
  <2>1. CASE ConnectDue
    <3>1. CASE raced
      BY <2>1, <3>1 DEF ConnectDue, Replaced
    <3>2. CASE ~raced
      BY <2>1, <3>2 DEF ConnectDue, TermInv, CallbacksInTurn
    <3> QED BY <3>1, <3>2
  <2>2. CASE ReconnectButton
    BY <2>2 DEF ReconnectButton, Replaced
  <2> QED BY <2>1, <2>2
<1>5. (due' = 0 \/ selected) /\ (ReconnectButton => selected)
  <2>1. CASE ConnectDue
    BY <2>1, TermTypes DEF ConnectDue, TermInv, CallbacksInTurn
  <2>2. CASE ReconnectButton
    BY <2>2 DEF ReconnectButton
  <2> QED BY <2>1, <2>2
<1>6. selected
  BY <1>5, TermTypes DEF ConnectDue, TermInv, CallbacksInTurn
<1>7. Replaced \subseteq Sessions
  BY TermTypes DEF Replaced
<1>8. CASE ~listed
  <2>1. UNCHANGED <<socket, ws, hidden>>
    BY <1>2, <1>8 DEF connectTerminal
  <2>2. TermTypeOK'
    BY <1>1, <1>2, <1>3, <1>7, <2>1 DEF TermInv, TermTypeOK
  <2>3. StartedInOrder' /\ UsableExplained'
    BY <1>1, <1>2, <2>1 DEF TermInv, StartedInOrder, UsableExplained, Usable
  <2>4. CallbacksInTurn'
    BY <1>1, <1>3, <1>6, <2>1 DEF CallbacksInTurn
  <2> QED BY <2>2, <2>3, <2>4 DEF TermInv
<1>9. CASE listed
  <2>1. /\ ws' \in Sessions /\ socket[ws'] = "none"
        /\ socket' = [socket EXCEPT ![ws'] = "connecting"]
        /\ socket' \in [Sessions -> Sockets]
        /\ hidden' = (tab # "terminal")
    BY <1>2, <1>9, NewSocket
  <2>2. TermTypeOK'
    BY <1>1, <1>2, <1>3, <1>7, <2>1 DEF TermInv, TermTypeOK
  <2>3. StartedInOrder'
    BY <1>1, <2>1, TermTypes DEF TermInv, StartedInOrder
  <2>4. UsableExplained'
    <3>1. ASSUME NEW s \in Sessions, Usable(s)'
          PROVE  s \in forgotten' \/ (s = ws' /\ (tab' = "terminal" \/ hidden'))
      <4>1. CASE s = ws'
        BY <1>1, <2>1, <4>1
      <4>2. CASE s # ws'
        <5>1. Usable(s)
          BY <2>1, <3>1, <4>2, TermTypes DEF Usable
        <5>2. s \in forgotten \/ s = ws
          BY <5>1 DEF TermInv, UsableExplained
        <5> QED BY <1>2, <1>4, <1>9, <5>1, <5>2, TermTypes
      <4> QED BY <4>1, <4>2
    <3> QED BY <3>1 DEF UsableExplained
  <2>5. CallbacksInTurn'
    BY <1>1, <1>3, <1>6 DEF CallbacksInTurn
  <2> QED BY <2>2, <2>3, <2>4, <2>5 DEF TermInv
<1> QED BY <1>8, <1>9

\* disconnectTerminal: the page's socket is closed.
LEMMA DisconnectCloses ==
  ASSUME TermInv, disconnectTerminal
  PROVE  /\ socket' \in [Sessions -> Sockets] /\ ws' = NoSession /\ hidden' = FALSE
         /\ \A t \in Sessions : /\ Usable(t)' => Usable(t) /\ t # ws
                                /\ socket'[t] = "none" <=> socket[t] = "none"
         /\ connected' = FALSE
<1>1. /\ socket' = [s \in Sessions |-> IF s = ws THEN Closed(s) ELSE socket[s]]
      /\ ws' = NoSession /\ connected' = FALSE /\ hidden' = FALSE
  BY DEF disconnectTerminal
<1>2. \A s \in Sessions : socket[s] \in Sockets
  BY TermTypes
<1> QED BY <1>1, <1>2, ClosedIs DEF Usable

LEMMA DisconnectKeepsTerm ==
  ASSUME TermInv, LeaveTerminal \/ SelectContainer \/ DisconnectButton
  PROVE  TermInv'
<1>1. /\ disconnectTerminal
      /\ UNCHANGED <<handler, output, shell, listed, loads, termLoading, forgotten>>
      /\ tab' \in {"terminal", "other", "left"}
      /\ due' \in 0 .. MaxDue /\ selected' \in BOOLEAN /\ raced' \in BOOLEAN
      /\ (selected' = FALSE => selected = FALSE /\ due' = due)
  <2>1. CASE LeaveTerminal \/ DisconnectButton
    BY <2>1 DEF LeaveTerminal, DisconnectButton, tabVars, TermInv, TermTypeOK
  <2>2. CASE SelectContainer
    <3>1. due < MaxDue /\ due' = due + 1 /\ raced' = (raced \/ due > 0)
      BY <2>2 DEF SelectContainer, ConnectLater
    <3>2. raced' \in BOOLEAN
      BY <3>1, Zenon
    <3> QED BY <2>2, <3>1, <3>2, TermTypes DEF SelectContainer
  <2> QED BY <2>1, <2>2
<1>2. due' > 1 => raced'
  <2>1. CASE LeaveTerminal \/ DisconnectButton
    BY <2>1 DEF LeaveTerminal, DisconnectButton, tabVars, TermInv, CallbacksInTurn
  <2>2. CASE SelectContainer
    <3>1. due' > 1 => due > 0
      BY <2>2, TermTypes DEF SelectContainer, ConnectLater
    <3>2. raced' = (raced \/ due > 0)
      BY <2>2 DEF SelectContainer, ConnectLater
    <3> QED BY <3>1, <3>2, Zenon
  <2> QED BY <2>1, <2>2
<1>3. /\ socket' \in [Sessions -> Sockets] /\ ws' = NoSession /\ hidden' = FALSE
      /\ \A t \in Sessions : /\ Usable(t)' => Usable(t) /\ t # ws
                             /\ socket'[t] = "none" <=> socket[t] = "none"
      /\ connected' = FALSE
  BY <1>1, DisconnectCloses
<1>4. TermTypeOK'
  BY <1>1, <1>3 DEF TermInv, TermTypeOK
<1>5. StartedInOrder' /\ UsableExplained'
  BY <1>1, <1>3 DEF TermInv, StartedInOrder, UsableExplained, Usable
<1>6. CallbacksInTurn'
  BY <1>1, <1>2, <1>3 DEF TermInv, CallbacksInTurn
<1> QED BY <1>4, <1>5, <1>6 DEF TermInv

\* The list of containers is asked for or arrives, or the terminal is shown or hidden.
LEMMA ListKeepsTerm ==
  ASSUME TermInv, ContainersAnswer \/ Refresh \/ ShowTerminal \/ DeployAnswer
  PROVE  TermInv'
<1>1. UNCHANGED <<sessionVars, ws, connected, forgotten>>
  BY DEF ContainersAnswer, Refresh, ShowTerminal, DeployAnswer
<1>2. /\ tab' \in {"terminal", "other", "left"} /\ listed' \in BOOLEAN
      /\ loads' \in 0 .. MaxLoads /\ termLoading' \in BOOLEAN /\ selected' \in BOOLEAN
      /\ due' \in 0 .. MaxDue /\ hidden' \in BOOLEAN
  <2> USE DEF TermInv, TermTypeOK
  <2>1. CASE ContainersAnswer
    <3>1. loads' = loads - 1 /\ loads > 0 /\ loads \in 0 .. MaxLoads
      BY <2>1 DEF ContainersAnswer
    <3>2. loads' \in 0 .. MaxLoads
      BY <3>1, TermTypes
    <3>3. due' \in 0 .. MaxDue /\ selected' \in BOOLEAN
      <4>1. CASE selected' = TRUE /\ ConnectLater
        <5>1. due < MaxDue /\ due' = due + 1
          BY <4>1 DEF ConnectLater
        <5> QED BY <4>1, <5>1, TermTypes
      <4>2. CASE UNCHANGED <<selected, due, raced>>
        BY <4>2
      <4> QED BY <2>1, <4>1, <4>2 DEF ContainersAnswer
    <3> QED BY <2>1, <3>2, <3>3 DEF ContainersAnswer, ListContainers
  <2>2. CASE Refresh \/ ShowTerminal
    <3>1. UNCHANGED <<loads, termLoading>> \/ LoadContainers
      BY <2>2 DEF Refresh, ShowTerminal
    <3>2. loads' \in 0 .. MaxLoads /\ termLoading' \in BOOLEAN
      <4>1. CASE LoadContainers
        BY <4>1, TermTypes DEF LoadContainers
      <4> QED BY <3>1, <4>1
    <3> QED BY <2>2, <3>2 DEF Refresh, ShowTerminal
  <2>3. CASE DeployAnswer
    BY <2>3 DEF DeployAnswer
  <2> QED BY <2>1, <2>2, <2>3
<1>3. \/ UNCHANGED <<due, raced, selected>>
      \/ ~selected /\ selected' /\ due' = due + 1 /\ raced' = (raced \/ due > 0)
  BY DEF ContainersAnswer, ConnectLater, Refresh, ShowTerminal, DeployAnswer
<1>4. raced' \in BOOLEAN /\ (due' > 1 => raced')
  <2>1. CASE UNCHANGED <<due, raced, selected>>
    BY <2>1, TermTypes DEF TermInv, CallbacksInTurn
  <2>2. CASE due' = due + 1 /\ raced' = (raced \/ due > 0)
    <3>1. due' > 1 => due > 0
      BY <2>2, TermTypes
    <3> QED BY <2>2, <3>1, Zenon
  <2> QED BY <1>3, <2>1, <2>2
<1>5. tab' = "terminal" \/ hidden' = TRUE \/ (tab' = tab /\ hidden' = hidden)
  BY DEF ContainersAnswer, Refresh, ShowTerminal, DeployAnswer
<1>6. TermTypeOK' /\ StartedInOrder'
  BY <1>1, <1>2, <1>4 DEF TermInv, TermTypeOK, StartedInOrder, sessionVars
<1>7. UsableExplained'
  BY <1>1, <1>5 DEF TermInv, UsableExplained, Usable, sessionVars
<1>8. CallbacksInTurn'
  <2>1. CASE UNCHANGED <<due, raced, selected>>
    BY <1>1, <2>1 DEF TermInv, CallbacksInTurn, Usable, sessionVars
  <2>2. CASE ~selected /\ selected' /\ due' = due + 1
    <3>1. ws' = NoSession
      BY <1>1, <2>2 DEF TermInv, CallbacksInTurn
    <3> QED BY <1>4, <2>2, <3>1 DEF CallbacksInTurn
  <2> QED BY <1>3, <2>1, <2>2
<1> QED BY <1>6, <1>7, <1>8 DEF TermInv

\* A socket opens, closes by itself or is reported closed.
LEMMA SocketKeepsTerm ==
  ASSUME TermInv, NEW s \in Sessions, OnOpen(s) \/ OnClose(s) \/ ConnectionBreaks(s)
  PROVE  TermInv'
<1>1. UNCHANGED <<handler, output, shell, tab, listed, loads, termLoading, selected, due, ws,
                  forgotten, raced, hidden>>
  BY DEF OnOpen, OnClose, ConnectionBreaks, pageUnchanged, tabVars
<1>2. connected' \in BOOLEAN
  BY DEF OnOpen, OnClose, ConnectionBreaks, pageUnchanged, TermInv, TermTypeOK
<1>3. /\ socket' \in [Sessions -> Sockets]
      /\ \A t \in Sessions : /\ Usable(t)' => Usable(t)
                             /\ socket'[t] = "none" => socket[t] = "none"
  BY TermTypes DEF OnOpen, OnClose, ConnectionBreaks, Usable, Sockets
<1>4. TermTypeOK' /\ StartedInOrder' /\ UsableExplained'
  BY <1>1, <1>2, <1>3 DEF TermInv, TermTypeOK, StartedInOrder, UsableExplained, Usable
<1>5. CallbacksInTurn'
  <2>1. ws # NoSession => (Usable(ws)' => Usable(ws))
    BY <1>1, <1>3, TermTypes DEF Usable
  <2> QED BY <1>1, <2>1 DEF TermInv, CallbacksInTurn, Usable
<1> QED BY <1>4, <1>5 DEF TermInv

LEMMA LeavePageKeepsTerm ==
  ASSUME TermInv, LeavePage
  PROVE  TermInv'
<1>1. /\ socket' \in [Sessions -> Sockets]
      /\ \A t \in Sessions : ~Usable(t)' /\ (socket'[t] = "none" <=> socket[t] = "none")
  BY ClosedIs DEF LeavePage, Usable
<1>2. TermTypeOK'
  <2>1. 0 \in 0 .. MaxLoads /\ 0 \in 0 .. MaxDue
    BY TermTypes
  <2> QED BY <1>1, <2>1 DEF LeavePage, TermInv, TermTypeOK
<1>3. StartedInOrder' /\ UsableExplained'
  BY <1>1 DEF LeavePage, TermInv, StartedInOrder, UsableExplained
<1>4. CallbacksInTurn'
  BY DEF LeavePage, CallbacksInTurn
<1> QED BY <1>2, <1>3, <1>4 DEF TermInv

LEMMA TermInductive == TermInv /\ [TermNext]_terminalVars => TermInv'
<1> SUFFICES ASSUME TermInv, [TermNext]_terminalVars PROVE TermInv'
  OBVIOUS
<1>1. CASE TerminalPageStep
  BY <1>1, ConnectKeepsTerm, DisconnectKeepsTerm, ListKeepsTerm, SocketKeepsTerm,
     LeavePageKeepsTerm DEF TerminalPageStep
<1>2. CASE \E s \in Sessions : SessionStep(s) \/ SessionMayStep(s)
  BY <1>2, SessionKeepsTerm
<1>3. CASE UNCHANGED terminalVars
  BY <1>3 DEF terminalVars, sessionVars, tabVars, TermInv, TermTypeOK, StartedInOrder,
     UsableExplained, CallbacksInTurn, Usable
<1> QED BY <1>1, <1>2, <1>3 DEF TermNext

LEMMA TermInvariant == TermSpec => []TermInv
BY TermInitInv, TermInductive, PTL DEF TermSpec

\* The handlers, shells, sockets and the page of the terminal have their types always.
THEOREM TermTypeCorrect == TermSpec => []TermTypeOK
<1>1. TermInv => TermTypeOK
  BY DEF TermInv
<1> QED BY <1>1, TermInvariant, PTL

\* A shell that runs has a page that can end it, or the page lost it in one of the ways
\* named, for any number of sessions and of callbacks that wait.
THEOREM ShellsAreExplained == TermSpec => []ShellsExplained
<1>1. TermInv => ShellsExplained
  <2> SUFFICES ASSUME TermInv, NEW s \in Sessions, shell[s] = "running", ~Hung(s)
               PROVE  s \in forgotten \/ (s = ws /\ (tab = "terminal" \/ hidden))
    BY DEF ShellsExplained
  <2>1. socket[s] # "none" /\ socket[s] \in Sockets
    BY TermTypes DEF TermInv, StartedInOrder
  <2>2. Usable(s)
    BY <2>1 DEF Hung, Usable, Sockets
  <2> QED BY <2>2 DEF TermInv, UsableExplained
<1> QED BY <1>1, TermInvariant, PTL

------------------------------------------------------------------------------

\* A behaviour of one part is a behaviour of every part: the others stand still.
LEMMA PartsAreParts == PartSpec => Spec /\ LogSpec /\ TermSpec
<1>1. PartInit => Init /\ LogInit /\ TermInit
  BY DEF PartInit
<1>2. [PartNext]_allVars => [Next]_vars /\ [LogNext]_allLogVars /\ [TermNext]_terminalVars
  BY DEF PartNext, allVars
<1> QED BY <1>1, <1>2, PTL DEF PartSpec, Spec, LogSpec, TermSpec

\* The deploys, the log and the shells have their types, whichever of them a behaviour is
\* about.
THEOREM PartsTypeCorrect == PartSpec => []PartsTypeOK
<1>1. TypeOK /\ LogTypeOK /\ TermTypeOK => PartsTypeOK
  BY DEF PartsTypeOK
<1> QED BY <1>1, PartsAreParts, TypeCorrect, LogTypeCorrect, TermTypeCorrect, PTL
=============================================================================
