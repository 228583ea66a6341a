---------------------------- MODULE PagesProofs ----------------------------
(***************************************************************************)
(* The pages of the browser interface: the dashboard, a project's page and *)
(* the list of deployments. Each page has its inductive invariant first,   *)
(* then what its steps keep of it, then the theorems. Last, what is proved *)
(* of the parts is carried over to MCPages, whose behaviours are those of  *)
(* one part at a time.                                                     *)
(***************************************************************************)
EXTENDS MCPages, ServerProofs

(***************************************************************************)
(* Dashboard, for every number of jobs, streams, writes and channel slots. *)
(* The invariant follows the versions of a row through the places where it *)
(* is read, queued and shown: nothing is newer than the row, what has the  *)
(* row's version has its status, whoever is not behind has the last        *)
(* announcement or will receive it, and nothing older comes after it.      *)
(***************************************************************************)

Event == [job : Jobs, status : Statuses, ver : 1 .. MaxWrites]

\* Only a subscribed stream has messages, and they are events.
ChannelInv ==
    /\ chan \in [Streams -> Seq(Event)]
    /\ \A s \in Streams :
           /\ s \in subs <=> at[s] \in {"replay", "streaming"}
           /\ s \notin subs => chan[s] = <<>>

\* A page that reads a stream is there and connected, one that polls has no stream.
PageInv ==
    /\ cur # NoStream => page \in {"connecting", "open"} /\ client[cur] = "here"
    /\ page \in {"connecting", "open", "waiting"} => fails < MaxFails

\* Status st of version v is what row j was, or is.
Past(st, v, j) == v <= ver[j] /\ (v = ver[j] => st = row[j])

\* What a snapshot says was once the row.
SnapshotIsPast(r, j) == Past(snap[r].status[j], snap[r].ver[j], j)

RowInv(j) ==
    /\ row[j] = "absent" <=> ver[j] = 0
    /\ announced[j] <= ver[j]
    /\ shown[j] <= ver[j]
    /\ shown[j] = ver[j] => view[j] = Listed(row[j])

\* Everything that is read, sent or shown of a row was once the row; an event that
\* is about to be published is the row, if all writes to it hold Manager.mu.
VersionInv ==
    /\ \A j \in Jobs : RowInv(j)
    /\ \A r \in Streams \cup {"poll"}, j \in Jobs : SnapshotIsPast(r, j)
    /\ \A s \in Streams : \A i \in DOMAIN chan[s] :
           Past(chan[s][i].status, chan[s][i].ver, chan[s][i].job)
    /\ pending # NoEvent => Past(pending.status, pending.ver, pending.job)
    /\ pending # NoEvent /\ pending.job \notin unlocked => pending.ver = ver[pending.job]

\* A channel q has nothing about j; its last event about j has version a.
Silent(q, j) == \A i \in DOMAIN q : q[i].job # j

LastIs(q, j, a) ==
    \E i \in DOMAIN q :
        /\ q[i].job = j
        /\ q[i].ver = a
        /\ \A k \in DOMAIN q : k > i => q[k].job # j

\* Who has version v of j and reads q has or gets what was announced as version a.
Informed(q, v, a, j) == (Silent(q, j) /\ v >= a) \/ LastIs(q, j, a)

\* A stream that is not behind with a job has its last announcement, or gets it.
NewsInv ==
    \A s \in Streams, j \in Jobs :
        j \notin behind[s] =>
            /\ at[s] = "snapshot" => snap[s].ver[j] >= announced[j]
            /\ at[s] = "replay" => Informed(chan[s], snap[s].ver[j], announced[j], j)
            /\ at[s] = "streaming" /\ cur = s => Informed(chan[s], shown[j], announced[j], j)

\* What channel q says of j is not older than v, and in the order of the versions.
NotOlder(q, v, j) == \A i \in DOMAIN q : q[i].job = j => q[i].ver >= v

InOrder(q, j) ==
    \A i, k \in DOMAIN q : i < k /\ q[i].job = j /\ q[k].job = j => q[i].ver <= q[k].ver

OrderInv ==
    \A s \in Streams, j \in Jobs :
        /\ cur = s /\ at[s] \in {"snapshot", "replay"} => snap[s].ver[j] >= shown[j]
        /\ j \notin unlocked =>
               /\ InOrder(chan[s], j)
               /\ at[s] = "replay" => NotOlder(chan[s], snap[s].ver[j], j)
               /\ at[s] = "streaming" /\ cur = s => NotOlder(chan[s], shown[j], j)

DashInv ==
    /\ DashTypeOK
    /\ ChannelInv
    /\ PageInv
    /\ VersionInv
    /\ NewsInv
    /\ OrderInv

\* An event at the end of a channel.
LEMMA ChannelGrows ==
  ASSUME NEW q \in Seq(Event), NEW e \in Event
  PROVE  /\ Append(q, e) \in Seq(Event)
         /\ Len(Append(q, e)) = Len(q) + 1
         /\ \A i \in DOMAIN Append(q, e) :
                (i \in DOMAIN q /\ Append(q, e)[i] = q[i]) \/ Append(q, e)[i] = e
         /\ LastIs(Append(q, e), e.job, e.ver)
         /\ \A j \in Jobs : e.job # j =>
                /\ \A v, a \in Nat : Informed(q, v, a, j) => Informed(Append(q, e), v, a, j)
                /\ \A v \in Nat : NotOlder(q, v, j) => NotOlder(Append(q, e), v, j)
                /\ InOrder(q, j) => InOrder(Append(q, e), j)
         /\ \A v \in Nat : NotOlder(q, v, e.job) /\ e.ver >= v => NotOlder(Append(q, e), v, e.job)
         /\ InOrder(q, e.job) /\ (\A i \in DOMAIN q : q[i].job = e.job => q[i].ver <= e.ver)
                => InOrder(Append(q, e), e.job)
<1> DEFINE t == Append(q, e)
           n == Len(q)
<1>1. /\ t \in Seq(Event) /\ Len(t) = n + 1 /\ n \in Nat
      /\ DOMAIN q = 1 .. n /\ DOMAIN t = 1 .. n + 1
      /\ \A i \in 1 .. n : t[i] = q[i]
      /\ t[n + 1] = e
  OBVIOUS
<1>2. e.ver \in Nat /\ \A i \in 1 .. n : q[i].ver \in Nat
  <2>1. \A i \in 1 .. n : q[i] \in Event
    BY <1>1
  <2> QED BY <2>1 DEF Event
<1> HIDE DEF t, n
<1>3. \A i \in DOMAIN t : (i \in DOMAIN q /\ t[i] = q[i]) \/ t[i] = e
  BY <1>1
<1>4. LastIs(t, e.job, e.ver)
  BY <1>1 DEF LastIs
<1>5. ASSUME NEW j \in Jobs, e.job # j
      PROVE  /\ \A v, a \in Nat : Informed(q, v, a, j) => Informed(t, v, a, j)
             /\ \A v \in Nat : NotOlder(q, v, j) => NotOlder(t, v, j)
             /\ InOrder(q, j) => InOrder(t, j)
  <2>1. Silent(q, j) => Silent(t, j)
    BY <1>1, <1>5 DEF Silent
  <2>2. \A a \in Nat : LastIs(q, j, a) => LastIs(t, j, a)
    BY <1>1, <1>5 DEF LastIs
  <2>3. \A v \in Nat : NotOlder(q, v, j) => NotOlder(t, v, j)
    BY <1>1, <1>5 DEF NotOlder
  <2>4. InOrder(q, j) => InOrder(t, j)
    BY <1>1, <1>5 DEF InOrder
  <2> QED BY <2>1, <2>2, <2>3, <2>4 DEF Informed
<1>6. \A v \in Nat : NotOlder(q, v, e.job) /\ e.ver >= v => NotOlder(t, v, e.job)
  BY <1>1 DEF NotOlder
<1>7. ASSUME InOrder(q, e.job), \A i \in DOMAIN q : q[i].job = e.job => q[i].ver <= e.ver
      PROVE  InOrder(t, e.job)
  BY <1>1, <1>2, <1>7 DEF InOrder
<1> QED BY <1>1, <1>3, <1>4, <1>5, <1>6, <1>7 DEF t, n

\* The first event of a channel is taken.
LEMMA ChannelShrinks ==
  ASSUME NEW q \in Seq(Event), q # <<>>
  PROVE  /\ Tail(q) \in Seq(Event)
         /\ Len(Tail(q)) <= Len(q)
         /\ Head(q) \in Event /\ 1 \in DOMAIN q /\ Head(q) = q[1]
         /\ \A i \in DOMAIN Tail(q) : i + 1 \in DOMAIN q /\ Tail(q)[i] = q[i + 1]
         /\ \A j \in Jobs :
                /\ \A v \in Nat : NotOlder(q, v, j) => NotOlder(Tail(q), v, j)
                /\ InOrder(q, j) => InOrder(Tail(q), j)
                /\ Head(q).job # j =>
                       \A v, a \in Nat : Informed(q, v, a, j) => Informed(Tail(q), v, a, j)
         /\ InOrder(q, Head(q).job) => NotOlder(Tail(q), Head(q).ver, Head(q).job)
         /\ \A v, a \in Nat : Informed(q, v, a, Head(q).job)
                => Informed(Tail(q), Head(q).ver, a, Head(q).job)
<1> DEFINE t == Tail(q)
           n == Len(q)
           e == Head(q)
<1>1. /\ t \in Seq(Event) /\ n \in Nat /\ n >= 1 /\ Len(t) = n - 1
      /\ DOMAIN q = 1 .. n /\ DOMAIN t = 1 .. n - 1
      /\ \A i \in 1 .. n - 1 : t[i] = q[i + 1]
      /\ e = q[1] /\ e \in Event
  OBVIOUS
<1>2. \A i \in 1 .. n : q[i].ver \in Nat
  <2>1. \A i \in 1 .. n : q[i] \in Event
    BY <1>1
  <2> QED BY <2>1 DEF Event
<1>0. \A i \in DOMAIN t : i + 1 \in DOMAIN q /\ t[i] = q[i + 1]
  BY <1>1
<1> HIDE DEF t, n, e
<1>3. ASSUME NEW j \in Jobs
      PROVE  /\ \A v \in Nat : NotOlder(q, v, j) => NotOlder(t, v, j)
             /\ InOrder(q, j) => InOrder(t, j)
  <2>1. \A v \in Nat : NotOlder(q, v, j) => NotOlder(t, v, j)
    BY <1>0 DEF NotOlder
  <2>2. ASSUME InOrder(q, j), NEW i \in DOMAIN t, NEW k \in DOMAIN t, i < k,
               t[i].job = j, t[k].job = j
        PROVE  t[i].ver <= t[k].ver
    <3>1. i + 1 \in DOMAIN q /\ k + 1 \in DOMAIN q /\ i + 1 < k + 1
      BY <1>1, <2>2
    <3> QED BY <1>0, <2>2, <3>1 DEF InOrder
  <2> QED BY <2>1, <2>2 DEF InOrder
<1>4. ASSUME NEW j, NEW a \in Nat, LastIs(q, j, a)
      PROVE  LastIs(t, j, a) \/ (e.job = j /\ e.ver = a /\ Silent(t, j))
  <2>1. PICK i \in DOMAIN q : /\ q[i].job = j /\ q[i].ver = a
                              /\ \A k \in DOMAIN q : k > i => q[k].job # j
    BY <1>4 DEF LastIs
  <2>2. CASE i = 1
    <3>1. \A k \in DOMAIN t : k + 1 \in DOMAIN q /\ k + 1 > 1 /\ t[k] = q[k + 1]
      BY <1>0, <1>1
    <3>2. Silent(t, j)
      BY <2>1, <2>2, <3>1 DEF Silent
    <3> QED BY <1>1, <2>1, <2>2, <3>2
  <2>3. CASE i # 1
    <3>1. i - 1 \in DOMAIN t /\ t[i - 1] = q[i]
      BY <1>1, <2>3
    <3>2. ASSUME NEW k \in DOMAIN t, k > i - 1 PROVE t[k].job # j
      <4>1. k + 1 \in DOMAIN q /\ k + 1 > i /\ t[k] = q[k + 1]
        BY <1>0, <1>1, <3>2
      <4> QED BY <2>1, <4>1
    <3> QED BY <2>1, <3>1, <3>2 DEF LastIs
  <2> QED BY <2>2, <2>3
<1>5. \A j : Silent(q, j) => Silent(t, j) /\ e.job # j
  <2>1. 1 \in DOMAIN q
    BY <1>1
  <2> QED BY <1>0, <1>1, <2>1 DEF Silent
<1>6. ASSUME NEW j \in Jobs, e.job # j, NEW v \in Nat, NEW a \in Nat, Informed(q, v, a, j)
      PROVE  Informed(t, v, a, j)
  BY <1>4, <1>5, <1>6 DEF Informed
<1>7. InOrder(q, e.job) => NotOlder(t, e.ver, e.job)
  <2>1. ASSUME InOrder(q, e.job), NEW i \in DOMAIN t, t[i].job = e.job
        PROVE  t[i].ver >= e.ver
    <3>1. 1 \in DOMAIN q /\ i + 1 \in DOMAIN q /\ 1 < i + 1 /\ t[i] = q[i + 1]
      BY <1>1
    <3> QED BY <1>1, <1>2, <2>1, <3>1 DEF InOrder
  <2> QED BY <2>1 DEF NotOlder
<1>8. ASSUME NEW v \in Nat, NEW a \in Nat, Informed(q, v, a, e.job)
      PROVE  Informed(t, e.ver, a, e.job)
  BY <1>4, <1>5, <1>8 DEF Informed
<1>9. Len(t) <= Len(q) /\ 1 \in DOMAIN q
  BY <1>1 DEF n
<1> QED BY <1>0, <1>1, <1>3, <1>6, <1>7, <1>8, <1>9 DEF t, e

\* The numbers and records of the state.
LEMMA DashTypes ==
  ASSUME DashInv
  PROVE  /\ \A j \in Jobs : /\ row[j] \in RowStatuses /\ ver[j] \in Nat /\ announced[j] \in Nat
                            /\ shown[j] \in Nat
         /\ \A r \in Streams \cup {"poll"}, j \in Jobs :
                snap[r].ver[j] \in Nat /\ snap[r].status[j] \in RowStatuses
         /\ \A r \in Streams \cup {"poll"} : snap[r] \in Snapshot
         /\ pending # NoEvent => pending \in Event
         /\ \A s \in Streams : chan[s] \in Seq(Event)
         /\ MaxWrites \in Nat /\ NoStream \notin Streams /\ "poll" \notin Streams
<1>1. \A r \in Streams \cup {"poll"} : snap[r] \in Snapshot
  BY DEF DashInv, DashTypeOK
<1>2. \A r \in Streams \cup {"poll"}, j \in Jobs :
          snap[r].ver[j] \in Nat /\ snap[r].status[j] \in RowStatuses
  BY <1>1 DEF Snapshot
<1>3. \A j \in Jobs : /\ row[j] \in RowStatuses /\ ver[j] \in Nat /\ announced[j] \in Nat
                      /\ shown[j] \in Nat
  BY DEF DashInv, DashTypeOK
<1> QED BY <1>1, <1>2, <1>3, DashboardAssumption DEF DashInv, DashTypeOK, ChannelInv, Event

\* The events of a channel are about jobs, in numbered versions.
LEMMA EventIs == \A e \in Event : /\ e.job \in Jobs /\ e.status \in Statuses /\ e.ver \in Nat
                                  /\ e.ver >= 1 /\ e.ver \in 1 .. MaxWrites
BY DashboardAssumption DEF Event

LEMMA ChannelElements ==
  ASSUME DashInv, NEW s \in Streams, NEW i \in DOMAIN chan[s]
  PROVE  chan[s][i] \in Event
BY DashTypes

LEMMA StatusesAre == /\ "absent" \notin Statuses /\ "deleted" \in RowStatuses
                     /\ "absent" \in RowStatuses
                     /\ Statuses \subseteq RowStatuses
                     /\ {"pending", "failed"} \subseteq Statuses
                     /\ \A st \in RowStatuses : Listed(st) \in RowStatuses
                     /\ Listed("absent") = "absent"
BY DEF Statuses, RowStatuses, NoRow, Listed, Active, Terminal

LEMMA EmptyChannel ==
  /\ <<>> \in Seq(Event) /\ Len(<<>>) = 0 /\ DOMAIN <<>> = {}
  /\ \A j : Silent(<<>>, j) /\ InOrder(<<>>, j)
  /\ \A j, v : NotOlder(<<>>, v, j)
  /\ \A j, v, a : v >= a => Informed(<<>>, v, a, j)
<1>1. <<>> \in Seq(Event) /\ Len(<<>>) = 0 /\ DOMAIN <<>> = {}
  OBVIOUS
<1> QED BY <1>1 DEF Silent, InOrder, NotOlder, Informed

LEMMA DashInitInv == DashInit => DashInv
<1> SUFFICES ASSUME DashInit PROVE DashInv
  OBVIOUS
<1> USE DEF DashInit, BroadcasterInit
<1>1. EmptySnapshot \in Snapshot
  BY StatusesAre, DashboardAssumption DEF EmptySnapshot, Snapshot
<1>2. /\ \A s \in Streams : chan[s] = <<>> /\ at[s] = "idle"
      /\ \A r \in Streams \cup {"poll"} : snap[r] = EmptySnapshot
      /\ \A j \in Jobs : EmptySnapshot.ver[j] = 0 /\ EmptySnapshot.status[j] = "absent"
      /\ 0 \in 0 .. MaxWrites
  BY DashboardAssumption DEF EmptySnapshot
<1>3. DashTypeOK
  <2>1. BroadcasterTypeOK
    BY <1>2, EmptyChannel, BroadcasterAssumption DEF BroadcasterTypeOK, Positions
  <2> QED BY <1>1, <1>2, <2>1, StatusesAre, DashboardAssumption
             DEF DashTypeOK, Pages, MaxFails
<1>4. ChannelInv /\ PageInv
  BY <1>2, EmptyChannel DEF ChannelInv, PageInv, MaxFails
<1>5. VersionInv
  BY <1>2, EmptyChannel, StatusesAre DEF VersionInv, RowInv, SnapshotIsPast, Past
<1>6. NewsInv /\ OrderInv
  BY <1>2, EmptyChannel DEF NewsInv, OrderInv
<1> QED BY <1>3, <1>4, <1>5, <1>6 DEF DashInv

\* A row is written: what was the row or older is older than the row.
LEMMA WriterKeepsDash ==
  ASSUME DashInv, NEW j \in Jobs, WriterStep(j)
  PROVE  DashInv'
<1>1. /\ UNCHANGED <<streamVars, snap, pageVars, behind, announced>>
      /\ unlocked \subseteq unlocked' /\ unlocked' \subseteq Jobs
  BY DEF WriterStep, Trigger, MonitorWrite, DeleteRow, ManagerWrite, DashInv, DashTypeOK
<1>2. PICK st \in RowStatuses :
          /\ st # "absent" /\ Write(j, st)
          /\ \/ pending' = pending /\ (row[j] = "absent" \/ j \in unlocked')
             \/ /\ st \in Statuses
                /\ pending' = [job |-> j, status |-> st, ver |-> ver[j] + 1]
  BY StatusesAre DEF WriterStep, Trigger, MonitorWrite, DeleteRow, ManagerWrite
<1>3. /\ row' = [row EXCEPT ![j] = st] /\ ver' = [ver EXCEPT ![j] = ver[j] + 1]
      /\ ver[j] < MaxWrites
      /\ row \in [Jobs -> RowStatuses] /\ ver \in [Jobs -> 0 .. MaxWrites]
  BY <1>2 DEF Write, DashInv, DashTypeOK
<1>4. /\ ver' \in [Jobs -> 0 .. MaxWrites] /\ row' \in [Jobs -> RowStatuses]
      /\ ver'[j] = ver[j] + 1 /\ row'[j] = st
      /\ \A k \in Jobs : k # j => ver'[k] = ver[k] /\ row'[k] = row[k]
  BY <1>3, DashTypes
<1>5. ASSUME NEW k \in Jobs, NEW v \in Nat, NEW old, Past(old, v, k) PROVE Past(old, v, k)'
  BY <1>4, <1>5, DashTypes DEF Past
<1>6. pending' # NoEvent =>
          /\ pending' \in Event
          /\ Past(pending.status, pending.ver, pending.job)'
          /\ pending'.job \notin unlocked' => pending'.ver = ver'[pending'.job]
  <2>1. CASE pending' = pending /\ (row[j] = "absent" \/ j \in unlocked')
    <3>1. SUFFICES ASSUME pending # NoEvent
                   PROVE  /\ pending \in Event
                          /\ Past(pending.status, pending.ver, pending.job)'
                          /\ pending.job \notin unlocked' => pending.ver = ver'[pending.job]
      BY <2>1
    <3>2. /\ pending \in Event /\ Past(pending.status, pending.ver, pending.job)
          /\ pending.job \notin unlocked => pending.ver = ver[pending.job]
          /\ pending.job \in Jobs /\ pending.ver \in Nat /\ pending.ver >= 1
      BY <3>1, DashTypes, EventIs DEF DashInv, VersionInv
    <3>3. Past(pending.status, pending.ver, pending.job)'
      BY <1>5, <2>1, <3>2
    <3>4. pending.job = j => j \in unlocked'
      BY <2>1, <3>2, DashTypes DEF Past, DashInv, VersionInv, RowInv
    <3> QED BY <1>1, <1>4, <3>2, <3>3, <3>4
  <2>2. CASE st \in Statuses /\ pending' = [job |-> j, status |-> st, ver |-> ver[j] + 1]
    <3>1. pending'.job = j /\ pending'.status = st /\ pending'.ver = ver[j] + 1
      BY <2>2
    <3>2. pending' \in Event
      BY <1>3, <2>2, DashTypes DEF Event
    <3> QED BY <1>4, <3>1, <3>2, DashTypes DEF Past
  <2> QED BY <1>2, <2>1, <2>2
<1>7. DashTypeOK'
  BY <1>1, <1>4, <1>6 DEF DashInv, DashTypeOK, BroadcasterTypeOK, streamVars, pageVars, Event
<1>8. ChannelInv' /\ PageInv'
  BY <1>1 DEF DashInv, ChannelInv, PageInv, streamVars, pageVars
<1>9. VersionInv'
  <2>1. ASSUME NEW k \in Jobs PROVE RowInv(k)'
    <3>1. RowInv(k) /\ announced' = announced /\ shown' = shown /\ view' = view
      BY <1>1 DEF DashInv, VersionInv, pageVars
    <3>2. CASE k = j
      BY <1>2, <1>4, <3>1, <3>2, DashTypes DEF RowInv
    <3>3. CASE k # j
      BY <1>4, <3>1, <3>3 DEF RowInv
    <3> QED BY <3>2, <3>3
  <2>2. ASSUME NEW r \in Streams \cup {"poll"}, NEW k \in Jobs PROVE SnapshotIsPast(r, k)'
    <3>1. Past(snap[r].status[k], snap[r].ver[k], k) /\ snap' = snap
      BY <1>1 DEF DashInv, VersionInv, SnapshotIsPast
    <3> QED BY <1>5, <3>1, DashTypes DEF SnapshotIsPast
  <2>3. ASSUME NEW s \in Streams, NEW i \in DOMAIN chan[s]
        PROVE  Past(chan[s][i].status, chan[s][i].ver, chan[s][i].job)'
    <3>1. Past(chan[s][i].status, chan[s][i].ver, chan[s][i].job)
      BY DEF DashInv, VersionInv
    <3>2. chan[s][i].job \in Jobs /\ chan[s][i].ver \in Nat /\ chan' = chan
      BY <1>1, ChannelElements, EventIs DEF streamVars
    <3> QED BY <1>5, <3>1, <3>2
  <2>4. chan' = chan
    BY <1>1 DEF streamVars
  <2> QED BY <1>6, <2>1, <2>2, <2>3, <2>4 DEF VersionInv
<1>10. NewsInv' /\ OrderInv'
  BY <1>1 DEF DashInv, NewsInv, OrderInv, streamVars, pageVars
<1> QED BY <1>7, <1>8, <1>9, <1>10 DEF DashInv

\* An event is published: every channel that is not full ends with it, and a stream
\* that does not get it is behind, unless its snapshot is as new.
LEMMA PublishKeepsDash ==
  ASSUME DashInv, PublishStatusChange
  PROVE  DashInv'
<1> DEFINE e == pending
           j == pending.job
<1>1. /\ e \in Event /\ j \in Jobs /\ e.job = j /\ e.status \in Statuses
      /\ e.ver \in Nat /\ e.ver \in 1 .. MaxWrites
      /\ pending # NoEvent /\ pending' = NoEvent
      /\ Past(e.status, e.ver, j)
      /\ j \notin unlocked => e.ver = ver[j]
      /\ UNCHANGED <<subs, at, client, row, ver, unlocked, snap, pageVars>>
  BY DashTypes, EventIs DEF PublishStatusChange, DashInv, VersionInv
<1>2. \/ /\ Publish(e)
         /\ announced' = [announced EXCEPT ![j] = e.ver]
         /\ behind' = [s \in Streams |-> MissedBy(s, e)]
      \/ UNCHANGED <<chan, announced, behind>>
  BY DEF PublishStatusChange
<1> HIDE DEF e, j
<1>3. PageInv'
  BY <1>1 DEF DashInv, PageInv, pageVars
<1>4. /\ \A r \in Streams \cup {"poll"}, k \in Jobs : SnapshotIsPast(r, k)'
      /\ \A k \in Jobs : (announced'[k] <= ver[k]) => RowInv(k)'
  BY <1>1 DEF DashInv, VersionInv, SnapshotIsPast, Past, RowInv, pageVars
<1>5. CASE UNCHANGED <<chan, announced, behind>>
  <2>1. DashTypeOK'
    BY <1>1, <1>5 DEF DashInv, DashTypeOK, BroadcasterTypeOK, pageVars
  <2>2. ChannelInv'
    BY <1>1, <1>5 DEF DashInv, ChannelInv
  <2>3. VersionInv'
    <3>1. \A k \in Jobs : announced'[k] <= ver[k]
      BY <1>5 DEF DashInv, VersionInv, RowInv
    <3> QED BY <1>1, <1>4, <1>5, <3>1 DEF DashInv, VersionInv, Past
  <2>4. NewsInv' /\ OrderInv'
    BY <1>1, <1>5 DEF DashInv, NewsInv, OrderInv, pageVars
  <2> QED BY <1>3, <2>1, <2>2, <2>3, <2>4 DEF DashInv
<1>6. CASE /\ Publish(e)
           /\ announced' = [announced EXCEPT ![j] = e.ver]
           /\ behind' = [s \in Streams |-> MissedBy(s, e)]
  <2>1. ASSUME NEW s \in Streams
        PROVE  /\ chan[s] \in Seq(Event)
               /\ chan'[s] = IF s \in subs /\ ~Full(s) THEN Append(chan[s], e) ELSE chan[s]
               /\ behind'[s] = MissedBy(s, e)
               /\ chan'[s] \in Seq(Event)
               /\ Len(chan'[s]) <= Capacity
    <3>1. /\ chan[s] \in Seq(Event)
          /\ chan'[s] = IF s \in subs /\ ~Full(s) THEN Append(chan[s], e) ELSE chan[s]
          /\ behind'[s] = MissedBy(s, e)
      BY <1>6, DashTypes DEF Publish
    <3>2. Len(chan[s]) <= Capacity /\ Len(chan[s]) \in Nat /\ Capacity \in Nat
      BY <3>1, BroadcasterAssumption DEF DashInv, DashTypeOK, BroadcasterTypeOK
    <3> QED BY <1>1, <3>1, <3>2, ChannelGrows DEF Full
  <2>2. DOMAIN chan' = Streams /\ chan' \in [Streams -> Seq(Event)]
    BY <1>6, <2>1 DEF Publish
  <2>3. ASSUME NEW s \in Streams, NEW k \in Jobs
        PROVE  /\ behind'[s] \subseteq Jobs
               /\ k # j => (k \in behind[s] <=> k \in behind'[s])
               /\ j \notin behind'[s] =>
                      /\ at[s] = "snapshot" => e.ver <= snap[s].ver[j]
                      /\ s \in subs => ~Full(s)
    <3>1. behind[s] \subseteq Jobs
      BY DEF DashInv, DashTypeOK
    <3>2. s \in Dropping <=> s \in subs /\ Full(s)
      BY DEF Dropping
    <3>3. snap[s].ver[j] \in Nat
      BY <1>1, DashTypes
    <3> DEFINE missed == (at[s] = "snapshot" /\ e.ver > snap[s].ver[j]) \/ s \in Dropping
    <3>4. behind'[s] = IF missed THEN behind[s] \cup {j}
                       ELSE IF s \in subs THEN behind[s] \ {j} ELSE behind[s]
      BY <1>1, <2>1 DEF MissedBy
    <3>5. j \notin behind'[s] => ~missed
      BY <3>4
    <3>6. ~missed => /\ at[s] = "snapshot" => e.ver <= snap[s].ver[j]
                     /\ s \in subs => ~Full(s)
      BY <1>1, <3>2, <3>3
    <3> HIDE DEF missed
    <3>7. behind'[s] \subseteq Jobs /\ (k # j => (k \in behind[s] <=> k \in behind'[s]))
      BY <1>1, <3>1, <3>4
    <3> QED BY <3>5, <3>6, <3>7
  <2>4. /\ announced' \in [Jobs -> 0 .. MaxWrites]
        /\ announced'[j] = e.ver
        /\ \A k \in Jobs : k # j => announced'[k] = announced[k]
    BY <1>1, <1>6, DashTypes DEF DashInv, DashTypeOK
  <2>5. DashTypeOK'
    <3>1. BroadcasterTypeOK'
      BY <1>1, <2>1, <2>2 DEF DashInv, DashTypeOK, BroadcasterTypeOK
    <3>2. behind' \in [Streams -> SUBSET Jobs]
      BY <1>6, <1>1, <2>3
    <3> QED BY <1>1, <2>4, <3>1, <3>2 DEF DashInv, DashTypeOK, pageVars
  <2>6. ChannelInv'
    BY <1>1, <2>1, <2>2 DEF DashInv, ChannelInv
  <2>7. VersionInv'
    <3>1. \A k \in Jobs : announced'[k] <= ver[k]
      BY <1>1, <2>4 DEF DashInv, VersionInv, RowInv, Past
    <3>2. ASSUME NEW s \in Streams, NEW i \in DOMAIN chan'[s]
          PROVE  Past(chan[s][i].status, chan[s][i].ver, chan[s][i].job)'
      <4>1. (i \in DOMAIN chan[s] /\ chan'[s][i] = chan[s][i]) \/ chan'[s][i] = e
        <5>1. CASE chan'[s] = chan[s]
          BY <5>1
        <5>2. CASE chan'[s] = Append(chan[s], e)
          BY <1>1, <2>1, <5>2, ChannelGrows
        <5> QED BY <2>1, <5>1, <5>2
      <4>2. CASE i \in DOMAIN chan[s] /\ chan'[s][i] = chan[s][i]
        BY <1>1, <4>2 DEF DashInv, VersionInv, Past
      <4>3. CASE chan'[s][i] = e
        BY <1>1, <4>3 DEF Past
      <4> QED BY <4>1, <4>2, <4>3
    <3> QED BY <1>1, <1>4, <3>1, <3>2 DEF VersionInv
  <2>8. ASSUME NEW s \in Streams, NEW k \in Jobs, NEW v \in Nat, s \in subs, k \notin behind'[s],
               Informed(chan[s], v, announced[k], k) \/ k = j
        PROVE  Informed(chan'[s], v, announced'[k], k)
    <3>1. CASE k = j
      <4>1. chan'[s] = Append(chan[s], e)
        BY <2>1, <2>3, <2>8, <3>1
      <4>2. LastIs(Append(chan[s], e), e.job, e.ver)
        BY <1>1, <2>1, ChannelGrows
      <4> QED BY <1>1, <2>4, <3>1, <4>1, <4>2 DEF Informed
    <3>2. CASE k # j
      <4>1. Informed(chan[s], v, announced[k], k) /\ announced'[k] = announced[k]
            /\ announced[k] \in Nat /\ e.job # k
        BY <1>1, <2>4, <2>8, <3>2, DashTypes
      <4> QED BY <1>1, <2>1, <4>1, ChannelGrows
    <3> QED BY <3>1, <3>2
  <2>9. NewsInv'
    <3>1. ASSUME NEW s \in Streams, NEW k \in Jobs, k \notin behind'[s]
          PROVE  /\ at[s] = "snapshot" => snap[s].ver[k] >= announced'[k]
                 /\ at[s] = "replay" => Informed(chan'[s], snap[s].ver[k], announced'[k], k)
                 /\ at[s] = "streaming" /\ cur = s
                        => Informed(chan'[s], shown[k], announced'[k], k)
      <4>1. /\ snap[s].ver[k] \in Nat /\ shown[k] \in Nat
            /\ at[s] \in {"replay", "streaming"} => s \in subs
            /\ k # j => k \notin behind[s]
        BY <2>3, <3>1, DashTypes DEF DashInv, ChannelInv
      <4>2. at[s] = "snapshot" => snap[s].ver[k] >= announced'[k]
        BY <1>1, <2>3, <2>4, <3>1, <4>1 DEF DashInv, NewsInv
      <4>3. at[s] = "replay" => Informed(chan'[s], snap[s].ver[k], announced'[k], k)
        BY <2>8, <3>1, <4>1 DEF DashInv, NewsInv
      <4>4. at[s] = "streaming" /\ cur = s => Informed(chan'[s], shown[k], announced'[k], k)
        BY <2>8, <3>1, <4>1 DEF DashInv, NewsInv
      <4> QED BY <4>2, <4>3, <4>4
    <3> QED BY <1>1, <3>1 DEF NewsInv, pageVars
  <2>10. OrderInv'
    <3>1. ASSUME NEW s \in Streams, NEW k \in Jobs, k \notin unlocked
          PROVE  /\ InOrder(chan'[s], k)
                 /\ \A v \in Nat : NotOlder(chan[s], v, k) /\ v <= ver[k] => NotOlder(chan'[s], v, k)
      <4>1. InOrder(chan[s], k) /\ chan[s] \in Seq(Event)
        BY <2>1, <3>1 DEF DashInv, OrderInv
      <4>2. CASE chan'[s] = chan[s]
        BY <4>1, <4>2
      <4>3. CASE chan'[s] = Append(chan[s], e) /\ k # j
        BY <1>1, <4>1, <4>3, ChannelGrows
      <4>4. CASE chan'[s] = Append(chan[s], e) /\ k = j
        <5>1. \A i \in DOMAIN chan[s] : chan[s][i].job = j => chan[s][i].ver <= ver[j]
          BY DEF DashInv, VersionInv, Past
        <5>2. e.ver = ver[j]
          BY <1>1, <3>1, <4>4
        <5>3. InOrder(Append(chan[s], e), e.job)
          BY <1>1, <4>1, <4>4, <5>1, <5>2, ChannelGrows
        <5>4. \A v \in Nat : NotOlder(chan[s], v, e.job) /\ e.ver >= v
                  => NotOlder(Append(chan[s], e), v, e.job)
          BY <1>1, <4>1, ChannelGrows
        <5> QED BY <1>1, <4>4, <5>2, <5>3, <5>4
      <4> QED BY <2>1, <4>2, <4>3, <4>4
    <3>2. ASSUME NEW s \in Streams, NEW k \in Jobs
          PROVE  /\ snap[s].ver[k] \in Nat /\ snap[s].ver[k] <= ver[k]
                 /\ shown[k] \in Nat /\ shown[k] <= ver[k]
      BY DashTypes DEF DashInv, VersionInv, RowInv, SnapshotIsPast, Past
    <3> QED BY <1>1, <3>1, <3>2 DEF DashInv, OrderInv, pageVars
  <2> QED BY <1>3, <2>5, <2>6, <2>7, <2>9, <2>10 DEF DashInv
<1> QED BY <1>2, <1>5, <1>6

\* Snapshots are of the rows as they are, or of none.
LEMMA SnapshotsAre ==
  ASSUME DashInv
  PROVE  /\ Rows \in Snapshot /\ EmptySnapshot \in Snapshot
         /\ \A j \in Jobs : /\ Rows.ver[j] = ver[j] /\ Rows.status[j] = row[j]
                            /\ EmptySnapshot.ver[j] = 0 /\ EmptySnapshot.status[j] = "absent"
<1>1. EmptySnapshot \in Snapshot /\ \A j \in Jobs : /\ EmptySnapshot.ver[j] = 0
                                                    /\ EmptySnapshot.status[j] = "absent"
  BY StatusesAre, DashboardAssumption DEF EmptySnapshot, Snapshot
<1>2. Rows \in Snapshot /\ \A j \in Jobs : Rows.ver[j] = ver[j] /\ Rows.status[j] = row[j]
  BY DEF Rows, Snapshot, DashInv, DashTypeOK
<1> QED BY <1>1, <1>2

\* What is read, received or shown comes from the rows, a snapshot or a channel.
LEMMA ReadersKeepVersions ==
  ASSUME DashInv, UNCHANGED rowVars,
         \A r \in Streams \cup {"poll"} : snap'[r] \in {snap[r], Rows, EmptySnapshot},
         \A s \in Streams : \A i \in DOMAIN chan'[s] :
             \E k \in DOMAIN chan[s] : chan'[s][i] = chan[s][k],
         \A j \in Jobs :
             \/ view'[j] = view[j] /\ shown'[j] = shown[j]
             \/ \E r \in Streams \cup {"poll"} :
                    view'[j] = Listed(snap[r].status[j]) /\ shown'[j] = snap[r].ver[j]
             \/ \E s \in Streams : \E i \in DOMAIN chan[s] :
                    /\ chan[s][i].job = j
                    /\ view'[j] = Listed(chan[s][i].status) /\ shown'[j] = chan[s][i].ver
             \/ view'[j] = "absent" /\ shown'[j] = 0
  PROVE  VersionInv'
<1>1. /\ row' = row /\ ver' = ver /\ pending' = pending /\ announced' = announced
      /\ unlocked' = unlocked
  BY DEF rowVars
<1>2. VersionInv
  BY DEF DashInv
<1>3. ASSUME NEW j \in Jobs PROVE RowInv(j)'
  <2>1. RowInv(j) /\ Listed("absent") = "absent" /\ ver[j] \in Nat
    BY <1>2, StatusesAre, DashTypes DEF VersionInv
  <2>2. CASE view'[j] = view[j] /\ shown'[j] = shown[j]
    BY <1>1, <2>1, <2>2 DEF RowInv
  <2>3. CASE \E r \in Streams \cup {"poll"} :
                 view'[j] = Listed(snap[r].status[j]) /\ shown'[j] = snap[r].ver[j]
    <3>1. PICK r \in Streams \cup {"poll"} :
              view'[j] = Listed(snap[r].status[j]) /\ shown'[j] = snap[r].ver[j]
      BY <2>3
    <3>2. Past(snap[r].status[j], snap[r].ver[j], j)
      BY <1>2 DEF VersionInv, SnapshotIsPast
    <3> QED BY <1>1, <2>1, <3>1, <3>2 DEF RowInv, Past
  <2>4. CASE \E s \in Streams : \E i \in DOMAIN chan[s] :
                 /\ chan[s][i].job = j
                 /\ view'[j] = Listed(chan[s][i].status) /\ shown'[j] = chan[s][i].ver
    <3>1. PICK s \in Streams : \E i \in DOMAIN chan[s] :
                 /\ chan[s][i].job = j
                 /\ view'[j] = Listed(chan[s][i].status) /\ shown'[j] = chan[s][i].ver
      BY <2>4
    <3>2. PICK i \in DOMAIN chan[s] :
                 /\ chan[s][i].job = j
                 /\ view'[j] = Listed(chan[s][i].status) /\ shown'[j] = chan[s][i].ver
      BY <3>1
    <3>3. Past(chan[s][i].status, chan[s][i].ver, j)
      BY <1>2, <3>2 DEF VersionInv
    <3> QED BY <1>1, <2>1, <3>2, <3>3 DEF RowInv, Past
  <2>5. CASE view'[j] = "absent" /\ shown'[j] = 0
    BY <1>1, <2>1, <2>5 DEF RowInv
  <2> QED BY <2>2, <2>3, <2>4, <2>5
<1>4. ASSUME NEW r \in Streams \cup {"poll"}, NEW j \in Jobs PROVE SnapshotIsPast(r, j)'
  <2>1. Past(snap[r].status[j], snap[r].ver[j], j) /\ RowInv(j) /\ ver[j] \in Nat
    BY <1>2, DashTypes DEF VersionInv, SnapshotIsPast
  <2>2. Past(snap'[r].status[j], snap'[r].ver[j], j)
    BY <2>1, SnapshotsAre DEF Past, RowInv
  <2> QED BY <1>1, <2>2 DEF SnapshotIsPast, Past
<1>5. \A s \in Streams : \A i \in DOMAIN chan'[s] :
          Past(chan'[s][i].status, chan'[s][i].ver, chan'[s][i].job)
  BY <1>2 DEF VersionInv
<1> QED BY <1>1, <1>2, <1>3, <1>4, <1>5 DEF VersionInv, Past

\* A handler reads the rows for a new stream of the page, or subscribes it.
LEMMA ConnectKeepsDash ==
  ASSUME DashInv, NEW s \in Streams, ReadSnapshot(s) \/ SubscribeDashboard(s)
  PROVE  DashInv'
<1>1. CASE ReadSnapshot(s)
  <2>1. /\ page = "connecting" /\ cur = NoStream /\ at[s] = "idle" /\ cur' = s
        /\ client' = [client EXCEPT ![s] = "here"]
        /\ snap' = [snap EXCEPT ![s] = Rows]
        /\ at' = [at EXCEPT ![s] = "snapshot"]
        /\ UNCHANGED <<subs, chan, rowVars, page, fails, view, shown, behind>>
    BY <1>1 DEF ReadSnapshot, Move
  <2>2. /\ at \in [Streams -> Positions] /\ client \in [Streams -> {"none", "here", "gone"}]
        /\ snap \in [Streams \cup {"poll"} -> Snapshot]
    BY DEF DashInv, DashTypeOK, BroadcasterTypeOK
  <2>3. /\ at' \in [Streams -> Positions] /\ client' \in [Streams -> {"none", "here", "gone"}]
        /\ snap' \in [Streams \cup {"poll"} -> Snapshot]
        /\ at'[s] = "snapshot" /\ snap'[s] = Rows
        /\ \A t \in Streams : t # s => at'[t] = at[t]
        /\ \A r \in Streams \cup {"poll"} : r # s => snap'[r] = snap[r]
    BY <2>1, <2>2, SnapshotsAre DEF Positions
  <2>4. DashTypeOK'
    BY <2>1, <2>3 DEF DashInv, DashTypeOK, BroadcasterTypeOK, rowVars
  <2>5. ChannelInv' /\ PageInv'
    BY <2>1, <2>3 DEF DashInv, ChannelInv, PageInv
  <2>6. VersionInv'
    BY <2>1, <2>3, ReadersKeepVersions
  <2>7. NewsInv'
    <3>1. ASSUME NEW t \in Streams, NEW j \in Jobs, j \notin behind[t]
          PROVE  /\ at'[t] = "snapshot" => snap'[t].ver[j] >= announced[j]
                 /\ at'[t] = "replay" => Informed(chan[t], snap'[t].ver[j], announced[j], j)
                 /\ at'[t] = "streaming" /\ cur' = t
                        => Informed(chan[t], shown[j], announced[j], j)
      <4>1. announced[j] <= ver[j] /\ announced[j] \in Nat /\ ver[j] \in Nat
        BY DashTypes DEF DashInv, VersionInv, RowInv
      <4>2. CASE t = s
        BY <2>3, <4>1, <4>2, SnapshotsAre
      <4>3. CASE t # s
        BY <2>1, <2>3, <3>1, <4>3 DEF DashInv, NewsInv
      <4> QED BY <4>2, <4>3
    <3> QED BY <2>1, <3>1 DEF NewsInv, rowVars
  <2>8. OrderInv'
    <3>1. ASSUME NEW t \in Streams, NEW j \in Jobs
          PROVE  /\ cur' = t /\ at'[t] \in {"snapshot", "replay"} => snap'[t].ver[j] >= shown[j]
                 /\ j \notin unlocked =>
                        /\ InOrder(chan[t], j)
                        /\ at'[t] = "replay" => NotOlder(chan[t], snap'[t].ver[j], j)
                        /\ at'[t] = "streaming" /\ cur' = t => NotOlder(chan[t], shown[j], j)
      <4>1. shown[j] <= ver[j] /\ shown[j] \in Nat /\ ver[j] \in Nat
        BY DashTypes DEF DashInv, VersionInv, RowInv
      <4>2. j \notin unlocked => InOrder(chan[t], j)
        BY DEF DashInv, OrderInv
      <4>3. CASE t = s
        BY <2>3, <4>1, <4>2, <4>3, SnapshotsAre
      <4>4. CASE t # s
        BY <2>1, <2>3, <4>2, <4>4 DEF DashInv, OrderInv
      <4> QED BY <4>3, <4>4
    <3> QED BY <2>1, <3>1 DEF OrderInv, rowVars
  <2> QED BY <2>4, <2>5, <2>6, <2>7, <2>8 DEF DashInv
<1>2. CASE SubscribeDashboard(s)
  <2>1. /\ at[s] = "snapshot" /\ subs' = subs \cup {s}
        /\ at' = [at EXCEPT ![s] = "replay"]
        /\ UNCHANGED <<chan, client, dashVars>>
    BY <1>2 DEF SubscribeDashboard, Subscribe, Move
  <2>2. /\ at' \in [Streams -> Positions] /\ at'[s] = "replay"
        /\ \A t \in Streams : t # s => at'[t] = at[t]
    BY <2>1 DEF DashInv, DashTypeOK, BroadcasterTypeOK, Positions
  <2>3. UNCHANGED <<rowVars, snap, page, cur, fails, view, shown, behind>>
    BY <2>1 DEF dashVars, pageVars
  <2>4. DashTypeOK'
    BY <2>1, <2>2, <2>3 DEF DashInv, DashTypeOK, BroadcasterTypeOK, rowVars
  <2>5. ChannelInv' /\ PageInv'
    BY <2>1, <2>2, <2>3 DEF DashInv, ChannelInv, PageInv
  <2>6. VersionInv'
    BY <2>1, <2>3, ReadersKeepVersions
  <2>7. chan[s] = <<>>
    BY <2>1 DEF DashInv, ChannelInv
  <2>8. NewsInv'
    <3>1. ASSUME NEW t \in Streams, NEW j \in Jobs, j \notin behind[t]
          PROVE  /\ at'[t] = "snapshot" => snap[t].ver[j] >= announced[j]
                 /\ at'[t] = "replay" => Informed(chan[t], snap[t].ver[j], announced[j], j)
                 /\ at'[t] = "streaming" /\ cur = t
                        => Informed(chan[t], shown[j], announced[j], j)
      <4>2. CASE t = s
        BY <2>1, <2>2, <2>7, <3>1, <4>2, EmptyChannel DEF DashInv, NewsInv
      <4>3. CASE t # s
        BY <2>2, <3>1, <4>3 DEF DashInv, NewsInv
      <4> QED BY <4>2, <4>3
    <3> QED BY <2>1, <2>3, <3>1 DEF NewsInv, rowVars
  <2>9. OrderInv'
    <3>1. ASSUME NEW t \in Streams, NEW j \in Jobs
          PROVE  /\ cur = t /\ at'[t] \in {"snapshot", "replay"} => snap[t].ver[j] >= shown[j]
                 /\ j \notin unlocked =>
                        /\ InOrder(chan[t], j)
                        /\ at'[t] = "replay" => NotOlder(chan[t], snap[t].ver[j], j)
                        /\ at'[t] = "streaming" /\ cur = t => NotOlder(chan[t], shown[j], j)
      <4>3. CASE t = s
        BY <2>1, <2>2, <2>7, <4>3, EmptyChannel DEF DashInv, OrderInv
      <4>4. CASE t # s
        BY <2>2, <4>4 DEF DashInv, OrderInv
      <4> QED BY <4>3, <4>4
    <3> QED BY <2>1, <2>3, <3>1 DEF OrderInv, rowVars
  <2> QED BY <2>4, <2>5, <2>6, <2>8, <2>9 DEF DashInv
<1> QED BY <1>1, <1>2

\* The body writer sends the snapshot: a page that reads the stream has by it what the
\* snapshot had.
LEMMA SendInitKeepsDash ==
  ASSUME DashInv, NEW s \in Streams, SendInit(s)
  PROVE  DashInv'
<1>1. /\ at[s] = "replay"
      /\ snap' = [snap EXCEPT ![s] = EmptySnapshot]
      /\ UNCHANGED <<client, rowVars, cur, behind>>
      /\ s \in subs
  BY DEF SendInit, DashInv, ChannelInv
<1>2. \/ /\ cur = s /\ page' = "open" /\ fails' = 0
         /\ view' = [j \in Jobs |-> Listed(snap[s].status[j])]
         /\ shown' = snap[s].ver
      \/ cur # s /\ UNCHANGED <<page, fails, view, shown>>
  BY DEF SendInit, Replace
<1>3. \/ at' = [at EXCEPT ![s] = "streaming"] /\ UNCHANGED <<subs, chan>>
      \/ /\ subs' = subs \ {s} /\ chan' = [chan EXCEPT ![s] = <<>>]
         /\ at' = [at EXCEPT ![s] = "closed"]
  BY DEF SendInit, Move, Close
<1>4. /\ at \in [Streams -> Positions] /\ snap \in [Streams \cup {"poll"} -> Snapshot]
      /\ chan \in [Streams -> Seq(Event)] /\ subs \subseteq Streams
      /\ \A t \in Streams : Len(chan[t]) <= Capacity
      /\ snap[s].ver \in [Jobs -> 0 .. MaxWrites]
      /\ snap[s].status \in [Jobs -> RowStatuses]
      /\ snap[s] \in Snapshot
  <2>1. snap[s] \in Snapshot
    BY DashTypes
  <2> QED BY <2>1 DEF DashInv, DashTypeOK, BroadcasterTypeOK, ChannelInv, Snapshot
<1>5. /\ at' \in [Streams -> Positions]
      /\ snap' \in [Streams \cup {"poll"} -> Snapshot]
      /\ \A r \in Streams \cup {"poll"} : r # s => snap'[r] = snap[r]
      /\ snap'[s] = EmptySnapshot
      /\ \A t \in Streams : t # s => at'[t] = at[t]
  BY <1>1, <1>3, <1>4, SnapshotsAre DEF Positions
<1>6. /\ chan' \in [Streams -> Seq(Event)] /\ subs' \subseteq Streams
      /\ \A t \in Streams : t # s => chan'[t] = chan[t] /\ (t \in subs' <=> t \in subs)
      /\ \/ at'[s] = "streaming" /\ chan'[s] = chan[s] /\ s \in subs'
         \/ at'[s] = "closed" /\ chan'[s] = <<>> /\ s \notin subs'
  <2>1. CASE at' = [at EXCEPT ![s] = "streaming"] /\ UNCHANGED <<subs, chan>>
    BY <1>1, <1>4, <2>1
  <2>2. CASE /\ subs' = subs \ {s} /\ chan' = [chan EXCEPT ![s] = <<>>]
             /\ at' = [at EXCEPT ![s] = "closed"]
    BY <1>4, <2>2, EmptyChannel
  <2> QED BY <1>3, <2>1, <2>2
<1>7. ASSUME NEW t \in Streams PROVE Len(chan'[t]) <= Capacity
  <2>1. chan'[t] = chan[t] \/ chan'[t] = <<>>
    BY <1>6
  <2> QED BY <1>4, <2>1, EmptyChannel, BroadcasterAssumption
<1>8. /\ page' \in Pages /\ fails' \in 0 .. MaxFails
      /\ view' \in [Jobs -> RowStatuses] /\ shown' \in [Jobs -> 0 .. MaxWrites]
  <2>1. /\ page \in Pages /\ fails \in 0 .. MaxFails
        /\ view \in [Jobs -> RowStatuses] /\ shown \in [Jobs -> 0 .. MaxWrites]
        /\ 0 \in 0 .. MaxFails /\ "open" \in Pages
    BY DEF DashInv, DashTypeOK, MaxFails, Pages
  <2>2. \A j \in Jobs : Listed(snap[s].status[j]) \in RowStatuses
    BY <1>4, StatusesAre
  <2> QED BY <1>2, <1>4, <2>1, <2>2
<1>9. DashTypeOK'
  <2>1. BroadcasterTypeOK'
    BY <1>1, <1>5, <1>6, <1>7 DEF DashInv, DashTypeOK, BroadcasterTypeOK
  <2> QED BY <1>1, <1>5, <1>8, <2>1 DEF DashInv, DashTypeOK, rowVars
<1>10. ChannelInv'
  BY <1>1, <1>5, <1>6 DEF DashInv, ChannelInv
<1>11. PageInv'
  BY <1>1, <1>2 DEF DashInv, PageInv, MaxFails
<1>12. VersionInv'
  <2>1. \A r \in Streams \cup {"poll"} : snap'[r] \in {snap[r], Rows, EmptySnapshot}
    BY <1>5
  <2>2. ASSUME NEW t \in Streams, NEW i \in DOMAIN chan'[t]
        PROVE  \E k \in DOMAIN chan[t] : chan'[t][i] = chan[t][k]
    BY <1>6, EmptyChannel
  <2>3. ASSUME NEW j \in Jobs
        PROVE  \/ view'[j] = view[j] /\ shown'[j] = shown[j]
               \/ view'[j] = Listed(snap[s].status[j]) /\ shown'[j] = snap[s].ver[j]
    BY <1>2
  <2> QED BY <1>1, <2>1, <2>2, <2>3, ReadersKeepVersions
<1>13. NewsInv'
  <2>1. ASSUME NEW t \in Streams, NEW j \in Jobs, j \notin behind[t]
        PROVE  /\ at'[t] = "snapshot" => snap'[t].ver[j] >= announced[j]
               /\ at'[t] = "replay" => Informed(chan'[t], snap'[t].ver[j], announced[j], j)
               /\ at'[t] = "streaming" /\ cur = t
                      => Informed(chan'[t], shown'[j], announced[j], j)
    <3>1. CASE t = s
      BY <1>1, <1>2, <1>6, <2>1, <3>1 DEF DashInv, NewsInv
    <3>2. CASE t # s
      BY <1>2, <1>5, <1>6, <2>1, <3>2 DEF DashInv, NewsInv
    <3> QED BY <3>1, <3>2
  <2> QED BY <1>1, <2>1 DEF NewsInv, rowVars
<1>14. OrderInv'
  <2>1. ASSUME NEW t \in Streams, NEW j \in Jobs
        PROVE  /\ cur = t /\ at'[t] \in {"snapshot", "replay"} => snap'[t].ver[j] >= shown'[j]
               /\ j \notin unlocked =>
                      /\ InOrder(chan'[t], j)
                      /\ at'[t] = "replay" => NotOlder(chan'[t], snap'[t].ver[j], j)
                      /\ at'[t] = "streaming" /\ cur = t => NotOlder(chan'[t], shown'[j], j)
    <3>1. CASE t = s
      BY <1>1, <1>2, <1>6, <3>1, EmptyChannel DEF DashInv, OrderInv
    <3>2. CASE t # s
      BY <1>2, <1>5, <1>6, <3>2 DEF DashInv, OrderInv
    <3> QED BY <3>1, <3>2
  <2> QED BY <1>1, <2>1 DEF OrderInv, rowVars
<1> QED BY <1>9, <1>10, <1>11, <1>12, <1>13, <1>14 DEF DashInv

\* An event is received from a channel, with or without a page that still reads.
LEMMA ReceiveKeepsDash ==
  ASSUME DashInv, NEW s \in Streams, Receive(s),
         UNCHANGED <<subs, at, client, rowVars, snap, page, cur, fails, behind>>,
         \/ UNCHANGED <<view, shown>> /\ cur # s
         \/ /\ view' = [view EXCEPT ![Head(chan[s]).job] = Listed(Head(chan[s]).status)]
            /\ shown' = [shown EXCEPT ![Head(chan[s]).job] = Head(chan[s]).ver]
            /\ cur = s
  PROVE  DashInv'
<1> DEFINE q == chan[s]
           e == Head(chan[s])
<1>1. /\ at[s] = "streaming" /\ q # <<>> /\ q \in Seq(Event)
      /\ chan' = [chan EXCEPT ![s] = Tail(q)]
      /\ chan \in [Streams -> Seq(Event)]
      /\ e \in Event /\ e.job \in Jobs /\ e.ver \in Nat /\ e.ver \in 1 .. MaxWrites
      /\ e.status \in RowStatuses /\ Listed(e.status) \in RowStatuses
  BY DashTypes, ChannelShrinks, EventIs, StatusesAre DEF Receive, DashInv, ChannelInv
<1>2. /\ chan' \in [Streams -> Seq(Event)]
      /\ chan'[s] = Tail(q) /\ \A t \in Streams : t # s => chan'[t] = chan[t]
  BY <1>1, ChannelShrinks
<1>3. \/ UNCHANGED <<view, shown>> /\ cur # s
      \/ /\ view' = [view EXCEPT ![e.job] = Listed(e.status)]
         /\ shown' = [shown EXCEPT ![e.job] = e.ver]
         /\ cur = s
  OBVIOUS
<1> HIDE DEF q, e
<1>4. /\ view' \in [Jobs -> RowStatuses] /\ shown' \in [Jobs -> 0 .. MaxWrites]
      /\ cur = s => shown'[e.job] = e.ver /\ view'[e.job] = Listed(e.status)
      /\ \A j \in Jobs : (j # e.job \/ cur # s) => shown'[j] = shown[j] /\ view'[j] = view[j]
  <2>1. view \in [Jobs -> RowStatuses] /\ shown \in [Jobs -> 0 .. MaxWrites] /\ e.ver \in 0 .. MaxWrites
    BY <1>1 DEF DashInv, DashTypeOK
  <2> QED BY <1>1, <1>3, <2>1
<1>5. DashTypeOK'
  <2>1. \A t \in Streams : Len(chan'[t]) <= Capacity
    <3>1. \A t \in Streams : Len(chan[t]) <= Capacity
      BY DEF DashInv, DashTypeOK, BroadcasterTypeOK
    <3>2. Len(Tail(q)) <= Len(q) /\ Len(Tail(q)) \in Nat /\ Len(q) \in Nat /\ Capacity \in Nat
      BY <1>1, ChannelShrinks, BroadcasterAssumption
    <3>3. ASSUME NEW t \in Streams, t # s PROVE Len(chan'[t]) <= Capacity
      BY <1>2, <3>1, <3>3
    <3>4. Len(q) <= Capacity
      BY <3>1 DEF q
    <3>5. Len(chan'[s]) <= Capacity
      <4> HIDE DEF q
      <4>1. chan'[s] = Tail(q)
        BY <1>2
      <4>2. \A a, b, c \in Nat : a <= b /\ b <= c => a <= c
        OBVIOUS
      <4> QED BY <3>2, <3>4, <4>1, <4>2, ZenonT(20)
    <3> QED BY <3>3, <3>5
  <2>2. BroadcasterTypeOK'
    BY <1>2, <2>1 DEF DashInv, DashTypeOK, BroadcasterTypeOK
  <2> QED BY <1>4, <2>2 DEF DashInv, DashTypeOK, rowVars
<1>6. ChannelInv' /\ PageInv'
  <2>1. s \in subs
    BY <1>1 DEF DashInv, ChannelInv
  <2> QED BY <1>2, <2>1 DEF DashInv, ChannelInv, PageInv
<1>7. VersionInv'
  <2>1. ASSUME NEW t \in Streams, NEW i \in DOMAIN chan'[t]
        PROVE  \E k \in DOMAIN chan[t] : chan'[t][i] = chan[t][k]
    <3>1. CASE t = s
      BY <1>1, <1>2, <3>1, ChannelShrinks DEF q
    <3>2. CASE t # s
      BY <1>2, <3>2
    <3> QED BY <3>1, <3>2
  <2>2. 1 \in DOMAIN chan[s] /\ e = chan[s][1]
    BY <1>1, ChannelShrinks DEF q, e
  <2>3. ASSUME NEW j \in Jobs
        PROVE  \/ view'[j] = view[j] /\ shown'[j] = shown[j]
               \/ /\ chan[s][1].job = j
                  /\ view'[j] = Listed(chan[s][1].status) /\ shown'[j] = chan[s][1].ver
    BY <1>4, <2>2
  <2> QED BY <2>1, <2>2, <2>3, ReadersKeepVersions
<1>8. NewsInv'
  <2>1. ASSUME NEW t \in Streams, NEW j \in Jobs, j \notin behind[t]
        PROVE  /\ at[t] = "snapshot" => snap[t].ver[j] >= announced[j]
               /\ at[t] = "replay" => Informed(chan'[t], snap[t].ver[j], announced[j], j)
               /\ at[t] = "streaming" /\ cur = t
                      => Informed(chan'[t], shown'[j], announced[j], j)
    <3>0. /\ at[t] = "snapshot" => snap[t].ver[j] >= announced[j]
          /\ at[t] = "replay" => Informed(chan[t], snap[t].ver[j], announced[j], j)
          /\ at[t] = "streaming" /\ cur = t => Informed(chan[t], shown[j], announced[j], j)
          /\ announced[j] \in Nat /\ shown[j] \in Nat
      BY <2>1, DashTypes DEF DashInv, NewsInv
    <3>1. CASE t # s
      BY <1>2, <1>4, <3>0, <3>1
    <3>2. CASE t = s /\ cur # s
      BY <1>1, <3>2
    <3>3. CASE t = s /\ cur = s /\ j # e.job
      <4>1. Informed(q, shown[j], announced[j], j)
        BY <1>1, <3>0, <3>3 DEF q
      <4>2. Informed(Tail(q), shown[j], announced[j], j)
        BY <1>1, <3>0, <3>3, <4>1, ChannelShrinks DEF e, q
      <4> QED BY <1>1, <1>2, <1>4, <3>3, <4>2
    <3>4. CASE t = s /\ cur = s /\ j = e.job
      <4>1. Informed(q, shown[j], announced[j], j)
        BY <1>1, <3>0, <3>4 DEF q
      <4>2. Informed(Tail(q), e.ver, announced[j], j)
        BY <1>1, <3>0, <3>4, <4>1, ChannelShrinks DEF e, q
      <4> QED BY <1>1, <1>2, <1>4, <3>4, <4>2
    <3> QED BY <3>1, <3>2, <3>3, <3>4
  <2> QED BY <2>1 DEF NewsInv, rowVars
<1>9. OrderInv'
  <2>1. ASSUME NEW t \in Streams, NEW j \in Jobs
        PROVE  /\ cur = t /\ at[t] \in {"snapshot", "replay"} => snap[t].ver[j] >= shown'[j]
               /\ j \notin unlocked =>
                      /\ InOrder(chan'[t], j)
                      /\ at[t] = "replay" => NotOlder(chan'[t], snap[t].ver[j], j)
                      /\ at[t] = "streaming" /\ cur = t => NotOlder(chan'[t], shown'[j], j)
    <3>1. CASE t # s
      BY <1>2, <1>4, <3>1 DEF DashInv, OrderInv
    <3>2. CASE t = s
      <4>1. j \notin unlocked => InOrder(q, j) /\ (cur = s => NotOlder(q, shown[j], j))
        BY <1>1 DEF DashInv, OrderInv, q
      <4>2. /\ InOrder(q, j) => InOrder(Tail(q), j)
            /\ NotOlder(q, shown[j], j) => NotOlder(Tail(q), shown[j], j)
            /\ j = e.job /\ InOrder(q, j) => NotOlder(Tail(q), e.ver, j)
        BY <1>1, ChannelShrinks, DashTypes DEF e, q
      <4> QED BY <1>1, <1>2, <1>4, <3>2, <4>1, <4>2
    <3> QED BY <3>1, <3>2
  <2> QED BY <2>1 DEF OrderInv, rowVars
<1> QED BY <1>5, <1>6, <1>7, <1>8, <1>9 DEF DashInv

\* The body writer of a stream that is lost returns.
LEMMA CloseKeepsDash ==
  ASSUME DashInv, NEW s \in Streams, at[s] = "streaming", Close(s), UNCHANGED client,
         UNCHANGED dashVars
  PROVE  DashInv'
<1>1. /\ subs' = subs \ {s} /\ chan' = [chan EXCEPT ![s] = <<>>]
      /\ at' = [at EXCEPT ![s] = "closed"]
      /\ UNCHANGED <<client, rowVars, snap, page, cur, fails, view, shown, behind>>
  BY DEF Close, Move, dashVars, pageVars
<1>2. /\ at \in [Streams -> Positions] /\ chan \in [Streams -> Seq(Event)]
      /\ subs \subseteq Streams
      /\ \A t \in Streams : Len(chan[t]) <= Capacity
  BY DEF DashInv, DashTypeOK, BroadcasterTypeOK, ChannelInv
<1>3. /\ at' \in [Streams -> Positions] /\ chan' \in [Streams -> Seq(Event)]
      /\ at'[s] = "closed" /\ chan'[s] = <<>> /\ s \notin subs' /\ subs' \subseteq Streams
      /\ \A t \in Streams : t # s => /\ at'[t] = at[t] /\ chan'[t] = chan[t]
                                     /\ (t \in subs' <=> t \in subs)
  BY <1>1, <1>2, EmptyChannel DEF Positions
<1>4. ASSUME NEW t \in Streams PROVE Len(chan'[t]) <= Capacity
  <2>1. chan'[t] = chan[t] \/ chan'[t] = <<>>
    BY <1>3
  <2> QED BY <1>2, <2>1, EmptyChannel, BroadcasterAssumption
<1>5. DashTypeOK'
  <2>1. BroadcasterTypeOK'
    BY <1>1, <1>3, <1>4 DEF DashInv, DashTypeOK, BroadcasterTypeOK
  <2> QED BY <1>1, <2>1 DEF DashInv, DashTypeOK, rowVars
<1>6. ChannelInv' /\ PageInv'
  BY <1>1, <1>3 DEF DashInv, ChannelInv, PageInv
<1>7. VersionInv'
  <2>1. ASSUME NEW t \in Streams, NEW i \in DOMAIN chan'[t]
        PROVE  \E k \in DOMAIN chan[t] : chan'[t][i] = chan[t][k]
    BY <1>3, EmptyChannel
  <2> QED BY <1>1, <2>1, ReadersKeepVersions
<1>8. NewsInv'
  <2>1. ASSUME NEW t \in Streams, NEW j \in Jobs, j \notin behind[t]
        PROVE  /\ at'[t] = "snapshot" => snap[t].ver[j] >= announced[j]
               /\ at'[t] = "replay" => Informed(chan'[t], snap[t].ver[j], announced[j], j)
               /\ at'[t] = "streaming" /\ cur = t
                      => Informed(chan'[t], shown[j], announced[j], j)
    <3>1. CASE t = s
      BY <1>3, <3>1
    <3>2. CASE t # s
      BY <1>3, <2>1, <3>2 DEF DashInv, NewsInv
    <3> QED BY <3>1, <3>2
  <2> QED BY <1>1, <2>1 DEF NewsInv, rowVars
<1>9. OrderInv'
  <2>1. ASSUME NEW t \in Streams, NEW j \in Jobs
        PROVE  /\ cur = t /\ at'[t] \in {"snapshot", "replay"} => snap[t].ver[j] >= shown[j]
               /\ j \notin unlocked =>
                      /\ InOrder(chan'[t], j)
                      /\ at'[t] = "replay" => NotOlder(chan'[t], snap[t].ver[j], j)
                      /\ at'[t] = "streaming" /\ cur = t => NotOlder(chan'[t], shown[j], j)
    <3>1. CASE t = s
      BY <1>3, <3>1, EmptyChannel
    <3>2. CASE t # s
      BY <1>3, <3>2 DEF DashInv, OrderInv
    <3> QED BY <3>1, <3>2
  <2> QED BY <1>1, <2>1 DEF OrderInv, rowVars
<1> QED BY <1>5, <1>6, <1>7, <1>8, <1>9 DEF DashInv

LEMMA StreamKeepsDash ==
  ASSUME DashInv, NEW s \in Streams, ReadSnapshot(s) \/ DashboardStreamStep(s)
  PROVE  DashInv'
<1>1. CASE ReadSnapshot(s) \/ SubscribeDashboard(s)
  BY <1>1, ConnectKeepsDash
<1>2. CASE SendInit(s)
  BY <1>2, SendInitKeepsDash
<1>3. CASE ApplyJobStatusEvent(s)
  BY <1>3, ReceiveKeepsDash DEF ApplyJobStatusEvent
<1>4. CASE (ReceiveLost(s) \/ Keepalive(s)) /\ UNCHANGED dashVars
  <2>1. cur # s
    BY <1>4, DashTypes DEF ReceiveLost, Keepalive, Lost, DashInv, PageInv
  <2>2. CASE Receive(s) /\ UNCHANGED <<subs, at, client>>
    <3>1. /\ UNCHANGED <<subs, at, client, rowVars, snap, page, cur, fails, behind>>
          /\ UNCHANGED <<view, shown>>
      BY <1>4, <2>2 DEF dashVars, pageVars
    <3> QED BY <2>1, <2>2, <3>1, ReceiveKeepsDash
  <2>3. CASE at[s] = "streaming" /\ Close(s) /\ UNCHANGED client
    BY <1>4, <2>3, CloseKeepsDash
  <2> QED BY <1>4, <2>2, <2>3 DEF ReceiveLost, Keepalive
<1> QED BY <1>1, <1>2, <1>3, <1>4 DEF DashboardStreamStep

\* The page gives up its stream, or a poll reads or answers: no stream is read after it,
\* and the channels are as they were.
LEMMA PageKeepsDash ==
  ASSUME DashInv, PageStep
  PROVE  DashInv'
<1>1. UNCHANGED <<subs, chan, at, rowVars, behind>>
  BY DEF PageStep, ConnectFails, OnError, ConnectionBreaks, Reconnect, PollReads, PollAnswers,
         Leave, streamVars
<1>2. client' \in [Streams -> {"none", "here", "gone"}]
  BY DEF PageStep, ConnectFails, OnError, ConnectionBreaks, Reconnect, PollReads, PollAnswers,
         Leave, streamVars, GoAway, DashInv, DashTypeOK, BroadcasterTypeOK
<1>3. /\ cur' = NoStream
      /\ page' \in Pages /\ fails' \in 0 .. MaxFails
      /\ page' \in {"connecting", "open", "waiting"} => fails' < MaxFails
  <2> USE DEF DashInv, DashTypeOK, PageInv, MaxFails, Pages
  <2>1. CASE ConnectFails
    BY <2>1 DEF ConnectFails, OnError
  <2>2. CASE \E s \in Streams : ConnectionBreaks(s)
    BY <2>2, DashTypes DEF ConnectionBreaks, OnError
  <2>3. CASE Reconnect
    BY <2>3 DEF Reconnect
  <2>4. CASE PollReads \/ PollAnswers
    BY <2>4 DEF PollReads, PollAnswers
  <2>5. CASE Leave
    BY <2>5 DEF Leave
  <2> QED BY <2>1, <2>2, <2>3, <2>4, <2>5 DEF PageStep
<1>4. /\ snap' \in [Streams \cup {"poll"} -> Snapshot]
      /\ \A r \in Streams \cup {"poll"} : snap'[r] \in {snap[r], Rows, EmptySnapshot}
      /\ \A s \in Streams : snap'[s] = snap[s]
  <2>1. snap \in [Streams \cup {"poll"} -> Snapshot] /\ "poll" \notin Streams
    BY DashTypes DEF DashInv, DashTypeOK
  <2>2. \/ snap' = snap
        \/ snap' = [snap EXCEPT !["poll"] = Rows]
        \/ snap' = [snap EXCEPT !["poll"] = EmptySnapshot]
    BY DEF PageStep, ConnectFails, OnError, ConnectionBreaks, Reconnect, PollReads, PollAnswers,
           Leave
  <2> QED BY <2>1, <2>2, SnapshotsAre
<1>5. \/ UNCHANGED <<view, shown>>
      \/ \E r \in Streams \cup {"poll"} :
             view' = [j \in Jobs |-> Listed(snap[r].status[j])] /\ shown' = snap[r].ver
      \/ view' = [j \in Jobs |-> Listed("absent")] /\ shown' = [j \in Jobs |-> 0]
  <2>1. CASE PollAnswers
    BY <2>1 DEF PollAnswers, Replace
  <2>2. CASE Leave
    BY <2>2 DEF Leave, Replace, EmptySnapshot
  <2> QED BY <2>1, <2>2 DEF PageStep, ConnectFails, OnError, ConnectionBreaks, Reconnect, PollReads
<1>6. view' \in [Jobs -> RowStatuses] /\ shown' \in [Jobs -> 0 .. MaxWrites]
  <2>1. CASE UNCHANGED <<view, shown>>
    BY <2>1 DEF DashInv, DashTypeOK
  <2>2. ASSUME NEW r \in Streams \cup {"poll"},
               view' = [j \in Jobs |-> Listed(snap[r].status[j])], shown' = snap[r].ver
        PROVE  view' \in [Jobs -> RowStatuses] /\ shown' \in [Jobs -> 0 .. MaxWrites]
    <3>1. \A j \in Jobs : Listed(snap[r].status[j]) \in RowStatuses
      BY DashTypes, StatusesAre
    <3>2. snap[r].ver \in [Jobs -> 0 .. MaxWrites]
      BY DashTypes DEF Snapshot
    <3> QED BY <2>2, <3>1, <3>2
  <2>3. CASE view' = [j \in Jobs |-> Listed("absent")] /\ shown' = [j \in Jobs |-> 0]
    BY <2>3, StatusesAre, DashTypes
  <2> QED BY <1>5, <2>1, <2>2, <2>3
<1>7. DashTypeOK'
  BY <1>1, <1>2, <1>3, <1>4, <1>6 DEF DashInv, DashTypeOK, BroadcasterTypeOK, rowVars
<1>8. ChannelInv' /\ PageInv'
  BY <1>1, <1>3 DEF DashInv, ChannelInv, PageInv
<1>9. VersionInv'
  <2>1. ASSUME NEW j \in Jobs
        PROVE  \/ view'[j] = view[j] /\ shown'[j] = shown[j]
               \/ \E r \in Streams \cup {"poll"} :
                      view'[j] = Listed(snap[r].status[j]) /\ shown'[j] = snap[r].ver[j]
               \/ view'[j] = "absent" /\ shown'[j] = 0
    BY <1>5, StatusesAre
  <2> QED BY <1>1, <1>4, <2>1, ReadersKeepVersions
<1>10. NewsInv' /\ OrderInv'
  <2>1. \A s \in Streams : cur' # s
    BY <1>3, DashTypes
  <2>2. NewsInv'
    BY <1>1, <1>4, <2>1 DEF DashInv, NewsInv, rowVars
  <2>3. OrderInv'
    BY <1>1, <1>4, <2>1 DEF DashInv, OrderInv, rowVars
  <2> QED BY <2>2, <2>3
<1> QED BY <1>7, <1>8, <1>9, <1>10 DEF DashInv

LEMMA DashInductive == DashInv /\ [DashNext]_allDashVars => DashInv'
<1> SUFFICES ASSUME DashInv, [DashNext]_allDashVars PROVE DashInv'
  OBVIOUS
<1>1. CASE \E j \in Jobs : WriterStep(j)
  BY <1>1, WriterKeepsDash
<1>2. CASE PublishStatusChange
  BY <1>2, PublishKeepsDash
<1>3. CASE \E s \in Streams : ReadSnapshot(s) \/ DashboardStreamStep(s)
  BY <1>3, StreamKeepsDash
<1>4. CASE PageStep
  BY <1>4, PageKeepsDash
<1>5. CASE UNCHANGED allDashVars
  <2>1. UNCHANGED <<subs, chan, at, client, rowVars, snap, page, cur, fails, view, shown, behind>>
    BY <1>5 DEF allDashVars, streamVars, dashVars, pageVars
  <2>2. DashTypeOK'
    BY <2>1 DEF DashInv, DashTypeOK, BroadcasterTypeOK, rowVars
  <2>3. ChannelInv' /\ PageInv'
    BY <2>1 DEF DashInv, ChannelInv, PageInv
  <2>4. VersionInv'
    BY <2>1, ReadersKeepVersions
  <2>5. NewsInv' /\ OrderInv'
    BY <2>1 DEF DashInv, NewsInv, OrderInv, rowVars
  <2> QED BY <2>2, <2>3, <2>4, <2>5 DEF DashInv
<1> QED BY <1>1, <1>2, <1>3, <1>4, <1>5 DEF DashNext

LEMMA DashInvariant == DashSpec => []DashInv
BY DashInitInv, DashInductive, PTL DEF DashSpec

\* The rows, the events, the snapshots and the page of the dashboard have their types
\* always, with any number of jobs, streams and writes.
THEOREM DashTypeCorrect == DashSpec => []DashTypeOK
<1>1. DashInv => DashTypeOK
  BY DEF DashInv
<1> QED BY <1>1, DashInvariant, PTL

\* An open dashboard that differs from the row of a job waits for an event, or the last
\* write was not published, or an event of the job did not get into its channel.
THEOREM DivergenceIsExplained == DashSpec => []DivergenceExplained
<1>1. DashInv => DivergenceExplained
  <2> SUFFICES ASSUME DashInv, NEW s \in Streams, NEW j \in Jobs,
                      cur = s, at[s] = "streaming",
                      announced[j] = ver[j], Silent(chan[s], j), j \notin behind[s]
               PROVE  view[j] = Listed(row[j])
    BY DEF DivergenceExplained, Silent
  <2>1. shown[j] >= announced[j]
    BY DEF DashInv, NewsInv, Informed, LastIs, Silent
  <2>2. RowInv(j) /\ shown[j] \in Nat /\ ver[j] \in Nat
    BY DashTypes DEF DashInv, VersionInv
  <2> QED BY <2>1, <2>2 DEF RowInv
<1> QED BY <1>1, DashInvariant, PTL

\* What an open dashboard shows of a job never becomes older, over reconnects too, when
\* all writes of the job hold Manager.mu.
THEOREM PageNeverGoesBack == DashSpec => StreamsNeverGoBack
<1>1. ASSUME DashInv, [DashNext]_allDashVars, NEW j \in Jobs, page' = "open",
             j \notin unlocked'
      PROVE  shown'[j] >= shown[j]
  <2>1. shown[j] \in Nat
    BY <1>1, DashTypes
  <2>2. CASE shown' = shown
    BY <2>1, <2>2
  <2>3. ASSUME NEW s \in Streams, SendInit(s), cur = s PROVE shown'[j] >= shown[j]
    BY <1>1, <2>3 DEF SendInit, Replace, DashInv, OrderInv
  <2>4. ASSUME NEW s \in Streams, ApplyJobStatusEvent(s) PROVE shown'[j] >= shown[j]
    <3> DEFINE e == Head(chan[s])
    <3>1. /\ at[s] = "streaming" /\ cur = s /\ chan[s] # <<>> /\ chan[s] \in Seq(Event)
          /\ shown' = [shown EXCEPT ![e.job] = e.ver] /\ shown \in [Jobs -> 0 .. MaxWrites]
          /\ j \notin unlocked
      BY <1>1, <2>4, DashTypes DEF ApplyJobStatusEvent, Receive, rowVars, DashInv, DashTypeOK
    <3>2. NotOlder(chan[s], shown[j], j) /\ 1 \in DOMAIN chan[s] /\ e = chan[s][1]
      BY <1>1, <3>1, ChannelShrinks DEF DashInv, OrderInv
    <3>3. e.job = j => e.ver >= shown[j]
      BY <3>2 DEF NotOlder
    <3> HIDE DEF e
    <3> QED BY <2>1, <3>1, <3>3
  <2>5. shown' = shown
        \/ (\E s \in Streams : (SendInit(s) /\ cur = s) \/ ApplyJobStatusEvent(s))
    <3>1. CASE \E t \in Jobs : WriterStep(t)
      BY <3>1 DEF WriterStep, pageVars
    <3>2. CASE PublishStatusChange
      BY <3>2 DEF PublishStatusChange, pageVars
    <3>3. CASE \E s \in Streams : ReadSnapshot(s) \/ DashboardStreamStep(s)
      BY <3>3 DEF ReadSnapshot, DashboardStreamStep, SubscribeDashboard, SendInit, dashVars,
                  pageVars
    <3>4. CASE PageStep
      BY <1>1, <3>4 DEF PageStep, ConnectFails, OnError, ConnectionBreaks, Reconnect, PollReads,
                        PollAnswers, Leave
    <3>5. CASE UNCHANGED allDashVars
      BY <3>5 DEF allDashVars, dashVars, pageVars
    <3> QED BY <1>1, <3>1, <3>2, <3>3, <3>4, <3>5 DEF DashNext
  <2> QED BY <2>2, <2>3, <2>4, <2>5
<1>2. DashInv /\ [DashNext]_allDashVars
          => [\A j \in Jobs : page' = "open" /\ j \notin unlocked'
                 => shown'[j] >= shown[j]]_<<page, shown, unlocked>>
  BY <1>1
<1> QED BY <1>2, DashInvariant, PTL DEF DashSpec, StreamsNeverGoBack

------------------------------------------------------------------------------

(***************************************************************************)
(* Project page, for every number of deploys and writes. The invariant     *)
(* follows what the page was told of a job until it is shown: the last     *)
(* message about it is on the wire or was seen, and a job that is shown    *)
(* has the status of the last one seen.                                    *)
(***************************************************************************)

Wired == Message \cup {Nothing}

\* The counters and the wire while the page is connected or connects.
StreamInv ==
    /\ wire \in Seq(Wired)
    /\ at_page # "open" => wire = <<>>
    /\ at_page \notin {"lost", "left"} => errors < MaxErrors

\* No version of a row is known before it is written.
KnownIsWritten ==
    /\ \A j \in Deploys : told[j] <= written[j] /\ seen[j] <= written[j]
    /\ \A i \in DOMAIN wire : wire[i] \in Message => wire[i].ver <= written[wire[i].of]
    /\ listing \in Message => listing.ver <= written[listing.of]
    /\ \A j \in posts : written[j] >= 1
    /\ job # NoJob => written[job.of] >= 1

\* What the page was told of a job is the last message about it, or was read.
ToldIsSeen(j) ==
    /\ \A i \in DOMAIN wire : wire[i].of # j
    /\ told[j] = seen[j]

ToldIsWired(j) ==
    \E i \in DOMAIN wire :
        /\ wire[i].of = j
        /\ wire[i].ver = told[j]
        /\ \A k \in DOMAIN wire : k > i => wire[k].of # j

NewsArrive == at_page # "left" => \A j \in Deploys : ToldIsSeen(j) \/ ToldIsWired(j)

\* The status shown is the last one seen of its job, or that of a new deploy.
ShownIsSeen ==
    job # NoJob => job.ver = seen[job.of] \/ (adopted = "answer" /\ job.ver = 1)

\* A page without a job has opened no log, unless it has lost the job.
LogInv == job = NoJob => logOf = left_open

ProjectInv ==
    /\ ProjectTypeOK
    /\ StreamInv
    /\ KnownIsWritten
    /\ NewsArrive
    /\ ShownIsSeen
    /\ LogInv
    /\ LogsFollowJob

\* What a message says.
LEMMA MessageIs ==
  /\ \A m \in Message : /\ m.of \in Deploys /\ m.ver \in 1 .. MaxChanges /\ m.done \in BOOLEAN
                        /\ m # Nothing
  /\ Nothing.of \notin Deploys /\ Nothing.kind = "init" /\ Nothing \notin Message
  /\ MaxChanges \in Nat /\ MaxChanges >= 1
  /\ NoJob \notin JobView
BY ProjectPageAssumption DEF Message, Nothing, NoJob, JobView

\* The members of the wire.
LEMMA WireIs ==
  ASSUME wire \in Seq(Wired)
  PROVE  /\ DOMAIN wire = 1 .. Len(wire) /\ Len(wire) \in Nat
         /\ \A i \in DOMAIN wire : wire[i] \in Wired
         /\ \A m \in Wired :
                /\ Append(wire, m) \in Seq(Wired)
                /\ Len(Append(wire, m)) = Len(wire) + 1
                /\ \A i \in 1 .. Len(wire) : Append(wire, m)[i] = wire[i]
                /\ Append(wire, m)[Len(wire) + 1] = m
         /\ wire # <<>> =>
                /\ Tail(wire) \in Seq(Wired)
                /\ Len(Tail(wire)) = Len(wire) - 1
                /\ \A i \in 1 .. Len(wire) - 1 : Tail(wire)[i] = wire[i + 1]
                /\ Head(wire) = wire[1] /\ 1 \in DOMAIN wire
OBVIOUS

\* The numbers of the state.
LEMMA ProjectTypes ==
  ASSUME ProjectInv
  PROVE  /\ \A j \in Deploys : written[j] \in Nat /\ told[j] \in Nat /\ seen[j] \in Nat
         /\ job # NoJob => job \in JobView /\ job.of \in Deploys /\ job.id \in Deploys
                           /\ job.ver \in Nat
         /\ wire \in Seq(Wired) /\ errors \in Nat
BY DEF ProjectInv, ProjectTypeOK, StreamInv, JobView

LEMMA ProjectInitInv == ProjectInit => ProjectInv
<1> SUFFICES ASSUME ProjectInit PROVE ProjectInv
  OBVIOUS
<1>1. ProjectTypeOK
  BY MessageIs DEF ProjectInit, ProjectTypeOK, Places, MaxErrors
<1>2. StreamInv /\ KnownIsWritten /\ NewsArrive
  BY MessageIs DEF ProjectInit, StreamInv, KnownIsWritten, NewsArrive, ToldIsSeen, MaxErrors
<1> QED BY <1>1, <1>2 DEF ProjectInit, ProjectInv, ShownIsSeen, LogInv, LogsFollowJob

\* A row is queued or changes. The event goes to the end of the wire.
LEMMA WriteKeeps ==
  ASSUME ProjectInv, NEW j \in Deploys, Queued(j) \/ StatusChanges(j) \/ PressDeploy(j)
  PROVE  ProjectInv'
<1>1. /\ written[j] < MaxChanges
      /\ written' = [written EXCEPT ![j] = written[j] + 1]
      /\ over' \in {over, over \cup {j}}
      /\ UNCHANGED <<at_page, listing, errors, job, logOf, left_open, seen, adopted>>
      /\ posts' = posts \/ posts' = posts \cup {j}
      /\ \/ /\ at_page = "open"
            /\ wire' = Append(wire, [kind |-> "event", of |-> j, ver |-> written'[j],
                                     done |-> j \in over'])
            /\ told' = [told EXCEPT ![j] = written'[j]]
         \/ UNCHANGED <<wire, told>>
  <2>1. written \in [Deploys -> 0 .. MaxChanges] /\ MaxChanges \in Nat /\ MaxChanges >= 1
    BY MessageIs DEF ProjectInv, ProjectTypeOK
  <2>2. CASE Queued(j) \/ PressDeploy(j)
    BY <2>1, <2>2 DEF Queued, PressDeploy, viewUnchanged
  <2>3. CASE StatusChanges(j)
    BY <2>1, <2>3 DEF StatusChanges, viewUnchanged
  <2> QED BY <2>2, <2>3
<1> DEFINE m == [kind |-> "event", of |-> j, ver |-> written'[j], done |-> j \in over']
<1>2. /\ written \in [Deploys -> 0 .. MaxChanges] /\ written' \in [Deploys -> 0 .. MaxChanges]
      /\ written'[j] = written[j] + 1
      /\ \A k \in Deploys : k # j => written'[k] = written[k]
      /\ \A k \in Deploys : written'[k] \in Nat /\ written[k] <= written'[k]
  BY <1>1, MessageIs DEF ProjectInv, ProjectTypeOK
<1>3. m \in Message /\ m.of = j /\ m.ver = written'[j]
  BY <1>1, <1>2, ProjectTypes DEF Message
<1>4. m \in Wired
  BY <1>3 DEF Wired
<1> HIDE DEF m
<1>5. \/ at_page = "open" /\ wire' = Append(wire, m) /\ told' = [told EXCEPT ![j] = written'[j]]
      \/ UNCHANGED <<wire, told>>
  BY <1>1 DEF m
<1>6. /\ told' \in [Deploys -> 0 .. MaxChanges]
      /\ \A k \in Deploys : told'[k] <= written'[k]
  <2>1. /\ told \in [Deploys -> 0 .. MaxChanges]
        /\ \A k \in Deploys : told[k] <= written[k]
    BY DEF ProjectInv, ProjectTypeOK, KnownIsWritten
  <2>2. CASE told' = told
    BY <1>2, <2>1, <2>2, ProjectTypes
  <2>3. CASE told' = [told EXCEPT ![j] = written'[j]]
    BY <1>2, <2>1, <2>3, ProjectTypes
  <2> QED BY <1>5, <2>2, <2>3
<1>7. StreamInv'
  BY <1>1, <1>4, <1>5, WireIs, ProjectTypes DEF ProjectInv, StreamInv
<1>8. wire' \in Seq(Wired)
  BY <1>7 DEF StreamInv
<1>9. ProjectTypeOK'
  <2>1. \A i \in DOMAIN wire' : wire'[i] \in Message \cup {Nothing}
    BY <1>8 DEF Wired
  <2>2. posts' \subseteq Deploys /\ over' \subseteq Deploys
    BY <1>1 DEF ProjectInv, ProjectTypeOK
  <2> QED BY <1>1, <1>2, <1>6, <2>1, <2>2 DEF ProjectInv, ProjectTypeOK
<1>10. KnownIsWritten'
  <2>1. \A k \in Deploys : told'[k] <= written'[k] /\ seen'[k] <= written'[k]
    BY <1>1, <1>2, <1>6, ProjectTypes DEF ProjectInv, KnownIsWritten
  <2>2. ASSUME NEW i \in DOMAIN wire', wire'[i] \in Message
        PROVE  wire'[i].ver <= written'[wire'[i].of]
    <3>1. \/ i \in DOMAIN wire /\ wire'[i] = wire[i]
          \/ wire'[i] = m
      BY <1>4, <1>5, WireIs, ProjectTypes
    <3>2. CASE wire'[i] = m
      BY <1>2, <1>3, <3>2
    <3>3. CASE i \in DOMAIN wire /\ wire'[i] = wire[i]
      <4>1. wire[i].ver <= written[wire[i].of] /\ wire[i].of \in Deploys /\ wire[i].ver \in Nat
        BY <2>2, <3>3, MessageIs DEF ProjectInv, KnownIsWritten
      <4> QED BY <1>2, <3>3, <4>1, ProjectTypes
    <3> QED BY <3>1, <3>2, <3>3
  <2>3. listing' \in Message => listing'.ver <= written'[listing'.of]
    <3>1. listing \in Message => /\ listing.ver <= written[listing.of]
                                 /\ listing.of \in Deploys /\ listing.ver \in Nat
      BY MessageIs DEF ProjectInv, KnownIsWritten
    <3> QED BY <1>1, <1>2, <3>1, ProjectTypes
  <2>4. \A k \in posts' : written'[k] >= 1
    BY <1>1, <1>2, ProjectTypes DEF ProjectInv, ProjectTypeOK, KnownIsWritten
  <2>5. job' # NoJob => written'[job'.of] >= 1
    BY <1>1, <1>2, ProjectTypes DEF ProjectInv, KnownIsWritten
  <2> QED BY <2>1, <2>2, <2>3, <2>4, <2>5 DEF KnownIsWritten
<1>11. NewsArrive'
  <2>1. SUFFICES ASSUME at_page # "left", NEW k \in Deploys
                 PROVE  ToldIsSeen(k)' \/ ToldIsWired(k)'
    BY <1>1 DEF NewsArrive
  <2>2. ToldIsSeen(k) \/ ToldIsWired(k)
    BY <2>1 DEF ProjectInv, NewsArrive
  <2>3. CASE UNCHANGED <<wire, told>>
    BY <1>1, <2>2, <2>3 DEF ToldIsSeen, ToldIsWired
  <2>4. CASE wire' = Append(wire, m) /\ told' = [told EXCEPT ![j] = written'[j]]
    <3>1. /\ DOMAIN wire' = 1 .. Len(wire) + 1 /\ Len(wire) \in Nat
          /\ DOMAIN wire = 1 .. Len(wire)
          /\ \A i \in 1 .. Len(wire) : wire'[i] = wire[i]
          /\ wire'[Len(wire) + 1] = m
      BY <1>4, <1>8, <2>4, WireIs, ProjectTypes
    <3>2. CASE k = j
      <4>1. told'[k] = written'[j]
        BY <2>4, <3>2 DEF ProjectInv, ProjectTypeOK
      <4> QED BY <1>3, <3>1, <3>2, <4>1 DEF ToldIsWired
    <3>3. CASE k # j
      <4>1. told'[k] = told[k] /\ seen' = seen
        BY <1>1, <2>4, <3>3 DEF ProjectInv, ProjectTypeOK
      <4>2. CASE ToldIsSeen(k)
        BY <1>3, <3>1, <3>3, <4>1, <4>2 DEF ToldIsSeen
      <4>3. CASE ToldIsWired(k)
        BY <1>3, <3>1, <3>3, <4>1, <4>3 DEF ToldIsWired
      <4> QED BY <2>2, <4>2, <4>3
    <3> QED BY <3>2, <3>3
  <2> QED BY <1>5, <2>3, <2>4
<1>12. ShownIsSeen' /\ LogInv' /\ LogsFollowJob'
  BY <1>1 DEF ProjectInv, ShownIsSeen, LogInv, LogsFollowJob
<1> QED BY <1>7, <1>9, <1>10, <1>11, <1>12 DEF ProjectInv

\* What the list of active jobs says is what the rows are.
LEMMA FindingsAre ==
  ASSUME ProjectInv
  PROVE  \A m \in Findings : m \in Wired /\ (m \in Message => m.ver = written[m.of])
<1>1. ASSUME NEW j \in Deploys, written[j] > 0
      PROVE  /\ [kind |-> "init", of |-> j, ver |-> written[j], done |-> FALSE] \in Message
             /\ [kind |-> "init", of |-> j, ver |-> written[j], done |-> FALSE].ver = written[j]
             /\ [kind |-> "init", of |-> j, ver |-> written[j], done |-> FALSE].of = j
  BY <1>1, MessageIs DEF ProjectInv, ProjectTypeOK, Message
<1> QED BY <1>1, MessageIs DEF Findings, Wired

LEMMA EmptySeqIs == /\ <<>> \in Seq(Wired)
                    /\ DOMAIN <<>> = {}
OBVIOUS

\* The page is connected anew, or not at all: what it was told is what it has seen.
LEMMA PageKeeps ==
  ASSUME ProjectInv,
         ReadProject \/ ReadQueue \/ StreamFails \/ StreamAgain \/ ClosePage
  PROVE  ProjectInv'
<1>1. /\ UNCHANGED <<written, over, seen>>
      /\ at_page' \in Places
      /\ at_page' # "open"
      /\ wire' = <<>>
      /\ posts' \subseteq posts
      /\ errors' \in 0 .. MaxErrors
      /\ at_page' \notin {"lost", "left"} => errors' < MaxErrors
      /\ told' \in {told, seen}
      /\ listing' \in {listing, Nothing} \cup Findings
      /\ at_page' # "left" => told' = seen
      /\ \/ UNCHANGED <<job, logOf, left_open, adopted>>
         \/ /\ job' = NoJob /\ logOf' = NoDeploy /\ left_open' = NoDeploy
            /\ adopted' = "nothing"
  <2>1. /\ at_page # "open" => wire = <<>>
        /\ at_page \notin {"lost", "left"} => errors < MaxErrors
        /\ errors \in 0 .. MaxErrors /\ MaxErrors = 5
    BY DEF ProjectInv, StreamInv, ProjectTypeOK, MaxErrors
  <2>2. at_page \notin {"open", "left"} => told = seen
    <3>1. ASSUME at_page \notin {"open", "left"} PROVE \A j \in Deploys : told[j] = seen[j]
      BY <2>1, <3>1, EmptySeqIs DEF ProjectInv, NewsArrive, ToldIsSeen, ToldIsWired
    <3> QED BY <3>1 DEF ProjectInv, ProjectTypeOK
  <2>3. CASE ReadProject \/ ReadQueue
    BY <2>1, <2>2, <2>3 DEF ReadProject, ReadQueue, rowsUnchanged, viewUnchanged, Places
  <2>4. CASE StreamFails
    BY <2>1, <2>4 DEF StreamFails, rowsUnchanged, viewUnchanged, Places
  <2>5. CASE StreamAgain
    BY <2>1, <2>2, <2>5 DEF StreamAgain, rowsUnchanged, viewUnchanged, Places
  <2>6. CASE ClosePage
    BY <2>1, <2>6 DEF ClosePage, rowsUnchanged, Places
  <2> QED BY <2>3, <2>4, <2>5, <2>6
<1>2. /\ listing' \in Wired
      /\ listing' \in Message => listing'.ver <= written'[listing'.of]
  <2>1. \A m \in Findings : /\ m \in Wired
                            /\ m \in Message => m.ver <= written[m.of]
    BY FindingsAre, MessageIs, ProjectTypes
  <2> QED BY <1>1, <2>1, MessageIs DEF ProjectInv, ProjectTypeOK, KnownIsWritten, Wired
<1>3. ProjectTypeOK' /\ StreamInv'
  BY <1>1, <1>2, EmptySeqIs DEF ProjectInv, ProjectTypeOK, StreamInv, Wired
<1>4. KnownIsWritten'
  BY <1>1, <1>2, EmptySeqIs DEF ProjectInv, KnownIsWritten
<1>5. NewsArrive'
  BY <1>1, EmptySeqIs DEF NewsArrive, ToldIsSeen
<1>6. ShownIsSeen' /\ LogInv' /\ LogsFollowJob'
  BY <1>1 DEF ProjectInv, ShownIsSeen, LogInv, LogsFollowJob
<1> QED BY <1>3, <1>4, <1>5, <1>6 DEF ProjectInv

\* The queue's answer is shown; the page then connects.
LEMMA QueueAnswerKeeps ==
  ASSUME ProjectInv, QueueAnswer
  PROVE  ProjectInv'
<1>1. /\ at_page \in {"shown", "listed"} /\ at_page' = "connecting" /\ listing' = Nothing
      /\ UNCHANGED <<wire, errors, posts, written, over>>
      /\ wire = <<>> /\ wire' = <<>> /\ errors < MaxErrors
  BY DEF QueueAnswer, rowsUnchanged, ProjectInv, StreamInv
<1>2. told = seen
  <2>1. \A j \in Deploys : told[j] = seen[j]
    BY <1>1 DEF ProjectInv, NewsArrive, ToldIsSeen, ToldIsWired
  <2> QED BY <2>1 DEF ProjectInv, ProjectTypeOK
<1> DEFINE Shows ==
             /\ listing \in Message
             /\ job' = [id |-> listing.of, of |-> listing.of, ver |-> listing.ver,
                        done |-> listing.done]
             /\ logOf' = listing.of /\ adopted' = "queue" /\ left_open' = left_open
             /\ seen' = [seen EXCEPT ![listing.of] = listing.ver]
           Forgets == job' = NoJob /\ left_open' = logOf /\ logOf' = logOf
                      /\ seen' = seen /\ adopted' = "nothing"
           Reopens == /\ UNCHANGED <<job, left_open, seen, adopted>>
                      /\ logOf' = IF job = NoJob THEN logOf ELSE job.id
<1>3. told' = seen' /\ (Shows \/ Forgets \/ Reopens)
  BY <1>2 DEF QueueAnswer, Show, See, ProjectInv, ProjectTypeOK
<1>4. CASE Forgets \/ Reopens
  <2>1. /\ job' \in JobView \cup {NoJob} /\ (job' = NoJob \/ job' = job)
        /\ logOf' \in Deploys \cup {NoDeploy} /\ left_open' \in Deploys \cup {NoDeploy}
        /\ adopted' \in {adopted, "nothing"} /\ seen' = seen /\ told' = told
    BY <1>2, <1>3, <1>4, ProjectTypes DEF ProjectInv, ProjectTypeOK
  <2>2. ProjectTypeOK' /\ StreamInv'
    BY <1>1, <2>1, MessageIs DEF ProjectInv, ProjectTypeOK, StreamInv, Places
  <2>3. KnownIsWritten' /\ NewsArrive'
    BY <1>1, <1>2, <2>1, MessageIs, EmptySeqIs
       DEF ProjectInv, KnownIsWritten, NewsArrive, ToldIsSeen
  <2>4. ShownIsSeen'
    BY <1>4 DEF ProjectInv, ShownIsSeen
  <2>5. LogInv' /\ LogsFollowJob'
    BY <1>4 DEF ProjectInv, LogInv, LogsFollowJob
  <2> QED BY <2>2, <2>3, <2>4, <2>5 DEF ProjectInv
<1>5. CASE Shows
  <2>1. /\ listing.of \in Deploys /\ listing.ver \in 1 .. MaxChanges
        /\ listing.done \in BOOLEAN /\ listing.ver <= written[listing.of]
    BY <1>5, MessageIs DEF ProjectInv, KnownIsWritten
  <2>2. job' \in JobView /\ job'.id = listing.of /\ job'.of = listing.of
        /\ job'.ver = listing.ver
    BY <1>5, <2>1 DEF JobView
  <2>3. /\ seen' \in [Deploys -> 0 .. MaxChanges]
        /\ seen'[listing.of] = listing.ver
        /\ \A j \in Deploys : seen'[j] <= written[j]
    <3>1. /\ seen \in [Deploys -> 0 .. MaxChanges]
          /\ \A j \in Deploys : seen[j] <= written[j]
      BY DEF ProjectInv, ProjectTypeOK, KnownIsWritten
    <3>2. seen' = [seen EXCEPT ![listing.of] = listing.ver]
      BY <1>5
    <3> QED BY <2>1, <3>1, <3>2, MessageIs, ProjectTypes
  <2>4. ProjectTypeOK' /\ StreamInv'
    BY <1>1, <1>3, <1>5, <2>1, <2>2, <2>3 DEF ProjectInv, ProjectTypeOK, StreamInv, Places
  <2>5. KnownIsWritten'
    BY <1>1, <1>3, <2>1, <2>2, <2>3, MessageIs, EmptySeqIs, ProjectTypes
       DEF ProjectInv, KnownIsWritten
  <2>6. NewsArrive'
    BY <1>1, <1>3, EmptySeqIs DEF NewsArrive, ToldIsSeen
  <2>7. ShownIsSeen' /\ LogInv' /\ LogsFollowJob'
    BY <1>5, <2>2, <2>3, MessageIs DEF ShownIsSeen, LogInv, LogsFollowJob
  <2> QED BY <2>4, <2>5, <2>6, <2>7 DEF ProjectInv
<1> QED BY <1>3, <1>4, <1>5

\* The stream begins with what the rows are.
LEMMA StreamOpensKeeps ==
  ASSUME ProjectInv, StreamOpens
  PROVE  ProjectInv'
<1>1. PICK m \in Findings :
          /\ wire' = <<m>>
          /\ told' = IF m = Nothing THEN told ELSE [told EXCEPT ![m.of] = m.ver]
  BY DEF StreamOpens
<1>2. /\ at_page = "connecting" /\ at_page' = "open" /\ errors' = 0
      /\ UNCHANGED <<listing, posts, written, over, job, logOf, left_open, seen, adopted>>
      /\ wire = <<>>
  BY DEF StreamOpens, rowsUnchanged, viewUnchanged, ProjectInv, StreamInv
<1>3. \A j \in Deploys : told[j] = seen[j]
  BY <1>2, EmptySeqIs DEF ProjectInv, NewsArrive, ToldIsSeen, ToldIsWired
<1>4. m \in Wired /\ (m \in Message => m.ver = written[m.of])
  BY FindingsAre
<1>5. /\ wire' \in Seq(Wired) /\ DOMAIN wire' = {1} /\ wire'[1] = m
  BY <1>1, <1>4
<1>6. /\ told' \in [Deploys -> 0 .. MaxChanges]
      /\ \A j \in Deploys : told'[j] <= written[j]
      /\ \A j \in Deploys : m.of # j => told'[j] = told[j]
      /\ m \in Message => told'[m.of] = m.ver
  <2>1. /\ told \in [Deploys -> 0 .. MaxChanges]
        /\ \A j \in Deploys : told[j] <= written[j]
    BY DEF ProjectInv, ProjectTypeOK, KnownIsWritten
  <2>2. CASE m = Nothing
    BY <1>1, <2>1, <2>2, MessageIs
  <2>3. CASE m # Nothing
    <3>1. /\ m \in Message /\ m.of \in Deploys /\ m.ver \in 1 .. MaxChanges
          /\ m.ver = written[m.of]
      BY <1>4, <2>3, MessageIs DEF Wired
    <3>2. told' = [told EXCEPT ![m.of] = m.ver]
      BY <1>1, <2>3
    <3> QED BY <2>1, <3>1, <3>2, MessageIs, ProjectTypes
  <2> QED BY <2>2, <2>3
<1>7. ProjectTypeOK' /\ StreamInv'
  BY <1>2, <1>4, <1>5, <1>6 DEF ProjectInv, ProjectTypeOK, StreamInv, Places, Wired, MaxErrors
<1>8. KnownIsWritten'
  BY <1>2, <1>4, <1>5, <1>6, MessageIs, ProjectTypes DEF ProjectInv, KnownIsWritten
<1>9. NewsArrive'
  <2>1. ASSUME NEW j \in Deploys PROVE ToldIsSeen(j)' \/ ToldIsWired(j)'
    <3>1. CASE m.of = j
      <4>1. m \in Message
        BY <1>4, <3>1, MessageIs DEF Wired
      <4> QED BY <1>5, <1>6, <3>1, <4>1 DEF ToldIsWired
    <3>2. CASE m.of # j
      BY <1>2, <1>3, <1>5, <1>6, <3>2 DEF ToldIsSeen
    <3> QED BY <3>1, <3>2
  <2> QED BY <2>1 DEF NewsArrive
<1>10. ShownIsSeen' /\ LogInv' /\ LogsFollowJob'
  BY <1>2 DEF ProjectInv, ShownIsSeen, LogInv, LogsFollowJob
<1> QED BY <1>7, <1>8, <1>9, <1>10 DEF ProjectInv

\* The page reads what comes next: the row it is about is the one it has seen.
LEMMA ReadMessageKeeps ==
  ASSUME ProjectInv, ReadMessage
  PROVE  ProjectInv'
<1> DEFINE m == Head(wire)
<1>1. /\ at_page = "open" /\ wire # <<>> /\ wire' = Tail(wire)
      /\ UNCHANGED <<at_page, listing, errors, posts, told, written, over,
                  left_open>>
      /\ IF m.kind = "init" THEN ApplyInit(m) ELSE ApplyJobEvent(m)
      /\ IF m = Nothing THEN UNCHANGED seen ELSE See(m)
  BY DEF ReadMessage, rowsUnchanged
<1>2. /\ DOMAIN wire = 1 .. Len(wire) /\ Len(wire) \in Nat /\ Len(wire) >= 1
      /\ wire' \in Seq(Wired) /\ DOMAIN wire' = 1 .. Len(wire) - 1
      /\ \A i \in 1 .. Len(wire) - 1 : wire'[i] = wire[i + 1]
      /\ m = wire[1] /\ m \in Wired
  BY <1>1, WireIs, ProjectTypes
<1> HIDE DEF m
<1>3. m = Nothing => UNCHANGED <<job, logOf, adopted, seen>>
  BY <1>1, MessageIs DEF ApplyInit
<1>4. m # Nothing =>
          /\ m \in Message /\ m.of \in Deploys /\ m.ver \in 1 .. MaxChanges
          /\ m.done \in BOOLEAN /\ m.ver <= written[m.of]
  BY <1>2, MessageIs DEF Wired, ProjectInv, KnownIsWritten
<1>5. m # Nothing =>
          /\ job' \in JobView /\ job'.of = m.of /\ job'.ver = m.ver
          /\ logOf' \in Deploys \cup {NoDeploy}
          /\ adopted' \in {adopted, "init", "event", "end"}
          /\ seen' \in [Deploys -> 0 .. MaxChanges]
          /\ seen'[m.of] = m.ver
          /\ \A j \in Deploys : j # m.of => seen'[j] = seen[j]
  <2> SUFFICES ASSUME m # Nothing
               PROVE  /\ job' \in JobView /\ job'.of = m.of /\ job'.ver = m.ver
                      /\ logOf' \in Deploys \cup {NoDeploy}
                      /\ adopted' \in {adopted, "init", "event", "end"}
                      /\ seen' \in [Deploys -> 0 .. MaxChanges]
                      /\ seen'[m.of] = m.ver
                      /\ \A j \in Deploys : j # m.of => seen'[j] = seen[j]
    OBVIOUS
  <2>1. seen' = [seen EXCEPT ![m.of] = m.ver] /\ seen \in [Deploys -> 0 .. MaxChanges]
    BY <1>1 DEF See, ProjectInv, ProjectTypeOK
  <2>2. \/ /\ job' = [id |-> m.of, of |-> m.of, ver |-> m.ver, done |-> m.done]
           /\ logOf' \in {logOf, m.of} /\ adopted' \in {"init", "event", "end"}
        \/ /\ job # NoJob
           /\ job' = [job EXCEPT !.of = m.of, !.ver = m.ver, !.done = m.done]
           /\ UNCHANGED <<logOf, adopted>>
    BY <1>1 DEF ApplyInit, ApplyJobEvent
  <2>3. job' \in JobView /\ job'.of = m.of /\ job'.ver = m.ver
    <3>1. m.of \in Deploys /\ m.ver \in 1 .. MaxChanges /\ m.done \in BOOLEAN
      BY <1>4
    <3> DEFINE o == m.of
               v == m.ver
               d == m.done
    <3>2. o \in Deploys /\ v \in 1 .. MaxChanges /\ d \in BOOLEAN
      BY <3>1
    <3>3. \/ job' = [id |-> o, of |-> o, ver |-> v, done |-> d]
          \/ job \in JobView /\ job' = [job EXCEPT !.of = o, !.ver = v, !.done = d]
      BY <2>2, ProjectTypes
    <3> HIDE DEF o, v, d
    <3>4. job' \in JobView /\ job'.of = o /\ job'.ver = v
      <4>1. CASE job' = [id |-> o, of |-> o, ver |-> v, done |-> d]
        BY <3>2, <4>1 DEF JobView
      <4>2. CASE job \in JobView /\ job' = [job EXCEPT !.of = o, !.ver = v, !.done = d]
        BY <3>2, <4>2 DEF JobView
      <4> QED BY <3>3, <4>1, <4>2
    <3> QED BY <3>4 DEF o, v
  <2>4. logOf' \in Deploys \cup {NoDeploy} /\ adopted' \in {adopted, "init", "event", "end"}
    BY <1>4, <2>2 DEF ProjectInv, ProjectTypeOK
  <2> QED BY <1>4, <2>1, <2>3, <2>4, MessageIs
<1>6. ProjectTypeOK'
  <2>1. \A i \in DOMAIN wire' : wire'[i] \in Message \cup {Nothing}
    BY <1>2 DEF Wired
  <2> QED BY <1>1, <1>3, <1>5, <2>1 DEF ProjectInv, ProjectTypeOK
<1>7. StreamInv'
  BY <1>1, <1>2 DEF ProjectInv, StreamInv
<1>8. KnownIsWritten'
  <2>1. \A i \in DOMAIN wire' : i + 1 \in DOMAIN wire /\ wire'[i] = wire[i + 1]
    BY <1>2
  <2>2. \A i \in DOMAIN wire' : wire'[i] \in Message => wire'[i].ver <= written[wire'[i].of]
    BY <2>1 DEF ProjectInv, KnownIsWritten
  <2>3. \A j \in Deploys : seen'[j] <= written[j]
    BY <1>3, <1>4, <1>5, ProjectTypes DEF ProjectInv, KnownIsWritten
  <2>4. job' # NoJob => written[job'.of] >= 1
    BY <1>3, <1>4, <1>5, ProjectTypes DEF ProjectInv, KnownIsWritten
  <2> QED BY <1>1, <2>2, <2>3, <2>4 DEF ProjectInv, KnownIsWritten
<1>9. NewsArrive'
  <2>1. ASSUME NEW j \in Deploys PROVE ToldIsSeen(j)' \/ ToldIsWired(j)'
    <3>1. CASE ToldIsSeen(j)
      <4>1. m.of # j
        BY <1>2, <3>1 DEF ToldIsSeen
      <4>2. seen'[j] = seen[j]
        BY <1>3, <1>5, <4>1
      <4> QED BY <1>1, <1>2, <3>1, <4>2 DEF ToldIsSeen
    <3>2. CASE ToldIsWired(j)
      <4>1. PICK i \in DOMAIN wire : /\ wire[i].of = j /\ wire[i].ver = told[j]
                                     /\ \A k \in DOMAIN wire : k > i => wire[k].of # j
        BY <3>2 DEF ToldIsWired
      <4>2. CASE i = 1
        <5>1. m # Nothing /\ m.of = j /\ m.ver = told[j]
          BY <1>2, <4>1, <4>2, MessageIs
        <5>2. seen'[j] = told[j]
          BY <1>5, <5>1
        <5>3. \A k \in DOMAIN wire' : wire'[k].of # j
          BY <1>2, <4>1, <4>2
        <5> QED BY <1>1, <5>2, <5>3 DEF ToldIsSeen
      <4>3. CASE i # 1
        <5>1. i - 1 \in DOMAIN wire' /\ wire'[i - 1] = wire[i]
          BY <1>2, <4>3
        <5>2. \A k \in DOMAIN wire' : k > i - 1 => wire'[k].of # j
          BY <1>2, <4>1
        <5> QED BY <1>1, <4>1, <5>1, <5>2 DEF ToldIsWired
      <4> QED BY <4>2, <4>3
    <3> QED BY <1>1, <2>1, <3>1, <3>2 DEF ProjectInv, NewsArrive
  <2> QED BY <2>1 DEF NewsArrive
<1>10. ShownIsSeen'
  BY <1>3, <1>5, MessageIs DEF ProjectInv, ShownIsSeen
<1>11. LogInv' /\ LogsFollowJob'
  <2>1. CASE m = Nothing
    BY <1>1, <1>3, <2>1 DEF ProjectInv, LogInv, LogsFollowJob
  <2>2. CASE m # Nothing
    <3>1. job' # NoJob /\ NoDeploy \notin Deploys
      BY <1>5, <2>2, MessageIs, ProjectPageAssumption
    <3>2. LogsFollowJob'
      <4>1. CASE ApplyInit(m)
        BY <1>4, <2>2, <3>1, <4>1 DEF ApplyInit, LogsFollowJob
      <4>2. CASE ApplyJobEvent(m)
        <5>1. CASE job = NoJob
          BY <1>1, <1>4, <2>2, <3>1, <4>2, <5>1
             DEF ApplyJobEvent, LogsFollowJob, LogInv, ProjectInv
        <5>2. CASE job # NoJob
          <6>1. /\ job' = [job EXCEPT !.of = m.of, !.ver = m.ver, !.done = m.done]
                /\ UNCHANGED <<logOf, adopted>> /\ job \in JobView
            BY <4>2, <5>2, ProjectTypes DEF ApplyJobEvent
          <6>2. job'.id = job.id
            BY <6>1 DEF JobView
          <6> QED BY <1>1, <5>2, <6>1, <6>2 DEF LogsFollowJob, ProjectInv
        <5> QED BY <5>1, <5>2
      <4> QED BY <1>1, <4>1, <4>2
    <3> QED BY <3>1, <3>2 DEF LogInv
  <2> QED BY <2>1, <2>2
<1> QED BY <1>6, <1>7, <1>8, <1>9, <1>10, <1>11 DEF ProjectInv

\* The answer to the deploy button shows the new job as it was queued.
LEMMA DeployIsQueuedKeeps ==
  ASSUME ProjectInv, NEW j \in Deploys, DeployIsQueued(j)
  PROVE  ProjectInv'
<1>1. /\ j \in posts /\ posts' = posts \ {j}
      /\ UNCHANGED <<at_page, listing, wire, errors, told, written, over, seen, left_open>>
      /\ \/ /\ job' = [id |-> j, of |-> j, ver |-> 1, done |-> FALSE]
            /\ logOf' = j /\ adopted' = "answer"
         \/ UNCHANGED <<job, logOf, adopted>>
  BY DEF DeployIsQueued, Show, rowsUnchanged, viewUnchanged
<1>2. [id |-> j, of |-> j, ver |-> 1, done |-> FALSE] \in JobView
  BY MessageIs DEF JobView
<1>3. ProjectTypeOK'
  BY <1>1, <1>2 DEF ProjectInv, ProjectTypeOK
<1>4. StreamInv' /\ NewsArrive'
  BY <1>1 DEF ProjectInv, StreamInv, NewsArrive, ToldIsSeen, ToldIsWired
<1>5. KnownIsWritten'
  BY <1>1 DEF ProjectInv, KnownIsWritten
<1>6. ShownIsSeen' /\ LogInv' /\ LogsFollowJob'
  <2>1. CASE UNCHANGED <<job, logOf, adopted>>
    BY <1>1, <2>1 DEF ProjectInv, ShownIsSeen, LogInv, LogsFollowJob
  <2>2. CASE ~UNCHANGED <<job, logOf, adopted>>
    <3>1. /\ job' # NoJob /\ job'.id = j /\ job'.ver = 1
          /\ logOf' = j /\ adopted' = "answer"
      <4>1. /\ job' = [id |-> j, of |-> j, ver |-> 1, done |-> FALSE]
            /\ logOf' = j /\ adopted' = "answer"
        BY <1>1, <2>2
      <4>2. job' \in JobView /\ job'.id = j /\ job'.ver = 1
        BY <1>2, <4>1
      <4> QED BY <4>1, <4>2, MessageIs
    <3> QED BY <3>1 DEF ShownIsSeen, LogInv, LogsFollowJob
  <2> QED BY <2>1, <2>2
<1> QED BY <1>3, <1>4, <1>5, <1>6 DEF ProjectInv

LEMMA ProjectInductive == ProjectSpec => []ProjectInv
<1>1. ASSUME ProjectInv, [ProjectNext]_projectVars PROVE ProjectInv'
  <2>1. CASE UNCHANGED projectVars
    <3>1. ProjectTypeOK' /\ StreamInv' /\ KnownIsWritten'
      BY <1>1, <2>1 DEF projectVars, ProjectInv, ProjectTypeOK, StreamInv, KnownIsWritten
    <3>2. NewsArrive' /\ ShownIsSeen' /\ LogInv' /\ LogsFollowJob'
      BY <1>1, <2>1 DEF projectVars, ProjectInv, NewsArrive, ToldIsSeen, ToldIsWired,
         ShownIsSeen, LogInv, LogsFollowJob
    <3> QED BY <3>1, <3>2 DEF ProjectInv
  <2> QED BY <1>1, <2>1, WriteKeeps, PageKeeps, QueueAnswerKeeps, StreamOpensKeeps,
             ReadMessageKeeps, DeployIsQueuedKeeps DEF ProjectNext
<1> QED BY <1>1, ProjectInitInv, PTL DEF ProjectSpec

\* The variables of the page keep their types.
THEOREM ProjectTypeCorrect == ProjectSpec => []ProjectTypeOK
<1>1. ProjectInv => ProjectTypeOK
  BY DEF ProjectInv
<1> QED BY <1>1, ProjectInductive, PTL

\* For any number of deploys: the log on the page is the log of the job it shows,
\* but for the two cases that the property names.
THEOREM LogsAreOfJob == ProjectSpec => []LogsFollowJob
<1>1. ProjectInv => LogsFollowJob
  BY DEF ProjectInv
<1> QED BY <1>1, ProjectInductive, PTL

\* For any number of deploys and writes: the status on an open page is the present
\* one, unless the news is on its way, was not sent, or is older than an answer.
THEOREM ShownIsExplained == ProjectSpec => []JobShownExplained
<1>1. ASSUME ProjectInv PROVE JobShownExplained
  <2> SUFFICES ASSUME job # NoJob, at_page = "open", told[job.of] >= written[job.of],
                      job.ver # written[job.of]
               PROVE  \/ \E i \in DOMAIN wire : wire[i].of = job.of /\ wire[i].ver > job.ver
                      \/ adopted = "answer" /\ job.ver = 1 /\ seen[job.of] > 1
    BY <1>1, ProjectTypes DEF JobShownExplained
  <2> DEFINE j == job.of
  <2>1. /\ j \in Deploys /\ job.ver \in Nat /\ told[j] = written[j] /\ seen[j] <= written[j]
        /\ written[j] \in Nat /\ seen[j] \in Nat /\ written[j] >= 1
    BY <1>1, ProjectTypes DEF ProjectInv, KnownIsWritten
  <2>2. job.ver = seen[j] \/ (adopted = "answer" /\ job.ver = 1)
    BY <1>1 DEF ProjectInv, ShownIsSeen
  <2>3. ToldIsSeen(j) \/ ToldIsWired(j)
    BY <1>1, <2>1 DEF ProjectInv, NewsArrive
  <2> HIDE DEF j
  <2>4. CASE ToldIsSeen(j)
    BY <2>1, <2>2, <2>4 DEF ToldIsSeen, j
  <2>5. CASE ToldIsWired(j)
    <3>1. job.ver < written[j]
      BY <2>1, <2>2 DEF j
    <3> QED BY <2>1, <2>5, <3>1 DEF ToldIsWired, j
  <2> QED BY <2>3, <2>4, <2>5
<1> QED BY <1>1, ProjectInductive, PTL

------------------------------------------------------------------------------

(***************************************************************************)
(* List of deployments, for every set of queries and number of pages. The  *)
(* invariant says which query and page every request, answer and count     *)
(* belongs to.                                                             *)
(***************************************************************************)

\* Requests are numbered in the order they are sent.
NumbersInOrder ==
    /\ \A r \in flight : r.id <= sent
    /\ rows.id <= sent
    /\ started => sent > 0

\* The last request, and its answer, are for the controls as they are.
LatestIsCurrent ==
    /\ \A r \in flight : r.id = sent => r.query = query /\ r.page = pageNo
    /\ sent > 0 /\ rows.id = sent => rows.query = query /\ rows.page = pageNo

\* n pages are not more than q has, unless rows of q went away.
NotMore(n, q) == q \in shrunk \/ n <= matching[q]

\* Every count is of the past of its own query.
CountsAreOfQuery ==
    /\ \A r \in flight : r.read => NotMore(r.count, r.query)
    /\ rows.id > 0 => NotMore(total, rows.query)
    /\ rows.id = 0 => rows.query = NoQuery

\* A page that was compared with a total of the present query is a page of it, for
\* the rows, for the answer under way and for the total that is shown.
PageIsOfQuery ==
    checkedFor = query /\ pageNo > 1 =>
        /\ NotMore(pageNo, query)
        /\ \A r \in flight :
               r.read /\ r.id = sent => query \in shrunk \/ pageNo <= r.count
        /\ rows.id = sent => query \in shrunk \/ pageNo <= total

TableInv ==
    /\ TableTypeOK
    /\ NumbersInOrder
    /\ LatestIsCurrent
    /\ CountsAreOfQuery
    /\ PageIsOfQuery

LEMMA TableInitInv == TableInit => TableInv
<1> SUFFICES ASSUME TableInit PROVE TableInv
  OBVIOUS
<1>1. rows = NoRows /\ rows.id = 0 /\ rows.query = NoQuery
  BY DEF TableInit, NoRows
<1>2. TableTypeOK
  <2>1. 1 \in 1 .. MaxPages /\ 0 \in 0 .. MaxPages /\ 0 \in 0 .. MaxRequests
    BY DataTableAssumption
  <2> QED BY <1>1, <2>1 DEF TableInit, TableTypeOK
<1> QED BY <1>1, <1>2 DEF TableInit, TableInv, NumbersInOrder, LatestIsCurrent,
           CountsAreOfQuery, PageIsOfQuery

\* The numbers of the members of the state.
LEMMA TableTypes ==
  ASSUME TableInv
  PROVE  /\ pageNo \in Nat /\ total \in Nat /\ sent \in Nat /\ rows.id \in Nat
         /\ \A q \in Queries : matching[q] \in Nat
         /\ \A r \in flight :
                /\ r.id \in Nat /\ r.id > 0 /\ r.count \in Nat /\ r.query \in Queries
                /\ r \in TableRequest /\ r.read \in BOOLEAN
         /\ rows.id > 0 => rows.query \in Queries
         /\ MaxPages \in Nat \ {0} /\ MaxRequests \in Nat \ {0} /\ NoQuery \notin Queries
BY DataTableAssumption DEF TableInv, TableTypeOK, TableRequest, NoRows

\* Rows come and go: the only counts that they falsify are of queries in shrunk.
LEMMA RowsKeep ==
  ASSUME TableInv, NEW q \in Queries, RowsAppear(q) \/ RowsVanish(q)
  PROVE  TableInv'
<1>1. /\ UNCHANGED <<query, pageNo, total, rows, typed, flight, sent, started, failed,
                  checkedFor>>
      /\ shrunk \subseteq shrunk' /\ shrunk' \subseteq Queries
      /\ matching' \in [Queries -> 0 .. MaxPages]
      /\ \A p \in Queries : p \in shrunk' \/ matching[p] <= matching'[p]
  BY TableTypes DEF RowsAppear, RowsVanish, TableInv, TableTypeOK
<1>2. \A p \in Queries, n \in Nat : NotMore(n, p) => NotMore(n, p)'
  BY <1>1, TableTypes DEF NotMore, TableInv, TableTypeOK
<1>3. TableTypeOK' /\ NumbersInOrder' /\ LatestIsCurrent'
  BY <1>1 DEF TableInv, TableTypeOK, NumbersInOrder, LatestIsCurrent
<1>4. CountsAreOfQuery'
  BY <1>1, <1>2, TableTypes DEF TableInv, CountsAreOfQuery
<1>5. PageIsOfQuery'
  BY <1>1, <1>2, TableTypes DEF TableInv, TableTypeOK, PageIsOfQuery
<1> QED BY <1>3, <1>4, <1>5 DEF TableInv

\* A request is sent for the controls as they are by then; the page is the first, or
\* one that was compared with the total of the rows.
LEMMA LoadKeeps ==
  ASSUME TableInv, NEW q \in Queries, NEW n \in 1 .. MaxPages, LoadFor(q, n),
         query' = q, pageNo' = n,
         UNCHANGED <<matching, total, rows, shrunk>>, started' \in BOOLEAN,
         typed' \in Queries \cup {NoQuery},
         checkedFor' \in Queries \cup {NoQuery},
         checkedFor' = q /\ n > 1 => NotMore(n, q)
  PROVE  TableInv'
<1> DEFINE r0 == [id |-> sent + 1, query |-> q, page |-> n, count |-> 0, read |-> FALSE]
<1>1. /\ flight' = flight \cup {r0} /\ sent' = sent + 1 /\ sent < MaxRequests
      /\ failed' = FALSE
  BY DEF LoadFor
<1>2. /\ r0.id = sent + 1 /\ r0.query = q /\ r0.page = n /\ ~r0.read
      /\ r0 \in TableRequest
  BY <1>1, TableTypes DEF TableRequest, TableInv, TableTypeOK
<1> HIDE DEF r0
<1>3. TableTypeOK'
  <2>1. flight' \subseteq TableRequest /\ sent' \in 0 .. MaxRequests
    BY <1>1, <1>2, TableTypes DEF TableInv, TableTypeOK
  <2>2. matching' \in [Queries -> 0 .. MaxPages] /\ total' \in 0 .. MaxPages
    BY DEF TableInv, TableTypeOK
  <2> QED BY <1>1, <2>1, <2>2 DEF TableInv, TableTypeOK
<1>4. NumbersInOrder' /\ LatestIsCurrent'
  BY <1>1, <1>2, TableTypes DEF TableInv, NumbersInOrder, LatestIsCurrent
<1>5. CountsAreOfQuery'
  BY <1>1, <1>2 DEF TableInv, CountsAreOfQuery, NotMore
<1>6. PageIsOfQuery'
  BY <1>1, <1>2, TableTypes DEF TableInv, NumbersInOrder, PageIsOfQuery, NotMore
<1> QED BY <1>3, <1>4, <1>5, <1>6 DEF TableInv

\* A request is read, answered or lost.
LEMMA AnswerKeeps ==
  ASSUME TableInv, NEW r \in flight,
         ListDeployments(r) \/ Answer(r) \/ LoadFails(r)
  PROVE  TableInv'
<1>1. CASE ListDeployments(r)
  <2> DEFINE a == Answered(r)
  <2>1. /\ a.id = r.id /\ a.query = r.query /\ a.page = r.page /\ a.read
        /\ a.count = matching[r.query] /\ a \in TableRequest
    BY TableTypes DEF Answered, TableRequest, TableInv, TableTypeOK
  <2>2. /\ flight' = (flight \ {r}) \cup {a}
        /\ UNCHANGED <<matching, query, pageNo, total, rows, typed, sent, started, failed,
                   checkedFor, shrunk>>
    BY <1>1 DEF ListDeployments
  <2> HIDE DEF a
  <2>3. TableTypeOK' /\ NumbersInOrder' /\ LatestIsCurrent'
    BY <2>1, <2>2 DEF TableInv, TableTypeOK, NumbersInOrder, LatestIsCurrent
  <2>4. CountsAreOfQuery'
    BY <2>1, <2>2, TableTypes DEF TableInv, CountsAreOfQuery, NotMore
  <2>5. PageIsOfQuery'
    BY <2>1, <2>2, TableTypes DEF TableInv, PageIsOfQuery, LatestIsCurrent, NotMore
  <2> QED BY <2>3, <2>4, <2>5 DEF TableInv
<1>2. CASE Answer(r)
  <2>1. /\ r.read /\ flight' = flight \ {r}
        /\ rows' = [id |-> r.id, query |-> r.query, page |-> r.page]
        /\ total' = r.count
        /\ UNCHANGED <<matching, query, pageNo, typed, sent, started, failed, checkedFor,
                   shrunk>>
    BY <1>2 DEF Answer
  <2>2. TableTypeOK'
    BY <2>1 DEF TableInv, TableTypeOK, TableRequest
  <2>3. NumbersInOrder' /\ LatestIsCurrent'
    BY <2>1 DEF TableInv, NumbersInOrder, LatestIsCurrent
  <2>4. CountsAreOfQuery'
    BY <2>1, TableTypes DEF TableInv, CountsAreOfQuery, NotMore
  <2>5. PageIsOfQuery'
    BY <2>1 DEF TableInv, PageIsOfQuery, NotMore
  <2> QED BY <2>2, <2>3, <2>4, <2>5 DEF TableInv
<1>3. CASE LoadFails(r)
  <2>1. /\ flight' = flight \ {r} /\ failed' \in BOOLEAN
        /\ UNCHANGED <<matching, query, pageNo, total, rows, typed, sent, started,
                   checkedFor, shrunk>>
    BY <1>3 DEF LoadFails, TableInv, TableTypeOK
  <2>2. TableTypeOK'
    BY <2>1 DEF TableInv, TableTypeOK
  <2>3. NumbersInOrder' /\ LatestIsCurrent' /\ CountsAreOfQuery' /\ PageIsOfQuery'
    BY <2>1 DEF TableInv, NumbersInOrder, LatestIsCurrent, CountsAreOfQuery,
       PageIsOfQuery, NotMore
  <2> QED BY <2>2, <2>3 DEF TableInv
<1> QED BY <1>1, <1>2, <1>3

\* The controls.
LEMMA ControlKeeps ==
  ASSUME TableInv, [TableNext]_tableVars,
         ~\E q \in Queries : RowsAppear(q) \/ RowsVanish(q),
         ~\E r \in flight : ListDeployments(r) \/ Answer(r) \/ LoadFails(r)
  PROVE  TableInv'
<1>0. 1 \in 1 .. MaxPages
  BY TableTypes
<1>1. CASE FirstLoad
  <2>1. /\ LoadFor(query, pageNo) /\ query \in Queries /\ pageNo \in 1 .. MaxPages
        /\ UNCHANGED <<matching, query, pageNo, total, rows, typed, checkedFor, shrunk>>
        /\ started' \in BOOLEAN
    BY <1>1 DEF FirstLoad, TableInv, TableTypeOK
  <2>2. checkedFor' = query /\ pageNo > 1 => NotMore(pageNo, query)
    BY <2>1 DEF TableInv, PageIsOfQuery
  <2> QED BY <2>1, <2>2, LoadKeeps DEF TableInv, TableTypeOK
<1>2. ASSUME NEW q \in Queries, SetQuery(q), typed' \in Queries \cup {NoQuery},
             UNCHANGED <<matching, total, rows, started>>
      PROVE  TableInv'
  <2>1. /\ LoadFor(q, 1) /\ query' = q /\ pageNo' = 1 /\ checkedFor' = NoQuery
        /\ shrunk' = shrunk /\ started' \in BOOLEAN
    BY <1>2 DEF SetQuery, TableInv, TableTypeOK
  <2>2. checkedFor' = q /\ 1 > 1 => NotMore(1, q)
    BY <2>1, TableTypes
  <2> QED BY <1>0, <1>2, <2>1, <2>2, LoadKeeps
<1>3. CASE SearchTimer
  BY <1>2, <1>3 DEF SearchTimer, TableInv, TableTypeOK
<1>4. ASSUME NEW q \in Queries, SetFilter(q) PROVE TableInv'
  BY <1>2, <1>4 DEF SetFilter, TableInv, TableTypeOK
<1>5. ASSUME NEW q \in Queries, SetSearch(q) PROVE TableInv'
  BY <1>5 DEF SetSearch, TableInv, TableTypeOK, NumbersInOrder, LatestIsCurrent,
     CountsAreOfQuery, PageIsOfQuery, NotMore
<1>6. ASSUME NEW n \in 1 .. MaxPages, SetPage(n) PROVE TableInv'
  <2>1. /\ LoadFor(query, n) /\ query' = query /\ pageNo' = n /\ query \in Queries
        /\ checkedFor' = rows.query /\ n <= totalPages
        /\ UNCHANGED <<matching, total, rows, typed, shrunk>> /\ started' \in BOOLEAN
    BY <1>6 DEF SetPage, TableInv, TableTypeOK
  <2>2. checkedFor' = query /\ n > 1 => NotMore(n, query)
    BY <2>1, TableTypes DEF TableInv, CountsAreOfQuery, NotMore, totalPages
  <2>3. /\ checkedFor' \in Queries \cup {NoQuery}
        /\ typed' \in Queries \cup {NoQuery}
    BY <2>1, TableTypes DEF TableInv, TableTypeOK, CountsAreOfQuery
  <2> QED BY <2>1, <2>2, <2>3, LoadKeeps
<1>7. CASE UNCHANGED tableVars
  BY <1>7 DEF tableVars, TableInv, TableTypeOK, NumbersInOrder, LatestIsCurrent,
     CountsAreOfQuery, PageIsOfQuery, NotMore
<1> QED BY <1>1, <1>3, <1>4, <1>5, <1>6, <1>7 DEF TableNext

LEMMA TableInductive == TableSpec => []TableInv
<1>1. TableInv /\ [TableNext]_tableVars => TableInv'
  BY RowsKeep, AnswerKeeps, ControlKeeps
<1> QED BY <1>1, TableInitInv, PTL DEF TableSpec

\* The variables of the list keep their types.
THEOREM TableTypeCorrect == TableSpec => []TableTypeOK
<1>1. TableInv => TableTypeOK
  BY DEF TableInv
<1> QED BY <1>1, TableInductive, PTL

\* For any number of queries, pages and requests, in whatever order the answers come:
\* a table at rest shows what its controls name, or one of the named reasons holds.
THEOREM RowsAreExplained == TableSpec => []RowsExplained
<1>1. TableInv => RowsExplained
  BY TableTypes DEF TableInv, NumbersInOrder, LatestIsCurrent, PageIsOfQuery,
     RowsExplained, Settled, LastAnswerShown, totalPages
<1> QED BY <1>1, TableInductive, PTL

------------------------------------------------------------------------------

\* A behaviour of one part is a behaviour of every part: the others stand still.
LEMMA PartsAreParts ==
  PartSpec => /\ DashSpec /\ ProjectSpec /\ TableSpec
              /\ RateSpec /\ HealthSpec /\ ServiceSpec
<1>1. PartInit => /\ DashInit /\ ProjectInit /\ TableInit
                  /\ RateInit /\ HealthInit /\ ServiceInit
  BY DEF PartInit
<1>2. [PartNext]_allVars => /\ [DashNext]_allDashVars /\ [ProjectNext]_projectVars
                            /\ [TableNext]_tableVars /\ [RateNext]_rateVars
                            /\ [HealthNext]_healthVars /\ [ServiceNext]_serviceVars
  BY DEF PartNext, allVars, PageOnly
<1> QED BY <1>1, <1>2, PTL
        DEF PartSpec, DashSpec, ProjectSpec, TableSpec, RateSpec, HealthSpec, ServiceSpec

\* Every part has the types of its variables, whichever part a behaviour is about.
THEOREM PagesTypeCorrect == PartSpec => []PagesTypeOK
<1>1. DashTypeOK /\ ProjectTypeOK /\ TableTypeOK /\ RateTypeOK /\ HealthTypeOK /\ ServiceTypeOK
          => PagesTypeOK
  BY DEF PagesTypeOK
<1> QED BY <1>1, PartsAreParts, DashTypeCorrect, ProjectTypeCorrect, TableTypeCorrect,
           RateTypeCorrect, HealthTypeCorrect, ServiceTypeCorrect, PTL
=============================================================================
