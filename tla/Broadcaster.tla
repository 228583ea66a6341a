----------------------------- MODULE Broadcaster -----------------------------
(***************************************************************************)
(* One topic of sse.Broadcaster and the goroutines of its SSE responses    *)
(* (internal/api/sse/stream.go).                                           *)
(*                                                                         *)
(* Publish holds the read lock over its loop, Subscribe and unsub hold the *)
(* write lock, and no send blocks: each of them is one step. A stream is   *)
(* one request; its client may be gone long before a write fails.          *)
(***************************************************************************)
EXTENDS Naturals, Sequences

CONSTANTS
    Streams,   \* requests for one topic
    Capacity   \* of a subscriber's channel: 64 in the code

ASSUME BroadcasterAssumption == Capacity \in Nat \ {0}

VARIABLES
    subs,   \* the streams subscribed to the topic
    chan,   \* the channel of each stream
    at,     \* where the handler or the body writer of each stream is
    client  \* "none" before the request, "here", "gone"

streamVars == <<subs, chan, at, client>>

\* "snapshot": the rows are read (dashboard only). "replay": subscribed, the
\* body writer has not yet written the snapshot or the log file.
Positions == {"idle", "snapshot", "replay", "streaming", "closed"}

BroadcasterTypeOK ==
    /\ subs \subseteq Streams
    /\ DOMAIN chan = Streams
    /\ \A s \in Streams : Len(chan[s]) <= Capacity
    /\ at \in [Streams -> Positions]
    /\ client \in [Streams -> {"none", "here", "gone"}]

BroadcasterInit ==
    /\ subs = {}
    /\ chan = [s \in Streams |-> <<>>]
    /\ at = [s \in Streams |-> "idle"]
    /\ client = [s \in Streams |-> "none"]

------------------------------------------------------------------------------

Full(s) == Len(chan[s]) = Capacity

\* Mutant: a buffer that grows instead of the default branch that drops.
PublishUnbounded(msg) ==
    chan' = [s \in Streams |-> IF s \in subs THEN Append(chan[s], msg)
                                             ELSE chan[s]]

\* A message that finds a channel full is dropped.
Publish(msg) ==
    chan' = [s \in Streams |-> IF s \in subs /\ ~Full(s)
                               THEN Append(chan[s], msg) ELSE chan[s]]

\* The subscribers a message published now does not reach.
Dropping == {s \in subs : Full(s)}

Move(s, to) == at' = [at EXCEPT ![s] = to]

Subscribe(s) == subs' = subs \cup {s}

\* The body writer returns: unsub removes and closes the channel.
Close(s) ==
    /\ subs' = subs \ {s}
    /\ chan' = [chan EXCEPT ![s] = <<>>]
    /\ Move(s, "closed")

Receive(s) ==
    /\ at[s] = "streaming"
    /\ chan[s] # <<>>
    /\ chan' = [chan EXCEPT ![s] = Tail(@)]

\* A write to a client that is gone fails, or disappears in a buffer.
Lost(s) == client[s] = "gone"

\* A received message is written to a client that is gone.
ReceiveLost(s) ==
    /\ Lost(s)
    /\ at[s] = "streaming"
    /\ chan[s] # <<>>
    /\ \/ Receive(s) /\ UNCHANGED <<subs, at, client>>
       \/ Close(s) /\ UNCHANGED client

\* Mutant: no ticker, so that only messages find out that the client is gone.
NoKeepalive(s) ==
    /\ Lost(s)
    /\ at[s] = "streaming"
    /\ chan[s] # <<>>
    /\ Close(s)
    /\ UNCHANGED client

\* The keepalive of every 15 s meets the broken connection.
Keepalive(s) ==
    /\ Lost(s)
    /\ at[s] = "streaming"
    /\ Close(s)
    /\ UNCHANGED client

\* The client closes its EventSource, or the connection breaks.
GoAway(s) ==
    /\ client[s] = "here"
    /\ client' = [client EXCEPT ![s] = "gone"]

\* A stream whose client is gone is found out and unsubscribed, also when
\* nothing is published any more (streamFromChannelBufio).
SubscriptionsReclaimed ==
    \A s \in Streams : client[s] = "gone" ~> s \notin subs
==============================================================================
