------------------------------ MODULE RateLimit ------------------------------
(***************************************************************************)
(* The per-address limiter in front of the login and the webhook           *)
(* (internal/api/http/middleware/ratelimit.go): a count per address that   *)
(* starts again when its window is over, and a goroutine that forgets      *)
(* windows that are over. One process: the buckets live in memory.         *)
(*                                                                         *)
(* The mutex makes the bucket update of a request one step, and a sweep    *)
(* another. Time is counted in ticks.                                      *)
(***************************************************************************)
EXTENDS Integers, Sequences

CONSTANTS
    Addresses,
    NoHeader,     \* no X-Forwarded-For header
    TrustProxy,   \* FALSE in the code: bootstrap does not set it
    MaxReq,       \* requests per window: 5 for the login, 60 for the webhook
    Window,       \* ticks of a window: one minute in the code
    MaxTime,      \* bound: last tick
    MaxCount      \* bound: requests counted in one window

ASSUME RateLimitAssumption ==
    /\ NoHeader \notin Addresses
    /\ TrustProxy \in BOOLEAN
    /\ MaxReq \in Nat \ {0}
    /\ Window \in Nat \ {0}
    /\ MaxTime \in Nat
    /\ MaxCount \in Nat

VARIABLES
    now,
    buckets,    \* the addresses with a bucket
    count,      \* bucket.count
    resetAt,    \* bucket.resetAt
    sweeper,    \* "on" until the done channel is closed
    accepted    \* history: per address, when each request was let through and
                \* when the window it was counted in was opened

rateVars == <<now, buckets, count, resetAt, sweeper, accepted>>

Acceptance == [time : Nat, opened : Nat]

RateTypeOK ==
    /\ now \in Nat
    /\ buckets \subseteq Addresses
    /\ count \in [Addresses -> Nat]
    /\ resetAt \in [Addresses -> Nat]
    /\ sweeper \in {"on", "off"}
    /\ accepted \in [Addresses -> Seq(Acceptance)]

RateInit ==
    /\ now = 0
    /\ buckets = {}
    /\ count = [a \in Addresses |-> 0]
    /\ resetAt = [a \in Addresses |-> 0]
    /\ sweeper = "on"
    /\ accepted = [a \in Addresses |-> <<>>]

------------------------------------------------------------------------------

Tick ==
    /\ now < MaxTime
    /\ now' = now + 1
    /\ UNCHANGED <<buckets, count, resetAt, sweeper, accepted>>

\* The address a request is counted for: the first one of the header only behind
\* a proxy that is trusted, which no caller asks for at this commit. (The header's
\* memory belongs to the request; the model counts for a copy of it.)
clientIP(socket, header) ==
    IF TrustProxy /\ header # NoHeader THEN header ELSE socket

\* now.After(b.resetAt)
Over(a) == now > resetAt[a]

\* Mutant: every request pushes the end of the window.
BucketSliding(a) ==
    IF a \notin buckets \/ Over(a)
    THEN [count |-> 1, resetAt |-> now + Window]
    ELSE [count |-> count[a] + 1, resetAt |-> now + Window]

\* The bucket a request of a is counted in, after it has been counted.
Bucket(a) ==
    IF a \notin buckets \/ Over(a)
    THEN [count |-> 1, resetAt |-> now + Window]
    ELSE [count |-> count[a] + 1, resetAt |-> resetAt[a]]

\* A request is counted also when it is refused.
Request(a) ==
    LET b == Bucket(a) IN
        /\ b.count <= MaxCount
        /\ buckets' = buckets \cup {a}
        /\ count' = [count EXCEPT ![a] = b.count]
        /\ resetAt' = [resetAt EXCEPT ![a] = b.resetAt]
        /\ accepted' = IF b.count > MaxReq THEN accepted
                       ELSE [accepted EXCEPT ![a] = Append(@,
                                [time |-> now, opened |-> b.resetAt - Window])]
        /\ UNCHANGED <<now, sweeper>>

\* Mutant: the sweep forgets every bucket.
SweepAll ==
    /\ sweeper = "on"
    /\ buckets' = {}
    /\ UNCHANGED <<now, count, resetAt, sweeper, accepted>>

\* The ticker of the cleanup goroutine, every five minutes in the code: any
\* number of ticks here.
Sweep ==
    /\ sweeper = "on"
    /\ buckets' = {a \in buckets : ~Over(a)}
    /\ UNCHANGED <<now, count, resetAt, sweeper, accepted>>

\* ShutdownCh is closed; requests in flight are still counted.
SweeperStops ==
    /\ sweeper = "on"
    /\ sweeper' = "off"
    /\ UNCHANGED <<now, buckets, count, resetAt, accepted>>

RateNext ==
    \/ Tick
    \/ \E socket \in Addresses, header \in Addresses \cup {NoHeader} :
           Request(clientIP(socket, header))
    \/ Sweep
    \/ SweeperStops

RateSpec == RateInit /\ [][RateNext]_rateVars

------------------------------------------------------------------------------

\* However its requests are placed around the ends of windows and around
\* sweeps, an address gets at most twice MaxReq requests through in a time
\* as long as one window: of two acceptances that are 2 * MaxReq apart, the
\* later one comes more than a window after the earlier one. Twice, and not
\* once as "5 attempts/min" has it: two windows may touch.
WindowBound ==
    \A a \in Addresses : \A k \in DOMAIN accepted[a] :
        k + 2 * MaxReq \in DOMAIN accepted[a]
            => accepted[a][k + 2 * MaxReq].time > accepted[a][k].time + Window

\* The next request of a would be refused.
Exhausted(a) == a \in buckets /\ ~Over(a) /\ count[a] >= MaxReq

\* A client is refused only when MaxReq of its requests were let through not
\* longer than a window ago: going on to ask while it is refused costs it
\* nothing, and what it used in windows that are over does not count.
RefusedOnlyWhenSpent ==
    \A a \in Addresses :
        Exhausted(a) =>
            /\ Len(accepted[a]) >= MaxReq
            /\ accepted[a][Len(accepted[a]) - MaxReq + 1].time + Window >= now
==============================================================================
