---------------------------- MODULE ServerProofs ----------------------------
(***************************************************************************)
(* The parts beside the deploys: the rate limiter, the choice of a health  *)
(* check and the service. Each part has its inductive invariant first, then*)
(* what its steps keep of it, then the theorems.                           *)
(***************************************************************************)
EXTENDS RateLimit, HealthMode, Service, SequenceTheorems, TLAPS

(***************************************************************************)
(* Rate limiter, for every number of requests, window and address. The     *)
(* invariant says how the history of an address falls into windows:        *)
(* acceptances of one window lie inside it, windows open more than a window*)
(* apart, at most MaxReq acceptances share one, and the bucket's count     *)
(* tells how many are in the present one.                                  *)
(***************************************************************************)

\* Acceptances of one window lie between its opening and its end.
InsideWindow(a) ==
    \A i \in DOMAIN accepted[a] :
        /\ accepted[a][i].opened <= accepted[a][i].time
        /\ accepted[a][i].time <= accepted[a][i].opened + Window
        /\ accepted[a][i].opened <= now

\* The history goes through one window after another.
WindowsApart(a) ==
    \A i, j \in DOMAIN accepted[a] :
        i < j => \/ accepted[a][i].opened = accepted[a][j].opened
                 \/ accepted[a][j].opened > accepted[a][i].opened + Window

\* No window has more than MaxReq acceptances.
WindowHoldsMaxReq(a) ==
    \A i \in DOMAIN accepted[a] :
        i + MaxReq \in DOMAIN accepted[a]
            => accepted[a][i + MaxReq].opened > accepted[a][i].opened + Window

\* The acceptances that the bucket's count stands for.
Used(a) == IF count[a] < MaxReq THEN count[a] ELSE MaxReq

\* The last Used(a) acceptances are those of the bucket's window.
CountIsOfWindow(a) ==
    a \in buckets =>
        /\ count[a] >= 1
        /\ resetAt[a] >= Window
        /\ resetAt[a] - Window <= now
        /\ Used(a) <= Len(accepted[a])
        /\ \A i \in DOMAIN accepted[a] :
               IF i > Len(accepted[a]) - Used(a)
               THEN accepted[a][i].opened = resetAt[a] - Window
               ELSE accepted[a][i].opened + Window < resetAt[a] - Window

\* An address without a bucket used windows that are over.
ForgottenIsOver(a) ==
    a \notin buckets =>
        \A i \in DOMAIN accepted[a] : accepted[a][i].opened + Window < now

AddressInv(a) ==
    /\ InsideWindow(a)
    /\ WindowsApart(a)
    /\ WindowHoldsMaxReq(a)
    /\ CountIsOfWindow(a)
    /\ ForgottenIsOver(a)

RateInv == RateTypeOK /\ \A a \in Addresses : AddressInv(a)

------------------------------------------------------------------------------

LEMMA RateInitInv == RateInit => RateInv
BY RateLimitAssumption DEF RateInit, RateInv, RateTypeOK, Acceptance, AddressInv,
   InsideWindow, WindowsApart, WindowHoldsMaxReq, CountIsOfWindow, ForgottenIsOver

\* The members of a history.
LEMMA HistoryTypes ==
  ASSUME NEW s \in Seq(Acceptance)
  PROVE  /\ DOMAIN s = 1 .. Len(s)
         /\ Len(s) \in Nat
         /\ \A i \in DOMAIN s : s[i].time \in Nat /\ s[i].opened \in Nat
<1>1. DOMAIN s = 1 .. Len(s) /\ Len(s) \in Nat
  OBVIOUS
<1>2. ASSUME NEW i \in DOMAIN s PROVE s[i].time \in Nat /\ s[i].opened \in Nat
  <2>1. s[i] \in Acceptance
    OBVIOUS
  <2> QED BY <2>1 DEF Acceptance
<1> QED BY <1>1, <1>2

\* Time passes, a sweep, the end of the sweeper: the histories stay.
LEMMA QuietKeepsRateInv ==
  ASSUME RateInv, Tick \/ Sweep \/ SweeperStops
  PROVE  RateInv'
<1>1. RateTypeOK'
  BY DEF RateInv, RateTypeOK, Tick, Sweep, SweeperStops
<1>2. ASSUME NEW a \in Addresses PROVE AddressInv(a)'
  <2>1. /\ AddressInv(a)
        /\ now \in Nat /\ now' \in Nat /\ now <= now'
        /\ accepted' = accepted /\ count' = count /\ resetAt' = resetAt
        /\ a \in buckets' => a \in buckets
        /\ a \in buckets /\ a \notin buckets' => Over(a) /\ now' = now
        /\ accepted[a] \in Seq(Acceptance)
        /\ resetAt[a] \in Nat /\ Window \in Nat
    BY RateLimitAssumption DEF RateInv, RateTypeOK, Tick, Sweep, SweeperStops
  <2>2. \A i \in DOMAIN accepted[a] : /\ accepted[a][i].time \in Nat
                                      /\ accepted[a][i].opened \in Nat
    BY <2>1, HistoryTypes
  <2>3. InsideWindow(a)'
    BY <2>1, <2>2 DEF AddressInv, InsideWindow
  <2>4. WindowsApart(a)' /\ WindowHoldsMaxReq(a)'
    BY <2>1 DEF AddressInv, WindowsApart, WindowHoldsMaxReq
  <2>5. CountIsOfWindow(a)'
    BY <2>1, <2>2 DEF AddressInv, CountIsOfWindow, Used
  <2>6. ForgottenIsOver(a)'
    <3>1. CASE a \notin buckets
      BY <3>1, <2>1, <2>2 DEF AddressInv, ForgottenIsOver
    <3>2. CASE a \in buckets
      <4>1. \A i \in DOMAIN accepted[a] :
                accepted[a][i].opened + Window <= resetAt[a]
        BY <3>2, <2>1, <2>2 DEF AddressInv, CountIsOfWindow
      <4>2. a \notin buckets' => now > resetAt[a] /\ now' = now
        BY <3>2, <2>1 DEF Over
      <4> QED BY <4>1, <4>2, <2>1, <2>2 DEF ForgottenIsOver
    <3> QED BY <3>1, <3>2
  <2> QED BY <2>3, <2>4, <2>5, <2>6 DEF AddressInv
<1> QED BY <1>1, <1>2 DEF RateInv

\* A history with one more acceptance.
LEMMA HistoryGrows ==
  ASSUME NEW s \in Seq(Acceptance), NEW e \in Acceptance
  PROVE  /\ Append(s, e) \in Seq(Acceptance)
         /\ DOMAIN Append(s, e) = 1 .. Len(s) + 1
         /\ Len(Append(s, e)) = Len(s) + 1
         /\ \A i \in 1 .. Len(s) : Append(s, e)[i] = s[i]
         /\ Append(s, e)[Len(s) + 1] = e
OBVIOUS

\* A request that opens a window: what the address used before is over.
LEMMA FirstOfWindowKeepsAddressInv ==
  ASSUME RateInv, NEW b \in Addresses, Request(b), b \notin buckets \/ Over(b)
  PROVE  AddressInv(b)'
<1> DEFINE s == accepted[b]
           e == [time |-> now, opened |-> now]
           n == Len(s)
           t == accepted'[b]
<1>1. /\ now \in Nat /\ Window \in Nat /\ MaxReq \in Nat /\ MaxReq >= 1
      /\ s \in Seq(Acceptance) /\ now' = now /\ AddressInv(b)
  BY RateLimitAssumption DEF RateInv, RateTypeOK, Request
<1>2. /\ b \in buckets' /\ count'[b] = 1 /\ resetAt'[b] = now + Window
      /\ t = Append(s, e) /\ e \in Acceptance
  <2>1. Bucket(b) = [count |-> 1, resetAt |-> now + Window]
    BY DEF Bucket
  <2>2. ~(1 > MaxReq) /\ now + Window - Window = now
    BY <1>1
  <2> QED BY <2>1, <2>2, <1>1 DEF Request, RateInv, RateTypeOK, Acceptance
<1>3. /\ n \in Nat /\ DOMAIN s = 1 .. n
      /\ \A i \in 1 .. n : s[i].time \in Nat /\ s[i].opened \in Nat
  BY <1>1, HistoryTypes
<1>4. /\ DOMAIN t = 1 .. n + 1 /\ Len(t) = n + 1
      /\ \A i \in 1 .. n : t[i] = s[i]
      /\ t[n + 1].time = now /\ t[n + 1].opened = now
  BY <1>1, <1>2, HistoryGrows
<1>5. \A i \in 1 .. n : s[i].opened + Window < now
  <2>1. CASE b \notin buckets
    BY <2>1, <1>1, <1>3 DEF AddressInv, ForgottenIsOver
  <2>2. CASE b \in buckets
    <3>1. now > resetAt[b] /\ resetAt[b] \in Nat
      BY <2>2 DEF Over, RateInv, RateTypeOK
    <3>2. ASSUME NEW i \in 1 .. n PROVE s[i].opened + Window <= resetAt[b]
      <4>1. \/ s[i].opened = resetAt[b] - Window
            \/ s[i].opened + Window < resetAt[b] - Window
        BY <2>2, <1>1, <1>3 DEF AddressInv, CountIsOfWindow
      <4> QED BY <4>1, <3>1, <1>1, <1>3
    <3> QED BY <3>1, <3>2, <1>1, <1>3
  <2> QED BY <2>1, <2>2
<1> HIDE DEF s, e, n, t
<1>6. InsideWindow(b)'
  <2>1. \A i \in 1 .. n : /\ s[i].opened <= s[i].time
                          /\ s[i].time <= s[i].opened + Window
                          /\ s[i].opened <= now
    BY <1>1, <1>3 DEF AddressInv, InsideWindow, s
  <2> QED BY <2>1, <1>1, <1>3, <1>4 DEF InsideWindow, t
<1>7. WindowsApart(b)'
  <2>1. \A i, j \in 1 .. n :
            i < j => s[i].opened = s[j].opened \/ s[j].opened > s[i].opened + Window
    BY <1>1, <1>3 DEF AddressInv, WindowsApart, s
  <2>2. ASSUME NEW i \in 1 .. n + 1, NEW j \in 1 .. n + 1, i < j
        PROVE  t[i].opened = t[j].opened \/ t[j].opened > t[i].opened + Window
    <3>1. i \in 1 .. n /\ (j \in 1 .. n \/ j = n + 1)
      BY <2>2, <1>3
    <3> QED BY <3>1, <2>1, <2>2, <1>1, <1>3, <1>4, <1>5
  <2> QED BY <2>2, <1>1, <1>4 DEF WindowsApart, t
<1>8. WindowHoldsMaxReq(b)'
  <2>1. \A i \in 1 .. n :
            i + MaxReq \in 1 .. n => s[i + MaxReq].opened > s[i].opened + Window
    BY <1>1, <1>3 DEF AddressInv, WindowHoldsMaxReq, s
  <2>2. ASSUME NEW i \in 1 .. n + 1, i + MaxReq \in 1 .. n + 1
        PROVE  t[i + MaxReq].opened > t[i].opened + Window
    <3>1. i \in 1 .. n /\ (i + MaxReq \in 1 .. n \/ i + MaxReq = n + 1)
      BY <2>2, <1>1, <1>3
    <3> QED BY <3>1, <2>1, <2>2, <1>1, <1>3, <1>4, <1>5
  <2> QED BY <2>2, <1>1, <1>4 DEF WindowHoldsMaxReq, t
<1>9. CountIsOfWindow(b)'
  <2>1. Used(b)' = 1
    BY <1>1, <1>2 DEF Used
  <2> QED BY <2>1, <1>1, <1>2, <1>3, <1>4, <1>5 DEF CountIsOfWindow, t
<1>10. ForgottenIsOver(b)'
  BY <1>2 DEF ForgottenIsOver
<1> QED BY <1>6, <1>7, <1>8, <1>9, <1>10 DEF AddressInv

\* A request that is let through in a window that is not over.
LEMMA NextOfWindowKeepsAddressInv ==
  ASSUME RateInv, NEW b \in Addresses, Request(b), b \in buckets, ~Over(b),
         count[b] + 1 <= MaxReq
  PROVE  AddressInv(b)'
<1> DEFINE s == accepted[b]
           e == [time |-> now, opened |-> resetAt[b] - Window]
           n == Len(s)
           t == accepted'[b]
<1>1. /\ now \in Nat /\ Window \in Nat /\ MaxReq \in Nat /\ MaxReq >= 1
      /\ count[b] \in Nat /\ resetAt[b] \in Nat
      /\ s \in Seq(Acceptance) /\ now' = now /\ AddressInv(b)
      /\ now <= resetAt[b]
  BY RateLimitAssumption DEF RateInv, RateTypeOK, Request, Over
<1>2. n \in Nat /\ DOMAIN s = 1 .. n
      /\ \A i \in 1 .. n : s[i].time \in Nat /\ s[i].opened \in Nat
  BY <1>1, HistoryTypes
<1>3. /\ count[b] >= 1 /\ resetAt[b] >= Window /\ resetAt[b] - Window <= now
      /\ count[b] <= n
      /\ \A i \in 1 .. n :
             IF i > n - count[b] THEN s[i].opened = resetAt[b] - Window
             ELSE s[i].opened + Window < resetAt[b] - Window
  <2>1. Used(b) = count[b]
    BY <1>1 DEF Used
  <2> QED BY <2>1, <1>1, <1>2 DEF AddressInv, CountIsOfWindow
<1>4. /\ b \in buckets' /\ count'[b] = count[b] + 1 /\ resetAt'[b] = resetAt[b]
      /\ t = Append(s, e) /\ e \in Acceptance
  <2>1. Bucket(b) = [count |-> count[b] + 1, resetAt |-> resetAt[b]]
    BY DEF Bucket
  <2>2. ~(count[b] + 1 > MaxReq) /\ resetAt[b] - Window \in Nat
    BY <1>1, <1>3
  <2> QED BY <2>1, <2>2, <1>1 DEF Request, RateInv, RateTypeOK, Acceptance
<1>5. /\ DOMAIN t = 1 .. n + 1 /\ Len(t) = n + 1
      /\ \A i \in 1 .. n : t[i] = s[i]
      /\ t[n + 1].time = now /\ t[n + 1].opened = resetAt[b] - Window
  BY <1>1, <1>4, HistoryGrows
<1> HIDE DEF s, e, n, t
<1>6. InsideWindow(b)'
  <2>1. \A i \in 1 .. n : /\ s[i].opened <= s[i].time
                          /\ s[i].time <= s[i].opened + Window
                          /\ s[i].opened <= now
    BY <1>1, <1>2 DEF AddressInv, InsideWindow, s
  <2>2. ASSUME NEW i \in 1 .. n + 1
        PROVE  /\ t[i].opened <= t[i].time
               /\ t[i].time <= t[i].opened + Window
               /\ t[i].opened <= now
    <3>1. CASE i \in 1 .. n
      BY <3>1, <2>1, <1>5
    <3>2. CASE i = n + 1
      BY <3>2, <1>1, <1>3, <1>5
    <3> QED BY <3>1, <3>2, <1>2
  <2> QED BY <2>2, <1>1, <1>5 DEF InsideWindow, t
<1>7. WindowsApart(b)'
  <2>1. \A i, j \in 1 .. n :
            i < j => s[i].opened = s[j].opened \/ s[j].opened > s[i].opened + Window
    BY <1>1, <1>2 DEF AddressInv, WindowsApart, s
  <2>2. ASSUME NEW i \in 1 .. n + 1, NEW j \in 1 .. n + 1, i < j
        PROVE  t[i].opened = t[j].opened \/ t[j].opened > t[i].opened + Window
    <3>1. i \in 1 .. n /\ (j \in 1 .. n \/ j = n + 1)
      BY <2>2, <1>2
    <3>2. CASE j \in 1 .. n
      BY <3>1, <3>2, <2>1, <2>2, <1>5
    <3>3. CASE j = n + 1
      BY <3>1, <3>3, <1>1, <1>2, <1>3, <1>5
    <3> QED BY <3>1, <3>2, <3>3
  <2> QED BY <2>2, <1>1, <1>5 DEF WindowsApart, t
<1>8. WindowHoldsMaxReq(b)'
  <2>1. \A i \in 1 .. n :
            i + MaxReq \in 1 .. n => s[i + MaxReq].opened > s[i].opened + Window
    BY <1>1, <1>2 DEF AddressInv, WindowHoldsMaxReq, s
  <2>2. ASSUME NEW i \in 1 .. n + 1, i + MaxReq \in 1 .. n + 1
        PROVE  t[i + MaxReq].opened > t[i].opened + Window
    <3>1. CASE i + MaxReq \in 1 .. n
      <4>1. i \in 1 .. n
        BY <3>1, <1>1, <1>2
      <4> QED BY <4>1, <3>1, <2>1, <1>5
    <3>2. CASE i + MaxReq = n + 1
      <4>1. i \in 1 .. n /\ ~(i > n - count[b])
        BY <3>2, <1>1, <1>2
      <4> QED BY <4>1, <3>2, <1>1, <1>2, <1>3, <1>5
    <3> QED BY <3>1, <3>2, <2>2, <1>2
  <2> QED BY <2>2, <1>1, <1>5 DEF WindowHoldsMaxReq, t
<1>9. CountIsOfWindow(b)'
  <2>1. Used(b)' = count[b] + 1
    BY <1>1, <1>4 DEF Used
  <2>2. ASSUME NEW i \in 1 .. n + 1
        PROVE  IF i > n + 1 - (count[b] + 1) THEN t[i].opened = resetAt[b] - Window
               ELSE t[i].opened + Window < resetAt[b] - Window
    <3>1. CASE i \in 1 .. n
      BY <3>1, <1>1, <1>2, <1>3, <1>5
    <3>2. CASE i = n + 1
      BY <3>2, <1>1, <1>2, <1>3, <1>5
    <3> QED BY <3>1, <3>2, <1>2
  <2> QED BY <2>1, <2>2, <1>1, <1>2, <1>3, <1>4, <1>5 DEF CountIsOfWindow, t
<1>10. ForgottenIsOver(b)'
  BY <1>4 DEF ForgottenIsOver
<1> QED BY <1>6, <1>7, <1>8, <1>9, <1>10 DEF AddressInv

\* A request that is refused is counted and changes nothing else.
LEMMA RefusedKeepsAddressInv ==
  ASSUME RateInv, NEW b \in Addresses, Request(b), b \in buckets, ~Over(b),
         count[b] + 1 > MaxReq
  PROVE  AddressInv(b)'
<1>1. Bucket(b) = [count |-> count[b] + 1, resetAt |-> resetAt[b]]
  BY DEF Bucket
<1>2. /\ MaxReq \in Nat /\ MaxReq >= 1 /\ count[b] \in Nat
      /\ now' = now /\ accepted' = accepted /\ b \in buckets'
      /\ count'[b] = count[b] + 1 /\ resetAt'[b] = resetAt[b] /\ AddressInv(b)
  BY <1>1, RateLimitAssumption DEF RateInv, RateTypeOK, Request
<1>3. Used(b)' = Used(b)
  BY <1>2 DEF Used
<1>4. InsideWindow(b)' /\ WindowsApart(b)' /\ WindowHoldsMaxReq(b)'
  BY <1>2 DEF AddressInv, InsideWindow, WindowsApart, WindowHoldsMaxReq
<1>5. CountIsOfWindow(b)' /\ ForgottenIsOver(b)'
  <2>1. count'[b] >= 1
    BY <1>2
  <2> QED BY <2>1, <1>2, <1>3 DEF AddressInv, CountIsOfWindow, ForgottenIsOver
<1> QED BY <1>4, <1>5 DEF AddressInv

LEMMA RequestKeepsRateInv ==
  ASSUME RateInv, NEW b \in Addresses, Request(b)
  PROVE  RateInv'
<1>1. RateTypeOK'
  <2>1. /\ Bucket(b).count \in Nat /\ Bucket(b).resetAt \in Nat
        /\ Bucket(b).resetAt - Window \in Nat
    <3>1. /\ now \in Nat /\ Window \in Nat /\ count[b] \in Nat
          /\ resetAt[b] \in Nat
          /\ b \in buckets => resetAt[b] >= Window
      BY RateLimitAssumption
         DEF RateInv, RateTypeOK, AddressInv, CountIsOfWindow
    <3>2. CASE b \notin buckets \/ Over(b)
      BY <3>1, <3>2 DEF Bucket
    <3>3. CASE b \in buckets /\ ~Over(b)
      BY <3>1, <3>3 DEF Bucket
    <3> QED BY <3>2, <3>3
  <2>2. /\ now' = now /\ sweeper' = sweeper /\ buckets' = buckets \cup {b}
        /\ count' = [count EXCEPT ![b] = Bucket(b).count]
        /\ resetAt' = [resetAt EXCEPT ![b] = Bucket(b).resetAt]
    BY DEF Request
  <2>3. accepted' \in [Addresses -> Seq(Acceptance)]
    <3> DEFINE e == [time |-> now, opened |-> Bucket(b).resetAt - Window]
    <3>1. e \in Acceptance
      BY <2>1 DEF Acceptance, RateInv, RateTypeOK
    <3>2. /\ accepted \in [Addresses -> Seq(Acceptance)]
          /\ accepted[b] \in Seq(Acceptance)
      BY DEF RateInv, RateTypeOK
    <3>3. Append(accepted[b], e) \in Seq(Acceptance)
      BY <3>1, <3>2, HistoryGrows
    <3>4. \/ accepted' = accepted
          \/ accepted' = [accepted EXCEPT ![b] = Append(accepted[b], e)]
      BY DEF Request
    <3> HIDE DEF e
    <3> QED BY <3>2, <3>3, <3>4
  <2> QED BY <2>1, <2>2, <2>3 DEF RateInv, RateTypeOK
<1>2. ASSUME NEW a \in Addresses PROVE AddressInv(a)'
  <2>1. CASE a # b
    <3>1. /\ AddressInv(a) /\ now' = now /\ (a \in buckets' <=> a \in buckets)
          /\ count'[a] = count[a] /\ resetAt'[a] = resetAt[a]
          /\ accepted'[a] = accepted[a]
      BY <2>1 DEF RateInv, RateTypeOK, Request
    <3> QED BY <3>1 DEF AddressInv, InsideWindow, WindowsApart, WindowHoldsMaxReq,
               CountIsOfWindow, ForgottenIsOver, Used
  <2>2. CASE a = b
    <3>1. count[b] \in Nat /\ MaxReq \in Nat
      BY RateLimitAssumption DEF RateInv, RateTypeOK
    <3>2. count[b] + 1 <= MaxReq \/ count[b] + 1 > MaxReq
      BY <3>1
    <3> QED BY <2>2, <3>2, FirstOfWindowKeepsAddressInv,
               NextOfWindowKeepsAddressInv, RefusedKeepsAddressInv
  <2> QED BY <2>1, <2>2
<1> QED BY <1>1, <1>2 DEF RateInv

------------------------------------------------------------------------------

LEMMA RateInductive == RateSpec => []RateInv
<1>1. ASSUME RateInv, [RateNext]_rateVars PROVE RateInv'
  <2>1. CASE Tick \/ Sweep \/ SweeperStops
    BY <1>1, <2>1, QuietKeepsRateInv
  <2>2. ASSUME NEW socket \in Addresses, NEW header \in Addresses \cup {NoHeader},
               Request(clientIP(socket, header))
        PROVE  RateInv'
    <3>1. clientIP(socket, header) \in Addresses
      BY DEF clientIP
    <3> QED BY <1>1, <2>2, <3>1, RequestKeepsRateInv
  <2>3. CASE UNCHANGED rateVars
    BY <1>1, <2>3 DEF rateVars, RateInv, RateTypeOK, AddressInv, InsideWindow,
       WindowsApart, WindowHoldsMaxReq, CountIsOfWindow, ForgottenIsOver, Used
  <2> QED BY <1>1, <2>1, <2>2, <2>3 DEF RateNext
<1> QED BY <1>1, RateInitInv, PTL DEF RateSpec

\* The variables of the limiter keep their types.
THEOREM RateTypeCorrect == RateSpec => []RateTypeOK
<1>1. RateInv => RateTypeOK
  BY DEF RateInv
<1> QED BY <1>1, RateInductive, PTL

\* For every number of requests and every window: twice MaxReq requests of an
\* address are the most that a time as long as a window sees.
THEOREM WindowIsBounded == RateSpec => []WindowBound
<1>1. ASSUME RateInv PROVE WindowBound
  <2>1. SUFFICES ASSUME NEW a \in Addresses, NEW k \in DOMAIN accepted[a],
                        k + 2 * MaxReq \in DOMAIN accepted[a]
                 PROVE  accepted[a][k + 2 * MaxReq].time
                            > accepted[a][k].time + Window
    BY DEF WindowBound
  <2> DEFINE s == accepted[a]
             m == k + MaxReq
             q == k + 2 * MaxReq
  <2>2. /\ MaxReq \in Nat /\ Window \in Nat /\ s \in Seq(Acceptance)
        /\ AddressInv(a)
    BY <1>1, RateLimitAssumption DEF RateInv, RateTypeOK
  <2>3. /\ DOMAIN s = 1 .. Len(s) /\ Len(s) \in Nat
        /\ \A i \in DOMAIN s : s[i].time \in Nat /\ s[i].opened \in Nat
    BY <2>2, HistoryTypes
  <2>4. m \in DOMAIN s /\ q \in DOMAIN s /\ q = m + MaxReq
    BY <2>1, <2>2, <2>3
  <2>5. s[m].opened > s[k].opened + Window
    BY <2>1, <2>2, <2>4 DEF AddressInv, WindowHoldsMaxReq
  <2>6. s[q].opened > s[m].opened + Window
    BY <2>2, <2>4 DEF AddressInv, WindowHoldsMaxReq
  <2>7. s[k].time <= s[k].opened + Window /\ s[q].opened <= s[q].time
    BY <2>1, <2>2, <2>4 DEF AddressInv, InsideWindow
  <2>8. k \in DOMAIN s
    BY <2>1
  <2> HIDE DEF s, m, q
  <2>9. s[q].time > s[k].time + Window
    <3>1. /\ s[q].time \in Nat /\ s[q].opened \in Nat /\ s[m].opened \in Nat
          /\ s[k].opened \in Nat /\ s[k].time \in Nat
      BY <2>3, <2>4, <2>8
    <3>2. Window \in Nat
      BY <2>2
    <3> QED BY <3>1, <3>2, <2>5, <2>6, <2>7
  <2> QED BY <2>9 DEF s, q
<1> QED BY <1>1, RateInductive, PTL

\* A refused client has used MaxReq requests within one window's length.
THEOREM RefusalIsEarned == RateSpec => []RefusedOnlyWhenSpent
<1>1. ASSUME RateInv PROVE RefusedOnlyWhenSpent
  <2>1. SUFFICES ASSUME NEW a \in Addresses, Exhausted(a)
                 PROVE  /\ Len(accepted[a]) >= MaxReq
                        /\ accepted[a][Len(accepted[a]) - MaxReq + 1].time
                               + Window >= now
    BY DEF RefusedOnlyWhenSpent
  <2> DEFINE s == accepted[a]
             k == Len(s) - MaxReq + 1
  <2>2. /\ MaxReq \in Nat /\ MaxReq >= 1 /\ Window \in Nat
        /\ s \in Seq(Acceptance) /\ AddressInv(a) /\ count[a] \in Nat
        /\ now \in Nat /\ resetAt[a] \in Nat
        /\ a \in buckets /\ now <= resetAt[a] /\ count[a] >= MaxReq
    BY <1>1, <2>1, RateLimitAssumption DEF RateInv, RateTypeOK, Exhausted, Over
  <2>3. /\ DOMAIN s = 1 .. Len(s) /\ Len(s) \in Nat
        /\ \A i \in DOMAIN s : s[i].time \in Nat /\ s[i].opened \in Nat
    BY <2>2, HistoryTypes
  <2>4. Used(a) = MaxReq
    BY <2>2 DEF Used
  <2>5. Len(s) >= MaxReq
    BY <2>2, <2>4 DEF AddressInv, CountIsOfWindow
  <2>6. k \in DOMAIN s /\ k > Len(s) - MaxReq
    BY <2>2, <2>3, <2>5
  <2>7. s[k].opened = resetAt[a] - Window
    BY <2>2, <2>4, <2>6 DEF AddressInv, CountIsOfWindow
  <2>8. s[k].opened <= s[k].time
    BY <2>2, <2>6 DEF AddressInv, InsideWindow
  <2> HIDE DEF s, k
  <2>9. s[k].time + Window >= now
    BY <2>2, <2>3, <2>6, <2>7, <2>8
  <2> QED BY <2>5, <2>9 DEF s, k
<1> QED BY <1>1, RateInductive, PTL

------------------------------------------------------------------------------

(***************************************************************************)
(* Health check: the order of the visits does not matter, for any number   *)
(* of services and any ports lists. The invariant says what the loop knows *)
(* while it runs: no service it has visited decides, and one that decided  *)
(* is there to see.                                                        *)
(***************************************************************************)

\* Some service gives the stage something to check.
Checked == \E s \in Services : firstExposedPort(services[s].ports) \/ Native(s)

\* What a mode says of the services.
ModeInv ==
    /\ file # "ok" => mode \in {"open", "none"}
    /\ file = "ok" /\ mode = "none" => ~Checked
    /\ mode \in {"tcp", "http"} => Checked

\* While the loop runs, only a service it has still to visit can decide.
LoopInv ==
    mode = "open" =>
        \A s \in Services \ toVisit :
            ~firstExposedPort(services[s].ports) /\ ~Native(s)

\* The stage follows the mode.
StageInv ==
    /\ stage = "skipped" => mode = "none"
    /\ stage \in {"valid", "invalid"} => mode \in {"tcp", "http"}

HealthInv == HealthTypeOK /\ ModeInv /\ LoopInv /\ StageInv

LEMMA HealthInitInv == HealthInit => HealthInv
BY DEF HealthInit, HealthInv, HealthTypeOK, ModeInv, LoopInv, StageInv

\* A service that decides has an exposed port or a healthcheck.
LEMMA ModeOfSays ==
  ASSUME NEW s \in Services
  PROVE  /\ ModeOf(s) \subseteq {"tcp", "http"}
         /\ ModeOf(s) = {} <=> ~firstExposedPort(services[s].ports) /\ ~Native(s)
<1> DEFINE port == firstExposedPort(services[s].ports)
           native == Native(s)
<1>1. ModeOf(s) = IF port THEN {"http"} ELSE IF native THEN {"tcp"} ELSE {}
  BY DEF ModeOf
<1> HIDE DEF port, native
<1>2. /\ ModeOf(s) \subseteq {"tcp", "http"}
      /\ ModeOf(s) = {} <=> ~port /\ ~native
  BY <1>1
<1> QED BY <1>2 DEF port, native

LEMMA HealthNextKeeps ==
  ASSUME HealthInv, [HealthNext]_healthVars
  PROVE  HealthInv'
<1> USE DEF HealthInv
<1>1. CASE DetectFails
  BY <1>1 DEF DetectFails, HealthTypeOK, ModeInv, LoopInv, StageInv
<1>2. CASE \E s \in Services : Visit(s)
  <2>1. PICK s \in Services : Visit(s)
    BY <1>2
  <2>2. /\ file = "ok" /\ mode = "open" /\ toVisit' = toVisit \ {s}
        /\ UNCHANGED <<file, services, stage>>
        /\ \/ ModeOf(s) = {} /\ mode' = "open"
           \/ ModeOf(s) # {} /\ mode' \in ModeOf(s)
    BY <2>1 DEF Visit
  <2>3. HealthTypeOK' /\ StageInv'
    BY <2>2, ModeOfSays DEF HealthTypeOK, StageInv
  <2>4. CASE ModeOf(s) = {} /\ mode' = "open"
    <3>1. ~firstExposedPort(services[s].ports) /\ ~Native(s)
      BY <2>4, ModeOfSays
    <3> QED BY <2>2, <2>3, <2>4, <3>1 DEF ModeInv, LoopInv, Native
  <2>5. CASE ModeOf(s) # {} /\ mode' \in ModeOf(s)
    <3>1. Checked /\ mode' \in {"tcp", "http"}
      BY <2>5, ModeOfSays DEF Checked
    <3> QED BY <2>2, <2>3, <3>1 DEF ModeInv, LoopInv, Checked, Native
  <2> QED BY <2>2, <2>4, <2>5
<1>3. CASE NoneDecided
  <2>1. ~Checked
    BY <1>3 DEF NoneDecided, LoopInv, Checked
  <2> QED BY <1>3, <2>1 DEF NoneDecided, HealthTypeOK, ModeInv, LoopInv, StageInv, Checked,
          Native
<1>4. CASE HealthCheckStage
  BY <1>4 DEF HealthCheckStage, HealthTypeOK, ModeInv, LoopInv, StageInv, Checked, Native
<1>5. CASE UNCHANGED healthVars
  BY <1>5 DEF healthVars, HealthTypeOK, ModeInv, LoopInv, StageInv, Checked, Native
<1> QED BY <1>1, <1>2, <1>3, <1>4, <1>5 DEF HealthNext

LEMMA HealthInvariant == HealthSpec => []HealthInv
<1>1. HealthInv /\ [HealthNext]_healthVars => HealthInv'
  BY HealthNextKeeps
<1> QED BY HealthInitInv, <1>1, PTL DEF HealthSpec

\* A visit, the end of the loop and the stage keep the types of the mode, the services and
\* the stage.
THEOREM HealthTypeCorrect == HealthSpec => []HealthTypeOK
<1>1. HealthInv => HealthTypeOK
  BY DEF HealthInv
<1> QED BY <1>1, HealthInvariant, PTL

\* Whether a deploy is checked does not depend on the order in which Go visits
\* the services of the compose file (healthcheck_detect.go:19-103).
THEOREM SkipDoesNotDependOnOrder == HealthSpec => []SkipIsOrderIndependent
<1>1. HealthInv => SkipIsOrderIndependent
  BY DEF HealthInv, HealthTypeOK, ModeInv, StageInv, SkipIsOrderIndependent, Checked
<1> QED BY <1>1, HealthInvariant, PTL

------------------------------------------------------------------------------

(***************************************************************************)
(* Service, for all ports and URLs. The invariant says what each call of   *)
(* install and uninstall has secured by the time the next one is made, and *)
(* that nothing which happens between two calls (a failure, a restart, a   *)
(* boot, a unit that systemd forgets) takes it back before the report.     *)
(***************************************************************************)

\* At most n calls are left of the command that ends with the report "last".
Left(n, last) == todo # <<>> /\ Len(todo) <= n /\ todo[Len(todo)] = last

\* What install has done when it has no more than n calls left.
InstallInv ==
    /\ Left(4, "installed") => unit = Resolved
    /\ Left(2, "installed") => enabled /\ loaded = unit
    /\ Left(1, "installed") => running \in {unit, Nil} \/ kept

\* What uninstall has done. A process that it could not stop may fail and be started
\* again until systemd has read that its unit is gone.
UninstallInv ==
    /\ Left(4, "uninstalled") => survived \/ (running = Nil /\ ~restarting)
    /\ Left(2, "uninstalled") => unit = Nil
    /\ Left(1, "uninstalled") => loaded = Nil /\ ~restarting

ServiceInv ==
    /\ ServiceTypeOK
    /\ todo # <<>> => outcome = "none"
    /\ InstallInv
    /\ UninstallInv
    /\ ServiceAsReported

\* todo is what remains of a command.
Remainder(calls, i) == SubSeq(calls, i, Len(calls))
Commands == {InstallCalls, UninstallCalls, StopCalls}

\* Every call, and every report, of the commands.
AllCalls == {"write", "reload", "enable", "start", "installed", "stopOrWarn",
             "disableOrWarn", "remove", "uninstalled", "stop", "stopped"}

\* The three commands as sequences of calls.
LEMMA CommandsAre ==
  /\ InstallCalls \in Seq(AllCalls) /\ Len(InstallCalls) = 5
  /\ UninstallCalls \in Seq(AllCalls) /\ Len(UninstallCalls) = 5
  /\ StopCalls \in Seq(AllCalls) /\ Len(StopCalls) = 2
<1>1. InstallCalls \in Seq(AllCalls) /\ Len(InstallCalls) = 5
  BY DEF InstallCalls, AllCalls
<1>2. UninstallCalls \in Seq(AllCalls) /\ Len(UninstallCalls) = 5
  BY DEF UninstallCalls, AllCalls
<1>3. StopCalls \in Seq(AllCalls) /\ Len(StopCalls) = 2
  BY DEF StopCalls, AllCalls
<1> QED BY <1>1, <1>2, <1>3

\* What a remainder of a command's calls is made of.
LEMMA RemainderIs ==
  ASSUME NEW calls \in Commands, NEW i \in 1 .. Len(calls)
  PROVE  /\ Remainder(calls, i) # <<>>
         /\ Len(Remainder(calls, i)) = Len(calls) - i + 1
         /\ Remainder(calls, i)[Len(Remainder(calls, i))] = calls[Len(calls)]
         /\ Head(Remainder(calls, i)) = calls[i]
         /\ Tail(Remainder(calls, i)) = Remainder(calls, i + 1)
         /\ Remainder(calls, Len(calls) + 1) = <<>>
         /\ Len(calls) \in Nat
<1>1. calls \in Seq(AllCalls) /\ Len(calls) \in Nat
  BY CommandsAre DEF Commands
<1>2. \A k \in 1 .. Len(calls) : calls[k] \in AllCalls
  BY <1>1
<1>3. /\ Remainder(calls, i) \in Seq(AllCalls)
      /\ Len(Remainder(calls, i)) = Len(calls) - i + 1
      /\ \A k \in 1 .. Len(calls) - i + 1 : Remainder(calls, i)[k] = calls[i + k - 1]
  <2>1. \A k \in i .. Len(calls) : calls[k] \in AllCalls
    BY <1>1, <1>2
  <2> QED BY <1>1, <2>1, SubSeqProperties, i \in Int, i <= Len(calls) DEF Remainder
<1>4. /\ Head(Remainder(calls, i)) = calls[i]
      /\ Tail(Remainder(calls, i)) = Remainder(calls, i + 1)
  BY <1>1, Len(calls) \in i .. Len(calls), HeadTailOfSubSeq DEF Remainder
<1>5. Remainder(calls, Len(calls) + 1) = <<>>
  BY <1>1, SubSeqEmpty, Len(calls) < Len(calls) + 1 DEF Remainder
<1>6. Remainder(calls, i) # <<>>
  BY <1>1, <1>3
<1>7. Remainder(calls, i)[Len(Remainder(calls, i))] = calls[Len(calls)]
  BY <1>1, <1>3
<1> QED BY <1>1, <1>3, <1>4, <1>5, <1>6, <1>7

\* The command that runs has made its first i - 1 calls.
LEMMA TodoIsRemainder ==
  ASSUME ServiceTypeOK, todo # <<>>
  PROVE  \E calls \in Commands : \E i \in 1 .. Len(calls) :
             /\ todo = Remainder(calls, i)
             /\ Head(todo) = calls[i]
             /\ Tail(todo) = Remainder(calls, i + 1)
<1>0. PICK calls \in Commands : \E i \in 1 .. Len(calls) + 1 : todo = Remainder(calls, i)
  BY DEF ServiceTypeOK, Commands, Remainder
<1>1. PICK i \in 1 .. Len(calls) + 1 : todo = Remainder(calls, i)
  BY <1>0
<1>2. Len(calls) \in Nat
  BY CommandsAre DEF Commands
<1>3. 1 \in 1 .. Len(calls)
  <2>1. Len(calls) = 5 \/ Len(calls) = 2
    BY CommandsAre DEF Commands
  <2> QED BY <2>1
<1>4. i # Len(calls) + 1
  BY <1>1, <1>3, RemainderIs
<1> QED BY <1>1, <1>2, <1>4, RemainderIs

\* At(n, last): exactly n calls are left.
At(n, last) == todo # <<>> /\ Len(todo) = n /\ todo[Len(todo)] = last

\* Where in which command a call is made, and what is left after it.
LEMMA CallLeaves ==
  ASSUME ServiceTypeOK, NEW call, Call(call)
  PROVE  /\ \E calls \in Commands :
               \E i \in 1 .. Len(calls) + 1 : todo' = SubSeq(calls, i, Len(calls))
         /\ \/ call = "write" /\ At(5, "installed") /\ At(4, "installed")'
            \/ call = "reload" /\ At(4, "installed") /\ At(3, "installed")'
            \/ call = "enable" /\ At(3, "installed") /\ At(2, "installed")'
            \/ call = "start" /\ At(2, "installed") /\ At(1, "installed")'
            \/ call = "installed" /\ At(1, "installed") /\ todo' = <<>>
            \/ call = "stopOrWarn" /\ At(5, "uninstalled") /\ At(4, "uninstalled")'
            \/ call = "disableOrWarn" /\ At(4, "uninstalled") /\ At(3, "uninstalled")'
            \/ call = "remove" /\ At(3, "uninstalled") /\ At(2, "uninstalled")'
            \/ call = "reload" /\ At(2, "uninstalled") /\ At(1, "uninstalled")'
            \/ call = "uninstalled" /\ At(1, "uninstalled") /\ todo' = <<>>
            \/ call = "stop" /\ At(2, "stopped") /\ At(1, "stopped")'
            \/ call = "stopped" /\ At(1, "stopped") /\ todo' = <<>>
<1>1. PICK calls \in Commands : \E i \in 1 .. Len(calls) :
          /\ todo = Remainder(calls, i)
          /\ Head(todo) = calls[i]
          /\ Tail(todo) = Remainder(calls, i + 1)
  BY TodoIsRemainder DEF Call
<1>2. PICK i \in 1 .. Len(calls) :
          /\ todo = Remainder(calls, i)
          /\ Head(todo) = calls[i]
          /\ Tail(todo) = Remainder(calls, i + 1)
  BY <1>1
<1>3. call = calls[i] /\ todo' = Remainder(calls, i + 1) /\ Len(calls) \in Nat
  BY <1>2, RemainderIs DEF Call
<1>7. /\ todo # <<>>
      /\ Len(todo) = Len(calls) - i + 1
      /\ todo[Len(todo)] = calls[Len(calls)]
  BY <1>2, RemainderIs
<1>4. i + 1 \in 1 .. Len(calls) \/ i = Len(calls)
  BY <1>3
<1>5. CASE i = Len(calls)
  <2>1. todo' = <<>> /\ call = calls[Len(calls)]
    BY <1>3, <1>5, RemainderIs
  <2>2. i + 1 \in 1 .. Len(calls) + 1
    BY <1>3
  <2>3. call \in {"installed", "uninstalled", "stopped"}
    <3>1. CASE calls = InstallCalls
      BY <2>1, <3>1, CommandsAre DEF InstallCalls
    <3>2. CASE calls = UninstallCalls
      BY <2>1, <3>2, CommandsAre DEF UninstallCalls
    <3>3. CASE calls = StopCalls
      BY <2>1, <3>3, CommandsAre DEF StopCalls
    <3> QED BY <3>1, <3>2, <3>3 DEF Commands
  <2> QED BY <1>3, <1>5, <1>7, <2>1, <2>2, <2>3 DEF Remainder, At
<1>6. CASE i + 1 \in 1 .. Len(calls)
  <2> DEFINE j == i + 1
  <2>1. /\ todo' # <<>>
        /\ Len(todo') = Len(calls) - j + 1
        /\ todo'[Len(todo')] = calls[Len(calls)]
    BY <1>3, <1>6, RemainderIs
  <2>2. j \in 1 .. Len(calls) + 1 /\ todo' = Remainder(calls, j)
    BY <1>3, <1>6
  <2>6. \E c \in Commands : \E k \in 1 .. Len(c) + 1 : todo' = SubSeq(c, k, Len(c))
    BY <2>2 DEF Remainder
  <2>3. CASE calls = InstallCalls
    <3>1. i \in {1, 2, 3, 4} /\ Len(calls) = 5
      BY <2>3, <1>6 DEF InstallCalls
    <3>5. todo[Len(todo)] = "installed" /\ Len(todo) = 6 - i
      BY <1>7, <2>3, <3>1 DEF InstallCalls
    <3>2. todo'[Len(todo')] = "installed" /\ Len(todo') = 5 - i
      BY <2>1, <2>3, <3>1 DEF InstallCalls
    <3>4. \/ i = 1 /\ call = "write"
          \/ i = 2 /\ call = "reload"
          \/ i = 3 /\ call = "enable"
          \/ i = 4 /\ call = "start"
      BY <1>3, <2>3, <3>1 DEF InstallCalls
    <3>3. \/ Len(todo) = 5 /\ Len(todo') = 4 /\ call = "write"
          \/ Len(todo) = 4 /\ Len(todo') = 3 /\ call = "reload"
          \/ Len(todo) = 3 /\ Len(todo') = 2 /\ call = "enable"
          \/ Len(todo) = 2 /\ Len(todo') = 1 /\ call = "start"
      BY <3>1, <3>2, <3>4, <3>5
    <3> QED BY <2>1, <2>6, <1>7, <3>2, <3>3, <3>5 DEF At
  <2>4. CASE calls = UninstallCalls
    <3>1. i \in {1, 2, 3, 4} /\ Len(calls) = 5
      BY <2>4, <1>6 DEF UninstallCalls
    <3>5. todo[Len(todo)] = "uninstalled" /\ Len(todo) = 6 - i
      BY <1>7, <2>4, <3>1 DEF UninstallCalls
    <3>2. todo'[Len(todo')] = "uninstalled" /\ Len(todo') = 5 - i
      BY <2>1, <2>4, <3>1 DEF UninstallCalls
    <3>4. \/ i = 1 /\ call = "stopOrWarn"
          \/ i = 2 /\ call = "disableOrWarn"
          \/ i = 3 /\ call = "remove"
          \/ i = 4 /\ call = "reload"
      BY <1>3, <2>4, <3>1 DEF UninstallCalls
    <3>3. \/ Len(todo) = 5 /\ Len(todo') = 4 /\ call = "stopOrWarn"
          \/ Len(todo) = 4 /\ Len(todo') = 3 /\ call = "disableOrWarn"
          \/ Len(todo) = 3 /\ Len(todo') = 2 /\ call = "remove"
          \/ Len(todo) = 2 /\ Len(todo') = 1 /\ call = "reload"
      BY <3>1, <3>2, <3>4, <3>5
    <3> QED BY <2>1, <2>6, <1>7, <3>2, <3>3, <3>5 DEF At
  <2>5. CASE calls = StopCalls
    <3>1. i = 1 /\ Len(calls) = 2
      BY <2>5, <1>6 DEF StopCalls
    <3>5. todo[Len(todo)] = "stopped" /\ Len(todo) = 2
      BY <1>7, <2>5, <3>1 DEF StopCalls
    <3>2. todo'[Len(todo')] = "stopped" /\ Len(todo') = 1 /\ call = "stop"
      BY <2>1, <2>5, <3>1, <1>3 DEF StopCalls
    <3> QED BY <2>1, <2>2, <1>7, <3>2, <3>5 DEF At, Remainder
  <2> QED BY <2>3, <2>4, <2>5 DEF Commands
<1> QED BY <1>4, <1>5, <1>6

\* The service is not installed and no command runs.
LEMMA ServiceInitInv == ServiceInit => ServiceInv
<1> SUFFICES ASSUME ServiceInit PROVE ServiceInv
  OBVIOUS
<1>1. \E calls \in Commands : \E i \in 1 .. Len(calls) + 1 :
          todo = SubSeq(calls, i, Len(calls))
  <2>1. SubSeq(StopCalls, 3, 2) = <<>>
    BY SubSeqEmpty, CommandsAre
  <2>2. 3 \in 1 .. Len(StopCalls) + 1
    BY CommandsAre
  <2> QED BY <2>1, <2>2, CommandsAre DEF ServiceInit, Commands
<1>2. ServiceTypeOK
  BY <1>1, ServiceAssumption DEF ServiceInit, ServiceTypeOK, MaybeConfigs, Outcomes, Commands
<1> QED BY <1>2 DEF ServiceInit, ServiceInv, InstallInv, UninstallInv, Left,
           ServiceAsReported, InstalledConfigRuns, UninstalledStaysDown

\* A command begins with all its calls.
LEMMA RunKeeps ==
  ASSUME ServiceInv, Install \/ Uninstall \/ Stop
  PROVE  ServiceInv'
<1>1. PICK calls \in Commands : Run(calls)
  BY DEF Install, Uninstall, Stop, Commands
<1>2. /\ todo' = calls /\ outcome' = "none"
      /\ UNCHANGED <<conf, unit, loaded, enabled, running, restarting, kept, survived>>
      /\ flags' \in [port : Ports \cup {0}, url : URLs \cup {NoURL}]
  BY <1>1 DEF Run, Install, Uninstall, Stop, ServiceInv, ServiceTypeOK
<1>3. calls = SubSeq(calls, 1, Len(calls)) /\ 1 \in 1 .. Len(calls) + 1
  <2>1. /\ calls \in Seq(AllCalls)
        /\ Len(calls) = 5 \/ Len(calls) = 2
    BY CommandsAre DEF Commands
  <2> QED BY <2>1, SubSeqFull
<1>4. ServiceTypeOK'
  BY <1>2, <1>3 DEF ServiceInv, ServiceTypeOK, Outcomes, Commands
<1>5. ~Left(4, "installed")' /\ ~Left(4, "uninstalled")'
  <2>1. CASE calls = StopCalls
    <3>1. todo'[Len(todo')] = "stopped"
      BY <1>2, <2>1, CommandsAre DEF StopCalls
    <3> QED BY <3>1 DEF Left
  <2>2. CASE calls # StopCalls
    <3>1. Len(todo') = 5
      BY <1>2, <2>2, CommandsAre DEF Commands
    <3> QED BY <3>1 DEF Left
  <2> QED BY <2>1, <2>2
<1> QED BY <1>2, <1>4, <1>5 DEF ServiceInv, InstallInv, UninstallInv, Left,
           ServiceAsReported, InstalledConfigRuns, UninstalledStaysDown

\* What install writes is a configuration.
LEMMA ResolvedType == ServiceTypeOK => Resolved \in Configs
BY ServiceAssumption DEF ServiceTypeOK, Resolved, Configs

\* A call of the command that runs, and what it is for the phases.
LEMMA CallKeeps ==
  ASSUME ServiceInv,
         WriteUnit \/ RemoveUnit \/ DaemonReload \/ EnableUnit \/ StartUnit \/ StopUnit
             \/ StopWarns \/ DisableUnit
  PROVE  ServiceInv'
<1> USE DEF ServiceInv
<1>1. /\ todo # <<>> /\ outcome = "none"
  BY DEF WriteUnit, RemoveUnit, DaemonReload, EnableUnit, StartUnit, StopUnit, StopWarns,
         DisableUnit, Call
<1> DEFINE Rest == \E calls \in {InstallCalls, UninstallCalls, StopCalls} :
                       \E i \in 1 .. Len(calls) + 1 : todo = SubSeq(calls, i, Len(calls))
<1>2. CASE WriteUnit
  <2>1. At(4, "installed")' /\ Rest'
    BY <1>2, CallLeaves DEF WriteUnit, Commands
  <2>2. ServiceTypeOK'
    BY <1>2, <2>1, ResolvedType DEF WriteUnit, ServiceTypeOK, MaybeConfigs
  <2>3. InstallInv' /\ UninstallInv'
    BY <1>2, <2>1 DEF InstallInv, UninstallInv, Left, At, WriteUnit, Resolved
  <2> QED BY <1>1, <1>2, <2>2, <2>3 DEF WriteUnit, ServiceAsReported,
             InstalledConfigRuns, UninstalledStaysDown
<1>3. CASE RemoveUnit
  <2>1. At(3, "uninstalled") /\ At(2, "uninstalled")' /\ Rest'
    BY <1>3, CallLeaves DEF RemoveUnit, Commands
  <2>2. ServiceTypeOK'
    BY <1>3, <2>1 DEF RemoveUnit, ServiceTypeOK, MaybeConfigs
  <2>3. InstallInv' /\ UninstallInv'
    BY <1>3, <2>1 DEF InstallInv, UninstallInv, Left, At, RemoveUnit
  <2> QED BY <1>1, <1>3, <2>2, <2>3 DEF RemoveUnit, ServiceAsReported,
             InstalledConfigRuns, UninstalledStaysDown
<1>4. CASE DaemonReload
  <2>1. /\ Rest'
        /\ \/ At(4, "installed") /\ At(3, "installed")'
           \/ At(2, "uninstalled") /\ At(1, "uninstalled")'
    BY <1>4, CallLeaves DEF DaemonReload, Commands
  <2>2. ServiceTypeOK'
    BY <1>4, <2>1 DEF DaemonReload, ServiceTypeOK, MaybeConfigs
  <2>3. InstallInv' /\ UninstallInv'
    <3>1. /\ loaded' = unit /\ unit' = unit
          /\ UNCHANGED <<conf, flags, enabled, running, kept, survived>>
      BY <1>4 DEF DaemonReload
    <3>2. unit = Nil => restarting' = FALSE
      BY <1>4 DEF DaemonReload
    <3>3. CASE At(4, "installed") /\ At(3, "installed")'
      BY <3>1, <3>3 DEF InstallInv, UninstallInv, Left, At, Resolved
    <3>4. CASE At(2, "uninstalled") /\ At(1, "uninstalled")'
      <4>1. unit = Nil /\ (survived \/ running = Nil)
        BY <3>4 DEF UninstallInv, Left, At
      <4> QED BY <4>1, <3>1, <3>2, <3>4 DEF InstallInv, UninstallInv, Left, At
    <3> QED BY <2>1, <3>3, <3>4
  <2> QED BY <1>1, <1>4, <2>2, <2>3 DEF DaemonReload, ServiceAsReported,
             InstalledConfigRuns, UninstalledStaysDown
<1>5. CASE EnableUnit
  <2>1. At(3, "installed") /\ At(2, "installed")' /\ Rest'
    BY <1>5, CallLeaves DEF EnableUnit, Commands
  <2>2. ServiceTypeOK'
    BY <1>5, <2>1 DEF EnableUnit, ServiceTypeOK, MaybeConfigs
  <2>3. InstallInv' /\ UninstallInv'
    BY <1>5, <2>1 DEF InstallInv, UninstallInv, Left, At, EnableUnit, Resolved
  <2> QED BY <1>1, <1>5, <2>2, <2>3 DEF EnableUnit, ServiceAsReported,
             InstalledConfigRuns, UninstalledStaysDown
<1>6. CASE StartUnit
  <2>1. At(2, "installed") /\ At(1, "installed")' /\ Rest'
    BY <1>6, CallLeaves DEF StartUnit, Commands
  <2>2. ServiceTypeOK'
    BY <1>6, <2>1 DEF StartUnit, ServiceTypeOK, MaybeConfigs
  <2>3. InstallInv' /\ UninstallInv'
    <3>1. /\ unit = Resolved /\ enabled /\ loaded = unit
      BY <2>1 DEF InstallInv, Left, At
    <3>2. UNCHANGED <<conf, flags, unit, enabled>> /\ loaded' = unit
      BY <1>6, <3>1 DEF StartUnit
    <3>3. running' \in {unit, Nil} \/ kept'
      BY <1>6, <3>1 DEF StartUnit
    <3> QED BY <2>1, <3>1, <3>2, <3>3 DEF InstallInv, UninstallInv, Left, At, Resolved
  <2> QED BY <1>1, <1>6, <2>2, <2>3 DEF StartUnit, ServiceAsReported,
             InstalledConfigRuns, UninstalledStaysDown
<1>7. CASE StopUnit
  <2>1. /\ Rest'
        /\ \/ At(1, "stopped")'
           \/ At(5, "uninstalled") /\ At(4, "uninstalled")'
    BY <1>7, CallLeaves DEF StopUnit, Commands
  <2>2. ServiceTypeOK'
    BY <1>7, <2>1 DEF StopUnit, ServiceTypeOK, MaybeConfigs
  <2>3. InstallInv' /\ UninstallInv'
    BY <1>7, <2>1 DEF InstallInv, UninstallInv, Left, At, StopUnit
  <2> QED BY <1>1, <1>7, <2>2, <2>3 DEF StopUnit, ServiceAsReported,
             InstalledConfigRuns, UninstalledStaysDown
<1>8. CASE StopWarns
  <2>1. At(5, "uninstalled") /\ At(4, "uninstalled")' /\ Rest'
    BY <1>8, CallLeaves DEF StopWarns, Commands
  <2>2. ServiceTypeOK'
    BY <1>8, <2>1 DEF StopWarns, ServiceTypeOK, MaybeConfigs
  <2>3. InstallInv' /\ UninstallInv'
    <3>1. UNCHANGED <<running, restarting>>
      BY <1>8 DEF StopWarns
    <3>2. survived' = (running # Nil \/ restarting)
      BY <1>8 DEF StopWarns
    <3>3. survived' \/ (running' = Nil /\ ~restarting')
      <4>1. CASE running # Nil \/ restarting
        <5>1. survived'
          BY <3>2, <4>1, <2>2 DEF ServiceTypeOK
        <5> QED BY <5>1, Zenon
      <4>2. CASE running = Nil /\ ~restarting
        BY <3>1, <4>2, Zenon
      <4> QED BY <4>1, <4>2
    <3> QED BY <2>1, <3>3 DEF InstallInv, UninstallInv, Left, At
  <2> QED BY <1>1, <1>8, <2>2, <2>3 DEF StopWarns, ServiceAsReported,
             InstalledConfigRuns, UninstalledStaysDown
<1>9. CASE DisableUnit
  <2>1. At(4, "uninstalled") /\ At(3, "uninstalled")' /\ Rest'
    BY <1>9, CallLeaves DEF DisableUnit, Commands
  <2>2. ServiceTypeOK'
    BY <1>9, <2>1 DEF DisableUnit, ServiceTypeOK, MaybeConfigs
  <2>3. InstallInv' /\ UninstallInv'
    BY <1>9, <2>1 DEF InstallInv, UninstallInv, Left, At, DisableUnit
  <2> QED BY <1>1, <1>9, <2>2, <2>3 DEF DisableUnit, ServiceAsReported,
             InstalledConfigRuns, UninstalledStaysDown
<1> QED BY <1>2, <1>3, <1>4, <1>5, <1>6, <1>7, <1>8, <1>9

\* The report of a command that made all its calls.
LEMMA ReportKeeps ==
  ASSUME ServiceInv, CommandEnds
  PROVE  ServiceInv'
<1> USE DEF ServiceInv
<1>1. Call(Head(todo))
  BY DEF CommandEnds, Call
<1>2. /\ Head(todo) \in Outcomes /\ outcome' = Head(todo) /\ todo' = Tail(todo)
      /\ UNCHANGED <<conf, flags, unit, loaded, enabled, running, restarting, kept,
                     survived>>
  BY DEF CommandEnds
<1>3. /\ \E calls \in {InstallCalls, UninstallCalls, StopCalls} :
             \E i \in 1 .. Len(calls) + 1 : todo' = SubSeq(calls, i, Len(calls))
      /\ todo' = <<>>
      /\ At(1, outcome')
  BY <1>1, <1>2, CallLeaves DEF Outcomes, Commands
<1>4. ServiceTypeOK'
  BY <1>2, <1>3 DEF ServiceTypeOK
<1>5. ServiceAsReported'
  BY <1>2, <1>3 DEF ServiceAsReported, InstalledConfigRuns, UninstalledStaysDown,
     InstallInv, UninstallInv, Left, At, Resolved
<1> QED BY <1>3, <1>4, <1>5 DEF InstallInv, UninstallInv, Left

\* systemd, the machine and the administrator act between any two calls.
LEMMA OutsideKeeps ==
  ASSUME ServiceInv,
         CallFails \/ ProcessFails \/ RestartOnFailure \/ StartByHand \/ UnitCollected
             \/ Boot \/ UNCHANGED serviceVars
  PROVE  ServiceInv'
<1> USE DEF ServiceInv, ServiceAsReported, InstalledConfigRuns, UninstalledStaysDown,
            InstallInv, UninstallInv, Left
<1>0. \E calls \in {InstallCalls, UninstallCalls, StopCalls} :
          \E i \in 1 .. Len(calls) + 1 : <<>> = SubSeq(calls, i, Len(calls))
  <2>1. SubSeq(StopCalls, 3, 2) = <<>>
    BY SubSeqEmpty, CommandsAre
  <2>2. 3 \in 1 .. Len(StopCalls) + 1
    BY CommandsAre
  <2> QED BY <2>1, <2>2, CommandsAre
<1>1. CASE CallFails
  <2>1. ServiceTypeOK'
    BY <1>0, <1>1 DEF CallFails, ServiceTypeOK, Outcomes
  <2> QED BY <1>1, <2>1 DEF CallFails
<1>2. CASE ProcessFails
  <2>1. ServiceTypeOK'
    BY <1>2 DEF ProcessFails, ServiceTypeOK, MaybeConfigs
  <2>2. /\ running # Nil /\ running' = Nil
        /\ UNCHANGED <<conf, flags, unit, loaded, enabled, todo, outcome>>
    BY <1>2 DEF ProcessFails
  <2>3. loaded = Nil => ~restarting'
    BY <1>2 DEF ProcessFails
  <2>4. survived => survived' \/ loaded = Nil
    BY <1>2 DEF ProcessFails
  <2>5. InstallInv' /\ InstalledConfigRuns'
    BY <2>2 DEF Resolved
  <2>6. UninstallInv'
    <3>1. Left(4, "uninstalled") => survived' \/ (running' = Nil /\ ~restarting')
      <4>1. Left(4, "uninstalled") => survived
        BY <2>2
      <4> QED BY <2>2, <2>3, <2>4, <4>1
    <3>2. Left(1, "uninstalled") => ~restarting'
      BY <2>2, <2>3
    <3> QED BY <2>2, <3>1, <3>2
  <2>7. UninstalledStaysDown'
    <3>1. SUFFICES ASSUME outcome' = "uninstalled"
                   PROVE  running' = Nil /\ ~restarting' /\ loaded' = Nil /\ unit' = Nil
      BY Zenon
    <3>2. loaded = Nil /\ unit = Nil
      BY <2>2, <3>1
    <3>3. ~restarting'
      BY <2>3, <3>2
    <3> QED BY <2>2, <3>2, <3>3
  <2> QED BY <2>1, <2>2, <2>5, <2>6, <2>7
<1>3. CASE RestartOnFailure
  <2>1. ServiceTypeOK'
    BY <1>3 DEF RestartOnFailure, ServiceTypeOK
  <2> QED BY <1>3, <2>1 DEF RestartOnFailure, Resolved
<1>4. CASE StartByHand
  <2>1. ServiceTypeOK'
    BY <1>4 DEF StartByHand, ServiceTypeOK
  <2> QED BY <1>4, <2>1 DEF StartByHand, Resolved, Idle
<1>5. CASE UnitCollected
  <2>1. ServiceTypeOK'
    BY <1>5 DEF UnitCollected, ServiceTypeOK, MaybeConfigs
  <2> QED BY <1>5, <2>1 DEF UnitCollected, Resolved
<1>6. CASE Boot
  <2>1. ServiceTypeOK'
    BY <1>0, <1>6 DEF Boot, ServiceTypeOK, MaybeConfigs, Outcomes
  <2> QED BY <1>6, <2>1 DEF Boot, Resolved, Idle
<1>7. CASE UNCHANGED serviceVars
  <2>1. ServiceTypeOK'
    BY <1>7 DEF serviceVars, ServiceTypeOK
  <2> QED BY <1>7, <2>1 DEF serviceVars, Resolved
<1> QED BY <1>1, <1>2, <1>3, <1>4, <1>5, <1>6, <1>7

LEMMA ServiceInductive == ServiceSpec => []ServiceInv
<1>1. ServiceInv /\ [ServiceNext]_serviceVars => ServiceInv'
  BY RunKeeps, CallKeeps, ReportKeeps, OutsideKeeps DEF ServiceNext
<1> QED BY <1>1, ServiceInitInv, PTL DEF ServiceSpec

\* The variables of the service keep their types.
THEOREM ServiceTypeCorrect == ServiceSpec => []ServiceTypeOK
<1>1. ServiceInv => ServiceTypeOK
  BY DEF ServiceInv
<1> QED BY <1>1, ServiceInductive, PTL

\* For all ports and URLs: what install and uninstall report is true of systemd
\* until the next command, whatever fails, boots or is started in between.
THEOREM ReportsAreTrue == ServiceSpec => []ServiceAsReported
<1>1. ServiceInv => ServiceAsReported
  BY DEF ServiceInv
<1> QED BY <1>1, ServiceInductive, PTL
==============================================================================
