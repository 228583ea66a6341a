---------------------------- MODULE WebhookProofs ----------------------------
(***************************************************************************)
(* What the webhook promises for any number of deliveries, requests, apps, *)
(* database errors and restarts. The inductive invariant adds to the types *)
(* what a request has done by the time it is at a place, which requests of *)
(* one delivery can be under way together, and of which app the events in  *)
(* progress are.                                                           *)
(***************************************************************************)
EXTENDS Webhook, TLAPS

\* A delivery that has been given its job, or an excuse.
Settled(d) == jobs[d] > 0 \/ d \in skipped \cup unread

Deploys(d) == KindOf[d] \in {"push", "tag"}

\* A request carries its delivery from its arrival, and has its answer when it
\* is over.
RequestInv ==
    \A r \in Requests :
        /\ at[r] # "idle" => delivery[r] \in Deliveries
        /\ at[r] # "answered" => answer[r] = 0

\* A delivery is marked, and about to be marked, only when it is settled.
AckInv ==
    /\ \A r \in Requests : at[r] \in {"logpath", "mark"} /\ Deploys(delivery[r])
                              => Settled(delivery[r])
    /\ \A d \in seen : Deploys(d) => Settled(d)
    /\ AcknowledgedIsQueued

\* Requests of the delivery d between the dedup check and Mark.
HandledBy(d) == {r \in Requests : delivery[r] = d /\ at[r] \in Handling}

\* A delivery with no reason to be handled again is handled by one request at a
\* time, by none once it is marked, and is marked or about to be when it has a job.
OnceInv ==
    \A d \in Deliveries : again[d] = {} =>
        /\ \A q, r \in HandledBy(d) : q = r
        /\ d \in seen => HandledBy(d) = {}
        /\ jobs[d] \in {0, 1}
        /\ jobs[d] = 1 => \/ d \in seen
                          \/ \E r \in HandledBy(d) : at[r] \in {"logpath", "mark"}

\* An installation event in progress is one of the stored app.
AppInv ==
    swapped \/ /\ inst \in {None, app}
               /\ \A r \in Requests :
                     at[r] \in {"dedup", "route"} /\ KindOf[delivery[r]] = "installation"
                        => app \in {None, AppOf[delivery[r]]}

WebhookInv == TypeOK /\ RequestInv /\ AckInv /\ OnceInv /\ AppInv

------------------------------------------------------------------------------

LEMMA WebhookInitInv == Init => WebhookInv
<1> SUFFICES ASSUME Init PROVE WebhookInv
  OBVIOUS
<1>1. TypeOK
  <2>1. project \in Projects /\ target \in [Requests -> 0 .. MaxProjects]
        /\ faults \in 0 .. MaxFaults /\ jobs \in [Deliveries -> Nat]
    BY WebhookAssumption DEF Init, Projects
  <2>2. again \in [Deliveries -> SUBSET {"overlap", "partial", "forgotten"}]
    BY DEF Init
  <2>3. AppRowTypeOK /\ swapped \in BOOLEAN
    BY DEF Init, AppRowInit, AppRowTypeOK
  <2>4. at \in [Requests -> Positions] /\ delivery \in [Requests -> Deliveries \cup {None}]
        /\ answer \in [Requests -> {0, 200, 204, 401, 429, 500}]
    BY DEF Init, Positions
  <2> QED BY <2>1, <2>2, <2>3, <2>4 DEF Init, TypeOK
<1>2. RequestInv /\ AckInv /\ OnceInv /\ AppInv
  BY DEF Init, AppRowInit, RequestInv, AckInv, AcknowledgedIsQueued, OnceInv, HandledBy,
     Handling, AppInv
<1> QED BY <1>1, <1>2 DEF WebhookInv

\* The two outcomes of the dedup check.
Duplicate(r) ==
    /\ at' = [at EXCEPT ![r] = "answered"]
    /\ answer' = [answer EXCEPT ![r] = 200]
    /\ delivery[r] \in seen \cup mistaken'
    /\ mistaken' \in {mistaken, mistaken \cup {delivery[r]}}
    /\ UNCHANGED again

Fresh(r) ==
    /\ at' = [at EXCEPT ![r] = "route"]
    /\ again' = [again EXCEPT ![delivery[r]] =
                    @ \cup (IF Overlaps(r) THEN {"overlap"} ELSE {})
                      \cup (IF delivery[r] \in seen THEN {"forgotten"} ELSE {})]
    /\ UNCHANGED <<answer, mistaken>>

LEMMA DedupOutcomes ==
  ASSUME NEW r \in Requests, Dedup(r)
  PROVE  /\ at[r] = "dedup"
         /\ Duplicate(r) \/ Fresh(r)
         /\ UNCHANGED <<appVars, created, project, seen, delivery, target, jobs, faults,
                        skipped, unread, swapped>>
BY DEF Dedup, Answer, Goto, Duplicate, Fresh

------------------------------------------------------------------------------
(* Types *)

LEMMA RequestKeepsTypes ==
  ASSUME TypeOK, RequestInv, NEW r \in Requests,
         RequestStep(r) \/ \E d \in Deliveries : Arrive(r, d)
  PROVE  TypeOK'
<1> USE WebhookAssumption DEF TypeOK, Goto, Answer, Fault, history, appVars
<1>1. CASE \E d \in Deliveries : Arrive(r, d)
  BY <1>1 DEF Arrive, Positions, AppRowTypeOK
<1>2. CASE Verify(r)
  BY <1>2 DEF Verify, Positions, AppRowTypeOK
<1>3. CASE Dedup(r)
  <2>1. at' \in [Requests -> Positions]
    BY <1>3, DedupOutcomes DEF Duplicate, Fresh, Positions
  <2>2. answer' \in [Requests -> {0, 200, 204, 401, 429, 500}]
    BY <1>3, DedupOutcomes DEF Duplicate, Fresh
  <2>3. mistaken' \subseteq Deliveries
    BY <1>3, DedupOutcomes DEF Duplicate, Fresh, RequestInv
  <2>4. again' \in [Deliveries -> SUBSET {"overlap", "partial", "forgotten"}]
    BY <1>3, DedupOutcomes DEF Duplicate, Fresh
  <2>5. AppRowTypeOK' /\ swapped' \in BOOLEAN
    BY <1>3, DedupOutcomes DEF AppRowTypeOK
  <2> QED BY <1>3, <2>1, <2>2, <2>3, <2>4, <2>5, DedupOutcomes
<1>4. CASE RouteDeploy(r)
  BY <1>4 DEF RouteDeploy, Positions, AppRowTypeOK, RequestInv, Projects
<1>5. CASE RouteInstallation(r)
  BY <1>5 DEF RouteInstallation, SetGitHubInstallationID, Positions, AppRowTypeOK,
     RequestInv
<1>6. CASE RouteOther(r)
  BY <1>6 DEF RouteOther, Positions, AppRowTypeOK
<1>7. CASE TriggerGet(r) \/ TriggerInsert(r)
  BY <1>7 DEF TriggerGet, TriggerInsert, Positions, AppRowTypeOK
<1>8. CASE TriggerLogPath(r)
  BY <1>8 DEF TriggerLogPath, Because, Positions, AppRowTypeOK
<1>9. CASE Mark(r)
  BY <1>9 DEF Mark, Positions, AppRowTypeOK, RequestInv
<1> QED BY <1>1, <1>2, <1>3, <1>4, <1>5, <1>6, <1>7, <1>8, <1>9 DEF RequestStep

LEMMA OthersKeepTypes ==
  ASSUME TypeOK, (\E d \in Deliveries : Expire(d)) \/ Restart \/ Administer
  PROVE  TypeOK'
<1> USE WebhookAssumption DEF TypeOK, Fault, history, appVars, requestVars
<1>1. CASE \E d \in Deliveries : Expire(d)
  BY <1>1 DEF Expire, Because, AppRowTypeOK
<1>2. CASE Restart
  <2>1. again' \in [Deliveries -> SUBSET {"overlap", "partial", "forgotten"}]
    <3>1. ASSUME NEW d \in Deliveries
          PROVE  again'[d] \subseteq {"overlap", "partial", "forgotten"}
      BY <1>2 DEF Restart
    <3>2. DOMAIN again' = Deliveries /\ again' = [d \in Deliveries |-> again'[d]]
      BY <1>2 DEF Restart
    <3> QED BY <3>1, <3>2
  <2>2. at' \in [Requests -> Positions]
    BY <1>2 DEF Restart, Positions
  <2> QED BY <1>2, <2>1, <2>2 DEF Restart, AppRowTypeOK
<1>3. CASE \E a \in Apps : Connect(a)
  BY <1>3 DEF Connect, UpsertGitHubApp, AppRowTypeOK
<1>4. CASE Disconnect
  BY <1>4 DEF Disconnect, DeleteGitHubApp, AppRowTypeOK
<1>5. CASE CreateProject \/ UpdateProject \/ DeleteProject
  <2>1. project' \in Projects
    <3>1. CASE CreateProject
      BY <3>1 DEF CreateProject, Projects
    <3>2. CASE UpdateProject
      BY <3>2 DEF UpdateProject, Projects
    <3>3. CASE DeleteProject
      BY <3>3 DEF DeleteProject, Projects
    <3> QED BY <1>5, <3>1, <3>2, <3>3
  <2> QED BY <1>5, <2>1 DEF CreateProject, UpdateProject, DeleteProject, AppRowTypeOK
<1> QED BY <1>1, <1>2, <1>3, <1>4, <1>5 DEF Administer

------------------------------------------------------------------------------
(* One step of one request *)

\* What a step of request r does to its place, and to no other's.
LEMMA StepIsLocal ==
  ASSUME TypeOK, RequestInv, NEW r \in Requests, RequestStep(r)
  PROVE  /\ UNCHANGED <<delivery, created, project>>
         /\ delivery[r] \in Deliveries
         /\ at[r] \notin {"idle", "answered"}
         /\ \A q \in Requests : q # r => at'[q] = at[q] /\ answer'[q] = answer[q]
         /\ \/ at'[r] \notin {"idle", "answered"} /\ answer'[r] = answer[r]
            \/ at'[r] = "answered"
         /\ answer'[r] \in {200, 204} => Dedup(r) \/ Mark(r)
<1> USE DEF TypeOK, Goto, Answer
<1>1. CASE Verify(r)
  BY <1>1 DEF Verify, RequestInv
<1>2. CASE Dedup(r)
  BY <1>2, DedupOutcomes DEF Duplicate, Fresh, RequestInv
<1>3. CASE RouteDeploy(r)
  BY <1>3 DEF RouteDeploy, RequestInv
<1>4. CASE RouteInstallation(r) \/ RouteOther(r)
  BY <1>4 DEF RouteInstallation, RouteOther, RequestInv
<1>5. CASE TriggerGet(r) \/ TriggerInsert(r)
  BY <1>5 DEF TriggerGet, TriggerInsert, RequestInv
<1>6. CASE TriggerLogPath(r)
  BY <1>6 DEF TriggerLogPath, RequestInv
<1>7. CASE Mark(r)
  BY <1>7 DEF Mark, RequestInv
<1> QED BY <1>1, <1>2, <1>3, <1>4, <1>5, <1>6, <1>7 DEF RequestStep

LEMMA StepKeepsRequestInv ==
  ASSUME TypeOK, RequestInv, [Next]_vars
  PROVE  RequestInv'
<1>1. ASSUME NEW r \in Requests, RequestStep(r)
      PROVE  RequestInv'
  <2>1. ASSUME NEW q \in Requests
        PROVE  /\ at'[q] # "idle" => delivery'[q] \in Deliveries
               /\ at'[q] # "answered" => answer'[q] = 0
    BY <1>1, StepIsLocal DEF RequestInv
  <2> QED BY <2>1 DEF RequestInv
<1>2. ASSUME NEW r \in Requests, NEW d \in Deliveries, Arrive(r, d)
      PROVE  RequestInv'
  BY <1>2 DEF Arrive, Goto, Answer, RequestInv, TypeOK
<1>3. CASE Restart
  <2>1. /\ \A q \in Requests : at'[q] \in {at[q], "answered"} /\ (at[q] = "idle" => at'[q] = "idle")
        /\ UNCHANGED <<delivery, answer>>
    BY <1>3 DEF Restart
  <2> QED BY <2>1 DEF RequestInv
<1>4. CASE (\E d \in Deliveries : Expire(d)) \/ Administer \/ UNCHANGED vars
  <2>1. UNCHANGED requestVars
    BY <1>4 DEF Expire, Administer, Connect, Disconnect, CreateProject, UpdateProject,
       DeleteProject, vars
  <2> QED BY <2>1 DEF requestVars, RequestInv
<1> QED BY <1>1, <1>2, <1>3, <1>4 DEF Next

------------------------------------------------------------------------------
(* Deliveries that are acknowledged *)

LEMMA RequestKeepsAck ==
  ASSUME TypeOK, RequestInv, AckInv, NEW r \in Requests, RequestStep(r)
  PROVE  AckInv'
<1>d. PICK d \in Deliveries : delivery[r] = d
  BY StepIsLocal
<1>0. /\ UNCHANGED delivery /\ delivery[r] = d
      /\ \A q \in Requests : q # r => at'[q] = at[q] /\ answer'[q] = answer[q]
      /\ answer'[r] \in {200, 204} => Dedup(r) \/ Mark(r)
  BY <1>d, StepIsLocal
<1>1. mistaken \subseteq mistaken' /\ \A e \in Deliveries : Settled(e) => Settled(e)'
  <2>1. CASE TriggerInsert(r)
    BY <2>1 DEF TriggerInsert, history, Settled, TypeOK
  <2>2. CASE Dedup(r)
    BY <2>2, DedupOutcomes DEF Duplicate, Fresh, Settled
  <2>3. CASE RouteDeploy(r)
    BY <2>3 DEF RouteDeploy, Settled
  <2>4. CASE Verify(r) \/ RouteInstallation(r) \/ RouteOther(r) \/ TriggerGet(r)
             \/ TriggerLogPath(r) \/ Mark(r)
    BY <2>4 DEF Verify, RouteInstallation, RouteOther, TriggerGet, TriggerLogPath, Mark,
       history, Settled
  <2> QED BY <2>1, <2>2, <2>3, <2>4 DEF RequestStep
<1>2. at'[r] \in {"logpath", "mark"} /\ Deploys(d) => Settled(d)'
  <2> USE <1>d DEF TypeOK, Goto, Answer
  <2>1. CASE Verify(r) \/ TriggerGet(r) \/ Mark(r)
    BY <2>1 DEF Verify, TriggerGet, Mark
  <2>2. CASE Dedup(r)
    BY <2>2, DedupOutcomes DEF Duplicate, Fresh
  <2>3. CASE RouteDeploy(r)
    BY <2>3 DEF RouteDeploy, Settled
  <2>4. CASE RouteInstallation(r) \/ RouteOther(r)
    BY <2>4 DEF RouteInstallation, RouteOther, Deploys
  <2>5. CASE TriggerInsert(r)
    BY <1>0, <2>5 DEF TriggerInsert, Settled
  <2>6. CASE TriggerLogPath(r)
    BY <2>6 DEF TriggerLogPath, Settled, AckInv
  <2> QED BY <2>1, <2>2, <2>3, <2>4, <2>5, <2>6 DEF RequestStep
<1>3. seen' \subseteq seen \cup {d} /\ (seen' = seen \/ Mark(r))
  <2>1. CASE Dedup(r)
    BY <2>1, DedupOutcomes
  <2>2. CASE Mark(r)
    BY <1>d, <2>2 DEF Mark
  <2>3. CASE \/ Verify(r) \/ RouteDeploy(r) \/ RouteInstallation(r) \/ RouteOther(r)
             \/ TriggerGet(r) \/ TriggerInsert(r) \/ TriggerLogPath(r)
    BY <2>3 DEF Verify, RouteDeploy, RouteInstallation, RouteOther, TriggerGet,
       TriggerInsert, TriggerLogPath
  <2> QED BY <2>1, <2>2, <2>3 DEF RequestStep
<1>4. Mark(r) => at[r] = "mark"
  BY DEF Mark
<1>5. answer'[r] \in {200, 204} /\ Deploys(d) => Settled(d)' \/ d \in mistaken'
  <2>1. CASE Mark(r)
    BY <1>0, <1>1, <1>4, <2>1 DEF AckInv, Settled
  <2>2. CASE Dedup(r)
    <3>1. CASE Duplicate(r)
      BY <1>0, <1>1, <3>1 DEF Duplicate, AckInv, Settled
    <3>2. CASE Fresh(r)
      <4>1. answer'[r] = 0
        BY <2>2, <3>2, DedupOutcomes DEF Fresh, RequestInv
      <4> QED BY <4>1
    <3> QED BY <2>2, <3>1, <3>2, DedupOutcomes
  <2> QED BY <1>0, <2>1, <2>2
<1>6. \A q \in Requests : at'[q] \in {"logpath", "mark"} /\ Deploys(delivery'[q])
                             => \/ jobs'[delivery'[q]] > 0
                                \/ delivery'[q] \in skipped' \cup unread'
  <2> SUFFICES ASSUME NEW q \in Requests, at'[q] \in {"logpath", "mark"},
                      Deploys(delivery[q])
               PROVE  \/ jobs'[delivery[q]] > 0
                      \/ delivery[q] \in skipped' \cup unread'
    BY <1>0 DEF Settled
  <2>1. CASE q = r
    BY <1>0, <1>2, <2>1 DEF Settled
  <2>2. CASE q # r
    <3>1. at[q] = at'[q] /\ delivery[q] \in Deliveries
      BY <1>0, <2>2 DEF RequestInv
    <3> QED BY <1>1, <3>1 DEF AckInv, Settled
  <2> QED BY <2>1, <2>2
<1>7. \A e \in seen' : Deploys(e) => Settled(e)'
  <2>1. \A e \in seen : Deploys(e) => Settled(e)'
    BY <1>1 DEF AckInv, TypeOK, Settled
  <2>2. Mark(r) /\ Deploys(d) => Settled(d)'
    BY <1>0, <1>1, <1>4 DEF AckInv, Settled
  <2> QED BY <1>3, <2>1, <2>2 DEF Settled
<1>8. AcknowledgedIsQueued'
  <2> SUFFICES ASSUME NEW q \in Requests, answer'[q] \in {200, 204}, Deploys(delivery[q])
               PROVE  \/ jobs'[delivery[q]] > 0
                      \/ delivery[q] \in skipped' \cup unread' \cup mistaken'
    BY <1>0 DEF AcknowledgedIsQueued, Settled, Deploys
  <2>1. CASE q = r
    BY <1>0, <1>5, <2>1 DEF Settled
  <2>2. CASE q # r
    <3>1. answer[q] \in {200, 204} /\ delivery[q] \in Deliveries
      BY <1>0, <2>2 DEF RequestInv, TypeOK
    <3>2. Settled(delivery[q]) \/ delivery[q] \in mistaken
      BY <3>1 DEF AckInv, AcknowledgedIsQueued, Settled, Deploys
    <3> QED BY <1>1, <3>1, <3>2 DEF Settled
  <2> QED BY <2>1, <2>2
<1> QED BY <1>6, <1>7, <1>8 DEF AckInv, Settled, Deploys

LEMMA StepKeepsAck ==
  ASSUME TypeOK, RequestInv, AckInv, [Next]_vars
  PROVE  AckInv'
<1>1. ASSUME NEW r \in Requests, RequestStep(r)
      PROVE  AckInv'
  BY <1>1, RequestKeepsAck
<1>2. ASSUME NEW r \in Requests, NEW d \in Deliveries, Arrive(r, d)
      PROVE  AckInv'
  <2>1. /\ \A q \in Requests : q # r => /\ at'[q] = at[q] /\ answer'[q] = answer[q]
                                        /\ delivery'[q] = delivery[q]
        /\ at'[r] \notin {"logpath", "mark"} /\ answer'[r] \notin {200, 204}
        /\ UNCHANGED <<seen, jobs, skipped, unread, mistaken>>
    BY <1>2 DEF Arrive, Goto, Answer, TypeOK, RequestInv, history
  <2> QED BY <2>1 DEF AckInv, AcknowledgedIsQueued, Settled, Deploys
<1>3. CASE Restart
  <2>1. /\ \A q \in Requests : at'[q] \in {at[q], "answered"}
        /\ seen' = {}
        /\ UNCHANGED <<delivery, answer, jobs, skipped, unread, mistaken>>
    BY <1>3 DEF Restart
  <2> QED BY <2>1 DEF AckInv, AcknowledgedIsQueued, Settled, Deploys
<1>4. CASE (\E d \in Deliveries : Expire(d)) \/ Administer \/ UNCHANGED vars
  <2>1. /\ UNCHANGED <<requestVars, jobs, skipped, unread, mistaken>>
        /\ seen' \subseteq seen
    BY <1>4 DEF Expire, Administer, Connect, Disconnect, CreateProject, UpdateProject,
       DeleteProject, vars, history
  <2> QED BY <2>1 DEF requestVars, AckInv, AcknowledgedIsQueued, Settled, Deploys
<1> QED BY <1>1, <1>2, <1>3, <1>4 DEF Next

------------------------------------------------------------------------------
(* Deliveries that are handled again *)

\* What a request of delivery d that is being handled does next, when it gives
\* no reason to handle d again.
HandledStep(r, d) ==
    \/ /\ at[r] \in {"route", "trigger", "insert"}
       /\ at'[r] \in {"trigger", "insert", "mark", "answered"}
       /\ UNCHANGED <<jobs, seen>>
    \/ /\ at[r] = "insert" /\ at'[r] = "logpath"
       /\ jobs' = [jobs EXCEPT ![d] = @ + 1]
       /\ UNCHANGED seen
    \/ /\ at[r] = "logpath" /\ at'[r] = "mark"
       /\ UNCHANGED <<jobs, seen>>
    \/ /\ at[r] = "mark" /\ at'[r] = "answered"
       /\ seen' = seen \cup {d}
       /\ UNCHANGED jobs

LEMMA HandledSteps ==
  ASSUME TypeOK, RequestInv, NEW r \in Requests, NEW d \in Deliveries, delivery[r] = d,
         at[r] \in Handling, RequestStep(r), again'[d] = {}
  PROVE  HandledStep(r, d)
<1> USE DEF TypeOK, Goto, Answer, HandledStep
<1>1. CASE Verify(r) \/ Dedup(r)
  BY <1>1 DEF Verify, Dedup, Handling
<1>2. CASE RouteDeploy(r)
  BY <1>2 DEF RouteDeploy
<1>3. CASE RouteInstallation(r) \/ RouteOther(r)
  BY <1>3 DEF RouteInstallation, RouteOther
<1>4. CASE TriggerGet(r) \/ TriggerInsert(r)
  BY <1>4 DEF TriggerGet, TriggerInsert
<1>5. CASE TriggerLogPath(r)
  BY <1>5 DEF TriggerLogPath, Because
<1>6. CASE Mark(r)
  BY <1>6 DEF Mark
<1> QED BY <1>1, <1>2, <1>3, <1>4, <1>5, <1>6 DEF RequestStep

\* A step before the dedup check has passed.
LEMMA EarlySteps ==
  ASSUME TypeOK, RequestInv, NEW r \in Requests, at[r] \notin Handling, RequestStep(r)
  PROVE  /\ UNCHANGED <<jobs, seen>>
         /\ \/ at'[r] \notin Handling /\ UNCHANGED again
            \/ at'[r] = "route" /\ Fresh(r)
<1>1. CASE Verify(r)
  BY <1>1 DEF Verify, Goto, Answer, TypeOK, history, Handling
<1>2. CASE Dedup(r)
  BY <1>2, DedupOutcomes DEF Duplicate, Fresh, TypeOK, Handling
<1>3. Verify(r) \/ Dedup(r)
  BY DEF RequestStep, RouteDeploy, RouteInstallation, RouteOther, TriggerGet,
     TriggerInsert, TriggerLogPath, Mark, Handling
<1> QED BY <1>1, <1>2, <1>3

\* Other deliveries are not concerned.
LEMMA OtherDeliveries ==
  ASSUME TypeOK, RequestInv, NEW r \in Requests, RequestStep(r),
         NEW e \in Deliveries, e # delivery[r]
  PROVE  jobs'[e] = jobs[e] /\ (e \in seen' <=> e \in seen) /\ again'[e] = again[e]
<1> USE DEF TypeOK
<1>1. CASE Verify(r) \/ RouteDeploy(r) \/ RouteInstallation(r) \/ RouteOther(r)
           \/ TriggerGet(r)
  BY <1>1 DEF Verify, RouteDeploy, RouteInstallation, RouteOther, TriggerGet, history
<1>2. CASE Dedup(r)
  BY <1>2, DedupOutcomes DEF Duplicate, Fresh
<1>3. CASE TriggerInsert(r)
  BY <1>3 DEF TriggerInsert, history
<1>4. CASE TriggerLogPath(r)
  BY <1>4 DEF TriggerLogPath, Because
<1>5. CASE Mark(r)
  BY <1>5 DEF Mark, history
<1> QED BY <1>1, <1>2, <1>3, <1>4, <1>5 DEF RequestStep

\* OnceInv for one delivery.
Once(d) ==
    again[d] = {} =>
        /\ \A q, r \in HandledBy(d) : q = r
        /\ d \in seen => HandledBy(d) = {}
        /\ jobs[d] \in {0, 1}
        /\ jobs[d] = 1 => \/ d \in seen
                          \/ \E r \in HandledBy(d) : at[r] \in {"logpath", "mark"}

LEMMA RequestKeepsOnce ==
  ASSUME TypeOK, RequestInv, OnceInv, NEW r \in Requests, RequestStep(r)
  PROVE  OnceInv'
<1>d. PICK d \in Deliveries : delivery[r] = d
  BY StepIsLocal
<1>0. /\ UNCHANGED delivery
      /\ \A q \in Requests : q # r => at'[q] = at[q]
  BY StepIsLocal
<1>1. ASSUME NEW e \in Deliveries, e # d
      PROVE  Once(e)'
  <2>1. jobs'[e] = jobs[e] /\ (e \in seen' <=> e \in seen) /\ again'[e] = again[e]
    BY <1>d, <1>1, OtherDeliveries
  <2>2. HandledBy(e)' = HandledBy(e) /\ \A q \in HandledBy(e) : at'[q] = at[q]
    BY <1>d, <1>0, <1>1 DEF HandledBy
  <2>3. Once(e)
    BY DEF OnceInv, Once
  <2> QED BY <2>1, <2>2, <2>3 DEF Once
<1>2. ASSUME again'[d] = {}, at[r] \notin Handling, at'[r] \notin Handling
      PROVE  Once(d)'
  <2>1. UNCHANGED <<jobs, seen, again>>
    BY <1>2, EarlySteps DEF Handling
  <2>2. HandledBy(d)' = HandledBy(d) /\ \A q \in HandledBy(d) : at'[q] = at[q]
    BY <1>0, <1>2 DEF HandledBy
  <2>3. Once(d)
    BY DEF OnceInv, Once
  <2> QED BY <2>1, <2>2, <2>3 DEF Once
<1>3. ASSUME again'[d] = {}, at[r] \notin Handling, at'[r] \in Handling
      PROVE  Once(d)'
  <2>1. UNCHANGED <<jobs, seen>> /\ Fresh(r) /\ at'[r] = "route"
    BY <1>3, EarlySteps
  <2>2. again[d] = {} /\ ~Overlaps(r) /\ d \notin seen
    BY <1>d, <1>3, <2>1 DEF Fresh, TypeOK
  <2>3. HandledBy(d) = {}
    BY <1>d, <1>3, <2>2 DEF Overlaps, HandledBy
  <2>4. jobs[d] = 0
    BY <2>2, <2>3 DEF OnceInv
  <2>5. HandledBy(d)' \subseteq {r}
    BY <1>0, <2>3 DEF HandledBy
  <2> QED BY <2>1, <2>2, <2>4, <2>5 DEF Once
<1>4. ASSUME again'[d] = {}, at[r] \in Handling
      PROVE  Once(d)'
  <2>1. HandledStep(r, d)
    BY <1>d, <1>4, HandledSteps
  <2>2. again[d] = {}
    <3>1. again[d] \subseteq again'[d]
      <4>1. ~Dedup(r)
        BY <1>4 DEF Dedup, Handling
      <4> QED BY <1>d, <4>1 DEF RequestStep, Verify, RouteDeploy, RouteInstallation,
              RouteOther, TriggerGet, TriggerInsert, TriggerLogPath, Because, Mark,
              history, TypeOK
    <3> QED BY <1>4, <3>1
  <2>3. HandledBy(d) = {r} /\ d \notin seen /\ jobs[d] \in {0, 1}
        /\ (jobs[d] = 1 => at[r] \in {"logpath", "mark"})
    BY <1>d, <1>4, <2>2 DEF OnceInv, HandledBy
  <2>4. HandledBy(d)' = IF at'[r] \in Handling THEN {r} ELSE {}
    BY <1>d, <1>0, <2>3 DEF HandledBy
  <2>5. jobs'[d] \in {0, 1} /\ (d \in seen' => at'[r] \notin Handling)
        /\ (jobs'[d] = 1 => d \in seen' \/ at'[r] \in {"logpath", "mark"})
    <3>1. CASE /\ at[r] \in {"route", "trigger", "insert"}
               /\ at'[r] \in {"trigger", "insert", "mark", "answered"}
               /\ UNCHANGED <<jobs, seen>>
      BY <2>3, <3>1
    <3>2. CASE /\ at[r] = "insert" /\ at'[r] = "logpath"
               /\ jobs' = [jobs EXCEPT ![d] = @ + 1]
               /\ UNCHANGED seen
      BY <2>3, <3>2 DEF TypeOK
    <3>3. CASE /\ at[r] = "logpath" /\ at'[r] = "mark"
               /\ UNCHANGED <<jobs, seen>>
      BY <2>3, <3>3
    <3>4. CASE /\ at[r] = "mark" /\ at'[r] = "answered"
               /\ seen' = seen \cup {d}
               /\ UNCHANGED jobs
      BY <2>3, <3>4 DEF Handling
    <3> QED BY <2>1, <3>1, <3>2, <3>3, <3>4 DEF HandledStep
  <2> QED BY <2>4, <2>5 DEF Once, Handling
<1>5. Once(d)'
  BY <1>2, <1>3, <1>4 DEF Once
<1> QED BY <1>1, <1>5 DEF OnceInv, Once

LEMMA StepKeepsOnce ==
  ASSUME TypeOK, RequestInv, OnceInv, [Next]_vars
  PROVE  OnceInv'
<1>1. ASSUME NEW r \in Requests, RequestStep(r)
      PROVE  OnceInv'
  BY <1>1, RequestKeepsOnce
<1>2. ASSUME NEW r \in Requests, NEW x \in Deliveries, Arrive(r, x)
      PROVE  OnceInv'
  <2>1. /\ at[r] \notin Handling /\ at'[r] \notin Handling
        /\ \A q \in Requests : q # r => at'[q] = at[q] /\ delivery'[q] = delivery[q]
        /\ UNCHANGED <<seen, jobs, again>>
    BY <1>2 DEF Arrive, Goto, Answer, TypeOK, Handling, history
  <2>2. \A d \in Deliveries : /\ HandledBy(d)' = HandledBy(d)
                              /\ \A q \in HandledBy(d) : at'[q] = at[q]
    BY <2>1 DEF HandledBy
  <2> QED BY <2>1, <2>2 DEF OnceInv
<1>3. CASE Restart
  <2>1. /\ seen' = {} /\ UNCHANGED <<delivery, jobs>>
        /\ \A q \in Requests : at'[q] \notin Handling
    BY <1>3 DEF Restart, Handling
  <2>2. \A d \in Deliveries : HandledBy(d)' = {}
    BY <2>1 DEF HandledBy
  <2>3. ASSUME NEW d \in Deliveries, again'[d] = {}
        PROVE  jobs[d] = 0
    <3>1. /\ again[d] = {} /\ d \notin seen
          /\ \A r \in Requests : delivery[r] = d => at[r] \notin {"logpath", "mark"}
      BY <1>3, <2>3 DEF Restart
    <3> QED BY <3>1 DEF OnceInv, HandledBy
  <2> QED BY <2>1, <2>2, <2>3 DEF OnceInv
<1>4. ASSUME NEW x \in Deliveries, Expire(x)
      PROVE  OnceInv'
  <2>1. /\ UNCHANGED <<at, delivery, jobs>>
        /\ again'[x] # {}
        /\ \A d \in Deliveries : d # x => again'[d] = again[d] /\ (d \in seen' <=> d \in seen)
    BY <1>4 DEF Expire, Because, requestVars, TypeOK
  <2> QED BY <2>1 DEF OnceInv, HandledBy
<1>5. CASE Administer \/ UNCHANGED vars
  <2>1. UNCHANGED <<at, delivery, jobs, seen, again>>
    BY <1>5 DEF Administer, Connect, Disconnect, CreateProject, UpdateProject,
       DeleteProject, vars, requestVars, history
  <2> QED BY <2>1 DEF OnceInv, HandledBy
<1> QED BY <1>1, <1>2, <1>3, <1>4, <1>5 DEF Next

------------------------------------------------------------------------------
(* The stored installation *)

LEMMA RequestKeepsApp ==
  ASSUME TypeOK, RequestInv, AppInv, NEW r \in Requests, RequestStep(r)
  PROVE  AppInv'
<1>0. /\ UNCHANGED delivery
      /\ \A q \in Requests : q # r => at'[q] = at[q]
  BY StepIsLocal
<1>1. CASE Verify(r)
  <2>1. UNCHANGED <<app, inst, swapped>>
        /\ (at'[r] = "dedup" => AppOf[delivery[r]] = app) /\ at'[r] # "route"
    BY <1>1 DEF Verify, Goto, Answer, TypeOK, appVars, history
  <2> QED BY <1>0, <2>1 DEF AppInv
<1>2. CASE Dedup(r)
  <2>1. UNCHANGED <<app, inst, swapped>> /\ at[r] = "dedup" /\ at'[r] # "dedup"
    BY <1>2, DedupOutcomes DEF Duplicate, Fresh, TypeOK, appVars
  <2> QED BY <1>0, <2>1 DEF AppInv
<1>3. CASE RouteInstallation(r)
  <2>1. /\ at[r] = "route" /\ at'[r] \notin {"dedup", "route"}
        /\ KindOf[delivery[r]] = "installation"
        /\ \/ SetGitHubInstallationID(AppOf[delivery[r]])
           \/ UNCHANGED appVars
        /\ UNCHANGED swapped
    BY <1>3 DEF RouteInstallation, Goto, Answer, TypeOK, history
  <2> QED BY <1>0, <2>1 DEF AppInv, SetGitHubInstallationID, appVars
<1>4. CASE \/ RouteDeploy(r) \/ RouteOther(r) \/ TriggerGet(r) \/ TriggerInsert(r)
           \/ TriggerLogPath(r) \/ Mark(r)
  <2>1. UNCHANGED <<app, inst, swapped>> /\ at'[r] \notin {"dedup", "route"}
    BY <1>4 DEF RouteDeploy, RouteOther, TriggerGet, TriggerInsert, TriggerLogPath, Mark,
       Goto, Answer, TypeOK, appVars, history
  <2> QED BY <1>0, <2>1 DEF AppInv
<1> QED BY <1>1, <1>2, <1>3, <1>4 DEF RequestStep

LEMMA StepKeepsApp ==
  ASSUME TypeOK, RequestInv, AppInv, [Next]_vars
  PROVE  AppInv'
<1>1. ASSUME NEW r \in Requests, RequestStep(r)
      PROVE  AppInv'
  BY <1>1, RequestKeepsApp
<1>2. ASSUME NEW r \in Requests, NEW x \in Deliveries, Arrive(r, x)
      PROVE  AppInv'
  <2>1. /\ at'[r] \notin {"dedup", "route"}
        /\ \A q \in Requests : q # r => at'[q] = at[q] /\ delivery'[q] = delivery[q]
        /\ UNCHANGED <<app, inst, swapped>>
    BY <1>2 DEF Arrive, Goto, Answer, TypeOK, appVars, history
  <2> QED BY <2>1 DEF AppInv
<1>3. CASE Restart
  <2>1. /\ \A q \in Requests : at'[q] \in {at[q], "answered"}
        /\ UNCHANGED <<delivery, app, inst, swapped>>
    BY <1>3 DEF Restart, appVars
  <2> QED BY <2>1 DEF AppInv
<1>4. ASSUME NEW a \in Apps, Connect(a)
      PROVE  AppInv'
  <2>1. /\ app' = a /\ UNCHANGED <<inst, at, delivery>>
        /\ ~swapped' => /\ inst = None
                        /\ \A r \in Requests : at[r] \in {"dedup", "route"}
                              => KindOf[delivery[r]] # "installation"
    BY <1>4 DEF Connect, UpsertGitHubApp, requestVars
  <2> QED BY <2>1 DEF AppInv
<1>5. CASE Disconnect
  BY <1>5 DEF Disconnect, DeleteGitHubApp, requestVars, history, AppInv
<1>6. CASE (\E d \in Deliveries : Expire(d)) \/ CreateProject \/ UpdateProject
           \/ DeleteProject \/ UNCHANGED vars
  <2>1. UNCHANGED <<at, delivery, app, inst, swapped>>
    BY <1>6 DEF Expire, CreateProject, UpdateProject, DeleteProject, vars, requestVars,
       appVars, history
  <2> QED BY <2>1 DEF AppInv
<1> QED BY <1>1, <1>2, <1>3, <1>4, <1>5, <1>6 DEF Next, Administer

------------------------------------------------------------------------------

LEMMA NextKeepsWebhookInv == WebhookInv /\ [Next]_vars => WebhookInv'
<1> SUFFICES ASSUME WebhookInv, [Next]_vars PROVE WebhookInv'
  OBVIOUS
<1>0. TypeOK /\ RequestInv /\ AckInv /\ OnceInv /\ AppInv
  BY DEF WebhookInv
<1>1. TypeOK'
  <2>1. CASE UNCHANGED vars
    BY <1>0, <2>1 DEF vars, appVars, requestVars, history, TypeOK, AppRowTypeOK
  <2> QED BY <1>0, <2>1, RequestKeepsTypes, OthersKeepTypes DEF Next
<1>2. RequestInv' /\ AckInv' /\ OnceInv' /\ AppInv'
  BY <1>0, StepKeepsRequestInv, StepKeepsAck, StepKeepsOnce, StepKeepsApp
<1> QED BY <1>1, <1>2 DEF WebhookInv

\* WebhookInv holds in every state of every behaviour.
THEOREM WebhookInvariant == Spec => []WebhookInv
<1> QED BY WebhookInitInv, NextKeepsWebhookInv, PTL DEF Spec

\* Every variable keeps its type; in particular the only answers are those that
\* handler.go gives.
THEOREM WebhookTypeCorrect == Spec => []TypeOK
<1>1. WebhookInv => TypeOK
  BY DEF WebhookInv
<1> QED BY <1>1, WebhookInvariant, PTL

\* What GitHub is told is handled has its job, or a recorded reason for having
\* none (handler.go:94-131, github_webhook_service.go:96-140).
THEOREM AcknowledgedDeploysAreQueued == Spec => []AcknowledgedIsQueued
<1>1. WebhookInv => AcknowledgedIsQueued
  BY DEF WebhookInv, AckInv
<1> QED BY <1>1, WebhookInvariant, PTL

\* A delivery has a second job only for one of the recorded reasons
\* (handler.go:38-67).
THEOREM DuplicateJobsAreExplained == Spec => []DuplicatesExplained
<1>1. WebhookInv => DuplicatesExplained
  BY DEF WebhookInv, OnceInv, DuplicatesExplained
<1> QED BY <1>1, WebhookInvariant, PTL

\* The stored installation is of the stored app unless the app was replaced
\* (github_webhook_service.go:178-195, queries.go).
THEOREM InstallationIsOfApp == Spec => []InstallationOfApp
<1>1. WebhookInv => InstallationOfApp
  BY DEF WebhookInv, AppInv, InstallationOfApp
<1> QED BY <1>1, WebhookInvariant, PTL
==============================================================================
