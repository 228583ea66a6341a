--------------------------- MODULE GitHubAuthProofs ---------------------------
(***************************************************************************)
(* What the GitHub plane promises for any number of apps, state tokens,    *)
(* callbacks and users of installation tokens. The inductive invariant     *)
(* adds to the types who still holds a state token after it was used up,   *)
(* which installation a token on its way belongs to, and which fetches a   *)
(* disconnect found under way.                                             *)
(***************************************************************************)
EXTENDS GitHubAuth, TLAPS

\* A callback that was let through by its state token.
Admitted(c) == callback[c].at \in {"exchange", "store"}

\* A token that can still be used, or that a callback was let through by, has
\* stored nothing; and it lets one callback through.
StateInv ==
    /\ \A c \in Callbacks : callback[c].at \in {"consume", "exchange", "store"}
                               => callback[c].state \in States
    /\ \A c \in Callbacks : callback[c].at = "store" => callback[c].app \in Apps
    /\ \A t \in States : state[t] = "fresh" => stored[t] = 0
    /\ \A c \in Callbacks : Admitted(c) => /\ state[callback[c].state] # "fresh"
                                           /\ stored[callback[c].state] = 0
    /\ \A c, d \in Callbacks :
           Admitted(c) /\ Admitted(d) /\ c # d => callback[c].state # callback[d].state
    /\ StateStoresOnce

\* Cached and served tokens are tokens of the installation they are kept for.
TokenInv ==
    /\ cache.token # None => cache.token = cache.inst
    /\ \A u \in Users : user[u].at \in {"set", "served"} => user[u].token = user[u].inst

\* After a disconnect only fetches that it found under way are under way.
StaleInv ==
    /\ app = None /\ leaving # "invalidate" =>
           \A u \in Users : user[u].at \in {"get", "fetch", "set"} => u \in inflight
    /\ CacheClearedOrStale

GitHubInv == TypeOK /\ StateInv /\ TokenInv /\ StaleInv

------------------------------------------------------------------------------

LEMMA GitHubInitInv == Init => GitHubInv
<1> SUFFICES ASSUME Init PROVE GitHubInv
  OBVIOUS
<1>1. TypeOK
  BY DEF Init, AppRowInit, TypeOK, AppRowTypeOK, EmptyCache, IdleUser, IdleCallback,
     NoRow
<1>2. StateInv
  BY DEF Init, StateInv, Admitted, StateStoresOnce, IdleCallback
<1>3. TokenInv /\ StaleInv
  BY DEF Init, AppRowInit, TokenInv, StaleInv, CacheClearedOrStale, EmptyCache, IdleUser
<1> QED BY <1>1, <1>2, <1>3 DEF GitHubInv

------------------------------------------------------------------------------
(* Types *)

\* What a callback may be.
CallbackRecords ==
    [at : {"idle", "consume", "exchange", "store", "done"},
     state : States \cup {None}, app : Apps \cup {None}]

\* The manifest flow leaves the users of tokens and the disconnect alone.
LEMMA FlowTypes ==
  ASSUME TypeOK, UNCHANGED <<cacheVars, leaveVars, cli>>,
         AppRowTypeOK',
         state' \in [States -> {"none", "fresh", "expired", "used"}],
         callback' \in [Callbacks -> CallbackRecords],
         created' \subseteq Apps, installed' \subseteq created', events' \subseteq created',
         stored' \in [States -> Nat]
  PROVE  TypeOK'
BY DEF TypeOK, CallbackRecords, cacheVars, leaveVars

LEMMA DoneTypes ==
  ASSUME TypeOK, NEW c \in Callbacks, Done(c)
  PROVE  callback' \in [Callbacks -> CallbackRecords]
<1>1. [IdleCallback EXCEPT !.at = "done"] \in CallbackRecords
  BY DEF IdleCallback, CallbackRecords
<1>2. callback \in [Callbacks -> CallbackRecords]
  BY DEF TypeOK, CallbackRecords
<1> QED BY <1>1, <1>2 DEF Done

LEMMA FlowKeepsTypes ==
  ASSUME TypeOK, StateInv,
         \/ \E t \in States : GenerateManifest(t) \/ StateExpires(t)
         \/ \E c \in Callbacks : CallbackStep(c) \/ \E t \in States : Redirected(c, t)
  PROVE  TypeOK'
<1>0. /\ AppRowTypeOK /\ created \subseteq Apps
      /\ installed \subseteq created /\ events \subseteq created
      /\ state \in [States -> {"none", "fresh", "expired", "used"}]
      /\ stored \in [States -> Nat]
      /\ callback \in [Callbacks -> CallbackRecords]
  BY DEF TypeOK, CallbackRecords
<1>a. UNCHANGED appVars => AppRowTypeOK'
  BY <1>0 DEF AppRowTypeOK, appVars
<1>1. ASSUME NEW t \in States, GenerateManifest(t) \/ StateExpires(t) PROVE TypeOK'
  <2>1. UNCHANGED <<appVars, callback, stored, githubVars, cacheVars, leaveVars, cli>>
    BY <1>1 DEF GenerateManifest, StateExpires
  <2>2. state' \in [States -> {"none", "fresh", "expired", "used"}]
    BY <1>0, <1>1 DEF GenerateManifest, StateExpires, Live
  <2> QED BY <1>0, <1>a, <2>1, <2>2, FlowTypes DEF githubVars
<1>2. ASSUME NEW c \in Callbacks, NEW t \in States, Redirected(c, t) PROVE TypeOK'
  <2>1. UNCHANGED <<appVars, state, stored, githubVars, cacheVars, leaveVars, cli>>
    BY <1>2 DEF Redirected
  <2>2. callback' \in [Callbacks -> CallbackRecords]
    BY <1>0, <1>2 DEF Redirected, CallbackRecords
  <2> QED BY <1>0, <1>a, <2>1, <2>2, FlowTypes DEF githubVars
<1>3. ASSUME NEW c \in Callbacks, ConsumeStateToken(c) PROVE TypeOK'
  <2>1. UNCHANGED <<appVars, stored, githubVars, cacheVars, leaveVars, cli>>
    BY <1>3 DEF ConsumeStateToken
  <2>2. At(c, "exchange") => callback' \in [Callbacks -> CallbackRecords]
    BY <1>0 DEF At, CallbackRecords
  <2>3. callback' \in [Callbacks -> CallbackRecords]
    BY <1>3, <2>2, DoneTypes DEF ConsumeStateToken
  <2>4. state' \in [States -> {"none", "fresh", "expired", "used"}]
    BY <1>0, <1>3 DEF ConsumeStateToken
  <2> QED BY <1>0, <1>a, <2>1, <2>3, <2>4, FlowTypes DEF githubVars
<1>4. ASSUME NEW c \in Callbacks, Exchange(c) PROVE TypeOK'
  <2>1. UNCHANGED <<appVars, state, stored, installed, events, cacheVars, leaveVars, cli>>
    BY <1>4 DEF Exchange
  <2>2. CASE Done(c) /\ UNCHANGED created
    BY <1>0, <1>a, <2>1, <2>2, DoneTypes, FlowTypes
  <2>3. CASE \E a \in Apps \ created :
                /\ created' = created \cup {a}
                /\ callback' = [callback EXCEPT ![c].at = "store", ![c].app = a]
    <3>1. created' \subseteq Apps /\ installed' \subseteq created' /\ events' \subseteq created'
      BY <1>0, <2>1, <2>3
    <3>2. PICK a \in Apps :
             callback' = [callback EXCEPT ![c].at = "store", ![c].app = a]
      BY <2>3
    <3>3. [callback[c] EXCEPT !.at = "store", !.app = a] \in CallbackRecords
      BY <1>0 DEF CallbackRecords
    <3>4. callback' = [callback EXCEPT ![c] = [callback[c] EXCEPT !.at = "store", !.app = a]]
      BY <1>0, <3>2
    <3>5. callback' \in [Callbacks -> CallbackRecords]
      BY <1>0, <3>3, <3>4
    <3> QED BY <1>0, <1>a, <2>1, <3>1, <3>5, FlowTypes
  <2> QED BY <1>4, <2>2, <2>3 DEF Exchange
<1>5. ASSUME NEW c \in Callbacks, StoreApp(c) PROVE TypeOK'
  <2>1. UNCHANGED <<state, githubVars, cacheVars, leaveVars, cli>> /\ Done(c)
    BY <1>5 DEF StoreApp
  <2>2. callback[c].at = "store" /\ callback[c].app \in Apps /\ callback[c].state \in States
    BY <1>5 DEF StoreApp, StateInv
  <2>3. AppRowTypeOK' /\ stored' \in [States -> Nat]
    BY <1>0, <1>5, <2>2 DEF StoreApp, UpsertGitHubApp, AppRowTypeOK, appVars
  <2> QED BY <1>0, <2>1, <2>3, DoneTypes, FlowTypes DEF githubVars
<1> QED BY <1>1, <1>2, <1>3, <1>4, <1>5 DEF CallbackStep

LEMMA InstallationKeepsTypes ==
  ASSUME TypeOK,
         \E a \in Apps : \/ Install(a) \/ Uninstall(a)
                         \/ VerifyInstallation(a) \/ StoreInstallation(a)
  PROVE  TypeOK'
BY DEF Install, Uninstall, VerifyInstallation, StoreInstallation,
   SetGitHubInstallationID, TypeOK, AppRowTypeOK, appVars, flowVars, cacheVars,
   leaveVars

LEMMA UserKeepsTypes ==
  ASSUME TypeOK, (\E u \in Users : UserStep(u)) \/ CacheExpires
  PROVE  TypeOK'
<1>1. CASE \E u \in Users : ReadApp(u)
  BY <1>1 DEF ReadApp, TypeOK, AppRowTypeOK, appVars, flowVars, githubVars, leaveVars
<1>2. CASE \E u \in Users : Get(u)
  BY <1>2 DEF Get, Serve, TypeOK, AppRowTypeOK, appVars, flowVars, githubVars, leaveVars
<1>3. CASE \E u \in Users : FetchToken(u)
  BY <1>3, AppsAssumption DEF FetchToken, IdleUser, TypeOK, AppRowTypeOK, appVars,
     flowVars, githubVars, leaveVars
<1>4. CASE \E u \in Users : SetToken(u)
  <2>1. PICK u \in Users : SetToken(u)
    BY <1>4
  <2>2. cache' \in [inst : Apps \cup {None}, token : Apps \cup {None}]
    BY <2>1 DEF SetToken, TypeOK
  <2>3. user' = [user EXCEPT ![u].at = "served", ![u].token = user[u].token]
    BY <2>1 DEF SetToken, Serve
  <2>4. /\ user' \in [Users -> [at : {"idle", "get", "fetch", "set", "served"},
                                app : Apps \cup {None}, inst : Apps \cup {None},
                                token : Apps \cup {None}]]
        /\ \A w \in Users : user'[w].at \in {"set", "served"} => user'[w].token # None
    <3>1. /\ user' = [user EXCEPT ![u] = user'[u]]
          /\ user'[u] = [user[u] EXCEPT !.at = "served"]
      BY <2>3 DEF TypeOK
    <3>2. user[u].token # None
      BY <2>1 DEF SetToken, TypeOK
    <3> QED BY <3>1, <3>2 DEF TypeOK
  <2>5. inflight' \subseteq Users
    BY <2>1 DEF SetToken, TypeOK
  <2>6. stale' \in BOOLEAN
    BY <2>1 DEF SetToken
  <2>7. UNCHANGED <<appVars, flowVars, githubVars, leaveVars, cli>>
    BY <2>1 DEF SetToken
  <2> QED BY <2>2, <2>4, <2>5, <2>6, <2>7 DEF TypeOK, AppRowTypeOK, appVars, flowVars,
             githubVars, leaveVars
<1>5. CASE CacheExpires
  BY <1>5 DEF CacheExpires, EmptyCache, TypeOK, AppRowTypeOK, appVars, flowVars,
     githubVars, leaveVars
<1> QED BY <1>1, <1>2, <1>3, <1>4, <1>5 DEF UserStep

LEMMA LeavingKeepsTypes ==
  ASSUME TypeOK, Disconnect \/ CliReads \/ CliUpserts
  PROVE  TypeOK'
<1>1. CASE DisconnectReads \/ RemoveFromGitHub
  BY <1>1 DEF DisconnectReads, RemoveFromGitHub, NoRow, TypeOK, AppRowTypeOK, appVars,
     flowVars, githubVars, cacheVars
<1>2. CASE DeleteRow
  BY <1>2 DEF DeleteRow, DeleteGitHubApp, TypeOK, AppRowTypeOK, appVars, flowVars,
     githubVars, cacheVars
<1>4. CASE Invalidate
  <2>1. cache' \in [inst : Apps \cup {None}, token : Apps \cup {None}]
    BY <1>4 DEF Invalidate, EmptyCache
  <2>2. stale' \in BOOLEAN /\ inflight' \subseteq Users /\ leaving' = "idle"
    BY <1>4 DEF Invalidate
  <2>3. UNCHANGED <<appVars, flowVars, githubVars, user, leaver, cli>>
    BY <1>4 DEF Invalidate
  <2> QED BY <2>1, <2>2, <2>3 DEF TypeOK, AppRowTypeOK, appVars, flowVars, githubVars
<1>3. CASE CliReads \/ CliUpserts
  BY <1>3 DEF CliReads, CliUpserts, UpsertGitHubApp, TypeOK, AppRowTypeOK, appVars,
     flowVars, githubVars, cacheVars, leaveVars
<1> QED BY <1>1, <1>2, <1>3, <1>4 DEF Disconnect

------------------------------------------------------------------------------
(* State tokens *)

LEMMA FlowKeepsStateInv ==
  ASSUME TypeOK, StateInv,
         \/ \E t \in States : GenerateManifest(t) \/ StateExpires(t)
         \/ \E c \in Callbacks : CallbackStep(c) \/ \E t \in States : Redirected(c, t)
  PROVE  StateInv'
<1> USE DEF StateInv, Admitted, StateStoresOnce
<1>1. CASE \E t \in States : GenerateManifest(t)
  BY <1>1 DEF GenerateManifest, Live, TypeOK
<1>2. CASE \E t \in States : StateExpires(t)
  BY <1>2 DEF StateExpires, TypeOK
<1>3. CASE \E c \in Callbacks : \E t \in States : Redirected(c, t)
  BY <1>3 DEF Redirected, TypeOK
<1>4. CASE \E c \in Callbacks : ConsumeStateToken(c)
  <2>1. PICK c \in Callbacks : ConsumeStateToken(c)
    BY <1>4
  <2>2. CASE /\ state[callback[c].state] = "fresh"
             /\ callback' = [callback EXCEPT ![c].at = "exchange"]
             /\ state' = [state EXCEPT ![callback[c].state] = "used"]
    <3>1. callback[c].state \in States /\ stored' = stored /\ callback[c].at = "consume"
      BY <2>1 DEF ConsumeStateToken
    <3>2. \A d \in Callbacks : d # c => callback'[d] = callback[d]
      BY <2>2
    <3>3. callback'[c].at = "exchange" /\ callback'[c].state = callback[c].state
      BY <2>2 DEF TypeOK
    <3>4. \A t \in States : state'[t] = "fresh" => state[t] = "fresh" /\ t # callback[c].state
      BY <2>2, <3>1 DEF TypeOK
    <3>5. \A d \in Callbacks : Admitted(d) => callback[d].state # callback[c].state
      BY <2>2
    <3> QED BY <2>2, <3>1, <3>2, <3>3, <3>4, <3>5 DEF TypeOK
  <2>3. CASE Done(c) /\ state' = state
    BY <2>1, <2>3 DEF ConsumeStateToken, Done, IdleCallback, TypeOK
  <2> QED BY <2>1, <2>2, <2>3 DEF ConsumeStateToken, At
<1>5. CASE \E c \in Callbacks : Exchange(c)
  <2>1. PICK c \in Callbacks : Exchange(c)
    BY <1>5
  <2>2. state' = state /\ stored' = stored /\ callback[c].at = "exchange"
    BY <2>1 DEF Exchange
  <2>3. CASE \E a \in Apps : callback' = [callback EXCEPT ![c].at = "store", ![c].app = a]
    <3>1. PICK a \in Apps :
              callback' = [callback EXCEPT ![c].at = "store", ![c].app = a]
      BY <2>3
    <3>2. \A d \in Callbacks : d # c => callback'[d] = callback[d]
      BY <3>1 DEF TypeOK
    <3>3. /\ callback'[c].at = "store" /\ callback'[c].app = a
          /\ callback'[c].state = callback[c].state
      BY <3>1 DEF TypeOK
    <3> QED BY <2>2, <3>2, <3>3
  <2>4. CASE Done(c)
    BY <2>2, <2>4 DEF Done, IdleCallback, TypeOK
  <2> QED BY <2>1, <2>3, <2>4 DEF Exchange
<1>6. CASE \E c \in Callbacks : StoreApp(c)
  BY <1>6 DEF StoreApp, Done, IdleCallback, TypeOK
<1> QED BY <1>1, <1>2, <1>3, <1>4, <1>5, <1>6 DEF CallbackStep

\* Nothing else touches state tokens and callbacks.
LEMMA OthersKeepStateInv ==
  ASSUME StateInv, UNCHANGED flowVars
  PROVE  StateInv'
BY DEF StateInv, Admitted, StateStoresOnce, flowVars

------------------------------------------------------------------------------
(* Installation tokens *)

LEMMA UserKeepsTokenInv ==
  ASSUME TypeOK, TokenInv, (\E u \in Users : UserStep(u)) \/ CacheExpires
  PROVE  TokenInv'
<1>1. CASE \E u \in Users : ReadApp(u)
  BY <1>1 DEF ReadApp, TokenInv, TypeOK
<1>2. CASE \E u \in Users : Get(u)
  BY <1>2 DEF Get, Serve, TokenInv, TypeOK
<1>3. CASE \E u \in Users : FetchToken(u)
  BY <1>3 DEF FetchToken, IdleUser, TokenInv, TypeOK
<1>4. CASE \E u \in Users : SetToken(u)
  BY <1>4 DEF SetToken, Serve, TokenInv, TypeOK
<1>5. CASE CacheExpires
  BY <1>5 DEF CacheExpires, EmptyCache, TokenInv
<1> QED BY <1>1, <1>2, <1>3, <1>4, <1>5 DEF UserStep

LEMMA UserKeepsStaleInv ==
  ASSUME TypeOK, StaleInv, (\E u \in Users : UserStep(u)) \/ CacheExpires
  PROVE  StaleInv'
<1> USE DEF StaleInv, CacheClearedOrStale
<1>1. CASE \E u \in Users : ReadApp(u)
  BY <1>1 DEF ReadApp, appVars, leaveVars
<1>2. CASE \E u \in Users : Get(u)
  BY <1>2 DEF Get, Serve, TypeOK, appVars, leaveVars
<1>3. CASE \E u \in Users : FetchToken(u)
  BY <1>3 DEF FetchToken, IdleUser, TypeOK, appVars, leaveVars
<1>4. CASE \E u \in Users : SetToken(u)
  <2>1. PICK u \in Users : SetToken(u)
    BY <1>4
  <2>2. /\ user' = [user EXCEPT ![u].at = "served", ![u].token = user[u].token]
        /\ user[u].at = "set"
        /\ inflight' = inflight \ {u}
        /\ app' = app /\ leaving' = leaving
    BY <2>1 DEF SetToken, Serve, appVars, leaveVars
  <2>3. stale' = (u \in inflight)
    BY <2>1 DEF SetToken
  <2>4. CASE app = None /\ leaving # "invalidate"
    <3>1. \A w \in Users : user[w].at \in {"get", "fetch", "set"} => w \in inflight
      BY <2>4
    <3>2. user[u].at \in {"get", "fetch", "set"}
      BY <2>2
    <3>3. stale'
      BY <3>1, <3>2, <2>3
    <3>4. \A w \in Users : user'[w].at \in {"get", "fetch", "set"} => w \in inflight'
      BY <3>1, <2>2 DEF TypeOK
    <3> QED BY <3>3, <3>4
  <2> QED BY <2>2, <2>4
<1>5. CASE CacheExpires
  BY <1>5 DEF CacheExpires, EmptyCache, appVars, leaveVars
<1> QED BY <1>1, <1>2, <1>3, <1>4, <1>5 DEF UserStep

LEMMA LeavingKeepsTokenAndStaleInv ==
  ASSUME TypeOK, TokenInv, StaleInv, Disconnect \/ CliReads \/ CliUpserts
  PROVE  TokenInv' /\ StaleInv'
<1> USE DEF TokenInv, StaleInv, CacheClearedOrStale
<1>1. CASE DisconnectReads
  BY <1>1 DEF DisconnectReads, appVars, cacheVars
<1>2. CASE RemoveFromGitHub
  BY <1>2 DEF RemoveFromGitHub, appVars, cacheVars
<1>3. CASE DeleteRow
  BY <1>3 DEF DeleteRow, DeleteGitHubApp, appVars, cacheVars
<1>4. CASE Invalidate
  BY <1>4 DEF Invalidate, EmptyCache, appVars
<1>5. CASE CliReads
  BY <1>5 DEF CliReads, appVars, cacheVars, leaveVars
<1>6. CASE CliUpserts
  BY <1>6 DEF CliUpserts, UpsertGitHubApp, TypeOK, appVars, cacheVars, leaveVars
<1> QED BY <1>1, <1>2, <1>3, <1>4, <1>5, <1>6 DEF Disconnect

\* The flow and installation events change the row only from an app to an app or
\* from no app to one, and no token.
LEMMA RowStepsKeepTokenAndStaleInv ==
  ASSUME TokenInv, StaleInv, UNCHANGED <<cacheVars, leaving>>,
         app' = app \/ app' # None
  PROVE  TokenInv' /\ StaleInv'
BY DEF TokenInv, StaleInv, CacheClearedOrStale, cacheVars

------------------------------------------------------------------------------

LEMMA GitHubStepInv == GitHubInv /\ [Next]_vars => GitHubInv'
<1> SUFFICES ASSUME GitHubInv, [Next]_vars PROVE GitHubInv'
  OBVIOUS
<1>1. CASE \/ \E t \in States : GenerateManifest(t) \/ StateExpires(t)
           \/ \E c \in Callbacks : CallbackStep(c) \/ \E t \in States : Redirected(c, t)
  <2>1. TypeOK' /\ StateInv'
    BY <1>1, FlowKeepsTypes, FlowKeepsStateInv DEF GitHubInv
  <2>2. UNCHANGED <<cacheVars, leaving>> /\ (app' = app \/ app' # None)
    <3>1. CASE \E c \in Callbacks : StoreApp(c)
      BY <3>1, AppsAssumption DEF GitHubInv, StateInv, StoreApp, UpsertGitHubApp, appVars,
         leaveVars
    <3>2. CASE \E c \in Callbacks : ConsumeStateToken(c) \/ Exchange(c)
      BY <3>2 DEF ConsumeStateToken, Exchange, appVars, leaveVars
    <3>3. CASE \/ \E t \in States : GenerateManifest(t) \/ StateExpires(t)
               \/ \E c \in Callbacks : \E t \in States : Redirected(c, t)
      BY <3>3 DEF GenerateManifest, StateExpires, Redirected, appVars, leaveVars
    <3> QED BY <1>1, <3>1, <3>2, <3>3 DEF CallbackStep
  <2> QED BY <2>1, <2>2, RowStepsKeepTokenAndStaleInv DEF GitHubInv
<1>2. CASE \E a \in Apps : \/ Install(a) \/ Uninstall(a)
                           \/ VerifyInstallation(a) \/ StoreInstallation(a)
  <2>1. TypeOK'
    BY <1>2, InstallationKeepsTypes DEF GitHubInv
  <2>2. UNCHANGED flowVars /\ UNCHANGED <<cacheVars, leaving>> /\ app' = app
    BY <1>2 DEF Install, Uninstall, VerifyInstallation, StoreInstallation,
       SetGitHubInstallationID, appVars, leaveVars
  <2> QED BY <2>1, <2>2, OthersKeepStateInv, RowStepsKeepTokenAndStaleInv DEF GitHubInv
<1>3. CASE (\E u \in Users : UserStep(u)) \/ CacheExpires
  <2>1. UNCHANGED flowVars
    BY <1>3 DEF UserStep, ReadApp, Get, FetchToken, SetToken, CacheExpires
  <2> QED BY <1>3, <2>1, UserKeepsTypes, OthersKeepStateInv, UserKeepsTokenInv,
             UserKeepsStaleInv DEF GitHubInv
<1>4. CASE Disconnect \/ CliReads \/ CliUpserts
  <2>1. UNCHANGED flowVars
    BY <1>4 DEF Disconnect, DisconnectReads, RemoveFromGitHub, DeleteRow, Invalidate,
       CliReads, CliUpserts
  <2> QED BY <1>4, <2>1, LeavingKeepsTypes, OthersKeepStateInv,
             LeavingKeepsTokenAndStaleInv DEF GitHubInv
<1>5. CASE UNCHANGED vars
  BY <1>5 DEF vars, appVars, flowVars, githubVars, cacheVars, leaveVars, GitHubInv,
     TypeOK, AppRowTypeOK, StateInv, Admitted, StateStoresOnce, TokenInv, StaleInv,
     CacheClearedOrStale
<1> QED BY <1>1, <1>2, <1>3, <1>4, <1>5 DEF Next

\* Every reachable state of the GitHub plane satisfies GitHubInv.
THEOREM GitHubInvariant == Spec => []GitHubInv
BY GitHubInitInv, GitHubStepInv, PTL DEF Spec

\* Every variable keeps its type.
THEOREM GitHubTypeCorrect == Spec => []TypeOK
<1>1. GitHubInv => TypeOK
  BY DEF GitHubInv
<1> QED BY <1>1, GitHubInvariant, PTL

\* A state token stores at most one app, whatever callbacks run at once and
\* whenever tokens expire, are purged or are generated again.
THEOREM StatesStoreOnce == Spec => []StateStoresOnce
<1>1. GitHubInv => StateStoresOnce
  BY DEF GitHubInv, StateInv
<1> QED BY <1>1, GitHubInvariant, PTL

\* A user of an app with an installation of its own is served that app's token.
THEOREM TokensAreOfApp == Spec => []TokenOfApp
<1>1. GitHubInv => TokenOfApp
  BY DEF GitHubInv, TokenInv, TokenOfApp
<1> QED BY <1>1, GitHubInvariant, PTL

\* Without an app, a cached token comes from a fetch that the disconnect found
\* under way.
THEOREM CacheIsClearedOrStale == Spec => []CacheClearedOrStale
<1>1. GitHubInv => CacheClearedOrStale
  BY DEF GitHubInv, StaleInv
<1> QED BY <1>1, GitHubInvariant, PTL
==============================================================================
