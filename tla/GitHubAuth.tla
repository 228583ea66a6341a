------------------------------ MODULE GitHubAuth ------------------------------
(***************************************************************************)
(* GitHubAuthService (internal/app/github_auth_service.go): the manifest   *)
(* flow with its state tokens (internal/infra/db/queries.go), the          *)
(* installation tokens with their cache (internal/infra/github), and the   *)
(* disconnect, as concurrent requests that stop between two statements,    *)
(* two critical sections of the cache or two calls to GitHub.              *)
(*                                                                         *)
(* GitHub is external: it creates apps, installs them, and mints a token   *)
(* for an installation only for a JWT of its own app.                      *)
(***************************************************************************)
EXTENDS GitHubAppRow, Naturals

CONSTANTS
    States,      \* bound: state tokens generated
    Callbacks,   \* bound: GET /api/github/callback requests
    Users        \* requests that need a token: repositories, commit status, ...

VARIABLES
    state,      \* row of each state token: "none", "fresh", "expired", "used"
    callback,   \* [at, state, app] of each callback
    created,    \* GitHub: the apps created so far
    installed,  \* GitHub: the apps with a live installation
    events,     \* installation events whose signature is verified
    cache,      \* TokenCache: [inst, token], a token named by its app
    user,       \* [at, app, inst, token] of each user
    leaving,    \* Disconnect: "idle", "github", "delete", "invalidate"
    leaver,     \* the row whose installation Disconnect removes from GitHub
    cli,        \* the row `trangly update-pem` has read, None otherwise
    stored,     \* history: callbacks that stored an app, per state token
    inflight,   \* history: users at work during the last Invalidate
    stale       \* history: one of them has set the cache since

flowVars == <<state, callback, stored>>
githubVars == <<created, installed, events>>
cacheVars == <<cache, user, inflight, stale>>
leaveVars == <<leaving, leaver>>
vars == <<appVars, flowVars, githubVars, cacheVars, leaveVars, cli>>

EmptyCache == [inst |-> None, token |-> None]
IdleUser == [at |-> "idle", app |-> None, inst |-> None, token |-> None]
IdleCallback == [at |-> "idle", state |-> None, app |-> None]

TypeOK ==
    /\ AppRowTypeOK
    /\ state \in [States -> {"none", "fresh", "expired", "used"}]
    /\ callback \in [Callbacks ->
           [at : {"idle", "consume", "exchange", "store", "done"},
            state : States \cup {None}, app : Apps \cup {None}]]
    /\ created \subseteq Apps
    /\ installed \subseteq created
    /\ events \subseteq created
    /\ cache \in [inst : Apps \cup {None}, token : Apps \cup {None}]
    /\ user \in [Users -> [at : {"idle", "get", "fetch", "set", "served"},
                           app : Apps \cup {None}, inst : Apps \cup {None},
                           token : Apps \cup {None}]]
    /\ \A u \in Users : user[u].at \in {"set", "served"} => user[u].token # None
    /\ leaving \in {"idle", "github", "delete", "invalidate"}
    /\ leaver \in [app : Apps \cup {None}, inst : Apps \cup {None}]
    /\ cli \in Apps \cup {None}
    /\ stored \in [States -> Nat]
    /\ inflight \subseteq Users
    /\ stale \in BOOLEAN

NoRow == [app |-> None, inst |-> None]

Init ==
    /\ AppRowInit
    /\ state = [t \in States |-> "none"]
    /\ callback = [c \in Callbacks |-> IdleCallback]
    /\ created = {} /\ installed = {} /\ events = {}
    /\ cache = EmptyCache
    /\ user = [u \in Users |-> IdleUser]
    /\ leaving = "idle"
    /\ leaver = NoRow
    /\ cli = None
    /\ stored = [t \in States |-> 0]
    /\ inflight = {}
    /\ stale = FALSE

------------------------------------------------------------------------------
(* The manifest flow *)

Live(st) == IF st = "fresh" THEN "fresh" ELSE "none"

\* GenerateManifest: the token is inserted, then used and expired ones are
\* purged, which may fail.
GenerateManifest(t) ==
    /\ state[t] = "none" /\ stored[t] = 0
    /\ \A c \in Callbacks : callback[c].state # t
    /\ LET inserted == [state EXCEPT ![t] = "fresh"] IN
           state' \in {inserted, [s \in States |-> Live(inserted[s])]}
    /\ UNCHANGED <<appVars, callback, stored, githubVars, cacheVars, leaveVars, cli>>

StateExpires(t) ==
    /\ state[t] = "fresh"
    /\ state' = [state EXCEPT ![t] = "expired"]
    /\ UNCHANGED <<appVars, callback, stored, githubVars, cacheVars, leaveVars, cli>>

\* GitHub redirects the browser, which may also load the page again.
Redirected(c, t) ==
    /\ callback[c] = IdleCallback
    /\ state[t] # "none"
    /\ callback' = [callback EXCEPT ![c].at = "consume", ![c].state = t]
    /\ UNCHANGED <<appVars, state, stored, githubVars, cacheVars, leaveVars, cli>>

At(c, pos) == callback' = [callback EXCEPT ![c].at = pos]

\* The request is answered.
Done(c) == callback' = [callback EXCEPT ![c] = [IdleCallback EXCEPT !.at = "done"]]

\* Mutant: the token is validated and only deleted by a later purge.
ConsumeNothing(c) ==
    /\ callback[c].at = "consume"
    /\ IF state[callback[c].state] = "fresh" THEN At(c, "exchange")
                                             ELSE Done(c)
    /\ UNCHANGED <<appVars, state, stored, githubVars, cacheVars, leaveVars, cli>>

\* ConsumeStateToken, one transaction. An error of the database is a 400 too.
ConsumeStateToken(c) ==
    LET t == callback[c].state IN
    /\ callback[c].at = "consume"
    /\ \/ state[t] = "fresh" /\ At(c, "exchange")
          /\ state' = [state EXCEPT ![t] = "used"]
       \/ Done(c) /\ UNCHANGED state
    /\ UNCHANGED <<appVars, stored, githubVars, cacheVars, leaveVars, cli>>

\* ExchangeManifest, ValidatePEM and the encryption: the credentials of a new
\* app, or an error.
Exchange(c) ==
    /\ callback[c].at = "exchange"
    /\ \/ \E a \in Apps \ created :
             /\ created' = created \cup {a}
             /\ callback' = [callback EXCEPT ![c].at = "store", ![c].app = a]
       \/ Done(c) /\ UNCHANGED created
    /\ UNCHANGED <<appVars, state, stored, installed, events, cacheVars,
                   leaveVars, cli>>

\* The cache is not invalidated.
StoreApp(c) ==
    /\ callback[c].at = "store"
    /\ \/ /\ UpsertGitHubApp(callback[c].app)
          /\ stored' = [stored EXCEPT ![callback[c].state] = @ + 1]
       \/ UNCHANGED <<appVars, stored>>
    /\ Done(c)
    /\ UNCHANGED <<state, githubVars, cacheVars, leaveVars, cli>>

CallbackStep(c) == ConsumeStateToken(c) \/ Exchange(c) \/ StoreApp(c)

------------------------------------------------------------------------------
(* GitHub and the installation webhook, see Webhook *)

Install(a) ==
    /\ a \in created \ installed
    /\ installed' = installed \cup {a}
    /\ UNCHANGED <<appVars, flowVars, created, events, cacheVars, leaveVars, cli>>

Uninstall(a) ==
    /\ a \in installed
    /\ installed' = installed \ {a}
    /\ UNCHANGED <<appVars, flowVars, created, events, cacheVars, leaveVars, cli>>

VerifyInstallation(a) ==
    /\ a \in installed \ events
    /\ app = a
    /\ events' = events \cup {a}
    /\ UNCHANGED <<appVars, flowVars, created, installed, cacheVars, leaveVars, cli>>

StoreInstallation(a) ==
    /\ a \in events
    /\ SetGitHubInstallationID(a)
    /\ events' = events \ {a}
    /\ UNCHANGED <<flowVars, created, installed, cacheVars, leaveVars, cli>>

------------------------------------------------------------------------------
(* Installation tokens *)

\* getInstallationToken: GetGitHubApp; without an installation it ends here.
ReadApp(u) ==
    /\ user[u].at \in {"idle", "served"}
    /\ app # None /\ inst # None
    /\ user' = [user EXCEPT ![u] = [at |-> "get", app |-> app, inst |-> inst,
                                    token |-> None]]
    /\ UNCHANGED <<appVars, flowVars, githubVars, cache, inflight, stale,
                   leaveVars, cli>>

Serve(u, token) ==
    user' = [user EXCEPT ![u].at = "served", ![u].token = token]

\* Mutant: the installation the token was minted for is not compared.
GetAny(u) ==
    /\ user[u].at = "get"
    /\ IF cache.token # None THEN Serve(u, cache.token)
       ELSE user' = [user EXCEPT ![u].at = "fetch"]
    /\ UNCHANGED <<appVars, flowVars, githubVars, cache, inflight, stale,
                   leaveVars, cli>>

\* TokenCache.Get.
Get(u) ==
    /\ user[u].at = "get"
    /\ IF cache.token # None /\ cache.inst = user[u].inst
       THEN Serve(u, cache.token)
       ELSE user' = [user EXCEPT ![u].at = "fetch"]
    /\ UNCHANGED <<appVars, flowVars, githubVars, cache, inflight, stale,
                   leaveVars, cli>>

\* A cached token that has expired is cleared by the next Get.
CacheExpires ==
    /\ cache # EmptyCache
    /\ cache' = EmptyCache
    /\ UNCHANGED <<appVars, flowVars, githubVars, user, inflight, stale,
                   leaveVars, cli>>

\* Mutant: the error is not looked at.
FetchErrorIgnored(u) ==
    /\ user[u].at = "fetch"
    /\ user' = [user EXCEPT ![u].at = "set",
                   ![u].token = IF @ = None /\ user[u].app \in installed
                                THEN user[u].app ELSE None]
    /\ UNCHANGED <<appVars, flowVars, githubVars, cache, inflight, stale,
                   leaveVars, cli>>

\* App.GetInstallationToken.
FetchToken(u) ==
    /\ user[u].at = "fetch"
    /\ \/ /\ user[u].app = user[u].inst /\ user[u].app \in installed
          /\ user' = [user EXCEPT ![u].at = "set", ![u].token = user[u].app]
       \/ user' = [user EXCEPT ![u] = IdleUser]
    /\ UNCHANGED <<appVars, flowVars, githubVars, cache, inflight, stale,
                   leaveVars, cli>>

\* TokenCache.Set.
SetToken(u) ==
    /\ user[u].at = "set"
    /\ cache' = [inst |-> user[u].inst, token |-> user[u].token]
    /\ stale' = (u \in inflight)
    /\ inflight' = inflight \ {u}
    /\ Serve(u, user[u].token)
    /\ UNCHANGED <<appVars, flowVars, githubVars, leaveVars, cli>>

UserStep(u) == ReadApp(u) \/ Get(u) \/ FetchToken(u) \/ SetToken(u)

------------------------------------------------------------------------------
(* Disconnect *)

DisconnectReads ==
    /\ leaving = "idle"
    /\ app # None
    /\ \/ leaving' = "delete" /\ UNCHANGED leaver
       \/ inst # None /\ leaving' = "github" /\ leaver' = [app |-> app, inst |-> inst]
    /\ UNCHANGED <<appVars, flowVars, githubVars, cacheVars, cli>>

\* DeleteInstallation, best effort.
RemoveFromGitHub ==
    /\ leaving = "github"
    /\ leaving' = "delete"
    /\ IF leaver.app = leaver.inst
       THEN installed' \in {installed, installed \ {leaver.app}}
       ELSE UNCHANGED installed
    /\ leaver' = NoRow
    /\ UNCHANGED <<appVars, flowVars, created, events, cacheVars, cli>>

\* Mutant: the request ends here.
DeleteRowOnly ==
    /\ leaving = "delete"
    /\ DeleteGitHubApp
    /\ leaving' = "idle"
    /\ UNCHANGED <<flowVars, githubVars, cacheVars, leaver, cli>>

\* DeleteGitHubApp deletes whatever row there is now.
DeleteRow ==
    /\ leaving = "delete"
    /\ \/ DeleteGitHubApp /\ leaving' = "invalidate"
       \/ UNCHANGED appVars /\ leaving' = "idle"
    /\ UNCHANGED <<flowVars, githubVars, cacheVars, leaver, cli>>

Invalidate ==
    /\ leaving = "invalidate"
    /\ leaving' = "idle"
    /\ cache' = EmptyCache
    /\ stale' = FALSE
    /\ inflight' = {u \in Users : user[u].at \in {"get", "fetch", "set"}}
    /\ UNCHANGED <<appVars, flowVars, githubVars, user, leaver, cli>>

Disconnect == DisconnectReads \/ RemoveFromGitHub \/ DeleteRow \/ Invalidate

\* UpdatePEM runs in a process of its own, whose cache is not the server's.
CliReads ==
    /\ cli = None
    /\ app # None
    /\ cli' = app
    /\ UNCHANGED <<appVars, flowVars, githubVars, cacheVars, leaveVars>>

CliUpserts ==
    /\ cli # None
    /\ UpsertGitHubApp(cli) \/ UNCHANGED appVars
    /\ cli' = None
    /\ UNCHANGED <<flowVars, githubVars, cacheVars, leaveVars>>

Next ==
    \/ \E t \in States : GenerateManifest(t) \/ StateExpires(t)
    \/ \E c \in Callbacks : CallbackStep(c) \/ \E t \in States : Redirected(c, t)
    \/ \E a \in Apps : \/ Install(a) \/ Uninstall(a)
                       \/ VerifyInstallation(a) \/ StoreInstallation(a)
    \/ \E u \in Users : UserStep(u)
    \/ CacheExpires
    \/ Disconnect
    \/ CliReads \/ CliUpserts

Spec == Init /\ [][Next]_vars

------------------------------------------------------------------------------

\* A state token lets one callback through, however often the browser calls:
\* it is used up in the transaction that validates it.
StateStoresOnce == \A t \in States : stored[t] <= 1

\* Who reads an app with an installation of its own is never served another
\* app's token, although a fetch that was in flight during a disconnect puts
\* the old one back into the cache: the cache is keyed by the installation.
TokenOfApp ==
    \A u \in Users :
        user[u].at = "served" /\ user[u].app = user[u].inst
            => user[u].token = user[u].app

\* Without an app there is no cached token, except one whose fetch was in
\* flight when the disconnect invalidated the cache.
CacheClearedOrStale ==
    app = None /\ leaving # "invalidate" /\ cache.token # None => stale
==============================================================================
