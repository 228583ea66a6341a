----------------------------- MODULE GitHubAppRow -----------------------------
(***************************************************************************)
(* The single row of table github_app (internal/infra/db/queries.go). A    *)
(* GitHub App stands for its id, key and webhook secret; an installation   *)
(* id is named by the app it is an installation of. The database has one   *)
(* connection, so that every statement is one step.                        *)
(***************************************************************************)

CONSTANTS Apps, None

ASSUME AppsAssumption == None \notin Apps

VARIABLES
    app,   \* the app whose credentials are stored, None without a row
    inst   \* the app whose installation id is stored, None for NULL

appVars == <<app, inst>>

AppRowTypeOK ==
    /\ app \in Apps \cup {None}
    /\ inst \in Apps \cup {None}

AppRowInit ==
    /\ app = None
    /\ inst = None

\* An existing row keeps its installation_id.
UpsertGitHubApp(a) ==
    /\ app' = a
    /\ UNCHANGED inst

DeleteGitHubApp ==
    /\ app' = None
    /\ inst' = None

\* An UPDATE of no row is no error.
SetGitHubInstallationID(a) ==
    /\ inst' = IF app = None THEN None ELSE a
    /\ UNCHANGED app
==============================================================================
