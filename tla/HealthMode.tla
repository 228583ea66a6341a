------------------------------ MODULE HealthMode ------------------------------
(***************************************************************************)
(* The health check of a deploy: DetectMode reads the project's compose    *)
(* file and decides from its services whether there is anything to check;  *)
(* HealthCheckStage then skips or has Docker validate the file. Services   *)
(* are visited in the order of a Go map, which differs from run to run.    *)
(* Of HealthMode only Mode is kept: nothing in the engine reads the port,  *)
(* the paths or UseCompose.                                                *)
(***************************************************************************)
EXTENDS Sequences, SequencesExt

CONSTANTS
    Services,       \* names of the services of a compose file
    MaxEntries      \* bound: entries of one service's ports list

VARIABLES
    file,       \* the compose file: "ok", "unreadable" or "malformed"
    services,   \* what each service declares
    toVisit,    \* services the loop has not visited yet
    mode,       \* Mode of the result, "open" while the loop runs
    stage       \* how the stage ended: "open", "skipped", "valid", "invalid"

healthVars == <<file, services, toVisit, mode, stage>>

(* Kinds of entries: "host" is "8080:80" or "80", "long" the long syntax   *)
(* with an integer target; "address" is "127.0.0.1:8080:80", "range" a     *)
(* range or a protocol suffix, "bare" an unquoted number.                  *)
Entries == {"host", "long", "address", "range", "bare"}

Declared == [ports : SeqOf(Entries, MaxEntries),
             healthcheck : {"absent", "present", "disabled"}]

HealthTypeOK ==
    /\ file \in {"ok", "unreadable", "malformed"}
    /\ services \in [Services -> Declared]
    /\ toVisit \subseteq Services
    /\ mode \in {"open", "none", "tcp", "http"}
    /\ stage \in {"open", "skipped", "valid", "invalid"}

HealthInit ==
    /\ file \in {"ok", "unreadable", "malformed"}
    /\ services \in [Services -> Declared]
    /\ toVisit = Services
    /\ mode = "open"
    /\ stage = "open"

\* parseFirstPort: the digits before the first colon, else all that follows it;
\* an address or a range is not made of digits only and counts as no port.
parseFirstPort(entry) == entry = "host"

\* firstExposedPort > 0: some entry is a string that parses or a map with a
\* target; the list's other types are passed over.
firstExposedPort(ports) ==
    \E i \in DOMAIN ports : parseFirstPort(ports[i]) \/ ports[i] = "long"

Native(s) == services[s].healthcheck = "present"

\* Mutant of ModeOf: the first service visited decides.
ModeOfFirst(s) ==
    IF firstExposedPort(services[s].ports) THEN {"http"}
    ELSE IF Native(s) THEN {"tcp"} ELSE {"none"}

\* The modes that a visit of service s returns; empty: the loop goes on.
ModeOf(s) ==
    IF firstExposedPort(services[s].ports) THEN {"http"}
    ELSE IF Native(s) THEN {"tcp"} ELSE {}

\* The file cannot be read or parsed: the runner takes mode "none".
DetectFails ==
    /\ file # "ok"
    /\ mode = "open"
    /\ mode' = "none"
    /\ UNCHANGED <<file, services, toVisit, stage>>

\* One iteration of the loop over the services, in any order.
Visit(s) ==
    /\ file = "ok"
    /\ mode = "open"
    /\ s \in toVisit
    /\ toVisit' = toVisit \ {s}
    /\ mode' \in IF ModeOf(s) = {} THEN {"open"} ELSE ModeOf(s)
    /\ UNCHANGED <<file, services, stage>>

\* Every service was visited and none decided.
NoneDecided ==
    /\ file = "ok"
    /\ mode = "open"
    /\ toVisit = {}
    /\ mode' = "none"
    /\ UNCHANGED <<file, services, toVisit, stage>>

\* HealthCheckStage: mode "none" is a success without a check; otherwise
\* docker compose config accepts the file or fails the deploy.
HealthCheckStage ==
    /\ mode # "open"
    /\ stage = "open"
    /\ stage' \in IF mode = "none" THEN {"skipped"} ELSE {"valid", "invalid"}
    /\ UNCHANGED <<file, services, toVisit, mode>>

HealthNext ==
    \/ DetectFails
    \/ \E s \in Services : Visit(s)
    \/ NoneDecided
    \/ HealthCheckStage

HealthSpec == HealthInit /\ [][HealthNext]_healthVars

-----------------------------------------------------------------------------
\* The stage is skipped exactly when the file cannot be read or parsed, or when no
\* service at all exposes a port or has a healthcheck: whether a deploy is checked
\* does not depend on the order in which Go visits the services.
SkipIsOrderIndependent ==
    stage # "open" =>
        (stage = "skipped" <=>
            \/ file # "ok"
            \/ \A s \in Services :
                  ~firstExposedPort(services[s].ports) /\ ~Native(s))
==============================================================================
