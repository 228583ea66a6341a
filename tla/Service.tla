------------------------------- MODULE Service -------------------------------
(***************************************************************************)
(* trangly as a systemd service: the commands install, uninstall and stop, *)
(* each a sequence of calls of which one may fail, and what systemd keeps  *)
(* of the unit. A configuration is what install puts after "start" in      *)
(* ExecStart: the port and the base URL. The check for root returns before *)
(* anything changes and is left out, as is the binary that uninstall       *)
(* removes last: no unit refers to it by then. One command runs at a time. *)
(***************************************************************************)
EXTENDS Naturals, Sequences

CONSTANTS
    AppPort,    \* version.AppPort, the default of --port
    Ports,      \* ports that flags and setup.conf give; 0 is none
    URLs,       \* base URLs
    NoURL,      \* the empty base URL
    Nil         \* no configuration

ASSUME ServiceAssumption ==
    /\ AppPort \in Ports
    /\ Ports \subseteq Nat \ {0}
    /\ NoURL \notin URLs

VARIABLES
    conf,       \* setup.conf: port (0: none) and URL
    flags,      \* --port and --base-url of the install that runs
    unit,       \* configuration in the unit file, Nil: no file
    loaded,     \* configuration that systemd has in memory
    enabled,    \* the unit is started at boot
    running,    \* configuration of the process that runs, Nil: none
    restarting, \* the process failed and RestartSec has not passed
    todo,       \* calls that the command that runs still makes
    outcome,    \* how the last command ended
    kept,       \* the process ran already when install called start
    survived    \* the process that uninstall could not stop still runs

serviceVars == <<conf, flags, unit, loaded, enabled, running, restarting, todo,
                 outcome, kept, survived>>

Configs == [port : Ports, url : URLs \cup {NoURL}]
MaybeConfigs == Configs \cup {Nil}

\* Mutant of InstallCalls: the service is started before the unit is reloaded.
StartFirst == <<"write", "start", "reload", "enable", "installed">>

InstallCalls == <<"write", "reload", "enable", "start", "installed">>

UninstallCalls ==
    <<"stopOrWarn", "disableOrWarn", "remove", "reload", "uninstalled">>

StopCalls == <<"stop", "stopped">>

Idle == todo = <<>>
Outcomes == {"installed", "uninstalled", "stopped", "failed"}

ServiceTypeOK ==
    /\ conf \in [port : Ports \cup {0}, url : URLs \cup {NoURL}]
    /\ flags \in [port : Ports \cup {0}, url : URLs \cup {NoURL}]
    /\ unit \in MaybeConfigs
    /\ loaded \in MaybeConfigs
    /\ enabled \in BOOLEAN
    /\ running \in MaybeConfigs
    /\ restarting \in BOOLEAN
    /\ \E calls \in {InstallCalls, UninstallCalls, StopCalls} :
          \E i \in 1..Len(calls) + 1 : todo = SubSeq(calls, i, Len(calls))
    /\ outcome \in Outcomes \cup {"none"}
    /\ kept \in BOOLEAN
    /\ survived \in BOOLEAN

ServiceInit ==
    /\ conf \in [port : Ports \cup {0}, url : URLs \cup {NoURL}]
    /\ flags = [port |-> AppPort, url |-> NoURL]
    /\ unit = Nil
    /\ loaded = Nil
    /\ enabled = FALSE
    /\ running = Nil
    /\ restarting = FALSE
    /\ todo = <<>>
    /\ outcome = "none"
    /\ kept = FALSE
    /\ survived = FALSE

\* runInstall: a port that is the default gives way to setup.conf's, also one that
\* the flag names; port 0 becomes the default. An empty URL gives way as well.
Resolved ==
    LET port == IF flags.port = AppPort /\ conf.port > 0 THEN conf.port ELSE flags.port
    IN [port |-> IF port = 0 THEN AppPort ELSE port,
        url |-> IF flags.url = NoURL THEN conf.url ELSE flags.url]

\* A command begins.
Run(calls) ==
    /\ Idle
    /\ todo' = calls
    /\ outcome' = "none"
    /\ UNCHANGED <<conf, unit, loaded, enabled, running, restarting, kept, survived>>

Install ==
    /\ Run(InstallCalls)
    /\ flags' \in [port : Ports \cup {0}, url : URLs \cup {NoURL}]

Uninstall == Run(UninstallCalls) /\ UNCHANGED flags
Stop == Run(StopCalls) /\ UNCHANGED flags

Call(call) ==
    /\ todo # <<>>
    /\ Head(todo) = call
    /\ todo' = Tail(todo)

\* A call fails: the command returns its error and leaves the rest undone.
CallFails ==
    /\ todo # <<>>
    /\ Head(todo) \in {"write", "reload", "enable", "start", "stop", "remove"}
    /\ todo' = <<>>
    /\ outcome' = "failed"
    /\ UNCHANGED <<conf, flags, unit, loaded, enabled, running, restarting, kept,
                   survived>>

WriteUnit ==
    /\ Call("write")
    /\ unit' = Resolved
    /\ UNCHANGED <<conf, flags, loaded, enabled, running, restarting, outcome, kept,
                   survived>>

RemoveUnit ==
    /\ Call("remove")
    /\ unit' = Nil
    /\ UNCHANGED <<conf, flags, loaded, enabled, running, restarting, outcome, kept,
                   survived>>

\* systemctl daemon-reload: systemd reads the unit file again. A running process
\* goes on as it was started; without a unit it is not restarted any more.
DaemonReload ==
    /\ Call("reload")
    /\ loaded' = unit
    /\ restarting' = (restarting /\ unit # Nil)
    /\ UNCHANGED <<conf, flags, unit, enabled, running, outcome, kept, survived>>

\* systemctl enable reloads systemd as well.
EnableUnit ==
    /\ Call("enable")
    /\ unit # Nil
    /\ enabled' = TRUE
    /\ loaded' = unit
    /\ UNCHANGED <<conf, flags, unit, running, restarting, outcome, kept, survived>>

\* systemctl start: nothing to do for a service that runs; otherwise the unit in
\* memory is started, read from its file when none is.
StartUnit ==
    /\ Call("start")
    /\ LET known == IF loaded = Nil THEN unit ELSE loaded
       IN /\ known # Nil
          /\ IF running # Nil
             THEN UNCHANGED <<loaded, running, restarting>>
             ELSE loaded' = known /\ running' = known /\ restarting' = FALSE
    /\ kept' = (running # Nil)
    /\ UNCHANGED <<conf, flags, unit, enabled, outcome, survived>>

\* systemctl stop. Uninstall only warns when it fails and goes on.
StopUnit ==
    /\ \/ Call("stop") \/ Call("stopOrWarn")
    /\ running' = Nil
    /\ restarting' = FALSE
    /\ kept' = FALSE
    /\ survived' = FALSE
    /\ UNCHANGED <<conf, flags, unit, loaded, enabled, outcome>>

StopWarns ==
    /\ Call("stopOrWarn")
    /\ survived' = (running # Nil \/ restarting)
    /\ UNCHANGED <<conf, flags, unit, loaded, enabled, running, restarting, outcome,
                   kept>>

\* systemctl disable reloads systemd; it too is only warned about.
DisableUnit ==
    /\ Call("disableOrWarn")
    /\ \/ enabled' = FALSE /\ loaded' = unit
       \/ UNCHANGED <<enabled, loaded>>
    /\ UNCHANGED <<conf, flags, unit, running, restarting, outcome, kept, survived>>

\* The last call was made: the command reports success.
CommandEnds ==
    /\ todo # <<>>
    /\ Head(todo) \in Outcomes
    /\ outcome' = Head(todo)
    /\ todo' = Tail(todo)
    /\ UNCHANGED <<conf, flags, unit, loaded, enabled, running, restarting, kept,
                   survived>>

\* The process fails; Restart=on-failure starts it again after RestartSec with the
\* unit in memory, unless it was stopped or its unit is gone by then.
ProcessFails ==
    /\ running # Nil
    /\ running' = Nil
    /\ restarting' = (loaded # Nil)
    /\ kept' = FALSE
    /\ survived' = (survived /\ loaded # Nil)
    /\ UNCHANGED <<conf, flags, unit, loaded, enabled, todo, outcome>>

RestartOnFailure ==
    /\ restarting
    /\ running' = loaded
    /\ restarting' = FALSE
    /\ UNCHANGED <<conf, flags, unit, loaded, enabled, todo, outcome, kept, survived>>

\* An administrator starts the service, as the output of stop suggests.
StartByHand ==
    /\ Idle
    /\ running = Nil
    /\ LET known == IF loaded = Nil THEN unit ELSE loaded
       IN /\ known # Nil
          /\ loaded' = known
          /\ running' = known
    /\ restarting' = FALSE
    /\ UNCHANGED <<conf, flags, unit, enabled, todo, outcome, kept, survived>>

\* systemd forgets an inactive unit that no target wants.
UnitCollected ==
    /\ loaded # Nil
    /\ running = Nil
    /\ ~restarting
    /\ ~enabled
    /\ loaded' = Nil
    /\ UNCHANGED <<conf, flags, unit, enabled, running, restarting, todo, outcome,
                   kept, survived>>

\* The machine boots: a command that ran is lost; an enabled unit is started.
Boot ==
    /\ loaded' = IF enabled THEN unit ELSE Nil
    /\ running' = loaded'
    /\ restarting' = FALSE
    /\ todo' = <<>>
    /\ outcome' = IF Idle THEN outcome ELSE "failed"
    /\ kept' = FALSE
    /\ survived' = FALSE
    /\ UNCHANGED <<conf, flags, unit, enabled>>

ServiceNext ==
    \/ Install
    \/ Uninstall
    \/ Stop
    \/ CallFails
    \/ WriteUnit
    \/ RemoveUnit
    \/ DaemonReload
    \/ EnableUnit
    \/ StartUnit
    \/ StopUnit
    \/ StopWarns
    \/ DisableUnit
    \/ CommandEnds
    \/ ProcessFails
    \/ RestartOnFailure
    \/ StartByHand
    \/ UnitCollected
    \/ Boot

ServiceSpec == ServiceInit /\ [][ServiceNext]_serviceVars

-----------------------------------------------------------------------------
\* After install reports success, and until the next command, systemd has the unit
\* that install wrote, and a process that runs has its configuration unless it ran
\* before: systemctl start leaves a running service as it is, so a second install
\* with other flags takes effect at the next restart only.
InstalledConfigRuns ==
    outcome = "installed" =>
        /\ unit = Resolved
        /\ loaded = unit
        /\ enabled
        /\ running \in {unit, Nil} \/ kept

\* After uninstall reports success, no process runs but one that uninstall could
\* not stop (it only warns), and systemd has no unit left to start or restart:
\* neither a boot nor a failure nor systemctl start brings the service back.
UninstalledStaysDown ==
    outcome = "uninstalled" =>
        /\ running = Nil \/ survived
        /\ ~restarting
        /\ loaded = Nil
        /\ unit = Nil

\* What install and uninstall reported is true of systemd until the next command.
ServiceAsReported == InstalledConfigRuns /\ UninstalledStaysDown
==============================================================================
