------------------------------- MODULE Terminal -------------------------------
(***************************************************************************)
(* Shells in containers: the WebSocket handler with its two goroutines     *)
(* (internal/api/http/handlers/terminal.go, infra/docker/client.go) and    *)
(* the terminal of the project page (internal/ui/static/js/project.js).    *)
(*                                                                         *)
(* A session is one WebSocket. What is typed and printed is left out; of   *)
(* the containers the page only knows whether it lists any.                *)
(***************************************************************************)
EXTENDS Naturals

CONSTANTS
    Sessions,
    NoSession,
    MaxLoads,   \* bound: requests for the list of containers in flight
    MaxDue      \* bound: connectTerminal callbacks waiting in $nextTick

ASSUME TerminalAssumption ==
    NoSession \notin Sessions /\ MaxLoads \in Nat /\ MaxDue \in Nat

VARIABLES
    handler,    \* where ExecTerminal is
    output,     \* the goroutine that reads the shell; the other one reads the
                \* WebSocket while the handler is at "serve"
    shell,      \* external: the shell in the container
    socket      \* the browser's WebSocket of each session

sessionVars == <<handler, output, shell, socket>>

VARIABLES
    tab,        \* the project page's tab: "terminal", "other", "left" the page
    listed,     \* containers.length > 0, and with it the element of the terminal
    loads,      \* requests for the containers that are not answered
    termLoading,
    selected,   \* selectedContainer is set
    due,        \* connectTerminal callbacks waiting in $nextTick
    ws,         \* _ws
    connected,  \* termConnected
    forgotten,  \* history: sockets that _ws was taken from while it had them
    raced,      \* history: a callback waits that another connect may overtake
    hidden      \* history: why a socket may be open behind another tab

tabVars == <<tab, listed, loads, termLoading, selected, due>>
terminalVars == <<sessionVars, tabVars, ws, connected, forgotten, raced, hidden>>

\* "closed": by either side, onclose is still to come; "reported": it came.
Sockets == {"none", "connecting", "open", "closed", "reported"}

TermTypeOK ==
    /\ handler \in [Sessions -> {"none", "exec", "serve", "closing",
                                 "ended"}]
    /\ output \in [Sessions -> {"off", "on"}]
    /\ shell \in [Sessions -> {"none", "running", "eof", "exited"}]
    /\ socket \in [Sessions -> Sockets]
    /\ tab \in {"terminal", "other", "left"}
    /\ listed \in BOOLEAN
    /\ loads \in 0 .. MaxLoads
    /\ termLoading \in BOOLEAN
    /\ selected \in BOOLEAN
    /\ due \in 0 .. MaxDue
    /\ ws \in Sessions \cup {NoSession}
    /\ connected \in BOOLEAN
    /\ forgotten \subseteq Sessions
    /\ raced \in BOOLEAN
    /\ hidden \in BOOLEAN

TermInit ==
    /\ handler = [s \in Sessions |-> "none"]
    /\ output = [s \in Sessions |-> "off"]
    /\ shell = [s \in Sessions |-> "none"]
    /\ socket = [s \in Sessions |-> "none"]
    /\ tab = "other"
    /\ listed = FALSE
    /\ loads = 0
    /\ termLoading = FALSE
    /\ selected = FALSE
    /\ due = 0
    /\ ws = NoSession
    /\ connected = FALSE
    /\ forgotten = {}
    /\ raced = FALSE
    /\ hidden = FALSE

\* The page's end of the socket is not closed.
Usable(s) == socket[s] \in {"connecting", "open"}

\* The connection is gone.
Hung(s) == socket[s] \in {"closed", "reported"}

Closed(s) == IF Usable(s) THEN "closed" ELSE socket[s]

pageUnchanged == UNCHANGED <<tabVars, ws, connected, forgotten, raced, hidden>>

------------------------------------------------------------------------------
(* ExecTerminal *)

\* The upgrade of the request, also of one whose client has just closed it.
Upgrade(s) ==
    /\ handler[s] = "none"
    /\ socket[s] \in {"connecting", "closed"}
    /\ handler' = [handler EXCEPT ![s] = "exec"]
    /\ UNCHANGED <<output, shell, socket>>
    /\ pageUnchanged

\* The handler returns: its deferred calls close the exec's connection, the
\* middleware closes the WebSocket.
Return(s) ==
    /\ handler' = [handler EXCEPT ![s] = "ended"]
    /\ socket' = [socket EXCEPT ![s] = Closed(s)]

\* The Docker client's ExecCreate and ExecAttach: the attach starts the shell.
ExecAttach(s) == shell' = [shell EXCEPT ![s] = "running"]

\* Either may fail; then the handler returns. Otherwise it starts the goroutines.
Exec(s) ==
    /\ handler[s] = "exec"
    /\ \/ /\ ExecAttach(s)
          /\ handler' = [handler EXCEPT ![s] = "serve"]
          /\ output' = [output EXCEPT ![s] = "on"]
          /\ UNCHANGED socket
       \/ Return(s) /\ UNCHANGED <<output, shell>>
    /\ pageUnchanged

\* Reading the shell meets its end.
OutputEnds(s) ==
    /\ output[s] = "on"
    /\ shell[s] = "exited"
    /\ output' = [output EXCEPT ![s] = "off"]
    /\ UNCHANGED <<handler, shell, socket>>
    /\ pageUnchanged

\* What the shell prints cannot be written to a WebSocket that is gone.
OutputFails(s) ==
    /\ output[s] = "on"
    /\ Hung(s)
    /\ shell[s] # "exited"
    /\ output' = [output EXCEPT ![s] = "off"]
    /\ UNCHANGED <<handler, shell, socket>>
    /\ pageUnchanged

\* The reader of the WebSocket returns, which is all the handler waits for
\* before it ends the shell's input.
CloseWrite(s) ==
    /\ handler' = [handler EXCEPT ![s] = "closing"]
    /\ shell' = [shell EXCEPT ![s] = IF @ = "running" THEN "eof" ELSE @]
    /\ UNCHANGED <<output, socket>>
    /\ pageUnchanged

\* Mutant: the handler waits for both goroutines and leaves the input open.
InputEndsOnly(s) ==
    /\ handler[s] = "serve"
    /\ Hung(s)
    /\ handler' = [handler EXCEPT ![s] = "closing"]
    /\ UNCHANGED <<output, shell, socket>>
    /\ pageUnchanged

\* ReadMessage fails when the WebSocket is gone.
InputEnds(s) ==
    /\ handler[s] = "serve"
    /\ Hung(s)
    /\ CloseWrite(s)

\* Something is typed after the shell has ended: writing it may fail.
InputFails(s) ==
    /\ handler[s] = "serve"
    /\ socket[s] = "open"
    /\ shell[s] = "exited"
    /\ CloseWrite(s)

\* wg.Wait
WaitReturns(s) ==
    /\ handler[s] = "closing"
    /\ output[s] = "off"
    /\ Return(s)
    /\ UNCHANGED <<output, shell>>
    /\ pageUnchanged

\* External: the shell ends with its input. It has a terminal (Tty): the program
\* it runs in the foreground may not notice, and then never ends.
ShellSeesEOF(s) ==
    /\ shell[s] = "eof"
    /\ shell' = [shell EXCEPT ![s] = "exited"]
    /\ UNCHANGED <<handler, output, socket>>
    /\ pageUnchanged

\* External: it ends by itself, or its container does.
ShellExits(s) ==
    /\ shell[s] = "running"
    /\ shell' = [shell EXCEPT ![s] = "exited"]
    /\ UNCHANGED <<handler, output, socket>>
    /\ pageUnchanged

SessionStep(s) ==
    Exec(s) \/ OutputEnds(s) \/ InputEnds(s) \/ WaitReturns(s)

SessionMayStep(s) ==
    Upgrade(s) \/ OutputFails(s) \/ InputFails(s) \/ ShellExits(s) \/ ShellSeesEOF(s)

------------------------------------------------------------------------------
(* The page *)

OnOpen(s) ==
    /\ socket[s] = "connecting"
    /\ handler[s] # "none"
    /\ socket' = [socket EXCEPT ![s] = "open"]
    /\ connected' = TRUE
    /\ UNCHANGED <<handler, output, shell, tabVars, ws, forgotten,
                   raced, hidden>>

\* onclose comes later than the close, and speaks of whatever _ws is by then.
OnClose(s) ==
    /\ socket[s] = "closed"
    /\ tab # "left"
    /\ socket' = [socket EXCEPT ![s] = "reported"]
    /\ connected' = FALSE
    /\ UNCHANGED <<handler, output, shell, tabVars, ws, forgotten,
                   raced, hidden>>

ConnectionBreaks(s) ==
    /\ Usable(s)
    /\ socket' = [socket EXCEPT ![s] = "closed"]
    /\ UNCHANGED <<handler, output, shell>>
    /\ pageUnchanged

disconnectTerminal ==
    /\ socket' = [s \in Sessions |-> IF s = ws THEN Closed(s) ELSE socket[s]]
    /\ ws' = NoSession
    /\ connected' = FALSE
    /\ hidden' = FALSE

\* Sessions are used one after the other: which one comes next does not matter.
Unused == {s \in Sessions : socket[s] = "none"}

\* connectTerminal puts a new socket in the place of the old one, if any. Its
\* element is there when containers are listed.
connectTerminal ==
    IF ~listed THEN UNCHANGED <<socket, ws, hidden>>
    ELSE /\ Unused # {}
         /\ ws' = CHOOSE s \in Unused : TRUE
         /\ socket' = [socket EXCEPT ![ws'] = "connecting"]
         /\ hidden' = (tab # "terminal")

\* The socket that connectTerminal takes _ws from.
Replaced == IF listed /\ ws # NoSession THEN {ws} ELSE {}

\* loadContainers, up to the request.
LoadContainers ==
    /\ loads < MaxLoads
    /\ loads' = loads + 1
    /\ termLoading' = TRUE

\* Another callback waits; a first one can be overtaken.
ConnectLater ==
    /\ due < MaxDue
    /\ due' = due + 1
    /\ raced' = (raced \/ due > 0)

\* The running containers of the project: some, none, or an error.
ListContainers == listed' \in BOOLEAN

\* The answer; a failure, and an answer without containers, empty the list.
ContainersAnswer ==
    /\ tab # "left"
    /\ loads > 0
    /\ loads' = loads - 1
    /\ termLoading' = FALSE
    /\ ListContainers
    /\ IF listed' /\ ~selected THEN selected' = TRUE /\ ConnectLater
       ELSE UNCHANGED <<selected, due, raced>>
    /\ UNCHANGED <<sessionVars, tab, ws, connected, forgotten, hidden>>

\* The button that refreshes the list.
Refresh ==
    /\ tab = "terminal"
    /\ ~termLoading
    /\ LoadContainers
    /\ UNCHANGED <<sessionVars, tab, listed, selected, due, ws, connected,
                   forgotten, raced, hidden>>

ShowTerminal ==
    /\ tab = "other"
    /\ tab' = "terminal"
    /\ hidden' = FALSE
    /\ IF listed THEN UNCHANGED <<loads, termLoading>> ELSE LoadContainers
    /\ UNCHANGED <<sessionVars, listed, selected, due, ws, connected, forgotten,
                   raced>>

\* Mutant: the tab is left and the terminal stays connected.
LeaveTabOnly ==
    /\ tab = "terminal"
    /\ tab' = "other"
    /\ UNCHANGED <<sessionVars, listed, loads, termLoading, selected, due, ws,
                   connected, forgotten, raced, hidden>>

\* switchTab to another tab.
LeaveTerminal ==
    /\ tab = "terminal"
    /\ tab' = "other"
    /\ disconnectTerminal
    /\ UNCHANGED <<handler, output, shell, listed, loads,
                   termLoading, selected, due, forgotten, raced>>

\* The answer of triggerDeploy or redeploy assigns the tab.
DeployAnswer ==
    /\ tab = "terminal"
    /\ tab' = "other"
    /\ hidden' = TRUE
    /\ UNCHANGED <<sessionVars, listed, loads, termLoading, selected, due, ws,
                   connected, forgotten, raced>>

SelectContainer ==
    /\ tab = "terminal" /\ listed
    /\ disconnectTerminal
    /\ selected' = TRUE
    /\ ConnectLater
    /\ UNCHANGED <<handler, output, shell, tab, listed, loads,
                   termLoading, forgotten>>

\* The callback of $nextTick.
ConnectDue ==
    /\ tab # "left"
    /\ due > 0
    /\ due' = due - 1
    /\ connectTerminal
    /\ forgotten' = IF raced THEN forgotten \cup Replaced ELSE forgotten
    /\ raced' = (raced /\ due > 1)
    /\ UNCHANGED <<handler, output, shell, tab, listed, loads,
                   termLoading, selected, connected>>

\* The button that is there when there is a selection and no connection.
ReconnectButton ==
    /\ tab = "terminal" /\ listed /\ selected
    /\ ~connected
    /\ connectTerminal
    /\ forgotten' = forgotten \cup Replaced
    /\ raced' = (raced \/ due > 0)
    /\ UNCHANGED <<handler, output, shell, tabVars, connected>>

DisconnectButton ==
    /\ tab = "terminal" /\ listed
    /\ connected
    /\ disconnectTerminal
    /\ UNCHANGED <<handler, output, shell, tabVars, forgotten,
                   raced>>

\* The page goes, and with it all of its sockets.
LeavePage ==
    /\ tab # "left"
    /\ tab' = "left"
    /\ socket' = [s \in Sessions |-> Closed(s)]
    /\ ws' = NoSession
    /\ loads' = 0 /\ due' = 0 /\ forgotten' = {}
    /\ listed' = FALSE /\ termLoading' = FALSE /\ selected' = FALSE
    /\ connected' = FALSE /\ raced' = FALSE /\ hidden' = FALSE
    /\ UNCHANGED <<handler, output, shell>>

TerminalPageStep ==
    \/ ContainersAnswer \/ Refresh \/ ShowTerminal \/ LeaveTerminal \/ DeployAnswer
    \/ SelectContainer \/ ConnectDue \/ ReconnectButton \/ DisconnectButton
    \/ LeavePage
    \/ \E s \in Sessions : OnOpen(s) \/ OnClose(s) \/ ConnectionBreaks(s)

TermNext ==
    \/ TerminalPageStep
    \/ \E s \in Sessions : SessionStep(s) \/ SessionMayStep(s)

TermSpec == TermInit /\ [][TermNext]_terminalVars

------------------------------------------------------------------------------

\* When the WebSocket is gone the handler ends, whatever its goroutines wait for
\* at that moment, or it has ended the shell's input and waits for a shell that
\* goes on: with a terminal nothing makes it end, and then the handler, a
\* goroutine and the exec stay (terminal.go:128-132). Once the shell has ended, so
\* does the handler.
SessionsEnd ==
    \A s \in Sessions :
        /\ Hung(s) ~> \/ handler[s] \in {"none", "ended"}
                      \/ handler[s] = "closing" /\ shell[s] = "eof"
        /\ Hung(s) /\ shell[s] = "exited" ~> handler[s] = "ended"

\* A shell has a page that can end it: its socket is the page's present one, on
\* the tab that shows it. The exceptions are the ways in which the page takes
\* its _ws from an open socket (the reconnect button while a connection is
\* being made, or callbacks that overtake each other) or hides the terminal
\* without switchTab (a deploy that is triggered, or a connection that is made
\* after the tab was left). A session whose socket is gone is being wound up.
ShellsExplained ==
    \A s \in Sessions :
        shell[s] = "running" =>
            \/ Hung(s)
            \/ s \in forgotten
            \/ s = ws /\ (tab = "terminal" \/ hidden)
==============================================================================
