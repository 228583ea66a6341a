------------------------------ MODULE MCLiveness ------------------------------
(***************************************************************************)
(* What must eventually happen, in three parts of the system that share no *)
(* state: the deploys, one job's log and the shells. A behaviour is one of *)
(* one part, so that their state spaces add up instead of multiplying.     *)
(***************************************************************************)
EXTENDS MCTrangly, LogStream, Terminal

VARIABLE part   \* the part that this behaviour is about

allVars == <<part, vars, allLogVars, terminalVars>>

PartInit ==
    /\ part \in {"deploys", "log", "shells"}
    /\ Init
    /\ LogInit
    /\ TermInit

PartNext ==
    \/ part = "deploys" /\ Next /\ UNCHANGED <<part, allLogVars, terminalVars>>
    \/ part = "log" /\ LogNext /\ UNCHANGED <<part, vars, terminalVars>>
    \/ part = "shells" /\ TermNext /\ UNCHANGED <<part, vars, allLogVars>>

\* Deploys: the fairness of Trangly. Log: streams run, the keepalive ticks and
\* a Write that has begun goes on; nothing is assumed of clients and of the job.
\* Shells: handlers run and the Docker daemon answers (no call has a timeout of
\* its own); nothing is assumed of the page and of what runs in a shell.
PartFairness ==
    /\ WF_vars(part = "deploys" /\ SchedulerStep)
    /\ \A j \in Jobs : /\ WF_vars(part = "deploys" /\ CancelReturns(j))
                       /\ WF_vars(part = "deploys" /\ ReplyStep(j))
                       /\ WF_vars(part = "deploys" /\ HoldExpires(j))
                       /\ WF_vars(part = "deploys" /\ JobOverdue(j))
    /\ WF_vars(part = "deploys" /\ Exit)
    /\ WF_vars(part = "deploys" /\ Restart)
    /\ \A s \in Streams : WF_allLogVars(part = "log" /\ LogStreamStep(s))
    /\ WF_allLogVars(part = "log" /\ PublishLine)
    /\ \A s \in Sessions : WF_terminalVars(part = "shells" /\ SessionStep(s))

PartSpec == PartInit /\ [][PartNext]_allVars /\ PartFairness

\* The type invariants of the parts.
PartsTypeOK ==
    /\ TypeOK
    /\ LogTypeOK
    /\ TermTypeOK
==============================================================================
