------------------------------- MODULE MCPages -------------------------------
(***************************************************************************)
(* The parts around the deploys that share no state with one another: the  *)
(* dashboard, a project's page, the list of deployments, the rate limiter, *)
(* the health check of a deploy and the service. A behaviour is one of one *)
(* part, so that their state spaces add up instead of multiplying.         *)
(***************************************************************************)
EXTENDS Dashboard, ProjectPage, DataTable, RateLimit, HealthMode, Service

VARIABLE part   \* the part that this behaviour is about

OneJob == {1}

PageOnly == <<allDashVars, projectVars, tableVars>>
allVars == <<part, PageOnly, rateVars, healthVars, serviceVars>>

\* A part that the behaviour is not about keeps one of its initial states.
PartInit ==
    /\ part \in {"dashboard", "project", "list", "limiter", "health", "service"}
    /\ DashInit
    /\ ProjectInit
    /\ TableInit
    /\ part # "list" =>
          /\ query = CHOOSE q \in Queries : TRUE
          /\ matching = [q \in Queries |-> 0]
    /\ RateInit
    /\ HealthInit
    /\ part # "health" =>
          /\ file = "unreadable"
          /\ services = [s \in Services |-> [ports |-> <<>>, healthcheck |-> "absent"]]
    /\ ServiceInit
    /\ part # "service" => conf = [port |-> 0, url |-> NoURL]

PartNext ==
    /\ UNCHANGED part
    /\ \/ /\ part = "dashboard" /\ DashNext
          /\ UNCHANGED <<projectVars, tableVars, rateVars, healthVars, serviceVars>>
       \/ /\ part = "project" /\ ProjectNext
          /\ UNCHANGED <<allDashVars, tableVars, rateVars, healthVars, serviceVars>>
       \/ /\ part = "list" /\ TableNext
          /\ UNCHANGED <<allDashVars, projectVars, rateVars, healthVars, serviceVars>>
       \/ /\ part = "limiter" /\ RateNext
          /\ UNCHANGED <<PageOnly, healthVars, serviceVars>>
       \/ /\ part = "health" /\ HealthNext
          /\ UNCHANGED <<PageOnly, rateVars, serviceVars>>
       \/ /\ part = "service" /\ ServiceNext
          /\ UNCHANGED <<PageOnly, rateVars, healthVars>>

PartSpec == PartInit /\ [][PartNext]_allVars

\* The type invariants of the parts.
PagesTypeOK ==
    /\ DashTypeOK
    /\ ProjectTypeOK
    /\ TableTypeOK
    /\ RateTypeOK
    /\ HealthTypeOK
    /\ ServiceTypeOK
==============================================================================
