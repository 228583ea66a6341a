------------------------------- MODULE MCClaims ------------------------------
(* Small instances on which the claims of TranglyClaims are refuted. *)
EXTENDS TranglyClaims

\* Two jobs of one project.
OneProject == [j \in Jobs |-> "p1"]

\* What Trigger writes at this commit.
NoEstimate == [j \in Jobs |-> 0]

==============================================================================
