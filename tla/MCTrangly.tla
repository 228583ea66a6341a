------------------------------ MODULE MCTrangly ------------------------------
(* Small instances of Trangly for TLC. *)
EXTENDS TranglyInvariant

\* Two jobs of one project.
OneProject == [j \in Jobs |-> "p1"]

\* Either job fits the budget of 2 alone, both together do not.
TightEstimates == [j \in Jobs |-> IF j = 1 THEN 2 ELSE 1]

\* Only the first of the two jobs fits when no memory is free.
SecondNeedsMemory == [j \in Jobs |-> j - 1]
==============================================================================
