---------------------------- MODULE TranglyClaims ----------------------------
(***************************************************************************)
(* What the comments and the documentation say of the execution plane and  *)
(* the code does not do. Each is refuted by a run of its own; the quoted   *)
(* sentence and the counterexample are in the README.                      *)
(***************************************************************************)
EXTENDS Trangly

\* "recoverInterruptedJobs resets any jobs that were left in a non-terminal,
\* non-pending state from a previous crashed run" (manager.go:215-216).
\* hot_swapping is not in its list.
RestartResetsInterrupted ==
    [][proc = "down" /\ proc' = "up"
          => \A j \in Jobs : status'[j] \notin Executing]_vars

\* "swapped only after the health check passes, so a bad build never touches
\* production" (README.md:54). Two jobs of a project build into one image tag,
\* so the swap of the first may start the build of the second.
OnlyCheckedBuildsServe ==
    \A s \in Slugs : prod[s] \in checked \cup {Down, Mixed}

\* "On failure, it attempts to restart the previous containers" (swap.go:24):
\* once a project was deployed, it serves again when no deploy is working.
\* SwapStage takes the containers down and returns the error of compose up.
SwapFailureRestoresService ==
    (\A j \in Jobs : ~Live(j))
        => \A j \in deployed : prod[plan[j].slug] # Down
==============================================================================
