----------------------------- MODULE MCGitHubAuth -----------------------------
(* Small instances of GitHubAuth for TLC. *)
EXTENDS GitHubAuth, TLC

\* Nothing tells one of them from another.
Symmetry == Permutations(Users) \cup Permutations(Callbacks)
            \cup Permutations(States) \cup Permutations(Apps)
==============================================================================
