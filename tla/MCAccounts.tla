----------------------------- MODULE MCAccounts -----------------------------
(* A small installation for TLC. Tabs and usernames are only compared, so that
   either kind can be permuted. *)
EXTENDS Accounts, TLC

Symmetry == Permutations(Tabs) \cup Permutations(Names)
==============================================================================
