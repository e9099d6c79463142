----------------------------- MODULE MCAccounts -----------------------------
(***************************************************************************)
(* Instances of Accounts for TLC: two passwords and two overlapping calls. *)
(***************************************************************************)
EXTENDS Accounts, TLC

Symmetry == Permutations(Calls) \cup Permutations(Passwords)
=============================================================================
