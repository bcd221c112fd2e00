----------------------------- MODULE MCAccounts -----------------------------
(* Model values for checking Accounts with TLC. *)
EXTENDS Accounts, TLC

\* Users and requests are only compared for equality.
MCSymmetry == Permutations(Users) \cup Permutations(Requests)
=============================================================================
