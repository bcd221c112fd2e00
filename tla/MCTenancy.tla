------------------------------ MODULE MCTenancy -----------------------------
(* Model values for checking Tenancy with TLC. *)
EXTENDS Tenancy, TLC

\* These are only compared for equality.
MCSymmetry == Permutations(Accounts) \cup Permutations(Requests)
    \cup Permutations(Operations) \cup Permutations(Sites \ LegacySites)
=============================================================================
