----------------------------- MODULE MCReaders ------------------------------
(* Model values for checking Readers with TLC. *)
EXTENDS Readers, TLC

\* These are only compared for equality.
MCSymmetry == Permutations(Scopes) \cup Permutations(Terms) \cup Permutations(Requests)
    \cup Permutations(Editors) \cup Permutations(Readers)
=============================================================================
