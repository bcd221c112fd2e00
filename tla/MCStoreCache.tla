---------------------------- MODULE MCStoreCache ----------------------------
(* Model values for checking StoreCache with TLC. *)
EXTENDS StoreCache, TLC

CONSTANTS a1, a2, l1, l2

\* Account a1 has moved, a2 has not.
MCTargets == {<<a1, l1>>, <<a1, l2>>, <<a2, l1>>}
=============================================================================
