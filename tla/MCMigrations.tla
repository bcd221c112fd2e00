---------------------------- MODULE MCMigrations ----------------------------
(* Two calls in one process and one in another, on one account. *)
EXTENDS Migrations, TLC

CONSTANTS c1, c2, c3, p1, p2, l1, l2

MCProcessOf == c1 :> p1 @@ c2 :> p1 @@ c3 :> p2

MCSymmetry == Permutations({c1, c2}) \cup Permutations({l1, l2})

=============================================================================
