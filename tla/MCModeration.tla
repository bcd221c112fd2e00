---------------------------- MODULE MCModeration ----------------------------
(* Model values for checking Moderation with TLC. *)
EXTENDS Moderation, TLC

\* Comments and requests are only compared for equality.
MCSymmetry == Permutations(Comments) \cup Permutations(Posts)
=============================================================================
