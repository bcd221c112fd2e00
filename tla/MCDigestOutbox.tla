--------------------------- MODULE MCDigestOutbox ---------------------------
(* Model values for checking DigestOutbox with TLC. *)
EXTENDS DigestOutbox, TLC

\* Comments, channels and owners are only compared for equality.
MCSymmetry ==
    Permutations(Comments) \cup Permutations(Channels) \cup Permutations(Owners)
=============================================================================
