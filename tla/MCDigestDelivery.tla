-------------------------- MODULE MCDigestDelivery --------------------------
(* Model values for checking DigestDelivery with TLC. *)
EXTENDS DigestDelivery, TLC

\* Comments and lease owners are only compared for equality.
MCSymmetry == Permutations(Comments) \cup Permutations(Owners)

MCBothChannels == {Channels}
MCGrowingChannels == SUBSET Channels
MCRetryDelays == 1..(RetryDelay + ParentLease)
=============================================================================
