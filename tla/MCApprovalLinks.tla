-------------------------- MODULE MCApprovalLinks --------------------------
EXTENDS ApprovalLinks, TLC

\* Comments, tokens, requests and passes are interchangeable.
MCSymmetry == Permutations(Comments) \cup Permutations(Tokens)
                \cup Permutations(Clicks) \cup Permutations(Workers)
=============================================================================
