--------------------------- MODULE MCAuctionService ---------------------------
(***************************************************************************)
(* Values of the constants of AuctionService for TLC.                      *)
(***************************************************************************)
EXTENDS AuctionService, TLC

CONSTANTS a1, a2, b1

\* Everybody uses address a1.
OneStakingAddr == [v \in Validators |-> a1]
OneBidAddr == [b \in BidIds |-> a1]

\* The chain reports a2 for every validator; bid b1 pays a1, the others a2.
OtherStakingAddr == [v \in Validators |-> a2]
TwoBidAddrs == [b \in BidIds |-> IF b = b1 THEN a1 ELSE a2]

\* Goroutines and validators are interchangeable.
Symmetry == Permutations(Searchers) \cup Permutations(Builders)
              \cup Permutations(Validators)
=============================================================================
