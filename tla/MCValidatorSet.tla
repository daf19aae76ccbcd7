---------------------------- MODULE MCValidatorSet ----------------------------
(* Small instances of ValidatorSet.                                        *)
EXTENDS ValidatorSet

\* A list of validators in which the power of one is its address and validator 1
\* has priority p.  Tendermint lists validators by power.
Listed(addrs, p) ==
  [i \in 1..Len(addrs) |->
     [addr |-> addrs[i], power |-> addrs[i],
      priority |-> IF addrs[i] = 1 THEN p ELSE 0]]

\* The chain goes through the sets of its first heights, and stays with the last
\* but for the rotation.
Goes(first) ==
  LET at[h \in 1..MaxHeight + Ahead] ==
        IF h <= Len(first) THEN first[h]
        ELSE IncrementProposerPriority(at[h - 1], 1).vals
  IN  at

\* Sizes below, at and above a multiple of the page size, a set that changes
\* from one height to the next, one that has to be rescaled, and a validator
\* that leaves staking.
MCHistories ==
  {[consensus |-> Goes(c), staking |-> s] :
     c \in {<<Listed(<<3, 2, 1>>, 0), Listed(<<4, 3, 1>>, 0)>>,
            <<Listed(<<2>>, 0), Listed(<<2, 1>>, 0)>>,
            <<Listed(<<3, 2, 1>>, 17)>>,
            <<Listed(<<4, 3, 2, 1>>, -9), Listed(<<4, 3, 2>>, 0)>>},
     s \in {<<1..4, 1..4>>, <<1..4, 2..4>>}}
=============================================================================
