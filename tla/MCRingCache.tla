----------------------------- MODULE MCRingCache -----------------------------
(* Instances of RingCache for TLC.                                         *)
EXTENDS RingCache

CONSTANTS ann, bob, one, two, i1, i2, i3

TwoCallers == {ann, bob}
TwoKeys == {one, two}

\* One item for every position of the ring and every caller is enough.
ThreeItems == {i1, i2, i3}
=============================================================================
