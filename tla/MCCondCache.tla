----------------------------- MODULE MCCondCache -----------------------------
(* Instances of CondCache for TLC.                                         *)
EXTENDS CondCache, TLC

CONSTANTS ann, bob, cid, one, two, three, i1, i2, i3, i4, i5

ThreeCallers == {ann, bob, cid}
ThreeKeys == {one, two, three}

\* One item for every entry of the cache and every caller is enough.
FiveItems == {i1, i2, i3, i4, i5}

Alike == Permutations(Callers) \cup Permutations(Keys) \cup Permutations(Items)
=============================================================================
