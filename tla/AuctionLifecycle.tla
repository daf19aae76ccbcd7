--------------------------- MODULE AuctionLifecycle ---------------------------
(***************************************************************************)
(* What the auction service promises about the auctions of a chain: an     *)
(* auction is opened for one validator, claimed at most once, and a claim  *)
(* is worth at most one block for that validator.  Expired auctions        *)
(* disappear; an auction opened afterwards at the same height is a new     *)
(* one, of the next generation.                                            *)
(***************************************************************************)
EXTENDS Naturals

CONSTANTS Heights, Validators, NULL

VARIABLES
  opened,   \* the validator the auction of a height is open for, or NULL
  claimed,  \* the heights whose present auction is claimed
  gen,      \* the generation of the (next) auction of a height
  rights,   \* claims that may still become a block
  given     \* blocks handed to validators

vars == <<opened, claimed, gen, rights, given>>

Init ==
  /\ opened = [h \in Heights |-> NULL]
  /\ claimed = {}
  /\ gen = [h \in Heights |-> 0]
  /\ rights = {}
  /\ given = {}

Open(h, v) ==
  /\ opened[h] = NULL
  /\ opened' = [opened EXCEPT ![h] = v]
  /\ UNCHANGED <<claimed, gen, rights, given>>

\* Validator v claims the auction; one that nobody opened is opened for v.
MakeClaim(h, v) ==
  /\ opened[h] \in {NULL, v}
  /\ h \notin claimed
  /\ opened' = [opened EXCEPT ![h] = v]
  /\ claimed' = claimed \cup {h}
  /\ rights' = rights \cup {[height |-> h, gen |-> gen[h], validator |-> v]}
  /\ UNCHANGED <<gen, given>>

Give(c) ==
  /\ rights' = rights \ {c}
  /\ given' = given \cup {c}
  /\ UNCHANGED <<opened, claimed, gen>>

\* The request that held the claim failed: nobody gets the block.
Lose(c) ==
  /\ rights' = rights \ {c}
  /\ UNCHANGED <<opened, claimed, gen, given>>

Expire(hs) ==
  /\ \A h \in hs : opened[h] # NULL
  /\ opened' = [h \in Heights |-> IF h \in hs THEN NULL ELSE opened[h]]
  /\ claimed' = claimed \ hs
  /\ gen' = [h \in Heights |-> IF h \in hs THEN gen[h] + 1 ELSE gen[h]]
  /\ UNCHANGED <<rights, given>>

Next ==
  \/ \E h \in Heights, v \in Validators : Open(h, v) \/ MakeClaim(h, v)
  \/ \E c \in rights : Give(c) \/ Lose(c)
  \/ \E hs \in SUBSET Heights : Expire(hs)

Spec == Init /\ [][Next]_vars
=============================================================================
