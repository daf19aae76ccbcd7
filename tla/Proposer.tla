------------------------------ MODULE Proposer ------------------------------
(***************************************************************************)
(* Who proposes the block of a height to come, predicted from a validator  *)
(* set (PredictProposer of zcosmos/chain.go), and the rotation of          *)
(* Tendermint that it relies on.  A validator set is a list of records of  *)
(* an address, a voting power and a proposer priority; addresses are       *)
(* numbers, in the order that breaks ties.                                 *)
(***************************************************************************)
EXTENDS Integers, Sequences

NoProposer == 0

-----------------------------------------------------------------------------
(* tm_types.ValidatorSet.  Priorities stay far from the ends of an int64.  *)

Powers(vals) == [i \in 1..Len(vals) |-> vals[i].power]
Priorities(vals) == [i \in 1..Len(vals) |-> vals[i].priority]

\* The same validators with other priorities.
With(vals, priorities) ==
  [i \in 1..Len(vals) |-> [vals[i] EXCEPT !.priority = priorities[i]]]

Sum(s) ==
  LET upTo[n \in 0..Len(s)] == IF n = 0 THEN 0 ELSE upTo[n - 1] + s[n]
  IN  upTo[Len(s)]

TotalPower(vals) == Sum(Powers(vals))

Highest(s) == CHOOSE i \in 1..Len(s) : \A j \in 1..Len(s) : s[j] <= s[i]
Lowest(s) == CHOOSE i \in 1..Len(s) : \A j \in 1..Len(s) : s[i] <= s[j]
Spread(s) == s[Highest(s)] - s[Lowest(s)]

\* The priorities are further apart than twice the total power.
Window(vals) == 2 * TotalPower(vals)
OutOfWindow(vals) == Spread(Priorities(vals)) > Window(vals)

\* a / b of Go, for b > 0.
Quo(a, b) == IF a >= 0 THEN a \div b ELSE -((-a) \div b)

RescalePriorities(vals) ==
  LET ratio == (Spread(Priorities(vals)) + Window(vals) - 1) \div Window(vals)
  IN  IF OutOfWindow(vals)
      THEN With(vals, [i \in 1..Len(vals) |-> Quo(vals[i].priority, ratio)])
      ELSE vals

Average(vals) == Sum(Priorities(vals)) \div Len(vals)

ShiftByAverage(vals) ==
  With(vals, [i \in 1..Len(vals) |-> vals[i].priority - Average(vals)])

\* The one with the highest priority; of equals, that with the lowest address.
MostPriority(vals) ==
  CHOOSE i \in 1..Len(vals) : \A j \in 1..Len(vals) :
    \/ vals[i].priority > vals[j].priority
    \/ vals[i].priority = vals[j].priority /\ vals[i].addr <= vals[j].addr

Gained(vals) ==
  With(vals, [i \in 1..Len(vals) |-> vals[i].priority + vals[i].power])

\* The list in which the validator at i has lost part of its priority.
Charged(vals, i, amount) ==
  SubSeq(vals, 1, i - 1) \o <<[vals[i] EXCEPT !.priority = @ - amount]>>
    \o SubSeq(vals, i + 1, Len(vals))

\* Everybody gains its power; the one ahead proposes, and pays for it.
Rotate(vals) ==
  LET ahead == MostPriority(Gained(vals))
  IN  [vals |-> Charged(Gained(vals), ahead, TotalPower(vals)),
       proposer |-> vals[ahead].addr]

IncrementProposerPriority(vals, times) ==
  LET after[n \in 0..times] ==
        IF n = 0 THEN [vals |-> ShiftByAverage(RescalePriorities(vals)),
                       proposer |-> NoProposer]
        ELSE Rotate(after[n - 1].vals)
  IN  after[times]

-----------------------------------------------------------------------------
\* Mutant: the proposer of the set itself is counted again.
FromHeight(valset, h) == h - valset.height + 1

\* How often the priorities are incremented: d.
Distance(valset, h) == h - valset.height

\* PredictProposer, or NoProposer for "can only predict future proposers".
PredictProposer(valset, h) ==
  LET d == Distance(valset, h)
  IN  IF d <= 0 THEN NoProposer
      ELSE IncrementProposerPriority(valset.vals, d).proposer
=============================================================================
