----------------------------- MODULE BlockBuilder -----------------------------
(***************************************************************************)
(* How the bids of one claimed auction become a block: evaluateBid when a  *)
(* bid is placed, then, for the build, computeOrder, selectTransactions    *)
(* and the flattening of the bundles, one step per round of their loops.   *)
(* What a list of transactions pays and takes is in module Payments.       *)
(***************************************************************************)
EXTENDS Payments, Functions

CONSTANTS
  BidIds,         \* identifiers, ordered as the code orders them
  OldIds,         \* those that may be of rows from before the evaluation
  BidTxs,         \* the lists of transactions that bids are made of
  Mempools,       \* the mempools that validators send
  Balances,       \* the account balances that the chain may report
  Limits          \* the pairs maxBytes, maxGas that validators send

ASSUME BuilderAssumption ==
  /\ BidIds \subseteq Nat /\ OldIds \subseteq BidIds /\ NULL \notin BidIds
  /\ BidTxs \subseteq Seq(Txs) /\ Mempools \subseteq Seq(Txs)
  /\ Balances \subseteq [Senders -> Nat]
  /\ Limits \subseteq [bytes: Int, gas: Int]

VARIABLES
  phase,       \* what happens now
  bids,        \* the bids of the auction, by identifier
  mempool,     \* argument txs of Build
  looked,      \* how many of them computeOrder has looked at
  limits,      \* arguments maxBytes, maxGas of Build
  queue,       \* bids that computeOrder has not reached
  balances,    \* senderBalances
  claimed,     \* claimedTxs
  winning,     \* winningBids; later those that selectTransactions has left
  remaining,   \* remainingTxs; later those that selectTransactions has left
  bundles,     \* the bundles selected so far
  used,        \* totalBytes, totalGas
  initial,     \* history: the balances that the chain reported
  won          \* history: all of winningBids

\* What one build computes: the locals of computeOrder, of selectTransactions.
inputs == <<mempool, limits, initial>>
orderVars == <<queue, balances, claimed, won, looked>>
selectVars == <<bundles, used>>

vars == <<phase, bids, inputs, orderVars, winning, remaining, selectVars>>

-----------------------------------------------------------------------------
Bundle == [bid: BidIds \cup {NULL}, txs: Seq(Txs)]

Phases == {"bidding", "order", "select", "done", "failed"}

\* The result of ListBids.
Listed == DOMAIN bids

TypeOK ==
  /\ phase \in Phases
  /\ Listed \subseteq BidIds /\ \A i \in Listed : bids[i] \in Bid
  /\ mempool \in Seq(Txs) /\ looked \in 0..Len(mempool) /\ remaining \in Seq(Txs)
  /\ limits \in [bytes: Int, gas: Int] /\ used \in [bytes: Int, gas: Int]
  /\ queue \in SUBSET BidIds
  /\ balances \in [Senders -> Nat] /\ initial \in [Senders -> Nat]
  /\ claimed \in SUBSET Txs
  /\ winning \in Seq(BidIds) /\ won \in Seq(BidIds)
  /\ bundles \in Seq(Bundle)

Init ==
  /\ phase = "bidding"
  /\ bids = <<>>
  /\ mempool \in Mempools
  /\ looked = 0
  /\ limits \in Limits
  /\ initial \in Balances /\ balances = initial
  /\ queue = {} /\ claimed = {} /\ winning = <<>> /\ remaining = <<>>
  /\ bundles = <<>> /\ used = [bytes |-> 0, gas |-> 0] /\ won = <<>>

Insert(i, bid) ==
  bids' = [j \in Listed \cup {i} |-> IF j = i THEN bid ELSE bids[j]]

\* Bid: the bid is evaluated, then inserted; a bad one is refused.
PlaceBid(i, kind, txs) ==
  /\ phase = "bidding"
  /\ i \notin Listed
  /\ Acceptable(txs)
  /\ Insert(i, Evaluated(kind, txs, "pending"))
  /\ UNCHANGED <<phase, inputs, orderVars, winning, remaining, selectVars>>

\* An old row, without state.
OldBid(i, kind, txs) ==
  /\ phase = "bidding"
  /\ i \notin Listed
  /\ Insert(i, Unevaluated(kind, txs))
  /\ UNCHANGED <<phase, inputs, orderVars, winning, remaining, selectVars>>

-----------------------------------------------------------------------------
(* computeOrder.                                                           *)

EvaluateOld(b) ==
  IF b.state = "" THEN Evaluated(b.kind, b.txs, "") ELSE b

\* Bids without state are evaluated now; one bad bid fails the build.
StartOrder ==
  /\ phase = "bidding"
  /\ IF \A i \in Listed : bids[i].state = "" => Acceptable(bids[i].txs)
     THEN /\ phase' = "order"
          /\ bids' = [i \in Listed |-> EvaluateOld(bids[i])]
          /\ queue' = Listed
     ELSE phase' = "failed" /\ UNCHANGED <<bids, queue>>
  /\ UNCHANGED <<inputs, balances, claimed, won, looked, winning, remaining,
                 selectVars>>

\* Mutant: the bids are taken as they come.
ById(i, j) == i < j

\* The sort: highest priority first, then by identifier.
Before(i, j) ==
  \/ bids[i].priority > bids[j].priority
  \/ bids[i].priority = bids[j].priority /\ i < j

IsFirst(i) == \A j \in queue \ {i} : Before(i, j)

\* Mutant: only another top bid takes the top.
TopTakenByTop(i) ==
  bids[i].kind = "top" /\ \E n \in DOMAIN winning : bids[winning[n]].kind = "top"

TopTaken(i) == bids[i].kind = "top" /\ winning # <<>>

\* Mutant: bids may share transactions.
MayShare(i) == FALSE

HasClaimed(i) == \E t \in Range(bids[i].txs) : t \in claimed

Charged(i) == ChargeAll(balances, bids[i].payments)

\* Mutant: the state of a rejected bid is not set.
RejectSilently(i) == UNCHANGED bids

Reject(i) == bids' = [bids EXCEPT ![i].state = "rejected"]

\* The next bid in the order of the sort wins or is rejected.
ConsiderBid(i) ==
  /\ phase = "order"
  /\ IsFirst(i)
  /\ queue' = queue \ {i}
  /\ IF TopTaken(i) \/ HasClaimed(i) \/ ~ Charged(i).ok
     THEN Reject(i) /\ UNCHANGED <<winning, won, balances, claimed>>
     ELSE /\ winning' = Append(winning, i)
          /\ won' = Append(won, i)
          /\ balances' = Charged(i).balances
          /\ claimed' = claimed \cup Range(bids[i].txs)
          /\ UNCHANGED bids
  /\ UNCHANGED <<phase, inputs, looked, remaining, selectVars>>

\* Mutant: bids that lost keep their transactions.
TakenByBid(t) == t \in claimed \/ \E i \in Listed : t \in Range(bids[i].txs)

Taken(t) == t \in claimed

\* The transactions of the mempool that are not claimed, each once.
ConsiderMempoolTx ==
  LET t == mempool[looked + 1]
  IN /\ phase = "order"
     /\ queue = {}
     /\ looked < Len(mempool)
     /\ looked' = looked + 1
     /\ IF Taken(t)
        THEN UNCHANGED <<remaining, claimed>>
        ELSE /\ remaining' = Append(remaining, t)
             /\ claimed' = claimed \cup {t}
     /\ UNCHANGED <<phase, bids, inputs, queue, balances, won, winning,
                    selectVars>>

-----------------------------------------------------------------------------
(* selectTransactions.                                                     *)

\* computeOrder returns.
OrderDone ==
  /\ phase = "order"
  /\ queue = {}
  /\ looked = Len(mempool)
  /\ phase' = "select"
  /\ UNCHANGED <<bids, inputs, orderVars, winning, remaining, selectVars>>

With(txs) == [bytes |-> Add(used.bytes, Size(txs).bytes),
              gas |-> Add(used.gas, Size(txs).gas)]

\* Mutant: the bundle at hand is not counted.
NotFull(txs) ==
  used.bytes <= Limit(limits.bytes) /\ used.gas <= Limit(limits.gas)

Fits(txs) ==
  With(txs).bytes <= Limit(limits.bytes) /\ With(txs).gas <= Limit(limits.gas)

\* A winning bid is accepted or rejected as a whole.
SelectBid ==
  LET i == Head(winning)
  IN /\ phase = "select"
     /\ winning # <<>>
     /\ winning' = Tail(winning)
     /\ IF Fits(bids[i].txs)
        THEN /\ bids' = [bids EXCEPT ![i].state = "accepted"]
             /\ used' = With(bids[i].txs)
             /\ bundles' = Append(bundles, [bid |-> i, txs |-> bids[i].txs])
        ELSE Reject(i) /\ UNCHANGED <<used, bundles>>
     /\ UNCHANGED <<phase, inputs, orderVars, remaining>>

\* A mempool transaction that does not decode, or does not fit, is left out.
SelectTx ==
  LET t == Head(remaining)
  IN /\ phase = "select"
     /\ winning = <<>>
     /\ remaining # <<>>
     /\ remaining' = Tail(remaining)
     /\ IF t \in Decodes /\ Fits(<<t>>)
        THEN /\ used' = With(<<t>>)
             /\ bundles' = Append(bundles, [bid |-> NULL, txs |-> <<t>>])
        ELSE UNCHANGED <<used, bundles>>
     /\ UNCHANGED <<phase, bids, inputs, orderVars, winning>>

\* The states of the bids are stored, the bundles flattened and returned.
Finish ==
  /\ phase = "select"
  /\ winning = <<>> /\ remaining = <<>>
  /\ phase' = "done"
  /\ UNCHANGED <<bids, inputs, orderVars, winning, remaining, selectVars>>

\* The handler has returned.
Returned == phase \in {"done", "failed"} /\ UNCHANGED vars

BlockTxs == Flatten([n \in DOMAIN bundles |-> bundles[n].txs])

\* Mutant: the bids rejected for lack of room are counted.
PaymentOfWinners ==
  Total([n \in DOMAIN won |-> bids[won[n]].validator])

\* The payment that is announced to the validator.
ValidatorPayment ==
  Total([n \in DOMAIN bundles |-> IF bundles[n].bid = NULL THEN 0
                                  ELSE bids[bundles[n].bid].validator])

Next ==
  \/ \E i \in BidIds, kind \in {"top", "block"}, txs \in BidTxs :
        PlaceBid(i, kind, txs) \/ (i \in OldIds /\ OldBid(i, kind, txs))
  \/ StartOrder
  \/ \E i \in queue : ConsiderBid(i)
  \/ ConsiderMempoolTx
  \/ OrderDone
  \/ SelectBid
  \/ SelectTx
  \/ Finish
  \/ Returned

Spec == Init /\ [][Next]_vars

-----------------------------------------------------------------------------
(* Properties.                                                             *)

\* No transaction is in two bundles of a block: bids do not share
\* transactions, and a mempool transaction is taken once and only if no
\* winning bid brings it.
BundlesDisjoint ==
  \A m, n \in DOMAIN bundles :
     m # n => Range(bundles[m].txs) \cap Range(bundles[n].txs) = {}

\* A bid that asked for the top of the block is there, or not in the block.
TopBidFirst ==
  \A n \in DOMAIN bundles :
     bundles[n].bid # NULL /\ bids[bundles[n].bid].kind = "top" => n = 1

\* When the build is done every listed bid is decided, and exactly the bids
\* of the block are accepted: computeOrder and selectTransactions together
\* leave no bid out.
EveryBidDecided ==
  phase = "done" =>
     \A i \in Listed :
        bids[i].state = IF \E n \in DOMAIN bundles : bundles[n].bid = i
                        THEN "accepted" ELSE "rejected"

\* The winning bids of higher priority than bid i, or of the same priority and
\* an earlier identifier.
Ahead(i) ==
  {j \in Range(won) : \/ bids[j].priority > bids[i].priority
                      \/ bids[j].priority = bids[i].priority /\ j < i}

\* What sender a pays in the winning bids ahead of bid i.
PaidAhead(a, i) ==
  Sum([n \in DOMAIN won |-> IF won[n] \in Ahead(i)
                            THEN PaidBy(a, bids[won[n]].payments) ELSE 0])

\* The outcome of computeOrder depends on the bids alone, not on the order in
\* which the store lists them: a bid wins unless the winners before it leave
\* no room at the top, contain one of its transactions, or have, together with
\* it, more to pay than a sender owned.  So no bid loses to one of lower
\* priority, and no sender is charged more than the balance at height - 1.
GreedyByPriority ==
  phase \notin {"bidding", "failed"} =>
     \A i \in Listed \ queue :
        i \in Range(won) <=>
           /\ bids[i].kind = "top" => Ahead(i) = {}
           /\ \A j \in Ahead(i) : Range(bids[i].txs) \cap Range(bids[j].txs) = {}
           /\ \A a \in Senders :
                 PaidAhead(a, i) + PaidBy(a, bids[i].payments) <= initial[a]

\* The transactions of the block that decode stay within the limits that the
\* validator sent, as long as their sizes add up to an int64: larger sums wrap
\* around in selectTransactions and may pass.  (A limit below zero, other than
\* -1, is one that not even the empty block keeps.)
CountedWithinLimits ==
  LET bytes == Sum(Counted(Bytes, BlockTxs))
      gas == Sum(Counted(Gas, BlockTxs))
  IN bundles # <<>> =>
       /\ bytes <= MaxInt => bytes <= Limit(limits.bytes)
       /\ gas <= MaxInt => gas <= Limit(limits.gas)

\* The transactions of the block that bids brought.
TxsOfBids == Flatten([n \in DOMAIN bundles |->
                        IF bundles[n].bid = NULL THEN <<>> ELSE bundles[n].txs])

\* The payment announced with the block is what the transactions of its bids
\* pay to the validator, though it was computed when the bids were placed.
AnnouncedPaymentPaid ==
  phase = "done" =>
     ValidatorPayment = PaidTo(PaymentsOf(TxsOfBids), "validator")

\* "Make sure the block respects capacity limits (e.g. bytes and gas)".
BytesWithinLimit ==
  Sum([n \in DOMAIN BlockTxs |-> Bytes[BlockTxs[n]]]) <= Limit(limits.bytes)

\* "Append any remaining mempool transactions which aren't already in the
\* block": one that decodes and that the block has room for is lost only with a
\* winning bid that also held it and did not fit.
MempoolKept ==
  phase = "done" =>
     \A t \in Range(mempool) \cap Decodes :
        \/ t \in Range(BlockTxs)
        \/ ~ Fits(<<t>>)
        \/ \E i \in Range(won) : bids[i].state = "rejected" /\ t \in Range(bids[i].txs)

-----------------------------------------------------------------------------
(* The inductive invariant behind BundlesDisjoint, TopBidFirst and         *)
(* EveryBidDecided.                                                        *)

TxsOf(i) == Range(bids[i].txs)
BundleTxs(n) == Range(bundles[n].txs)

\* What each phase starts from.
PhaseInv ==
  /\ phase \in {"bidding", "failed"} =>
       winning = <<>> /\ remaining = <<>> /\ bundles = <<>> /\ claimed = {}
  /\ phase = "order" => bundles = <<>>
  /\ phase = "order" /\ queue # {} => remaining = <<>>
  /\ phase \in {"select", "done"} => queue = {}
  /\ phase = "done" => winning = <<>>

\* The winning bids are listed and distinct, and off the queue.
WinningInv ==
  /\ queue \subseteq Listed
  /\ \A m \in DOMAIN winning : winning[m] \in Listed \ queue
  /\ \A m, n \in DOMAIN winning : winning[m] = winning[n] => m = n

\* Whatever is on its way into the block is claimed, by one bid or mempool
\* transaction only.
ClaimInv ==
  /\ \A m \in DOMAIN winning : TxsOf(winning[m]) \subseteq claimed
  /\ \A m \in DOMAIN remaining : remaining[m] \in claimed
  /\ \A m \in DOMAIN bundles : BundleTxs(m) \subseteq claimed
  /\ \A m, n \in DOMAIN winning :
        m # n => TxsOf(winning[m]) \cap TxsOf(winning[n]) = {}
  /\ \A m, n \in DOMAIN remaining : remaining[m] = remaining[n] => m = n
  /\ \A m \in DOMAIN winning, n \in DOMAIN remaining :
        remaining[n] \notin TxsOf(winning[m])
  /\ \A m \in DOMAIN bundles, n \in DOMAIN winning :
        BundleTxs(m) \cap TxsOf(winning[n]) = {}
  /\ \A m \in DOMAIN bundles, n \in DOMAIN remaining :
        remaining[n] \notin BundleTxs(m)

\* Only the first winning bid can be one for the top.
TopInv ==
  \A m \in DOMAIN winning :
     bids[winning[m]].kind = "top" => m = 1 /\ bundles = <<>>

\* A bid is to be considered, winning, or decided; a bundle is of an accepted
\* bid.
DecidedInv ==
  /\ \A n \in DOMAIN bundles : bundles[n].bid # NULL =>
        /\ bundles[n].bid \in Listed \ queue
        /\ bids[bundles[n].bid].state = "accepted"
        /\ \A m \in DOMAIN winning : winning[m] # bundles[n].bid
  /\ phase \in {"order", "select", "done"} =>
        \A i \in Listed :
           \/ i \in queue
           \/ \E m \in DOMAIN winning : winning[m] = i
           \/ bids[i].state = "rejected"
           \/ \E n \in DOMAIN bundles : bundles[n].bid = i

\* The bids have their fields, the lists are sequences.
ShapeInv ==
  /\ phase \in Phases
  /\ bids = [i \in Listed |-> bids[i]] /\ Listed \subseteq BidIds
  /\ \A i \in Listed : bids[i] \in Bid
  /\ winning \in Seq(BidIds)
  /\ remaining \in Seq(Txs) /\ mempool \in Seq(Txs) /\ looked \in Nat
  /\ bundles \in Seq(Bundle)

\* Every transaction is on one way into the block, every bid in one place.
BuilderInv ==
  /\ ShapeInv
  /\ PhaseInv
  /\ WinningInv
  /\ ClaimInv
  /\ TopInv
  /\ DecidedInv
  /\ BundlesDisjoint
  /\ TopBidFirst

-----------------------------------------------------------------------------
(* The invariants behind GreedyByPriority, CountedWithinLimits,            *)
(* AnnouncedPaymentPaid and MempoolKept.                                   *)

\* What sender a pays in all winning bids.
PaidByWinners(a) ==
  Sum([n \in DOMAIN won |-> PaidBy(a, bids[won[n]].payments)])

\* The bids that were considered are ahead of the others; the claims and the
\* balances are those that the winning bids leave.
OrderInv ==
  /\ phase \in {"bidding", "failed"} => won = <<>> /\ queue = {}
  /\ phase = "order" => winning = won
  /\ phase = "order" /\ queue # {} =>
       claimed = UNION {TxsOf(won[n]) : n \in DOMAIN won}
  /\ \A n \in DOMAIN won : won[n] \in Listed \ queue
  /\ \A i \in Listed \ queue, j \in queue : Before(i, j)
  /\ \A a \in Senders : balances[a] + PaidByWinners(a) = initial[a]

\* totalBytes and totalGas are the size of the block, and have passed the test.
UsedInv ==
  /\ used = Size(BlockTxs)
  /\ bundles # <<>> =>
       used.bytes <= Limit(limits.bytes) /\ used.gas <= Limit(limits.gas)

\* The payment of a bid that was evaluated is that of its transactions as
\* encoded again.
EvaluatedInv ==
  \A i \in Listed :
     bids[i].state # "" \/ phase \in {"order", "select", "done"} =>
        bids[i].validator = PaidTo(PaymentsOf(bids[i].txs), "validator")

\* The bundles are those of the bids, with their payments.
AnnouncedInv ==
  /\ \A n \in DOMAIN bundles :
       bundles[n].bid # NULL => bundles[n].txs = bids[bundles[n].bid].txs
  /\ ValidatorPayment = PaidTo(PaymentsOf(TxsOfBids), "validator")

\* Transaction t is on its way into the block, in it, or left out for lack of
\* room, of its own or of the winning bid that holds it.
Kept(t) ==
  \/ \E n \in DOMAIN winning : t \in TxsOf(winning[n])
  \/ \E n \in DOMAIN remaining : t = remaining[n]
  \/ \E n \in DOMAIN bundles : t \in BundleTxs(n)
  \/ winning = <<>> /\ t \in Range(mempool) /\ ~ Fits(<<t>>)
  \/ \E n \in DOMAIN won : bids[won[n]].state = "rejected" /\ t \in TxsOf(won[n])

\* What computeOrder has looked at is claimed, and what is claimed is kept.
KeptInv ==
  /\ mempool \in Mempools /\ limits \in Limits
  /\ \A n \in 1..looked : mempool[n] \in claimed
  /\ phase \in {"select", "done"} => looked = Len(mempool)
  /\ phase = "done" => remaining = <<>>
  /\ \A n \in DOMAIN winning : \E m \in DOMAIN won : won[m] = winning[n]
  /\ \A n \in DOMAIN remaining : remaining[n] \in Range(mempool)
  /\ \A t \in claimed \cap Decodes : Kept(t)

\* The mempool's transactions are so small that selectTransactions counts them
\* without overflow, once the bids are selected.
SizesInRange ==
  \A m \in Mempools, l \in Limits : \A n \in DOMAIN m :
     m[n] \in Decodes => /\ InRange(Bytes[m[n]], l.bytes)
                         /\ InRange(Gas[m[n]], l.gas)

=============================================================================
