------------------------- MODULE BlockBuilderProofs -------------------------
(***************************************************************************)
(* Proofs about module BlockBuilder, for every value of its constants: the *)
(* way of the transactions, the types, the size of the block and its       *)
(* payment.                                                                *)
(***************************************************************************)
EXTENDS BlockBuilderSteps, PaymentsProofs, TLAPS

\* The provers of a leaf that names none, in the order they are tried.
USE SMTT(60), Z3T(60), SMTT(90), Z3T(90)

USE DEF Range, Listed

-----------------------------------------------------------------------------
(* The invariant of the transactions and the bids on their way.            *)

\* Bidding: nothing is on its way yet.
LEMMA BiddingStep ==
  ASSUME BuilderInv, NEW i \in BidIds, NEW kind \in {"top", "block"},
         NEW txs \in BidTxs, PlaceBid(i, kind, txs) \/ OldBid(i, kind, txs)
  PROVE  BuilderInv'
  <1> USE DEF inputs, orderVars, selectVars
  <1>1. PICK b : b \in Bid /\ Insert(i, b)
    BY EvaluatedShape, UnevaluatedShape, BuilderAssumption, ZenonT(60) DEF PlaceBid, OldBid
  <1>2. /\ phase = "bidding"
        /\ UNCHANGED <<phase, inputs, orderVars, winning, remaining, selectVars>>
    BY ZenonT(60) DEF PlaceBid, OldBid
  <1>3. ShapeInv'
    BY <1>1, <1>2, ZenonT(60) DEF BuilderInv, ShapeInv, Insert, Bid
  <1>4. /\ winning = <<>> /\ bundles = <<>> /\ remaining = <<>>
        /\ queue \subseteq Listed'
    BY <1>1, <1>2 DEF BuilderInv, PhaseInv, WinningInv, Insert
  <1> QED
    BY <1>2, <1>3, <1>4, ZenonT(60) DEF BuilderInv, PhaseInv, WinningInv, ClaimInv, TopInv,
       DecidedInv, BundlesDisjoint, TopBidFirst

\* The listed bids are queued.
LEMMA StartStep ==
  ASSUME BuilderInv, StartOrder
  PROVE  BuilderInv'
  <1> USE DEF inputs, orderVars, selectVars
  <1>1. /\ winning = <<>> /\ bundles = <<>> /\ remaining = <<>> /\ claimed = {}
        /\ UNCHANGED <<winning, bundles, remaining, claimed, mempool, looked>>
    BY ZenonT(60) DEF BuilderInv, PhaseInv, StartOrder
  <1>2. CASE phase' = "failed" /\ UNCHANGED <<bids, queue>>
    BY <1>1, <1>2 DEF BuilderInv, ShapeInv, PhaseInv, WinningInv, ClaimInv,
       TopInv, DecidedInv, BundlesDisjoint, TopBidFirst, Phases
  <1>3. CASE /\ phase' = "order" /\ queue' = Listed
             /\ bids' = [i \in Listed |-> EvaluateOld(bids[i])]
    <2>1. \A i \in Listed : EvaluateOld(bids[i]) \in Bid
      <3> SUFFICES ASSUME NEW i \in Listed PROVE EvaluateOld(bids[i]) \in Bid
        OBVIOUS
      <3>1. bids[i] \in Bid
        BY DEF BuilderInv, ShapeInv
      <3>2. bids[i].kind \in {"top", "block"} /\ bids[i].txs \in Seq(Txs)
        BY <3>1, ZenonT(60) DEF Bid
      <3> QED
        BY <3>1, <3>2, EvaluatedShape, ZenonT(60) DEF EvaluateOld
    <2>2. ShapeInv'
      BY <1>1, <1>3, <2>1, ZenonT(60) DEF BuilderInv, ShapeInv, Phases
    <2> QED
      BY <1>1, <1>3, <2>2, ZenonT(60) DEF BuilderInv, PhaseInv, WinningInv, ClaimInv, TopInv,
         DecidedInv, BundlesDisjoint, TopBidFirst
  <1> QED
    BY <1>2, <1>3, ZenonT(60) DEF StartOrder

\* Every step preserves the invariant.
LEMMA NextBuilder ==
  ASSUME BuilderInv, [Next]_vars
  PROVE  BuilderInv'
  <1>1. ASSUME NEW i \in BidIds, NEW kind \in {"top", "block"},
               NEW txs \in BidTxs, PlaceBid(i, kind, txs) \/ OldBid(i, kind, txs)
        PROVE  BuilderInv'
    BY <1>1, BiddingStep, ZenonT(60)
  <1>2. CASE StartOrder
    BY <1>2, StartStep, ZenonT(60)
  <1>3. ASSUME NEW i \in queue, ConsiderBid(i)
        PROVE  BuilderInv'
    BY <1>3, ConsiderBidStep, ZenonT(60)
  <1>4. CASE ConsiderMempoolTx
    BY <1>4, MempoolStep
  <1>5. CASE SelectBid
    BY <1>5, SelectBidStep
  <1>6. CASE SelectTx
    BY <1>6, SelectTxStep
  <1>7. CASE OrderDone \/ Finish \/ Returned \/ UNCHANGED vars
    BY <1>7, PhaseStep, ZenonT(60) DEF Returned
  <1> QED
    BY <1>1, <1>2, <1>3, <1>4, <1>5, <1>6, <1>7, ZenonT(60) DEF Next

-----------------------------------------------------------------------------

\* computeOrder and selectTransactions keep every transaction on one way into
\* the block, and every bid in one place.
THEOREM BuilderInvariance == Spec => []BuilderInv
  BY InitBuilder, NextBuilder, PTL DEF Spec

\* No transaction is in two bundles of the block that Build returns.
THEOREM Disjointness == Spec => []BundlesDisjoint
  <1>1. BuilderInv => BundlesDisjoint
    BY ZenonT(60) DEF BuilderInv
  <1> QED
    BY <1>1, BuilderInvariance, PTL

\* A top bid of the block opens it, whatever selectTransactions leaves out.
THEOREM TopFirst == Spec => []TopBidFirst
  <1>1. BuilderInv => TopBidFirst
    BY ZenonT(60) DEF BuilderInv
  <1> QED
    BY <1>1, BuilderInvariance, PTL

\* When selectTransactions returns, the accepted bids are the bids of the
\* block and all others are rejected.
THEOREM AllDecided == Spec => []EveryBidDecided
  <1>1. ASSUME BuilderInv
        PROVE  EveryBidDecided
    <2> SUFFICES ASSUME phase = "done", NEW i \in Listed
                 PROVE  bids[i].state =
                          IF \E n \in DOMAIN bundles : bundles[n].bid = i
                          THEN "accepted" ELSE "rejected"
      BY ZenonT(60) DEF EveryBidDecided
    <2>1. i # NULL
      BY <1>1, BuilderAssumption, ZenonT(60) DEF BuilderInv, ShapeInv
    <2>2. queue = {} /\ DOMAIN winning = {}
      BY <1>1 DEF BuilderInv, PhaseInv
    <2> HIDE DEF Listed
    <2> QED
      BY <1>1, <2>1, <2>2, ZenonT(60) DEF BuilderInv, DecidedInv
  <1> QED
    BY <1>1, BuilderInvariance, PTL

-----------------------------------------------------------------------------
(* Types.                                                                  *)

\* A step of computeOrder keeps the types of what it computes.
LEMMA OrderTypes ==
  ASSUME BuilderInv, TypeOK, [Next]_vars
  PROVE  /\ looked' \in 0..Len(mempool) /\ balances' \in [Senders -> Nat]
         /\ claimed' \in SUBSET Txs /\ won' \in Seq(BidIds)
  <1> USE DEF inputs, orderVars, selectVars
  <1>0. /\ looked \in 0..Len(mempool) /\ balances \in [Senders -> Nat]
        /\ claimed \in SUBSET Txs /\ won \in Seq(BidIds) /\ mempool \in Seq(Txs)
    BY ZenonT(60) DEF TypeOK
  <1>1. ASSUME NEW i, NEW kind, NEW txs,
               PlaceBid(i, kind, txs) \/ OldBid(i, kind, txs)
        PROVE  UNCHANGED <<looked, balances, claimed, won>>
    BY <1>1 DEF PlaceBid, OldBid
  <1>2. CASE StartOrder
    BY <1>0, <1>2, ZenonT(60) DEF StartOrder
  <1>3. ASSUME NEW i \in queue, ConsiderBid(i)
        PROVE  /\ looked' = looked /\ balances' \in [Senders -> Nat]
               /\ claimed' \in SUBSET Txs /\ won' \in Seq(BidIds)
    <2>1. i \in Listed /\ i \in BidIds /\ bids[i] \in Bid
      BY ZenonT(60) DEF BuilderInv, WinningInv, ShapeInv
    <2>2. bids[i].txs \in Seq(Txs) /\ bids[i].payments \in Seq(Payment)
      BY <2>1, ZenonT(60) DEF Bid
    <2>3. Charged(i) \in Account
      BY <1>0, <2>2, ChargeAppend, ZenonT(60) DEF Charged
    <2>4. Charged(i).balances \in [Senders -> Nat]
      BY <2>3, ZenonT(60) DEF Account
    <2>5. Range(bids[i].txs) \in SUBSET Txs
      BY <2>2, ListShape
    <2>6. Append(won, i) \in Seq(BidIds)
      BY <1>0, <2>1, AppendShape, ZenonT(60)
    <2>7. looked' = looked
      BY <1>3, ZenonT(60) DEF ConsiderBid
    <2>8. CASE UNCHANGED <<won, balances, claimed>>
      BY <1>0, <2>7, <2>8, ZenonT(60)
    <2>9. CASE /\ won' = Append(won, i) /\ balances' = Charged(i).balances
               /\ claimed' = claimed \cup Range(bids[i].txs)
      BY <1>0, <2>4, <2>5, <2>6, <2>7, <2>9, ZenonT(60)
    <2> QED
      BY <1>3, <2>8, <2>9, ZenonT(60) DEF ConsiderBid
  <1>4. CASE ConsiderMempoolTx
    <2>1. /\ looked' = looked + 1 /\ looked < Len(mempool)
          /\ UNCHANGED <<balances, won>>
          /\ claimed' = claimed \/ claimed' = claimed \cup {mempool[looked + 1]}
      BY <1>4, ZenonT(60) DEF ConsiderMempoolTx
    <2>2. Len(mempool) \in Nat /\ looked + 1 \in 1..Len(mempool)
      BY <1>0, <2>1, ListShape
    <2>3. mempool[looked + 1] \in Txs
      BY <1>0, <2>2
    <2>4. looked' \in 0..Len(mempool)
      BY <1>0, <2>1, <2>2
    <2> QED
      BY <1>0, <2>1, <2>3, <2>4, ZenonT(60)
  <1>5. CASE SelectBid
    BY <1>0, <1>5, ZenonT(60) DEF SelectBid
  <1>6. CASE SelectTx
    BY <1>0, <1>6, ZenonT(60) DEF SelectTx
  <1>7. CASE OrderDone \/ Finish \/ Returned \/ UNCHANGED vars
    BY <1>0, <1>7, ZenonT(60) DEF OrderDone, Finish, Returned, vars
  <1> QED
    BY <1>0, <1>1, <1>2, <1>3, <1>4, <1>5, <1>6, <1>7, ZenonT(60) DEF Next

\* With is a size.
LEMMA WithType ==
  ASSUME TypeOK, NEW txs \in Seq(Txs)
  PROVE  With(txs) \in [bytes: Int, gas: Int]
  <1>1. Size(txs) \in [bytes: Int, gas: Int] /\ used \in [bytes: Int, gas: Int]
    BY SizeConcat, ZenonT(60) DEF TypeOK
  <1>2. Add(used.bytes, Size(txs).bytes) \in Int /\ Add(used.gas, Size(txs).gas) \in Int
    BY <1>1, Wraps, ZenonT(60)
  <1> QED
    BY <1>2, ZenonT(60) DEF With

\* A step keeps the types.
LEMMA NextTypes ==
  ASSUME BuilderInv, BuilderInv', TypeOK, [Next]_vars
  PROVE  TypeOK'
  <1>1. /\ UNCHANGED <<mempool, limits, initial>>
        /\ SelectBid \/ SelectTx \/ UNCHANGED <<bundles, used>>
    BY Fixed, ZenonT(60)
  <1>2. /\ looked' \in 0..Len(mempool) /\ balances' \in [Senders -> Nat]
        /\ claimed' \in SUBSET Txs /\ won' \in Seq(BidIds)
    BY OrderTypes, ZenonT(60)
  <1>3. used' \in [bytes: Int, gas: Int]
    <2>1. used \in [bytes: Int, gas: Int]
      BY ZenonT(60) DEF TypeOK
    <2>2. CASE SelectBid
      <3>1. winning # <<>> /\ winning \in Seq(BidIds)
        BY <2>2, ZenonT(60) DEF SelectBid, BuilderInv, ShapeInv
      <3>2. Head(winning) \in Listed
        BY <3>1, TailIndices DEF BuilderInv, WinningInv
      <3>3. bids[Head(winning)].txs \in Seq(Txs)
        BY <3>2, ZenonT(60) DEF BuilderInv, ShapeInv, Bid
      <3>4. used' = used \/ used' = With(bids[Head(winning)].txs)
        BY <2>2, ZenonT(60) DEF SelectBid
      <3> QED
        BY <2>1, <3>3, <3>4, WithType, ZenonT(60)
    <2>3. CASE SelectTx
      <3>1. remaining # <<>> /\ remaining \in Seq(Txs)
        BY <2>3, ZenonT(60) DEF SelectTx, BuilderInv, ShapeInv
      <3>2. Head(remaining) \in Txs
        BY <3>1, TailIndices, ZenonT(60)
      <3>3. <<Head(remaining)>> \in Seq(Txs)
        BY <3>2
      <3>4. used' = used \/ used' = With(<<Head(remaining)>>)
        BY <2>3, ZenonT(60) DEF SelectTx
      <3> QED
        BY <2>1, <3>3, <3>4, WithType, ZenonT(60)
    <2> QED
      BY <1>1, <2>1, <2>2, <2>3, ZenonT(60)
  <1>4. queue' \in SUBSET BidIds
    BY ZenonT(60) DEF BuilderInv, WinningInv, ShapeInv
  <1> QED
    BY <1>1, <1>2, <1>3, <1>4, ZenonT(60) DEF TypeOK, BuilderInv, ShapeInv

\* Every value that computeOrder and selectTransactions handle has its type;
\* no balance gets negative.
THEOREM BuilderTypes == Spec => []TypeOK
  BY InitTypes, NextTypes, BuilderInvariance, PTL DEF Spec

-----------------------------------------------------------------------------
(* The size of the block.                                                  *)

\* A bundle more puts its transactions at the end of the block.
LEMMA TxsInAppend ==
  /\ TxsIn(<<>>) = <<>>
  /\ \A bs \in Seq(Bundle) : TxsIn(bs) \in Seq(Txs)
  /\ \A bs \in Seq(Bundle), b \in Bundle : TxsIn(Append(bs, b)) = TxsIn(bs) \o b.txs
  <1>1. Bundled(Bundle)
    BY ZenonT(60) DEF Bundled, Bundle
  <1> QED
    BY <1>1, TxsInMore, ZenonT(60)

\* The empty block takes nothing.
LEMMA InitUsed == Init => UsedInv
  <1> SUFFICES ASSUME Init PROVE UsedInv
    BY ZenonT(60)
  <1>1. bundles = <<>> /\ used = [bytes |-> 0, gas |-> 0]
    BY ZenonT(60) DEF Init
  <1>2. BlockTxs = <<>>
    BY <1>1, TxsInAppend, ZenonT(60) DEF BlockTxs, TxsIn
  <1> QED
    BY <1>1, <1>2, SizeConcat, ZenonT(60) DEF UsedInv

\* A bundle that fits is counted.
LEMMA UsedMore ==
  ASSUME TypeOK, UsedInv, NEW b \in Bundle, Fits(b.txs), UNCHANGED limits,
         used' = With(b.txs), bundles' = Append(bundles, b)
  PROVE  UsedInv'
  <1>1. bundles \in Seq(Bundle) /\ b.txs \in Seq(Txs)
    BY ZenonT(60) DEF TypeOK, Bundle
  <1>2. BlockTxs = TxsIn(bundles) /\ BlockTxs' = TxsIn(Append(bundles, b))
    BY ZenonT(60) DEF BlockTxs, TxsIn
  <1>3. BlockTxs \in Seq(Txs) /\ BlockTxs' = BlockTxs \o b.txs
    BY <1>1, <1>2, TxsInAppend, ZenonT(60)
  <1>4. Size(BlockTxs \o b.txs) =
          [bytes |-> Add(Size(BlockTxs).bytes, Size(b.txs).bytes),
           gas |-> Add(Size(BlockTxs).gas, Size(b.txs).gas)]
    BY <1>1, <1>3, SizeConcat, ZenonT(60)
  <1>5. used' = Size(BlockTxs')
    BY <1>3, <1>4, ZenonT(60) DEF UsedInv, With
  <1>6. used'.bytes <= Limit(limits.bytes) /\ used'.gas <= Limit(limits.gas)
    BY ZenonT(60) DEF Fits
  <1>7. UNCHANGED <<Limit(limits.bytes), Limit(limits.gas)>>
    BY ZenonT(60) DEF Limit
  <1>8. Size(BlockTxs)' = Size(BlockTxs')
    BY ZenonT(60) DEF Size
  <1> QED
    BY <1>5, <1>6, <1>7, <1>8, ZenonT(60) DEF UsedInv

\* A step keeps count.
LEMMA NextUsed ==
  ASSUME BuilderInv, TypeOK, UsedInv, [Next]_vars
  PROVE  UsedInv'
  <1>1. limits' = limits /\ (SelectBid \/ SelectTx \/ UNCHANGED <<bundles, used>>)
    BY Fixed, ZenonT(60)
  <1>2. CASE UNCHANGED <<bundles, used>>
    BY <1>1, <1>2, ZenonT(60) DEF UsedInv, BlockTxs, Size, Limit
  <1>3. ASSUME NEW b \in Bundle, Fits(b.txs), used' = With(b.txs),
               bundles' = Append(bundles, b)
        PROVE  UsedInv'
    BY <1>1, <1>3, UsedMore, ZenonT(60)
  <1> QED
    BY <1>1, <1>2, <1>3, Selected, ZenonT(60)

\* totalBytes and totalGas are the size of the bundles selected so far.
THEOREM UsedInvariance == Spec => []UsedInv
  BY InitUsed, NextUsed, BuilderInvariance, BuilderTypes, PTL DEF Spec

\* The block keeps the limits that the validator sent, for all transactions
\* that decode, unless the sum of their sizes is not an int64.
THEOREM WithinLimits == Spec => []CountedWithinLimits
  <1>1. ASSUME TypeOK, UsedInv
        PROVE  CountedWithinLimits
    <2> DEFINE bytes == Sum(Counted(Bytes, BlockTxs))
               gas == Sum(Counted(Gas, BlockTxs))
    <2> SUFFICES ASSUME bundles # <<>>
                 PROVE  /\ bytes <= MaxInt => bytes <= Limit(limits.bytes)
                        /\ gas <= MaxInt => gas <= Limit(limits.gas)
      BY ZenonT(60) DEF CountedWithinLimits
    <2>1. BlockTxs \in Seq(Txs)
      BY <1>1, TxsInAppend, ZenonT(60) DEF TypeOK, BlockTxs, TxsIn
    <2>2. bytes \in Int /\ gas \in Int
      <3>1. Bytes \in [Txs -> Int] /\ Gas \in [Txs -> Int]
        BY PaymentsAssumption
      <3> QED
        BY <2>1, <3>1, CountedConcat, ZenonT(60)
    <2>3. used.bytes = Wrap(bytes) /\ used.gas = Wrap(gas)
      BY <1>1, ZenonT(60) DEF UsedInv, Size, Total
    <2>4. Limit(limits.bytes) \in Int /\ Limit(limits.gas) \in Int
      BY <1>1, PaymentsAssumption DEF TypeOK, Limit
    <2>5. /\ bytes <= MaxInt => bytes <= Wrap(bytes)
          /\ gas <= MaxInt => gas <= Wrap(gas)
          /\ Wrap(bytes) \in Int /\ Wrap(gas) \in Int
      BY <2>2, Wraps, ZenonT(60)
    <2>6. Wrap(bytes) <= Limit(limits.bytes) /\ Wrap(gas) <= Limit(limits.gas)
      BY <1>1, <2>3, ZenonT(60) DEF UsedInv
    <2> HIDE DEF bytes, gas
    <2> QED
      BY <2>2, <2>4, <2>5, <2>6
  <1> QED
    BY <1>1, BuilderTypes, UsedInvariance, PTL

-----------------------------------------------------------------------------
(* The payment that is announced.                                          *)

\* A bid is inserted with its payment, or without state; StartOrder evaluates
\* those without.
LEMMA NextEvaluated ==
  ASSUME BuilderInv, EvaluatedInv, [Next]_vars
  PROVE  EvaluatedInv'
  <1> DEFINE Right(b) == b.validator = PaidTo(PaymentsOf(b.txs), "validator")
  <1> USE DEF inputs, orderVars, selectVars
  <1>1. CASE phase = "failed"
    <2>1. UNCHANGED <<phase, bids>>
      BY <1>1, ZenonT(60) DEF Next, PlaceBid, OldBid, StartOrder, ConsiderBid,
         ConsiderMempoolTx, OrderDone, SelectBid, SelectTx, Finish, Returned, vars
    <2> QED
      BY <2>1, ZenonT(60) DEF EvaluatedInv
  <1>2. CASE phase \in {"order", "select", "done"}
    <2>1. SameBids
      BY <1>2, BidsStay, ZenonT(60)
    <2>2. \A i \in Listed : Right(bids[i])
      BY <1>2, ZenonT(60) DEF EvaluatedInv
    <2>3. \A i \in Listed : Right(bids'[i])
      BY <2>1, <2>2, ZenonT(60) DEF SameBids
    <2> HIDE DEF Listed
    <2> QED
      BY <2>1, <2>3, ZenonT(60) DEF EvaluatedInv, SameBids
  <1>3. ASSUME phase = "bidding", NEW i \in BidIds, NEW kind \in {"top", "block"},
               NEW txs \in BidTxs, PlaceBid(i, kind, txs) \/ OldBid(i, kind, txs)
        PROVE  EvaluatedInv'
    <2>1. txs \in Seq(Txs)
      BY BuilderAssumption, ZenonT(60)
    <2>2. PICK b : Insert(i, b) /\ (b.state # "" => Right(b))
      <3>1. "pending" \in {"", "pending"} /\ Unevaluated(kind, txs).state = ""
        BY ZenonT(60) DEF Unevaluated
      <3>2. Right(Evaluated(kind, txs, "pending"))
        BY <2>1, <3>1, EvaluatedShape, ZenonT(60)
      <3> HIDE DEF Right
      <3> QED
        BY <1>3, <3>1, <3>2, ZenonT(60) DEF PlaceBid, OldBid
    <2>3. phase' = "bidding" /\ i \notin Listed
      BY <1>3, ZenonT(60) DEF PlaceBid, OldBid
    <2>4. /\ Listed' = Listed \cup {i}
          /\ \A j \in Listed : bids'[j] = bids[j]
          /\ bids'[i] = b
      BY <2>2, <2>3, ZenonT(60) DEF Insert
    <2>5. \A j \in Listed : bids[j].state # "" => Right(bids[j])
      BY ZenonT(60) DEF EvaluatedInv
    <2>6. \A j \in Listed' : bids'[j].state # "" => Right(bids'[j])
      <3> HIDE DEF Right, Listed
      <3> QED
        BY <2>2, <2>4, <2>5, ZenonT(60)
    <2> HIDE DEF Listed
    <2> QED
      BY <2>3, <2>6, ZenonT(60) DEF EvaluatedInv
  <1>4. CASE StartOrder
    <2>1. CASE phase' = "failed" /\ UNCHANGED <<bids, queue>>
      BY <1>4, <2>1, ZenonT(60) DEF StartOrder, EvaluatedInv
    <2>2. CASE bids' = [i \in Listed |-> EvaluateOld(bids[i])]
      <3>1. \A i \in Listed : bids'[i] = EvaluateOld(bids[i])
        BY <2>2, ZenonT(60)
      <3>2. ASSUME NEW i \in Listed PROVE Right(EvaluateOld(bids[i]))
        <4>1. CASE bids[i].state = ""
          <5>1. bids[i] \in Bid
            BY ZenonT(60) DEF BuilderInv, ShapeInv
          <5>2. bids[i].kind \in {"top", "block"} /\ bids[i].txs \in Seq(Txs)
            BY <5>1, ZenonT(60) DEF Bid
          <5>3. Right(Evaluated(bids[i].kind, bids[i].txs, ""))
            BY <5>2, EvaluatedShape, ZenonT(60)
          <5> QED
            BY <4>1, <5>3, ZenonT(60) DEF EvaluateOld
        <4>2. CASE bids[i].state # ""
          BY <4>2, ZenonT(60) DEF EvaluateOld, EvaluatedInv
        <4> QED
          BY <4>1, <4>2, ZenonT(60)
      <3>3. Listed' = Listed
        BY <2>2, ZenonT(60)
      <3>4. \A i \in Listed : Right(bids'[i])
        <4> HIDE DEF Right
        <4> QED
          BY <3>1, <3>2, ZenonT(60)
      <3> HIDE DEF Listed
      <3> QED
        BY <3>3, <3>4, ZenonT(60) DEF EvaluatedInv
    <2> QED
      BY <1>4, <2>1, <2>2, ZenonT(60) DEF StartOrder
  <1>5. CASE phase = "bidding" /\ UNCHANGED vars
    BY <1>5, ZenonT(60) DEF vars, EvaluatedInv
  <1>6. ~ (phase = "bidding") \/ StartOrder \/ UNCHANGED vars
        \/ \E i \in BidIds, kind \in {"top", "block"}, txs \in BidTxs :
              PlaceBid(i, kind, txs) \/ OldBid(i, kind, txs)
    BY ZenonT(60) DEF Next, ConsiderBid, ConsiderMempoolTx, OrderDone, SelectBid, SelectTx,
       Finish, Returned
  <1>7. phase \in Phases
    BY ZenonT(60) DEF BuilderInv, ShapeInv
  <1> QED
    BY <1>1, <1>2, <1>3, <1>4, <1>5, <1>6, <1>7, ZenonT(60) DEF Phases

\* Every bid that the order is computed of carries the payment of its
\* transactions.
THEOREM EvaluatedInvariance == Spec => []EvaluatedInv
  BY InitEvaluated, NextEvaluated, BuilderInvariance, PTL DEF Spec

\* The transactions of the bids are a function of the bundles ...
LEMMA TxsOfBidsIs ==
  TxsOfBids = OfBids(bundles) /\ TxsOfBids' = OfBids(bundles')
  BY ZenonT(60) DEF TxsOfBids, OfBids, BidTxsIn

\* ... and the payment that is announced one of the bundles and the bids.
LEMMA ValidatorPaymentIs ==
  /\ ValidatorPayment = Announced(bundles, bids)
  /\ ValidatorPayment' = Announced(bundles', bids')
  BY ZenonT(60) DEF ValidatorPayment, Announced, PaymentFor, Total, Wrap

\* Without bundles nothing is announced.
LEMMA AnnouncedEmpty == bundles = <<>> => AnnouncedInv
  <1> SUFFICES ASSUME bundles = <<>> PROVE AnnouncedInv
    BY ZenonT(60)
  <1>1. DOMAIN bundles = {}
    OBVIOUS
  <1>2. Bundled(Bundle)
    BY ZenonT(60) DEF Bundled, Bundle
  <1>3. TxsOfBids = <<>>
    BY <1>2, OfBidsOneMore, TxsOfBidsIs, ZenonT(60)
  <1>4. ValidatorPayment = 0
    BY AnnouncedSame, ValidatorPaymentIs, ZenonT(60)
  <1> QED
    BY <1>1, <1>3, <1>4, PaidNothing, ZenonT(60) DEF AnnouncedInv

\* What is announced is what the bids of the bundles pay, bundle by bundle.
LEMMA NextAnnounced ==
  ASSUME BuilderInv, EvaluatedInv, AnnouncedInv, [Next]_vars
  PROVE  AnnouncedInv'
  <1>0. bundles \in Seq(Bundle) /\ NULL \notin BidIds
    BY BuilderAssumption, ZenonT(60) DEF BuilderInv, ShapeInv
  <1>1. CASE phase = "bidding"
    <2>1. ~ SelectBid /\ ~ SelectTx /\ bundles = <<>>
      BY <1>1, ZenonT(60) DEF SelectBid, SelectTx, BuilderInv, PhaseInv
    <2>2. bundles' = <<>>
      BY <2>1, Fixed, ZenonT(60)
    <2>3. (bundles = <<>> => AnnouncedInv)'
      BY AnnouncedEmpty, PTL
    <2> QED
      BY <2>2, <2>3, ZenonT(60)
  <1>2. CASE phase # "bidding"
    <2>1. SameBids
      BY <1>2, BidsStay, ZenonT(60)
    <2>2. \A j \in Listed : bids[j] \in Bid /\ bids[j].validator \in Int
      BY ZenonT(60) DEF BuilderInv, ShapeInv, Bid
    <2>3. \A n \in DOMAIN bundles : bundles[n].bid # NULL => bundles[n].bid \in Listed
      BY ZenonT(60) DEF BuilderInv, DecidedInv
    <2>4. \A n \in DOMAIN bundles :
             SamePayment(bundles[n], bids, bids')
      BY <2>1, <2>2, <2>3, ZenonT(60) DEF SamePayment, Known, PaymentFor, SameBids
    <2>5. \A n \in DOMAIN bundles : bundles[n].bid # NULL =>
             bundles[n].txs = bids'[bundles[n].bid].txs
      BY <2>1, <2>3, ZenonT(60) DEF AnnouncedInv, SameBids
    <2>6. CASE UNCHANGED bundles
      <3>1. TxsOfBids' = TxsOfBids
        BY <2>6, ZenonT(60) DEF TxsOfBids
      <3>3. ValidatorPayment' = ValidatorPayment
        BY <2>4, <2>6, ValidatorPaymentIs, AnnouncedSame, ZenonT(60)
      <3>4. PaidTo(PaymentsOf(TxsOfBids), "validator")'
              = PaidTo(PaymentsOf(TxsOfBids), "validator")
        BY <3>1, ZenonT(60)
      <3> QED
        BY <2>5, <2>6, <3>3, <3>4, ZenonT(60) DEF AnnouncedInv
    <2>7. ASSUME NEW b \in Bundle, bundles' = Append(bundles, b),
                 SamePayment(b, bids, bids'),
                 b.bid # NULL => b.txs = bids'[b.bid].txs,
                 PaymentFor(b, bids) = PaidTo(PaymentsOf(BidTxsIn(b)), "validator")
          PROVE  AnnouncedInv'
      <3>1. ValidatorPayment' = Add(ValidatorPayment, PaymentFor(b, bids))
        <4>1. Announced(Append(bundles, b), bids')
                = Add(Announced(bundles, bids), PaymentFor(b, bids))
          BY <1>0, <2>4, <2>7, AnnouncedOneMore, ZenonT(60)
        <4> QED
          BY <2>7, <4>1, ValidatorPaymentIs, ZenonT(60)
      <3>2. /\ TxsOfBids \in Seq(Txs) /\ BidTxsIn(b) \in Seq(Txs)
            /\ TxsOfBids' = TxsOfBids \o BidTxsIn(b)
        <4>1. Bundled(Bundle)
          BY DEF Bundled, Bundle
        <4> QED
          BY <1>0, <2>7, <4>1, TxsOfBidsIs, OfBidsOneMore, ZenonT(60)
      <3>3. PaidTo(PaymentsOf(TxsOfBids \o BidTxsIn(b)), "validator") =
              Add(PaidTo(PaymentsOf(TxsOfBids), "validator"),
                  PaidTo(PaymentsOf(BidTxsIn(b)), "validator"))
        BY <3>2, PaidConcat, ZenonT(60)
      <3>4. ValidatorPayment' = PaidTo(PaymentsOf(TxsOfBids'), "validator")
        BY <2>7, <3>1, <3>2, <3>3, ZenonT(60) DEF AnnouncedInv
      <3>5. PaidTo(PaymentsOf(TxsOfBids), "validator")'
              = PaidTo(PaymentsOf(TxsOfBids'), "validator")
        BY ZenonT(60) DEF PaidTo, PaymentsOf
      <3>6. /\ DOMAIN bundles' = DOMAIN bundles \cup {Len(bundles) + 1}
            /\ \A i \in DOMAIN bundles : bundles'[i] = bundles[i]
            /\ bundles'[Len(bundles) + 1] = b
        BY <1>0, <2>7, AppendIndices
      <3>7. \A n \in DOMAIN bundles' : bundles'[n].bid # NULL =>
               bundles'[n].txs = bids'[bundles'[n].bid].txs
        BY <2>5, <2>7, <3>6, ZenonT(60)
      <3> QED
        BY <3>4, <3>5, <3>7, ZenonT(60) DEF AnnouncedInv
    <2>8. ASSUME SelectBid, ~ UNCHANGED bundles
          PROVE  AnnouncedInv'
      <3> DEFINE i == Head(winning)
                 b == [bid |-> i, txs |-> bids[i].txs]
      <3>1. winning # <<>> /\ winning \in Seq(BidIds)
        BY <2>8, ZenonT(60) DEF SelectBid, BuilderInv, ShapeInv
      <3>2. i \in Listed /\ i \in BidIds /\ i # NULL
        BY <1>0, <3>1, TailIndices DEF BuilderInv, WinningInv, ShapeInv
      <3>3. bundles' = Append(bundles, b)
        BY <2>8, ZenonT(60) DEF SelectBid
      <3>4. b \in Bundle /\ b.bid = i /\ b.txs = bids[i].txs
        BY <2>2, <3>2, ZenonT(60) DEF Bundle, Bid
      <3>5. bids'[i].validator = bids[i].validator /\ bids'[i].txs = bids[i].txs
        BY <2>1, <3>2, ZenonT(60) DEF SameBids
      <3>6. bids[i].validator = PaidTo(PaymentsOf(bids[i].txs), "validator")
        BY <2>8, <3>2, ZenonT(60) DEF EvaluatedInv, SelectBid
      <3> HIDE DEF b, i
      <3>7. /\ SamePayment(b, bids, bids')
            /\ PaymentFor(b, bids) = PaidTo(PaymentsOf(BidTxsIn(b)), "validator")
        BY <2>2, <3>2, <3>4, <3>5, <3>6, ZenonT(60) DEF SamePayment, Known, PaymentFor, BidTxsIn
      <3> QED
        BY <2>7, <3>3, <3>4, <3>5, <3>7, ZenonT(60)
    <2>9. ASSUME SelectTx, ~ UNCHANGED bundles
          PROVE  AnnouncedInv'
      <3> DEFINE t == Head(remaining)
                 b == [bid |-> NULL, txs |-> <<t>>]
      <3>1. remaining # <<>> /\ remaining \in Seq(Txs)
        BY <2>9, ZenonT(60) DEF SelectTx, BuilderInv, ShapeInv
      <3>2. t \in Txs
        BY <3>1, TailIndices, ZenonT(60)
      <3>3. bundles' = Append(bundles, b)
        BY <2>9, ZenonT(60) DEF SelectTx
      <3>4. b \in Bundle /\ b.bid = NULL
        BY <3>2 DEF Bundle
      <3> HIDE DEF b
      <3>5. /\ SamePayment(b, bids, bids')
            /\ PaymentFor(b, bids) = PaidTo(PaymentsOf(BidTxsIn(b)), "validator")
        BY <3>4, PaidNothing, ZenonT(60) DEF SamePayment, Known, PaymentFor, BidTxsIn
      <3> QED
        BY <2>7, <3>3, <3>4, <3>5, ZenonT(60)
    <2> QED
      BY <2>6, <2>8, <2>9, Fixed, ZenonT(60)
  <1> QED
    BY <1>1, <1>2, ZenonT(60)

\* The payment that is announced for the bundles is, at every step of
\* selectTransactions, what their transactions pay.
THEOREM AnnouncedInvariance == Spec => []AnnouncedInv
  <1>1. Init => AnnouncedInv
    BY AnnouncedEmpty, ZenonT(60) DEF Init
  <1> QED
    BY <1>1, NextAnnounced, BuilderInvariance, EvaluatedInvariance, PTL DEF Spec

\* So it is when the block is returned.
THEOREM AnnouncedIsPaid == Spec => []AnnouncedPaymentPaid
  <1>1. AnnouncedInv => AnnouncedPaymentPaid
    BY DEF AnnouncedInv, AnnouncedPaymentPaid
  <1> QED
    BY <1>1, AnnouncedInvariance, PTL
=============================================================================
