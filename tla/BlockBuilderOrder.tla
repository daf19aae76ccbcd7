-------------------------- MODULE BlockBuilderOrder -------------------------
(***************************************************************************)
(* Proofs about module BlockBuilder: the order of the bids, and what       *)
(* becomes of the mempool.                                                 *)
(***************************************************************************)
EXTENDS BlockBuilderProofs, TLAPS

\* The provers of a leaf that names none, in the order they are tried.
USE SMTT(60), Z3T(60), SMTT(90), Z3T(90)

USE DEF Range, Listed

-----------------------------------------------------------------------------
(* The order of the bids.                                                  *)

\* The payments of listed bids are integers.
LEMMA PaymentsTyped ==
  ASSUME NEW w, NEW bs, Typed(w, bs), NEW a
  PROVE  \A j \in DOMAIN bs : PaidBy(a, bs[j].payments) \in Int
  <1>1. \A j \in DOMAIN bs : bs[j].payments \in Seq(Payment)
    BY ZenonT(60) DEF Typed, Bid
  <1> QED
    BY <1>1, PaidByAppend, ZenonT(60)

\* No winning bid, no payment.
LEMMA PaidByNone ==
  ASSUME NEW a, NEW bs
  PROVE  PaidIn(a, <<>>, bs) = 0
  <1>1. [n \in DOMAIN <<>> |-> PaidBy(a, bs[<<>>[n]].payments)] = <<>>
    BY EmptyList
  <1> QED
    BY <1>1, SumAppend, ZenonT(60) DEF PaidIn

\* One more winning bid adds its payments ...
LEMMA PaidByMore ==
  ASSUME NEW a, NEW w, NEW bs, Typed(w, bs), NEW i \in BidIds, i \in DOMAIN bs
  PROVE  /\ PaidIn(a, w, bs) \in Int
         /\ PaidIn(a, Append(w, i), bs) = PaidIn(a, w, bs) + PaidBy(a, bs[i].payments)
  <1> DEFINE q == Append(w, i)
             m == [n \in DOMAIN w |-> PaidBy(a, bs[w[n]].payments)]
             k == [n \in DOMAIN q |-> PaidBy(a, bs[q[n]].payments)]
             v == PaidBy(a, bs[i].payments)
  <1>0. w \in Seq(BidIds) /\ \A n \in DOMAIN w : w[n] \in DOMAIN bs
    BY ZenonT(60) DEF Typed
  <1>1. /\ DOMAIN q = DOMAIN w \cup {Len(w) + 1}
        /\ \A n \in DOMAIN w : q[n] = w[n]
        /\ q[Len(w) + 1] = i
    BY <1>0, AppendIndices
  <1>2. \A n \in DOMAIN w : m[n] \in Int /\ k[n] = m[n]
    BY <1>0, <1>1, PaymentsTyped, ZenonT(60)
  <1>3. k[Len(w) + 1] = v /\ v \in Int
    BY <1>1, PaymentsTyped, ZenonT(60)
  <1>4. m = [n \in DOMAIN w |-> m[n]] /\ k = [n \in DOMAIN q |-> k[n]]
    BY ZenonT(60)
  <1>5. PaidIn(a, w, bs) = Sum(m) /\ PaidIn(a, q, bs) = Sum(k)
    BY ZenonT(60) DEF PaidIn
  <1> HIDE DEF m, k, v
  <1>6. Grows(Int, m, k, w, i, v)
    BY <1>2, <1>3, <1>4, ZenonT(60) DEF Grows
  <1>7. Sum(m) \in Int /\ Sum(k) = Sum(m) + v
    BY <1>0, <1>6, SumMore
  <1> QED
    BY <1>5, <1>7, ZenonT(60) DEF v

\* ... but nothing to what is paid ahead of a bid that it is not ahead of.
LEMMA AheadMore ==
  ASSUME NEW w, NEW bs, Typed(w, bs), NEW i \in BidIds, i \in DOMAIN bs,
         NEW k \in DOMAIN bs, ~ Earlier(bs, i, k)
  PROVE  /\ AheadIn(Append(w, i), bs, k) = AheadIn(w, bs, k)
         /\ \A a : PaidAheadIn(a, Append(w, i), bs, k) = PaidAheadIn(a, w, bs, k)
  <1> DEFINE q == Append(w, i)
  <1>0. w \in Seq(BidIds) /\ \A n \in DOMAIN w : w[n] \in DOMAIN bs
    BY ZenonT(60) DEF Typed
  <1>1. /\ DOMAIN q = DOMAIN w \cup {Len(w) + 1}
        /\ \A n \in DOMAIN w : q[n] = w[n]
        /\ q[Len(w) + 1] = i
    BY <1>0, AppendIndices
  <1>2. AheadIn(q, bs, k) = AheadIn(w, bs, k)
    <2> HIDE DEF q
    <2> QED
      BY <1>1, ZenonT(60) DEF AheadIn
  <1>3. i \notin AheadIn(w, bs, k)
    BY ZenonT(60) DEF AheadIn
  <1>4. ASSUME NEW a
        PROVE  PaidAheadIn(a, q, bs, k) = PaidAheadIn(a, w, bs, k)
    <2> DEFINE A == AheadIn(w, bs, k)
               m == [n \in DOMAIN w |-> IF w[n] \in A
                                        THEN PaidBy(a, bs[w[n]].payments) ELSE 0]
               l == [n \in DOMAIN q |-> IF q[n] \in A
                                        THEN PaidBy(a, bs[q[n]].payments) ELSE 0]
    <2>1. PaidAheadIn(a, w, bs, k) = Sum(m) /\ PaidAheadIn(a, q, bs, k) = Sum(l)
      BY <1>2, ZenonT(60) DEF PaidAheadIn
    <2> HIDE DEF A
    <2>2. \A n \in DOMAIN w : m[n] \in Int /\ l[n] = m[n]
      <3>1. \A n \in DOMAIN w : PaidBy(a, bs[w[n]].payments) \in Int
        BY <1>0, PaymentsTyped, ZenonT(60)
      <3>2. \A n \in DOMAIN w : n \in DOMAIN q /\ q[n] = w[n]
        BY <1>1, ZenonT(60)
      <3> HIDE DEF q
      <3> QED
        BY <3>1, <3>2
    <2>3. l[Len(w) + 1] = 0
      BY <1>1, <1>3, ZenonT(60) DEF A
    <2>4. m = [n \in DOMAIN w |-> m[n]] /\ l = [n \in DOMAIN q |-> l[n]]
      BY ZenonT(60)
    <2>5. 0 \in Int
      OBVIOUS
    <2> HIDE DEF m, l
    <2>6. Grows(Int, m, l, w, i, 0)
      BY <2>2, <2>3, <2>4, <2>5, ZenonT(60) DEF Grows
    <2>7. Sum(m) \in Int /\ Sum(l) = Sum(m) + 0
      BY <1>0, <2>6, SumMore
    <2> QED
      BY <2>1, <2>7
  <1> QED
    BY <1>2, <1>4, ZenonT(60)

\* Every bid that was considered won exactly if it may.
GreedyInv ==
  phase \notin {"bidding", "failed"} =>
    \A i \in Listed \ queue : (\E n \in DOMAIN won : won[n] = i) <=> MayWin(i)

\* computeOrder takes a bid exactly if the winning bids ahead of it allow it.
LEMMA Decision ==
  ASSUME BuilderInv, TypeOK, OrderInv, phase = "order", NEW i \in queue
  PROVE  MayWin(i) <=> ~ (TopTaken(i) \/ HasClaimed(i) \/ ~ Charged(i).ok)
  <1>1. Ahead(i) = Range(won) /\ \A a : PaidAhead(a, i) = PaidByWinners(a)
    BY NextBid, ZenonT(60)
  <1>2. /\ winning = won /\ won \in Seq(BidIds)
        /\ claimed = UNION {TxsOf(won[n]) : n \in DOMAIN won}
    BY ZenonT(60) DEF OrderInv, TypeOK
  <1>3. (bids[i].kind = "top" => Ahead(i) = {}) <=> ~ TopTaken(i)
    <2>1. Range(won) = {} <=> won = <<>>
      <3>1. Len(won) \in Nat /\ DOMAIN won = 1..Len(won) /\ (Len(won) = 0 <=> won = <<>>)
        BY <1>2, ListShape, EmptyList, ZenonT(60)
      <3>2. Len(won) # 0 => 1 \in DOMAIN won
        BY <3>1
      <3>3. CASE won = <<>>
        BY <3>3
      <3>4. CASE won # <<>>
        <4>1. won[1] \in Range(won)
          BY <3>1, <3>2, <3>4, ZenonT(60)
        <4> QED
          BY <3>4, <4>1, ZenonT(60)
      <3> QED
        BY <3>3, <3>4, ZenonT(60)
    <2> HIDE DEF Range
    <2> QED
      BY <1>1, <1>2, <2>1, ZenonT(60) DEF TopTaken
  <1>4. (\A j \in Ahead(i) : Range(bids[i].txs) \cap Range(bids[j].txs) = {})
          <=> ~ HasClaimed(i)
    <2> HIDE DEF Range
    <2>1. \A j : j \in Ahead(i) <=> \E n \in DOMAIN won : won[n] = j
      BY <1>1, ZenonT(60) DEF Range
    <2>2. HasClaimed(i) <=> \E n \in DOMAIN won :
                              Range(bids[i].txs) \cap Range(bids[won[n]].txs) # {}
      BY <1>2, ZenonT(60) DEF HasClaimed, TxsOf
    <2> QED
      BY <2>1, <2>2, ZenonT(60)
  <1>5. (\A a \in Senders : PaidAhead(a, i) + PaidBy(a, bids[i].payments) <= initial[a])
          <=> Charged(i).ok
    <2>1. i \in Listed /\ bids[i] \in Bid
      BY ZenonT(60) DEF BuilderInv, WinningInv, ShapeInv
    <2>2. bids[i].payments \in Seq(Payment) /\ i \in BidIds
      BY <2>1, ZenonT(60) DEF Bid, BuilderInv, ShapeInv
    <2>3. balances \in [Senders -> Nat] /\ initial \in [Senders -> Nat]
      BY ZenonT(60) DEF TypeOK
    <2>4. Charged(i).ok <=> \A a \in Senders : PaidBy(a, bids[i].payments) <= balances[a]
      BY <2>2, <2>3, Charging, ZenonT(60) DEF ChargeResult, Charged
    <2>5. ASSUME NEW a \in Senders
          PROVE  PaidAhead(a, i) + PaidBy(a, bids[i].payments) <= initial[a]
                   <=> PaidBy(a, bids[i].payments) <= balances[a]
      <3>1. balances[a] + PaidByWinners(a) = initial[a]
        BY ZenonT(60) DEF OrderInv
      <3>2. PaidByWinners(a) \in Int
        BY <2>1, <2>2, WonTyped, PaidByMore, OrderOperators, ZenonT(60)
      <3>3. PaidBy(a, bids[i].payments) \in Int
        BY <2>2, PaidByAppend, ZenonT(60)
      <3> QED
        BY <1>1, <2>3, <3>1, <3>2, <3>3
    <2> QED
      BY <2>4, <2>5, ZenonT(60)
  <1> QED
    BY <1>3, <1>4, <1>5, ZenonT(60) DEF MayWin

\* A bid that wins: what it adds, and what it leaves.
LEMMA Winning ==
  ASSUME BuilderInv, TypeOK, OrderInv, NEW i \in queue, UNCHANGED <<bids, initial>>,
         won' = Append(won, i)
  PROVE  /\ \A a : PaidByWinners(a)' = PaidByWinners(a) + PaidBy(a, bids[i].payments)
         /\ \A k \in (Listed \ queue) \cup {i} : MayWin(k)' <=> MayWin(k)
  <1>1. i \in Listed /\ i \in BidIds
    BY ZenonT(60) DEF BuilderInv, WinningInv, ShapeInv
  <1>2. Typed(won, bids)
    BY WonTyped, ZenonT(60)
  <1>3. /\ \A j : Ahead(j)' = AheadIn(won', bids, j)
        /\ \A a : PaidByWinners(a)' = PaidIn(a, won', bids)
        /\ \A a, j : PaidAhead(a, j)' = PaidAheadIn(a, won', bids, j)
    BY DEF Ahead, AheadIn, Earlier, PaidByWinners, PaidIn, PaidAhead, PaidAheadIn, PaidBy
  <1>4. \A a : PaidByWinners(a)' = PaidByWinners(a) + PaidBy(a, bids[i].payments)
    BY <1>1, <1>2, <1>3, PaidByMore, OrderOperators, ZenonT(60)
  <1>5. ASSUME NEW k \in (Listed \ queue) \cup {i}
        PROVE  MayWin(k)' <=> MayWin(k)
    <2>1. ~ Earlier(bids, i, k) /\ k \in Listed
      BY <1>1, NextBid, ZenonT(60)
    <2>2. /\ AheadIn(Append(won, i), bids, k) = AheadIn(won, bids, k)
          /\ \A a : PaidAheadIn(a, Append(won, i), bids, k) = PaidAheadIn(a, won, bids, k)
      BY <1>1, <1>2, <2>1, AheadMore, ZenonT(60)
    <2>3. Ahead(k)' = Ahead(k) /\ \A a : PaidAhead(a, k)' = PaidAhead(a, k)
      BY <1>3, <2>2, OrderOperators, ZenonT(60)
    <2>4. \A a : PaidBy(a, bids[k].payments)' = PaidBy(a, bids[k].payments)
      BY DEF PaidBy
    <2>5. (\A a \in Senders :
              PaidAhead(a, k) + PaidBy(a, bids[k].payments) <= initial[a])'
            <=> \A a \in Senders :
                  PaidAhead(a, k) + PaidBy(a, bids[k].payments) <= initial[a]
      BY <2>3, <2>4
    <2>6. (\A j \in Ahead(k) : Range(bids[k].txs) \cap Range(bids[j].txs) = {})'
            <=> \A j \in Ahead(k) : Range(bids[k].txs) \cap Range(bids[j].txs) = {}
      BY <2>3
    <2>7. (bids[k].kind = "top" => Ahead(k) = {})'
            <=> (bids[k].kind = "top" => Ahead(k) = {})
      BY <2>3, ZenonT(60)
    <2> QED
      BY <2>5, <2>6, <2>7, ZenonT(60) DEF MayWin
  <1> QED
    BY <1>4, <1>5, ZenonT(60)

\* Nothing is ordered at the start.
LEMMA InitOrder == Init => OrderInv
  <1> SUFFICES ASSUME Init PROVE OrderInv
    BY ZenonT(60)
  <1>1. /\ phase = "bidding" /\ won = <<>> /\ queue = {} /\ balances = initial
        /\ balances \in [Senders -> Nat]
    BY BuilderAssumption, ZenonT(60) DEF Init
  <1>2. \A a : PaidByWinners(a) = 0
    BY <1>1, PaidByNone, OrderOperators, ZenonT(60)
  <1> QED
    BY <1>1, <1>2 DEF OrderInv

\* The next bid is considered.
LEMMA ConsiderOrder ==
  ASSUME BuilderInv, TypeOK, OrderInv, NEW i \in queue, ConsiderBid(i)
  PROVE  OrderInv'
  <1> USE DEF inputs, selectVars
  <1>1. /\ phase = "order" /\ phase' = "order" /\ queue' = queue \ {i} /\ IsFirst(i)
        /\ initial' = initial /\ winning = won
    BY ZenonT(60) DEF ConsiderBid, OrderInv
  <1>2. i \in Listed /\ i \in BidIds /\ bids[i] \in Bid
    BY ZenonT(60) DEF BuilderInv, WinningInv, ShapeInv
  <1>3. SameBids
    <2>1. [Next]_vars
      BY ZenonT(60) DEF Next
    <2> QED
      BY <1>1, <2>1, BidsStay, ZenonT(60)
  <1>4. \A k \in Listed \ queue', j \in queue' : Before(k, j)
    BY <1>1, ZenonT(60) DEF OrderInv, IsFirst
  <1>5. \A k, j \in Listed : Before(k, j)' <=> Before(k, j)
    BY <1>3, ZenonT(60) DEF Before, SameBids
  <1>6. queue \subseteq Listed
    BY ZenonT(60) DEF BuilderInv, WinningInv
  <1>7. Listed' = Listed
    BY <1>3, ZenonT(60) DEF SameBids
  <1> HIDE DEF Listed
  <1>8. \A k \in Listed' \ queue', j \in queue' : Before(k, j)'
    BY <1>1, <1>4, <1>5, <1>6, <1>7, ZenonT(60)
  <1>9. CASE UNCHANGED <<winning, won, balances, claimed>> /\ Reject(i)
    <2>1. \A a : PaidByWinners(a)' = PaidByWinners(a)
      BY <1>1, <1>3, <1>9, OrderStays, ZenonT(60)
    <2>2. UNION {TxsOf(won[n]) : n \in DOMAIN won}' = UNION {TxsOf(won[n]) : n \in DOMAIN won}
      <3>1. \A n \in DOMAIN won : won[n] \in Listed
        BY ZenonT(60) DEF OrderInv
      <3>2. \A j \in Listed : bids'[j].txs = bids[j].txs
        BY <1>3, ZenonT(60) DEF SameBids
      <3> QED
        BY <1>9, <3>1, <3>2 DEF TxsOf
    <2>3. claimed = UNION {TxsOf(won[n]) : n \in DOMAIN won}
      BY <1>1, ZenonT(60) DEF OrderInv
    <2>4. \A n \in DOMAIN won : won[n] \in Listed \ queue'
      BY <1>1, ZenonT(60) DEF OrderInv
    <2>5. \A a \in Senders : balances[a] + PaidByWinners(a)' = initial[a]
      BY <2>1, ZenonT(60) DEF OrderInv
    <2> QED
      BY <1>1, <1>7, <1>8, <1>9, <2>2, <2>3, <2>4, <2>5, ZenonT(60) DEF OrderInv
  <1>10. CASE /\ winning' = Append(winning, i) /\ won' = Append(won, i)
              /\ balances' = Charged(i).balances /\ Charged(i).ok
              /\ claimed' = claimed \cup Range(bids[i].txs) /\ UNCHANGED bids
    <2>1. \A a : PaidByWinners(a)' = PaidByWinners(a) + PaidBy(a, bids[i].payments)
      BY <1>1, <1>10, Winning, ZenonT(60)
    <2>2. /\ DOMAIN won' = DOMAIN won \cup {Len(won) + 1}
          /\ \A n \in DOMAIN won : won'[n] = won[n]
          /\ won'[Len(won) + 1] = i
      BY <1>2, <1>10, AppendIndices DEF TypeOK
    <2>3. claimed = UNION {TxsOf(won[n]) : n \in DOMAIN won}
      BY <1>1, ZenonT(60) DEF OrderInv
    <2>4. claimed' = UNION {TxsOf(won[n]) : n \in DOMAIN won}'
      <3> HIDE DEF Range
      <3>1. \A t : t \in claimed <=> \E n \in DOMAIN won : t \in Range(bids[won[n]].txs)
        BY <2>3, ZenonT(60) DEF TxsOf
      <3>2. \A t : t \in claimed'
                    <=> \E n \in DOMAIN won' : t \in Range(bids[won'[n]].txs)
        BY <1>10, <2>2, <3>1, ZenonT(60)
      <3>3. UNION {TxsOf(won[n]) : n \in DOMAIN won}'
              = UNION {Range(bids[won'[n]].txs) : n \in DOMAIN won'}
        BY <1>10 DEF TxsOf, Range
      <3>4. claimed' = UNION {Range(bids[won'[n]].txs) : n \in DOMAIN won'}
        BY <3>2, ZenonT(60)
      <3> QED
        BY <3>3, <3>4, ZenonT(60)
    <2>5. \A n \in DOMAIN won' : won'[n] \in Listed' \ queue'
      BY <1>1, <1>2, <1>7, <2>2, ZenonT(60) DEF OrderInv
    <2>6. ASSUME NEW a \in Senders
          PROVE  balances'[a] + PaidByWinners(a)' = initial[a]
      <3>1. bids[i].payments \in Seq(Payment)
        BY <1>2, ZenonT(60) DEF Bid
      <3>2. /\ balances \in [Senders -> Nat] /\ initial \in [Senders -> Nat]
            /\ Charged(i).balances \in [Senders -> Nat]
        BY <3>1, ChargeAppend, ZenonT(60) DEF TypeOK, Charged, Account
      <3>3. Charged(i).balances[a] + PaidBy(a, bids[i].payments) = balances[a]
        BY <1>10, <3>1, <3>2, Charging, ZenonT(60) DEF ChargeResult, Charged
      <3>4. balances[a] + PaidByWinners(a) = initial[a]
        BY ZenonT(60) DEF OrderInv
      <3>5. PaidBy(a, bids[i].payments) \in Int /\ PaidByWinners(a) \in Int
        <4>1. PaidBy(a, bids[i].payments) \in Int
          BY <3>1, PaidByAppend, ZenonT(60)
        <4>2. PaidByWinners(a) \in Int
          BY <1>2, WonTyped, PaidByMore, OrderOperators, ZenonT(60) DEF Listed
        <4> QED
          BY <4>1, <4>2, ZenonT(60)
      <3>6. balances'[a] = Charged(i).balances[a] /\ Charged(i).balances[a] \in Nat
            /\ balances[a] \in Nat /\ initial[a] \in Nat
        BY <1>10, <3>2, ZenonT(60)
      <3>7. PaidByWinners(a)' = PaidByWinners(a) + PaidBy(a, bids[i].payments)
        BY <2>1, ZenonT(60)
      <3> QED
        BY <3>3, <3>4, <3>5, <3>6, <3>7
    <2> QED
      BY <1>1, <1>8, <1>10, <2>4, <2>5, <2>6, ZenonT(60) DEF OrderInv
  <1> QED
    BY <1>9, <1>10, ZenonT(60) DEF ConsiderBid

\* No winning bid pays nothing.
LEMMA NoneWon == won = <<>> => \A a : PaidByWinners(a) = 0
  BY PaidByNone, OrderOperators, ZenonT(60)

\* The order is kept by every step.
LEMMA NextOrder ==
  ASSUME BuilderInv, TypeOK, OrderInv, [Next]_vars
  PROVE  OrderInv'
  <1>0. initial' = initial
    BY Fixed, ZenonT(60)
  <1>1. CASE phase = "bidding" /\ UNCHANGED <<phase, queue, won, balances>>
    <2>1. won = <<>> /\ queue = {}
      BY <1>1, ZenonT(60) DEF OrderInv
    <2>2. \A a : PaidByWinners(a) = 0 /\ PaidByWinners(a)' = 0
      <3>1. (won = <<>> => \A a : PaidByWinners(a) = 0)'
        BY NoneWon, PTL
      <3> QED
        BY <1>1, <2>1, <3>1, NoneWon, ZenonT(60)
    <2>3. \A a \in Senders : balances[a] + 0 = initial[a]
      BY <2>2, ZenonT(60) DEF OrderInv
    <2> QED
      BY <1>0, <1>1, <2>1, <2>2, <2>3 DEF OrderInv
  <1>2. CASE StartOrder
    <2>1. /\ phase = "bidding" /\ won = <<>> /\ won' = <<>> /\ balances' = balances
          /\ winning = <<>> /\ claimed = {} /\ winning' = winning /\ claimed' = claimed
          /\ \/ phase' = "failed" /\ queue' = queue
             \/ phase' = "order" /\ queue' = Listed'
      BY <1>2, ZenonT(60) DEF StartOrder, OrderInv, BuilderInv, PhaseInv, inputs, orderVars, selectVars
    <2>2. queue = {}
      BY <2>1, ZenonT(60) DEF OrderInv
    <2>3. \A a : PaidByWinners(a) = 0 /\ PaidByWinners(a)' = 0
      <3>1. (won = <<>> => \A a : PaidByWinners(a) = 0)'
        BY NoneWon, PTL
      <3> QED
        BY <2>1, <3>1, NoneWon, ZenonT(60)
    <2>4. \A a \in Senders : balances[a] + 0 = initial[a]
      BY <2>3, ZenonT(60) DEF OrderInv
    <2>5. UNION {TxsOf(won[n]) : n \in DOMAIN won}' = {}
      BY <2>1
    <2> QED
      BY <1>0, <2>1, <2>2, <2>3, <2>4, <2>5 DEF OrderInv
  <1>3. ASSUME NEW i \in queue, ConsiderBid(i)
        PROVE  OrderInv'
    BY <1>3, ConsiderOrder, ZenonT(60)
  <1>4. CASE OtherStep
    <2>1. /\ SameBids /\ UNCHANGED <<queue, won, balances>>
          /\ phase' \in {"bidding", "failed"} => phase \in {"bidding", "failed"}
          /\ phase' = "order" => phase = "order" /\ winning' = winning
          /\ phase' = "order" /\ queue # {} => claimed' = claimed
      BY <1>4, ZenonT(60) DEF OtherStep
    <2>2. /\ \A i, j \in Listed : Before(i, j)' <=> Before(i, j)
          /\ \A a : PaidByWinners(a)' = PaidByWinners(a)
      BY <1>0, <2>1, OrderStays, ZenonT(60)
    <2>3. Listed' = Listed /\ queue \subseteq Listed
      BY <2>1, ZenonT(60) DEF SameBids, BuilderInv, WinningInv
    <2>4. \A n \in DOMAIN won : won[n] \in Listed \ queue
      BY ZenonT(60) DEF OrderInv
    <2>5. UNION {TxsOf(won[n]) : n \in DOMAIN won}' = UNION {TxsOf(won[n]) : n \in DOMAIN won}
      <3>2. \A j \in Listed : bids'[j].txs = bids[j].txs
        BY <2>1, ZenonT(60) DEF SameBids
      <3> QED
        BY <2>1, <2>4, <3>2 DEF TxsOf
    <2>6. phase' = "order" /\ queue # {} =>
            claimed' = UNION {TxsOf(won[n]) : n \in DOMAIN won}'
      BY <2>1, <2>5, ZenonT(60) DEF OrderInv
    <2>7. \A a \in Senders : balances[a] + PaidByWinners(a)' = initial[a]
      BY <2>2, ZenonT(60) DEF OrderInv
    <2>8. phase' = "order" => winning = won /\ winning' = winning
      BY <2>1, ZenonT(60) DEF OrderInv
    <2>9. phase' \in {"bidding", "failed"} => won = <<>> /\ queue = {}
      BY <2>1, ZenonT(60) DEF OrderInv
    <2> HIDE DEF Listed
    <2>10. \A i \in Listed' \ queue', j \in queue' : Before(i, j)'
      BY <2>1, <2>2, <2>3, ZenonT(60) DEF OrderInv
    <2> QED
      BY <1>0, <2>1, <2>3, <2>4, <2>6, <2>7, <2>8, <2>9, <2>10, ZenonT(60) DEF OrderInv
  <1> QED
    BY <1>1, <1>2, <1>3, <1>4, StepsOfOrder, ZenonT(60)

\* Every bid that was considered won exactly if it may, at every step.
LEMMA NextGreedy ==
  ASSUME BuilderInv, TypeOK, OrderInv, GreedyInv, [Next]_vars
  PROVE  GreedyInv'
  <1>0. initial' = initial
    BY Fixed, ZenonT(60)
  <1>1. CASE phase = "bidding" /\ UNCHANGED <<phase, queue, won, balances>>
    BY <1>1, ZenonT(60) DEF GreedyInv
  <1>2. CASE StartOrder
    <2>1. phase' = "failed" \/ queue' = Listed'
      BY <1>2, ZenonT(60) DEF StartOrder
    <2> HIDE DEF Listed
    <2> QED
      BY <2>1, ZenonT(60) DEF GreedyInv
  <1>3. ASSUME NEW i \in queue, ConsiderBid(i)
        PROVE  GreedyInv'
    <2> USE DEF inputs, selectVars
    <2>1. phase = "order" /\ queue' = queue \ {i} /\ phase' = "order"
      BY <1>3, ZenonT(60) DEF ConsiderBid
    <2>2. SameBids
      BY <2>1, BidsStay, ZenonT(60)
    <2>3. i \in Listed /\ Listed' = Listed /\ \A n \in DOMAIN won : won[n] # i
      BY <2>2, ZenonT(60) DEF SameBids, BuilderInv, WinningInv, OrderInv
    <2>4. \A k \in Listed \ queue : (\E n \in DOMAIN won : won[n] = k) <=> MayWin(k)
      BY <2>1, ZenonT(60) DEF GreedyInv
    <2>5. MayWin(i) <=> ~ (TopTaken(i) \/ HasClaimed(i) \/ ~ Charged(i).ok)
      BY <2>1, Decision, ZenonT(60)
    <2>6. CASE UNCHANGED won /\ (TopTaken(i) \/ HasClaimed(i) \/ ~ Charged(i).ok)
      <3>1. \A k \in Listed : MayWin(k)' <=> MayWin(k)
        BY <1>0, <2>2, <2>6, OrderStays, ZenonT(60)
      <3> HIDE DEF Listed
      <3>2. \A k \in Listed' \ queue' :
              (\E n \in DOMAIN won' : won'[n] = k) <=> MayWin(k)'
        BY <2>1, <2>3, <2>4, <2>5, <2>6, <3>1, ZenonT(60)
      <3> QED
        BY <3>2, ZenonT(60) DEF GreedyInv
    <2>7. CASE /\ won' = Append(won, i) /\ UNCHANGED bids
               /\ ~ (TopTaken(i) \/ HasClaimed(i) \/ ~ Charged(i).ok)
      <3>1. \A k \in (Listed \ queue) \cup {i} : MayWin(k)' <=> MayWin(k)
        BY <1>0, <2>7, Winning, ZenonT(60)
      <3>2. /\ DOMAIN won' = DOMAIN won \cup {Len(won) + 1}
            /\ \A n \in DOMAIN won : won'[n] = won[n]
            /\ won'[Len(won) + 1] = i
        BY <2>7, AppendIndices DEF TypeOK, BuilderInv, WinningInv
      <3> HIDE DEF Listed
      <3>3. \A k : (\E n \in DOMAIN won' : won'[n] = k)
                     <=> k = i \/ \E n \in DOMAIN won : won[n] = k
        BY <3>2, ZenonT(60)
      <3>4. \A k \in Listed' \ queue' :
              (\E n \in DOMAIN won' : won'[n] = k) <=> MayWin(k)'
        BY <2>1, <2>3, <2>4, <2>5, <2>7, <3>1, <3>3, ZenonT(60)
      <3> QED
        BY <3>4 DEF GreedyInv
    <2> QED
      BY <1>3, <2>6, <2>7, ZenonT(60) DEF ConsiderBid
  <1>4. CASE OtherStep
    <2>1. /\ SameBids /\ UNCHANGED <<queue, won>>
          /\ phase' \notin {"bidding", "failed"} => phase \notin {"bidding", "failed"}
      BY <1>4 DEF OtherStep
    <2>2. \A k \in Listed : MayWin(k)' <=> MayWin(k)
      BY <1>0, <2>1, OrderStays, ZenonT(60)
    <2>3. Listed' = Listed
      BY <2>1, ZenonT(60) DEF SameBids
    <2> HIDE DEF Listed
    <2> QED
      BY <2>1, <2>2, <2>3 DEF GreedyInv
  <1> QED
    BY <1>1, <1>2, <1>3, <1>4, StepsOfOrder, ZenonT(60)

\* OrderInv and GreedyInv hold in every state.
THEOREM OrderInvariance == Spec => [](OrderInv /\ GreedyInv)
  <1>1. Init => OrderInv /\ GreedyInv
    <2>1. Init => GreedyInv
      BY ZenonT(60) DEF Init, GreedyInv
    <2> QED
      BY <2>1, InitOrder, ZenonT(60)
  <1>2. BuilderInv /\ TypeOK /\ (OrderInv /\ GreedyInv) /\ [Next]_vars
          => (OrderInv /\ GreedyInv)'
    BY NextOrder, NextGreedy, ZenonT(60)
  <1> QED
    BY <1>1, <1>2, BuilderInvariance, BuilderTypes, PTL DEF Spec

\* computeOrder is the greedy choice by priority: among the bids that were
\* considered, those win that no winning bid ahead of them excludes.
THEOREM Greedy == Spec => []GreedyByPriority
  <1>1. GreedyInv => GreedyByPriority
    BY ZenonT(60) DEF GreedyInv, GreedyByPriority, MayWin
  <1> QED
    BY <1>1, OrderInvariance, PTL

-----------------------------------------------------------------------------
(* The transactions of the mempool.                                        *)

\* A mempool transaction that did not fit does not fit either behind another
\* one that did.
LEMMA StillFull ==
  ASSUME SizesInRange, TypeOK, UsedInv, mempool \in Mempools, limits \in Limits,
         NEW t \in Range(mempool) \cap Decodes, NEW s \in Range(mempool) \cap Decodes,
         Fits(<<s>>), ~ Fits(<<t>>), used' = With(<<s>>), limits' = limits
  PROVE  ~ Fits(<<t>>)'
  <1>1. /\ InRange(Bytes[t], limits.bytes) /\ InRange(Gas[t], limits.gas)
        /\ InRange(Bytes[s], limits.bytes) /\ InRange(Gas[s], limits.gas)
    BY ZenonT(60) DEF SizesInRange
  <1>2. /\ Size(<<t>>) = [bytes |-> Bytes[t], gas |-> Gas[t]]
        /\ Size(<<s>>) = [bytes |-> Bytes[s], gas |-> Gas[s]]
    BY <1>1, SizeOfOne, ZenonT(60) DEF InRange
  <1>3. /\ Bytes[t] \in Int /\ Gas[t] \in Int /\ Bytes[s] \in Int /\ Gas[s] \in Int
        /\ limits.bytes \in Int /\ limits.gas \in Int
        /\ used.bytes \in Int /\ used.gas \in Int
    BY PaymentsAssumption DEF TypeOK
  <1>4. BlockTxs \in Seq(Txs)
    BY TxsInAppend, ZenonT(60) DEF TypeOK, BlockTxs, TxsIn
  <1>5. -(MaxInt + 1) <= used.bytes /\ -(MaxInt + 1) <= used.gas
    <2>1. Bytes \in [Txs -> Int] /\ Gas \in [Txs -> Int]
      BY PaymentsAssumption
    <2>2. Sum(Counted(Bytes, BlockTxs)) \in Int /\ Sum(Counted(Gas, BlockTxs)) \in Int
      BY <1>4, <2>1, CountedConcat, ZenonT(60)
    <2>3. /\ used.bytes = Wrap(Sum(Counted(Bytes, BlockTxs)))
          /\ used.gas = Wrap(Sum(Counted(Gas, BlockTxs)))
      BY ZenonT(60) DEF UsedInv, Size, Total
    <2> QED
      BY <2>2, <2>3, Wraps, ZenonT(60)
  <1>6. /\ used.bytes <= Limit(limits.bytes) \/ used.bytes = 0
        /\ used.gas <= Limit(limits.gas) \/ used.gas = 0
    <2>1. CASE bundles = <<>>
      <3>1. BlockTxs = <<>>
        BY <2>1, TxsInAppend, ZenonT(60) DEF BlockTxs, TxsIn
      <3> QED
        BY <3>1, SizeConcat DEF UsedInv
    <2>2. CASE bundles # <<>>
      BY <2>2, ZenonT(60) DEF UsedInv
    <2> QED
      BY <2>1, <2>2, ZenonT(60)
  <1>7. /\ Add(used.bytes, Bytes[s]) <= Limit(limits.bytes)
        /\ Add(used.gas, Gas[s]) <= Limit(limits.gas)
        /\ \/ ~ Add(used.bytes, Bytes[t]) <= Limit(limits.bytes)
           \/ ~ Add(used.gas, Gas[t]) <= Limit(limits.gas)
    BY <1>2 DEF Fits, With
  <1>8. \/ ~ Add(Add(used.bytes, Bytes[s]), Bytes[t]) <= Limit(limits.bytes)
        \/ ~ Add(Add(used.gas, Gas[s]), Gas[t]) <= Limit(limits.gas)
    <2>1. CASE ~ Add(used.bytes, Bytes[t]) <= Limit(limits.bytes)
      BY <1>1, <1>3, <1>5, <1>6, <1>7, <2>1, StaysFull, ZenonT(60)
    <2>2. CASE ~ Add(used.gas, Gas[t]) <= Limit(limits.gas)
      BY <1>1, <1>3, <1>5, <1>6, <1>7, <2>2, StaysFull, ZenonT(60)
    <2> QED
      BY <1>7, <2>1, <2>2, ZenonT(60)
  <1>9. used' = [bytes |-> Add(used.bytes, Bytes[s]), gas |-> Add(used.gas, Gas[s])]
    BY <1>2 DEF With
  <1>10. Fits(<<t>>)' <=> /\ Add(used'.bytes, Bytes[t]) <= Limit(limits.bytes)
                          /\ Add(used'.gas, Gas[t]) <= Limit(limits.gas)
    BY <1>2, ZenonT(60) DEF Fits, With, Add, Wrap, Limit, Size, Total
  <1> QED
    BY <1>8, <1>9, <1>10

\* A transaction of the mempool is selected or left out.
LEMMA SelectTxKept ==
  ASSUME SizesInRange, BuilderInv, TypeOK, UsedInv, KeptInv, SelectTx
  PROVE  KeptInv'
  <1> USE DEF inputs, orderVars, selectVars
  <1>0. PICK s : s = Head(remaining)
    BY ZenonT(60)
  <1>1. /\ phase = "select" /\ winning = <<>> /\ remaining # <<>> /\ remaining \in Seq(Txs)
        /\ remaining' = Tail(remaining)
        /\ UNCHANGED <<phase, bids, mempool, limits, looked, claimed, winning, won>>
    BY ZenonT(60) DEF SelectTx, BuilderInv, ShapeInv
  <1>2. /\ 1 \in DOMAIN remaining /\ remaining[1] = s /\ s \in Txs
        /\ \A n \in DOMAIN remaining' :
             n + 1 \in DOMAIN remaining /\ remaining'[n] = remaining[n + 1]
        /\ \A n \in DOMAIN remaining :
             n # 1 => n - 1 \in DOMAIN remaining' /\ remaining'[n - 1] = remaining[n]
    BY <1>0, <1>1, TailIndices, ZenonT(60)
  <1> HIDE DEF Range, Listed
  <1>3. s \in Range(mempool) /\ Range(mempool)' = Range(mempool)
        /\ \A j : TxsOf(j)' = TxsOf(j)
    BY <1>1, <1>2 DEF KeptInv, Range, TxsOf
  <1>4. /\ \A t : (\E n \in DOMAIN bundles : t \in BundleTxs(n))
                    => (\E n \in DOMAIN bundles : t \in BundleTxs(n))'
        /\ s \in Decodes /\ Fits(<<s>>) =>
             (\E n \in DOMAIN bundles : s \in BundleTxs(n))'
    <2>1. CASE UNCHANGED bundles /\ ~ (s \in Decodes /\ Fits(<<s>>))
      BY <2>1, ZenonT(60) DEF BundleTxs, Range
    <2>2. CASE bundles' = Append(bundles, [bid |-> NULL, txs |-> <<s>>])
      <3>1. bundles \in Seq(Bundle) /\ [bid |-> NULL, txs |-> <<s>>] \in Bundle
        BY <1>2 DEF TypeOK, Bundle
      <3>2. /\ DOMAIN bundles' = DOMAIN bundles \cup {Len(bundles) + 1}
            /\ \A n \in DOMAIN bundles : bundles'[n] = bundles[n]
            /\ bundles'[Len(bundles) + 1] = [bid |-> NULL, txs |-> <<s>>]
        BY <2>2, <3>1, AppendIndices
      <3>3. \A n \in DOMAIN bundles : BundleTxs(n)' = BundleTxs(n)
        BY <3>2, ZenonT(60) DEF BundleTxs, Range
      <3>4. PICK k : k = Len(bundles) + 1
        BY ZenonT(60)
      <3>5. bundles'[k].txs = <<s>> /\ k \in DOMAIN bundles'
        BY <3>2, <3>4
      <3>6. s \in BundleTxs(k)'
        BY <3>5 DEF BundleTxs, Range
      <3> QED
        BY <3>2, <3>3, <3>5, <3>6, ZenonT(60)
    <2> QED
      BY <1>0, <2>1, <2>2, ZenonT(60) DEF SelectTx
  <1>5. ASSUME NEW t \in Range(mempool) \cap Decodes, ~ Fits(<<t>>)
        PROVE  ~ Fits(<<t>>)'
    <2>1. CASE UNCHANGED used
      BY <1>1, <1>5, <2>1, ZenonT(60) DEF Fits, With, Add, Wrap, Limit, Size, Total
    <2>2. CASE s \in Decodes /\ Fits(<<s>>) /\ used' = With(<<s>>)
      BY <1>1, <1>3, <1>5, <2>2, StillFull, ZenonT(60) DEF KeptInv
    <2> QED
      BY <1>0, <2>1, <2>2, ZenonT(60) DEF SelectTx
  <1>6. ASSUME NEW t \in claimed \cap Decodes
        PROVE  Kept(t)'
    <2>1. Kept(t)
      BY ZenonT(60) DEF KeptInv
    <2>2. ASSUME NEW n \in DOMAIN remaining, t = remaining[n]
          PROVE  Kept(t)'
      <3>1. CASE n = 1 /\ Fits(<<s>>)
        BY <1>2, <1>4, <2>2, <3>1, ZenonT(60) DEF Kept
      <3>2. CASE n = 1 /\ ~ Fits(<<s>>)
        <4>1. t = s /\ t \in Range(mempool) /\ ~ Fits(<<t>>)'
          BY <1>2, <1>3, <1>5, <2>2, <3>2, ZenonT(60)
        <4> QED
          BY <1>1, <1>3, <4>1, ZenonT(60) DEF Kept
      <3>3. CASE n # 1
        <4>1. PICK k : k = n - 1
          BY ZenonT(60)
        <4>2. k \in DOMAIN remaining' /\ remaining'[k] = t
          BY <1>2, <2>2, <3>3, <4>1, ZenonT(60)
        <4> QED
          BY <4>2, ZenonT(60) DEF Kept
      <3> QED
        BY <3>1, <3>2, <3>3, ZenonT(60)
    <2>3. CASE \E n \in DOMAIN bundles : t \in BundleTxs(n)
      BY <1>4, <2>3, ZenonT(60) DEF Kept
    <2>4. CASE t \in Range(mempool) /\ ~ Fits(<<t>>)
      BY <1>1, <1>3, <1>5, <2>4, ZenonT(60) DEF Kept
    <2>5. CASE \E n \in DOMAIN won : bids[won[n]].state = "rejected" /\ t \in TxsOf(won[n])
      BY <1>1, <1>3, <2>5, ZenonT(60) DEF Kept
    <2>6. DOMAIN winning = {}
      BY <1>1
    <2> QED
      BY <2>1, <2>2, <2>3, <2>4, <2>5, <2>6, ZenonT(60) DEF Kept
  <1>7. \A n \in DOMAIN remaining' : remaining'[n] \in Range(mempool)
    BY <1>2, ZenonT(60) DEF KeptInv
  <1> QED
    BY <1>1, <1>3, <1>6, <1>7, ZenonT(60) DEF KeptInv

\* Every step keeps what is claimed.
LEMMA NextKept ==
  ASSUME SizesInRange, BuilderInv, TypeOK, OrderInv, UsedInv, KeptInv, [Next]_vars
  PROVE  KeptInv'
  <1> USE DEF inputs, orderVars, selectVars
  <1>1. ASSUME NEW i, NEW kind, NEW txs, PlaceBid(i, kind, txs) \/ OldBid(i, kind, txs)
        PROVE  KeptInv'
    BY <1>1, BiddingKept, ZenonT(60) DEF PlaceBid, OldBid
  <1>2. CASE StartOrder
    <2>1. /\ phase = "bidding" /\ phase' \notin {"select", "done"}
          /\ UNCHANGED <<mempool, limits, looked, claimed, winning, remaining>>
      BY <1>2, ZenonT(60) DEF StartOrder
    <2> QED
      BY <2>1, BiddingKept, ZenonT(60)
  <1>3. ASSUME NEW i \in queue, ConsiderBid(i)
        PROVE  KeptInv'
    BY <1>3, ConsiderKept, ZenonT(60)
  <1>4. CASE ConsiderMempoolTx
    BY <1>4, MempoolTxKept, ZenonT(60)
  <1>5. CASE SelectBid
    BY <1>5, SelectBidKept, ZenonT(60)
  <1>6. CASE SelectTx
    BY <1>6, SelectTxKept, ZenonT(60)
  <1>7. CASE OrderDone \/ Finish \/ Returned \/ UNCHANGED vars
    <2>1. /\ UNCHANGED <<bids, mempool, limits, looked, claimed, winning, remaining, won>>
          /\ UNCHANGED <<bundles, used>>
          /\ \/ phase' = phase
             \/ phase' = "select" /\ looked = Len(mempool)
             \/ phase' = "done" /\ phase = "select" /\ remaining = <<>>
      BY <1>7, ZenonT(60) DEF OrderDone, Finish, Returned, vars
    <2>2. ASSUME NEW t, Kept(t)
          PROVE  Kept(t)'
      <3> HIDE DEF Range
      <3>1. Fits(<<t>>)' <=> Fits(<<t>>)
        BY <2>1, ZenonT(60) DEF Fits, With, Add, Wrap, Limit, Size, Total
      <3>2. /\ Range(mempool)' = Range(mempool)
            /\ \A j : TxsOf(j)' = TxsOf(j)
            /\ \A n : BundleTxs(n)' = BundleTxs(n)
        BY <2>1, ZenonT(60) DEF TxsOf, BundleTxs, Range
      <3> QED
        BY <2>1, <2>2, <3>1, <3>2, ZenonT(60) DEF Kept
    <2>3. \A t \in claimed' \cap Decodes : Kept(t)'
      BY <2>1, <2>2, ZenonT(60) DEF KeptInv
    <2> QED
      BY <2>1, <2>3, ZenonT(60) DEF KeptInv
  <1> QED
    BY <1>1, <1>2, <1>3, <1>4, <1>5, <1>6, <1>7, ZenonT(60) DEF Next

\* In the end, what is kept and not left out is in the block.
LEMMA KeptInBlock ==
  ASSUME BuilderInv, TypeOK, KeptInv
  PROVE  MempoolKept
  <1> SUFFICES ASSUME phase = "done", NEW t \in Range(mempool) \cap Decodes
               PROVE  \/ t \in Range(BlockTxs)
                      \/ ~ Fits(<<t>>)
                      \/ \E i \in Range(won) : /\ bids[i].state = "rejected"
                                               /\ t \in Range(bids[i].txs)
    BY ZenonT(60) DEF MempoolKept
  <1>1. winning = <<>> /\ remaining = <<>> /\ looked = Len(mempool)
    BY ZenonT(60) DEF BuilderInv, PhaseInv, KeptInv
  <1>2. DOMAIN mempool = 1..looked
    BY <1>1, ListShape, ZenonT(60) DEF TypeOK
  <1>3. t \in claimed
    BY <1>2, ZenonT(60) DEF KeptInv
  <1>4. Kept(t)
    BY <1>3, ZenonT(60) DEF KeptInv
  <1>5. DOMAIN winning = {} /\ DOMAIN remaining = {}
    BY <1>1
  <1>6. ASSUME NEW n \in DOMAIN bundles, t \in BundleTxs(n)
        PROVE  t \in Range(BlockTxs)
    <2> DEFINE ss == [k \in DOMAIN bundles |-> bundles[k].txs]
    <2>1. ss \in Seq(Seq(Txs))
      <3>1. bundles \in Seq(Bundle)
        BY ZenonT(60) DEF TypeOK
      <3>2. /\ Len(bundles) \in Nat /\ DOMAIN bundles = 1..Len(bundles)
            /\ \A k \in DOMAIN bundles : bundles[k] \in Bundle
        BY <3>1, ListShape, ZenonT(60)
      <3>3. \A k \in DOMAIN bundles : bundles[k].txs \in Seq(Txs)
        BY <3>2, ZenonT(60) DEF Bundle
      <3>4. ss \in [1..Len(bundles) -> Seq(Txs)]
        BY <3>2, <3>3, ZenonT(60)
      <3> QED
        BY <3>2, <3>4, ListOf, ZenonT(60)
    <2>2. BlockTxs = Flatten(ss) /\ ss[n] = bundles[n].txs /\ n \in DOMAIN ss
      BY ZenonT(60) DEF BlockTxs
    <2> HIDE DEF ss, Range
    <2>3. Range(Flatten(ss)) = UNION {Range(ss[k]) : k \in DOMAIN ss}
      BY <2>1, FlattenRange, ZenonT(60)
    <2> QED
      BY <1>6, <2>2, <2>3, ZenonT(60) DEF BundleTxs
  <1>7. ASSUME NEW n \in DOMAIN won, bids[won[n]].state = "rejected", t \in TxsOf(won[n])
        PROVE  \E i \in Range(won) : bids[i].state = "rejected" /\ t \in Range(bids[i].txs)
    <2>1. won[n] \in Range(won)
      BY ZenonT(60)
    <2> HIDE DEF Range
    <2> QED
      BY <1>7, <2>1, ZenonT(60) DEF TxsOf
  <1> HIDE DEF Range
  <1> QED
    BY <1>4, <1>5, <1>6, <1>7, ZenonT(60) DEF Kept

\* If the sizes of the mempool's transactions are such that none of the sums
\* over them overflows, selectTransactions drops none that decodes and that the
\* block has room for, unless it went with a winning bid that did not fit.
THEOREM MempoolIsKept ==
  ASSUME SizesInRange
  PROVE  Spec => []MempoolKept
  <1>1. BuilderInv /\ TypeOK /\ OrderInv /\ UsedInv /\ KeptInv /\ [Next]_vars => KeptInv'
    BY NextKept, ZenonT(60)
  <1>2. BuilderInv /\ TypeOK /\ KeptInv => MempoolKept
    BY KeptInBlock, ZenonT(60)
  <1> QED
    BY <1>1, <1>2, InitKept, BuilderInvariance, BuilderTypes, OrderInvariance,
       UsedInvariance, PTL DEF Spec
==============================================================================
