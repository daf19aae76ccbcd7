-------------------------- MODULE BlockBuilderSteps -------------------------
(***************************************************************************)
(* Lemmas about the steps of module BlockBuilder: what each action does to *)
(* the parts of the invariants that no sum over a list is needed for.      *)
(***************************************************************************)
EXTENDS BlockBuilder, TLAPS

\* The provers of a leaf that names none, in the order they are tried.
USE SMTT(60), Z3T(60), SMTT(90), Z3T(90)

\* What Append and Tail do, in terms of the indices.
LEMMA AppendIndices ==
  ASSUME NEW S, NEW s \in Seq(S), NEW e \in S
  PROVE  /\ Append(s, e) \in Seq(S)
         /\ Len(s) \in Nat /\ DOMAIN s = 1..Len(s)
         /\ DOMAIN Append(s, e) = DOMAIN s \cup {Len(s) + 1}
         /\ Len(s) + 1 \notin DOMAIN s
         /\ \A i \in DOMAIN s : Append(s, e)[i] = s[i]
         /\ Append(s, e)[Len(s) + 1] = e
  OBVIOUS

\* What Tail leaves of a sequence.
LEMMA TailIndices ==
  ASSUME NEW S, NEW s \in Seq(S), s # <<>>
  PROVE  /\ Tail(s) \in Seq(S) /\ Head(s) \in S
         /\ 1 \in DOMAIN s /\ Head(s) = s[1]
         /\ \A i \in DOMAIN Tail(s) : /\ i \in Nat \ {0} /\ i + 1 \in DOMAIN s
                                      /\ i + 1 # 1 /\ Tail(s)[i] = s[i + 1]
         /\ \A i \in DOMAIN s : i # 1 => /\ i - 1 \in DOMAIN Tail(s)
                                        /\ Tail(s)[i - 1] = s[i]
  <1>1. /\ Len(s) \in Nat /\ DOMAIN s = 1..Len(s) /\ Len(s) # 0
    OBVIOUS
  <1>2. Tail(s) \in Seq(S) /\ Head(s) \in S /\ Len(Tail(s)) = Len(s) - 1
        /\ \A i \in 1..Len(Tail(s)) : Tail(s)[i] = s[i + 1]
    OBVIOUS
  <1>3. DOMAIN Tail(s) = 1..(Len(s) - 1)
    BY <1>2
  <1>4. Head(s) = s[1]
    OBVIOUS
  <1> QED
    BY <1>1, <1>2, <1>3, <1>4

USE DEF Range, Listed

-----------------------------------------------------------------------------
(* The invariant of the transactions and the bids on their way.            *)

\* Init: nothing is claimed, nothing is selected.
LEMMA InitBuilder == Init => BuilderInv
  BY BuilderAssumption DEF Init, BuilderInv, ShapeInv, PhaseInv, WinningInv,
     ClaimInv, TopInv, DecidedInv, BundlesDisjoint, TopBidFirst, Phases

\* A bid of an old row has the type of a bid.
LEMMA UnevaluatedShape ==
  ASSUME NEW kind \in {"top", "block"}, NEW txs \in Seq(Txs)
  PROVE  Unevaluated(kind, txs) \in Bid
  <1>1. <<>> \in Seq(Payment)
    OBVIOUS
  <1>2. 0 \in Int
    OBVIOUS
  <1>3. "" \in {"", "pending"}
    OBVIOUS
  <1>4. ASSUME NEW st \in {"", "pending"}, NEW n \in Int, NEW e \in Seq(Payment)
        PROVE  [kind |-> kind, txs |-> txs, state |-> st, priority |-> n,
                validator |-> n, payments |-> e] \in Bid
    BY ZenonT(60) DEF Bid
  <1> QED
    BY <1>1, <1>2, <1>3, <1>4, ZenonT(60) DEF Unevaluated

\* A change of state of one bid leaves everything else about the bids alone.
LEMMA SetState ==
  ASSUME BuilderInv, NEW i \in Listed, NEW st \in {"accepted", "rejected"},
         bids' = [bids EXCEPT ![i].state = st]
  PROVE  /\ Listed' = Listed
         /\ bids' = [j \in Listed |-> bids'[j]]
         /\ \A j \in Listed : /\ bids'[j] \in Bid
                              /\ bids'[j].kind = bids[j].kind
                              /\ bids'[j].txs = bids[j].txs
                              /\ bids'[j].priority = bids[j].priority
                              /\ bids'[j].validator = bids[j].validator
                              /\ bids'[j].payments = bids[j].payments
                              /\ j # i => bids'[j] = bids[j]
         /\ bids'[i].state = st
  <1>1. bids = [j \in Listed |-> bids[j]] /\ \A j \in Listed : bids[j] \in Bid
    BY DEF BuilderInv, ShapeInv
  <1>2. Listed' = Listed /\ bids' = [j \in Listed |-> bids'[j]]
    BY <1>1, ZenonT(60)
  <1>3. bids'[i] = [bids[i] EXCEPT !.state = st]
    BY <1>1
  <1>4. \A j \in Listed : j # i => bids'[j] = bids[j]
    BY <1>1
  <1>5. /\ bids'[i] \in Bid /\ bids'[i].state = st
        /\ bids'[i].kind = bids[i].kind /\ bids'[i].txs = bids[i].txs
        /\ bids'[i].priority = bids[i].priority
        /\ bids'[i].validator = bids[i].validator
        /\ bids'[i].payments = bids[i].payments
    BY <1>1, <1>3, ZenonT(60) DEF Bid
  <1> QED
    BY <1>1, <1>2, <1>4, <1>5, ZenonT(60)

\* computeOrder takes one bid off the queue.
LEMMA ConsiderBidStep ==
  ASSUME BuilderInv, NEW i \in queue, ConsiderBid(i)
  PROVE  BuilderInv'
  <1> USE DEF inputs, selectVars
  <1>1. /\ phase = "order" /\ remaining = <<>> /\ bundles = <<>> /\ i \in Listed
        /\ i \in BidIds
        /\ queue' = queue \ {i}
        /\ UNCHANGED <<phase, mempool, looked, remaining, bundles>>
    BY DEF BuilderInv, PhaseInv, WinningInv, ShapeInv, ConsiderBid
  <1>2. \A m \in DOMAIN winning : winning[m] \in Listed \ queue
    BY DEF BuilderInv, WinningInv
  <1>b. DOMAIN remaining' = {} /\ DOMAIN bundles' = {}
    BY <1>1
  <1>3. CASE Reject(i) /\ UNCHANGED <<winning, claimed>>
    <2>1. bids' = [bids EXCEPT ![i].state = "rejected"]
      BY <1>3 DEF Reject
    <2>2. /\ Listed' = Listed
          /\ bids' = [j \in Listed |-> bids'[j]]
          /\ \A j \in Listed : /\ bids'[j] \in Bid
                               /\ bids'[j].kind = bids[j].kind
                               /\ bids'[j].txs = bids[j].txs
                               /\ j # i => bids'[j] = bids[j]
          /\ bids'[i].state = "rejected"
      BY <1>1, <2>1, SetState, ZenonT(60)
    <2> HIDE DEF Listed
    <2>3. ShapeInv' /\ PhaseInv' /\ WinningInv'
      BY <1>1, <1>3, <2>2 DEF BuilderInv, ShapeInv, PhaseInv, WinningInv
    <2>t. \A j \in Listed : TxsOf(j)' = TxsOf(j)
      BY <2>2 DEF TxsOf
    <2>c. ClaimInv'
      BY <1>b, <1>2, <1>3, <2>t DEF BuilderInv, ClaimInv
    <2>4. TopInv'
      BY <1>1, <1>2, <1>3, <2>2 DEF BuilderInv, TopInv
    <2>5. DecidedInv'
      BY <1>1, <1>3, <2>2 DEF BuilderInv, DecidedInv
    <2> QED
      BY <1>b, <2>3, <2>c, <2>4, <2>5 DEF BuilderInv, BundlesDisjoint, TopBidFirst
  <1>4. CASE /\ ~ TopTaken(i) /\ ~ HasClaimed(i)
             /\ winning' = Append(winning, i)
             /\ claimed' = claimed \cup TxsOf(i)
             /\ UNCHANGED bids
    <2>1. winning \in Seq(BidIds)
      BY ZenonT(60) DEF BuilderInv, ShapeInv
    <2> DEFINE k == Len(winning) + 1
    <2>2. /\ winning' \in Seq(BidIds)
          /\ DOMAIN winning' = DOMAIN winning \cup {k}
          /\ k \notin DOMAIN winning
          /\ \A m \in DOMAIN winning : winning'[m] = winning[m]
          /\ winning'[k] = i
          /\ winning = <<>> => k = 1
      BY <1>1, <1>4, <2>1, AppendIndices
    <2> HIDE DEF k
    <2>3. \A m \in DOMAIN winning : TxsOf(winning[m]) \cap TxsOf(i) = {}
      BY <1>4, ZenonT(60) DEF BuilderInv, ClaimInv, HasClaimed, TxsOf
    <2> HIDE DEF Listed, Range
    <2>4. ShapeInv' /\ PhaseInv'
      BY <1>1, <1>4, <2>2, ZenonT(60) DEF BuilderInv, ShapeInv, PhaseInv, Listed
    <2>5. WinningInv'
      BY <1>1, <1>2, <1>4, <2>2 DEF BuilderInv, WinningInv, Listed
    <2>t. \A j : TxsOf(j)' = TxsOf(j)
      BY <1>4, ZenonT(60) DEF TxsOf
    <2>6. ClaimInv'
      BY <1>b, <1>4, <2>2, <2>3, <2>t DEF BuilderInv, ClaimInv
    <2>7. TopInv'
      BY <1>1, <1>4, <2>2, ZenonT(60) DEF BuilderInv, TopInv, TopTaken
    <2>8. DecidedInv'
      BY <1>1, <1>4, <2>2 DEF BuilderInv, DecidedInv, Listed
    <2> QED
      BY <1>1, <2>4, <2>5, <2>6, <2>7, <2>8
         DEF BuilderInv, BundlesDisjoint, TopBidFirst
  <1> QED
    BY <1>3, <1>4 DEF ConsiderBid, TxsOf

\* computeOrder looks at one transaction of the mempool.
LEMMA MempoolStep ==
  ASSUME BuilderInv, ConsiderMempoolTx
  PROVE  BuilderInv'
  <1> USE DEF inputs, selectVars
  <1> DEFINE t == mempool[looked + 1]
             k == Len(remaining) + 1
  <1>1. /\ phase = "order" /\ queue = {} /\ bundles = <<>>
        /\ looked' = looked + 1
        /\ UNCHANGED <<phase, bids, mempool, queue, winning, bundles>>
    BY DEF BuilderInv, PhaseInv, ConsiderMempoolTx, Taken
  <1>2. remaining \in Seq(Txs) /\ mempool \in Seq(Txs) /\ looked \in Nat
    BY DEF BuilderInv, ShapeInv
  <1>3. t \in Txs
    <2>1. looked + 1 \in 1..Len(mempool) /\ mempool \in [1..Len(mempool) -> Txs]
      BY <1>2 DEF ConsiderMempoolTx, Taken
    <2> QED
      BY <2>1
  <1>4. DOMAIN bundles' = {}
    BY <1>1
  <1>5. \A i : TxsOf(i)' = TxsOf(i)
    BY <1>1, ZenonT(60) DEF TxsOf
  <1>6. PhaseInv' /\ WinningInv' /\ TopInv' /\ DecidedInv'
    BY <1>1, ZenonT(60) DEF BuilderInv, PhaseInv, WinningInv, TopInv, DecidedInv
  <1>7. CASE UNCHANGED <<remaining, claimed>>
    <2>1. ShapeInv'
      BY <1>1, <1>2, <1>7 DEF BuilderInv, ShapeInv
    <2>2. ClaimInv'
      BY <1>1, <1>4, <1>5, <1>7, ZenonT(60) DEF BuilderInv, ClaimInv
    <2> QED
      BY <1>4, <1>6, <2>1, <2>2, ZenonT(60) DEF BuilderInv, BundlesDisjoint, TopBidFirst
  <1>8. CASE /\ t \notin claimed /\ remaining' = Append(remaining, t)
             /\ claimed' = claimed \cup {t}
    <2>1. /\ remaining' \in Seq(Txs)
          /\ DOMAIN remaining' = DOMAIN remaining \cup {k}
          /\ \A m \in DOMAIN remaining : remaining'[m] = remaining[m]
          /\ remaining'[k] = t
      BY <1>2, <1>3, <1>8, AppendIndices
    <2> HIDE DEF t, k
    <2>2. ShapeInv'
      BY <1>1, <1>2, <2>1 DEF BuilderInv, ShapeInv
    <2>3. ClaimInv'
      BY <1>1, <1>4, <1>5, <1>8, <2>1 DEF BuilderInv, ClaimInv
    <2> QED
      BY <1>4, <1>6, <2>2, <2>3 DEF BuilderInv, BundlesDisjoint, TopBidFirst
  <1> QED
    BY <1>7, <1>8, ZenonT(60) DEF ConsiderMempoolTx, Taken

\* A bundle is added whose transactions are claimed and in no other bundle.
LEMMA AddBundle ==
  ASSUME BuilderInv, NEW b \in Bundle, bundles' = Append(bundles, b),
         \A m \in DOMAIN bundles : BundleTxs(m) \cap Range(b.txs) = {}
  PROVE  LET k == Len(bundles) + 1
         IN /\ bundles' \in Seq(Bundle)
            /\ DOMAIN bundles' = DOMAIN bundles \cup {k}
            /\ k \notin DOMAIN bundles
            /\ \A m \in DOMAIN bundles : bundles'[m] = bundles[m]
            /\ bundles'[k] = b
            /\ bundles = <<>> => k = 1
            /\ \A m \in DOMAIN bundles' :
                  BundleTxs(m)' = IF m = k THEN Range(b.txs) ELSE BundleTxs(m)
            /\ BundlesDisjoint'
  <1> DEFINE k == Len(bundles) + 1
  <1>1. /\ bundles' \in Seq(Bundle)
        /\ DOMAIN bundles' = DOMAIN bundles \cup {k}
        /\ k \notin DOMAIN bundles
        /\ \A m \in DOMAIN bundles : bundles'[m] = bundles[m]
        /\ bundles'[k] = b
        /\ bundles = <<>> => k = 1
    BY AppendIndices DEF BuilderInv, ShapeInv
  <1> HIDE DEF k, Range
  <1>2. \A m \in DOMAIN bundles' :
           BundleTxs(m)' = IF m = k THEN Range(b.txs) ELSE BundleTxs(m)
    BY <1>1, ZenonT(60) DEF BundleTxs
  <1>3. BundlesDisjoint'
    <2>1. \A m, n \in DOMAIN bundles : m # n => BundleTxs(m) \cap BundleTxs(n) = {}
      BY ZenonT(60) DEF BuilderInv, BundlesDisjoint, BundleTxs
    <2>2. \A m, n \in DOMAIN bundles' :
             m # n => BundleTxs(m)' \cap BundleTxs(n)' = {}
      BY <1>1, <1>2, <2>1
    <2> QED
      BY <2>2, ZenonT(60) DEF BundlesDisjoint, BundleTxs
  <1> QED
    BY <1>1, <1>2, <1>3, ZenonT(60) DEF k

\* selectTransactions takes one mempool transaction.
LEMMA SelectTxStep ==
  ASSUME BuilderInv, SelectTx
  PROVE  BuilderInv'
  <1> USE DEF inputs, orderVars
  <1>1. /\ phase = "select" /\ winning = <<>> /\ queue = {}
        /\ remaining # <<>> /\ remaining \in Seq(Txs)
        /\ remaining' = Tail(remaining)
        /\ UNCHANGED <<phase, bids, mempool, looked, queue, claimed, winning>>
    BY ZenonT(60) DEF BuilderInv, PhaseInv, ShapeInv, SelectTx
  <1>2. /\ remaining' \in Seq(Txs) /\ Head(remaining) \in Txs
        /\ 1 \in DOMAIN remaining /\ Head(remaining) = remaining[1]
        /\ \A i \in DOMAIN remaining' :
              /\ i \in Nat \ {0} /\ i + 1 \in DOMAIN remaining /\ i + 1 # 1
              /\ remaining'[i] = remaining[i + 1]
    BY <1>1, TailIndices
  <1>3. DOMAIN winning' = {}
    BY <1>1
  <1>4. PhaseInv' /\ WinningInv' /\ TopInv'
    BY <1>1, <1>3, ZenonT(60) DEF BuilderInv, PhaseInv, WinningInv, TopInv
  <1>5. \A m, n \in DOMAIN remaining' : remaining'[m] = remaining'[n] => m = n
    <2>1. \A m, n \in DOMAIN remaining : remaining[m] = remaining[n] => m = n
      BY DEF BuilderInv, ClaimInv
    <2> QED
      BY <1>2, <2>1
  <1>6. CASE UNCHANGED bundles
    <2>1. ShapeInv'
      BY <1>1, <1>2, <1>6, ZenonT(60) DEF BuilderInv, ShapeInv
    <2>2. \A m : BundleTxs(m)' = BundleTxs(m)
      BY <1>6, ZenonT(60) DEF BundleTxs
    <2>3. ClaimInv'
      BY <1>1, <1>2, <1>3, <1>5, <1>6, <2>2, ZenonT(60) DEF BuilderInv, ClaimInv
    <2>4. DecidedInv'
      BY <1>1, <1>6, ZenonT(60) DEF BuilderInv, DecidedInv
    <2>5. BundlesDisjoint' /\ TopBidFirst'
      <3> HIDE DEF Range
      <3> QED
        BY <1>1, <1>6, ZenonT(60) DEF BuilderInv, BundlesDisjoint, TopBidFirst
    <2> QED
      BY <1>4, <2>1, <2>3, <2>4, <2>5, ZenonT(60) DEF BuilderInv
  <1>7. CASE bundles' = Append(bundles, [bid |-> NULL, txs |-> <<Head(remaining)>>])
    <2> DEFINE b == [bid |-> NULL, txs |-> <<Head(remaining)>>]
               k == Len(bundles) + 1
    <2>1. b \in Bundle /\ Range(b.txs) = {remaining[1]} /\ b.bid = NULL
      BY <1>2 DEF Bundle
    <2> HIDE DEF b
    <2>2. \A m \in DOMAIN bundles : BundleTxs(m) \cap Range(b.txs) = {}
      <3> HIDE DEF Range
      <3> QED
        BY <1>2, <2>1 DEF BuilderInv, ClaimInv
    <2>3. /\ bundles' \in Seq(Bundle)
          /\ DOMAIN bundles' = DOMAIN bundles \cup {k}
          /\ \A m \in DOMAIN bundles : bundles'[m] = bundles[m]
          /\ bundles'[k] = b
          /\ \A m \in DOMAIN bundles' :
                BundleTxs(m)' = IF m = k THEN Range(b.txs) ELSE BundleTxs(m)
          /\ BundlesDisjoint'
      BY <1>7, <2>1, <2>2, AddBundle, ZenonT(60) DEF b
    <2> HIDE DEF k, Range
    <2>4. ShapeInv'
      BY <1>1, <1>2, <2>3, ZenonT(60) DEF BuilderInv, ShapeInv, Listed
    <2>5. ClaimInv'
      <3>1. remaining[1] \in claimed
            /\ \A m \in DOMAIN remaining' : remaining'[m] # remaining[1]
        BY <1>2, ZenonT(60) DEF BuilderInv, ClaimInv
      <3> QED
        BY <1>1, <1>2, <1>3, <1>5, <2>1, <2>3, <3>1 DEF BuilderInv, ClaimInv
    <2>6. DecidedInv'
      BY <1>1, <2>1, <2>3 DEF BuilderInv, DecidedInv, Listed
    <2>7. TopBidFirst'
      BY <1>1, <2>1, <2>3, ZenonT(60) DEF BuilderInv, TopBidFirst
    <2> QED
      BY <1>4, <2>3, <2>4, <2>5, <2>6, <2>7, ZenonT(60) DEF BuilderInv
  <1> QED
    BY <1>6, <1>7, ZenonT(60) DEF SelectTx

\* selectTransactions takes one winning bid.
LEMMA SelectBidStep ==
  ASSUME BuilderInv, SelectBid
  PROVE  BuilderInv'
  <1> USE DEF inputs, orderVars, selectVars
  <1> DEFINE i == winning[1]
  <1>1. /\ phase = "select" /\ queue = {}
        /\ winning # <<>> /\ winning \in Seq(BidIds)
        /\ winning' = Tail(winning)
        /\ UNCHANGED <<phase, mempool, looked, queue, claimed, remaining>>
    BY ZenonT(60) DEF BuilderInv, PhaseInv, ShapeInv, SelectBid
  <1>2. /\ winning' \in Seq(BidIds)
        /\ 1 \in DOMAIN winning /\ Head(winning) = i
        /\ \A m \in DOMAIN winning' :
              /\ m \in Nat \ {0} /\ m + 1 \in DOMAIN winning /\ m + 1 # 1
              /\ winning'[m] = winning[m + 1]
        /\ \A m \in DOMAIN winning :
              m # 1 => m - 1 \in DOMAIN winning' /\ winning'[m - 1] = winning[m]
    BY <1>1, TailIndices, ZenonT(60)
  <1>3. i \in Listed /\ i \in BidIds /\ bids[i] \in Bid
        /\ \A m \in DOMAIN winning : winning[m] \in Listed
    BY <1>2, ZenonT(60) DEF BuilderInv, WinningInv, ShapeInv
  <1>4. \E s \in {"accepted", "rejected"} : bids' = [bids EXCEPT ![i].state = s]
    BY <1>2, ZenonT(60) DEF SelectBid, Reject
  <1>5. /\ Listed' = Listed
        /\ bids' = [m \in Listed |-> bids'[m]]
        /\ \A m \in Listed : /\ bids'[m] \in Bid
                             /\ bids'[m].kind = bids[m].kind
                             /\ bids'[m].txs = bids[m].txs
                             /\ m # i => bids'[m] = bids[m]
    BY <1>3, <1>4, SetState, ZenonT(60)
  <1> HIDE DEF i, Listed, Range
  <1>6. \A m \in Listed : TxsOf(m)' = TxsOf(m)
    BY <1>5 DEF TxsOf
  <1>7. PhaseInv'
    BY <1>1, ZenonT(60) DEF BuilderInv, PhaseInv
  <1>8. /\ \A m \in DOMAIN winning' : winning'[m] \in Listed /\ winning'[m] # i
        /\ \A m, n \in DOMAIN winning' : winning'[m] = winning'[n] => m = n
    <2>1. \A m, n \in DOMAIN winning : winning[m] = winning[n] => m = n
      BY DEF BuilderInv, WinningInv
    <2> QED
      BY <1>2, <1>3, <2>1 DEF i
  <1>9. WinningInv'
    BY <1>1, <1>5, <1>8, ZenonT(60) DEF BuilderInv, WinningInv
  <1>10. TopInv'
    <2> SUFFICES ASSUME NEW m \in DOMAIN winning'
                 PROVE  bids'[winning'[m]].kind # "top"
      BY ZenonT(60) DEF TopInv
    <2>1. /\ m + 1 \in DOMAIN winning /\ m + 1 # 1
          /\ winning'[m] = winning[m + 1] /\ winning[m + 1] \in Listed
      BY <1>2, <1>3, ZenonT(60)
    <2>2. bids[winning[m + 1]].kind # "top"
      BY <2>1, ZenonT(60) DEF BuilderInv, TopInv
    <2> QED
      BY <1>5, <2>1, <2>2, ZenonT(60)
  \* The claims of the bids that are left.
  <1>11. /\ \A m \in DOMAIN winning' : TxsOf(winning[m])' \subseteq claimed
         /\ \A m \in DOMAIN winning' : TxsOf(winning[m])' \cap TxsOf(i) = {}
         /\ \A m, n \in DOMAIN winning' :
               m # n => TxsOf(winning[m])' \cap TxsOf(winning[n])' = {}
         /\ \A m \in DOMAIN winning', n \in DOMAIN remaining :
               remaining[n] \notin TxsOf(winning[m])'
         /\ \A m \in DOMAIN bundles, n \in DOMAIN winning' :
               BundleTxs(m) \cap TxsOf(winning[n])' = {}
    <2>1. \A m \in DOMAIN winning' :
             /\ m + 1 \in DOMAIN winning /\ m + 1 # 1 /\ m \in Nat
             /\ TxsOf(winning[m])' = TxsOf(winning[m + 1])
      <3> SUFFICES ASSUME NEW m \in DOMAIN winning'
                   PROVE  /\ m + 1 \in DOMAIN winning /\ m + 1 # 1 /\ m \in Nat
                          /\ TxsOf(winning[m])' = TxsOf(winning[m + 1])
        BY ZenonT(60)
      <3>1. /\ m + 1 \in DOMAIN winning /\ m + 1 # 1 /\ m \in Nat
            /\ winning'[m] = winning[m + 1] /\ winning[m + 1] \in Listed
        BY <1>2, <1>3, ZenonT(60)
      <3> QED
        BY <1>5, <3>1, ZenonT(60) DEF TxsOf
    <2>2. ClaimInv
      BY ZenonT(60) DEF BuilderInv
    <2>3. \A m \in DOMAIN winning' : TxsOf(winning[m])' \subseteq claimed
      BY <2>1, <2>2, ZenonT(60) DEF ClaimInv
    <2>4. \A m \in DOMAIN winning' : TxsOf(winning[m])' \cap TxsOf(i) = {}
      BY <1>2, <2>1, <2>2, ZenonT(60) DEF ClaimInv, i
    <2>5. \A m, n \in DOMAIN winning' :
             m # n => TxsOf(winning[m])' \cap TxsOf(winning[n])' = {}
      BY <2>1, <2>2 DEF ClaimInv
    <2>6. \A m \in DOMAIN winning', n \in DOMAIN remaining :
               remaining[n] \notin TxsOf(winning[m])'
      BY <2>1, <2>2 DEF ClaimInv
    <2>7. \A m \in DOMAIN bundles, n \in DOMAIN winning' :
               BundleTxs(m) \cap TxsOf(winning[n])' = {}
      BY <2>1, <2>2, ZenonT(60) DEF ClaimInv
    <2> QED
      BY <2>3, <2>4, <2>5, <2>6, <2>7, ZenonT(60)
  \* The bundles so far are of other bids.
  <1>12. \A n \in DOMAIN bundles : bundles[n].bid # NULL =>
            /\ bundles[n].bid \in Listed
            /\ bundles[n].bid # i
            /\ bids'[bundles[n].bid].state = "accepted"
            /\ \A m \in DOMAIN winning' : winning'[m] # bundles[n].bid
    BY <1>2, <1>5 DEF BuilderInv, DecidedInv, i
  <1>13. \A m \in Listed : m # i =>
            \/ \E n \in DOMAIN winning' : winning'[n] = m
            \/ bids'[m].state = "rejected"
            \/ \E n \in DOMAIN bundles : bundles[n].bid = m
    <2> SUFFICES ASSUME NEW m \in Listed, m # i, bids'[m].state # "rejected",
                        ~ \E n \in DOMAIN bundles : bundles[n].bid = m
                 PROVE  \E n \in DOMAIN winning' : winning'[n] = m
      BY ZenonT(60)
    <2>1. PICK n \in DOMAIN winning : winning[n] = m
      BY <1>1, <1>5, ZenonT(60) DEF BuilderInv, DecidedInv
    <2>2. n # 1
      BY <2>1, ZenonT(60) DEF i
    <2> QED
      BY <1>2, <2>1, <2>2
  <1>14. CASE /\ bids' = [bids EXCEPT ![i].state = "rejected"]
              /\ UNCHANGED bundles
    <2>1. bids'[i].state = "rejected"
      BY <1>3, <1>14, SetState, ZenonT(60)
    <2>2. ShapeInv'
      BY <1>1, <1>2, <1>5, <1>14, ZenonT(60) DEF BuilderInv, ShapeInv
    <2>3. \A m : BundleTxs(m)' = BundleTxs(m)
      BY <1>14 DEF BundleTxs
    <2>4. ClaimInv'
      <3>1. /\ \A m \in DOMAIN remaining' : remaining'[m] \in claimed'
            /\ \A m \in DOMAIN bundles' : BundleTxs(m)' \subseteq claimed'
            /\ \A m, n \in DOMAIN remaining' : remaining'[m] = remaining'[n] => m = n
            /\ \A m \in DOMAIN bundles', n \in DOMAIN remaining' :
                  remaining'[n] \notin BundleTxs(m)'
        BY <1>1, <1>14, <2>3 DEF BuilderInv, ClaimInv
      <3> QED
        BY <1>1, <1>11, <1>14, <2>3, <3>1, ZenonT(60) DEF ClaimInv
    <2>5. DecidedInv'
      BY <1>1, <1>5, <1>12, <1>13, <1>14, <2>1 DEF DecidedInv
    <2>6. BundlesDisjoint' /\ TopBidFirst'
      BY <1>5, <1>12, <1>14, ZenonT(60) DEF BuilderInv, BundlesDisjoint, TopBidFirst
    <2> QED
      BY <1>7, <1>9, <1>10, <2>2, <2>4, <2>5, <2>6, ZenonT(60) DEF BuilderInv
  <1>15. CASE /\ bids' = [bids EXCEPT ![i].state = "accepted"]
              /\ bundles' = Append(bundles, [bid |-> i, txs |-> bids[i].txs])
    <2> DEFINE b == [bid |-> i, txs |-> bids[i].txs]
               k == Len(bundles) + 1
    <2>1. bids'[i].state = "accepted"
      BY <1>3, <1>15, SetState, ZenonT(60)
    <2>2. b \in Bundle /\ b.bid = i /\ Range(b.txs) = TxsOf(i)
      BY <1>3, ZenonT(60) DEF Bundle, Bid, TxsOf
    <2> HIDE DEF b
    <2>3. \A m \in DOMAIN bundles : BundleTxs(m) \cap Range(b.txs) = {}
      BY <1>2, <2>2, ZenonT(60) DEF BuilderInv, ClaimInv, i
    <2>4. /\ bundles' \in Seq(Bundle)
          /\ DOMAIN bundles' = DOMAIN bundles \cup {k}
          /\ \A m \in DOMAIN bundles : bundles'[m] = bundles[m]
          /\ bundles'[k] = b
          /\ bundles = <<>> => k = 1
          /\ \A m \in DOMAIN bundles' :
                BundleTxs(m)' = IF m = k THEN Range(b.txs) ELSE BundleTxs(m)
          /\ BundlesDisjoint'
      BY <1>15, <2>2, <2>3, AddBundle, ZenonT(60) DEF b
    <2> HIDE DEF k
    <2>5. ShapeInv'
      BY <1>1, <1>2, <1>5, <2>4, ZenonT(60) DEF BuilderInv, ShapeInv
    <2>6. ClaimInv'
      <3>1. /\ TxsOf(i) \subseteq claimed
            /\ \A n \in DOMAIN remaining : remaining[n] \notin TxsOf(i)
        BY <1>2, ZenonT(60) DEF BuilderInv, ClaimInv, i
      <3>2. \A m \in DOMAIN bundles' : BundleTxs(m)' \subseteq claimed
        BY <2>2, <2>4, <3>1, ZenonT(60) DEF BuilderInv, ClaimInv
      <3>3. \A m \in DOMAIN bundles', n \in DOMAIN winning' :
               BundleTxs(m)' \cap TxsOf(winning[n])' = {}
        BY <1>11, <2>2, <2>4
      <3>4. \A m \in DOMAIN bundles', n \in DOMAIN remaining :
               remaining[n] \notin BundleTxs(m)'
        BY <2>2, <2>4, <3>1 DEF BuilderInv, ClaimInv
      <3> QED
        <4>1. /\ \A m \in DOMAIN remaining' : remaining'[m] \in claimed'
              /\ \A m, n \in DOMAIN remaining' :
                    remaining'[m] = remaining'[n] => m = n
          BY <1>1, ZenonT(60) DEF BuilderInv, ClaimInv
        <4> QED
          BY <1>1, <1>11, <3>2, <3>3, <3>4, <4>1, ZenonT(60) DEF ClaimInv
    <2>7. DecidedInv'
      BY <1>1, <1>3, <1>5, <1>8, <1>12, <1>13, <2>1, <2>2, <2>4 DEF DecidedInv
    <2>8. TopBidFirst'
      <3>1. bids[i].kind = "top" => bundles = <<>>
        BY <1>2 DEF BuilderInv, TopInv, i
      <3> QED
        BY <1>3, <1>5, <1>12, <2>2, <2>4, <3>1 DEF BuilderInv, TopBidFirst
    <2> QED
      BY <1>7, <1>9, <1>10, <2>4, <2>5, <2>6, <2>7, <2>8 DEF BuilderInv
  <1> QED
    BY <1>2, <1>14, <1>15, ZenonT(60) DEF SelectBid, Reject

\* Steps that only move the build to its next phase.
LEMMA PhaseStep ==
  ASSUME BuilderInv, OrderDone \/ Finish \/ UNCHANGED vars
  PROVE  BuilderInv'
  <1>1. UNCHANGED <<bids, mempool, looked, queue, claimed, winning, remaining,
                    bundles>>
    BY DEF OrderDone, Finish, vars, inputs, orderVars, selectVars
  <1> HIDE DEF Range, Listed
  <1>2. Listed' = Listed
    BY <1>1 DEF Listed
  <1>3. ShapeInv'
    <2>1. phase' \in Phases
      BY DEF OrderDone, Finish, vars, Phases, BuilderInv, ShapeInv
    <2> QED
      BY <1>1, <1>2, <2>1 DEF BuilderInv, ShapeInv
  <1>4. WinningInv' /\ TopInv' /\ TopBidFirst' /\ BundlesDisjoint'
    BY <1>1, <1>2, ZenonT(60) DEF BuilderInv, WinningInv, TopInv, TopBidFirst, BundlesDisjoint
  <1>5. ClaimInv'
    <2>1. ClaimInv
      BY DEF BuilderInv
    <2> QED
      BY <1>1, <2>1, ZenonT(60) DEF ClaimInv, TxsOf, BundleTxs
  <1>6. PhaseInv' /\ DecidedInv'
    BY <1>1, <1>2, ZenonT(60) DEF BuilderInv, PhaseInv, DecidedInv, OrderDone, Finish, vars
  <1> QED
    BY <1>3, <1>4, <1>5, <1>6 DEF BuilderInv

-----------------------------------------------------------------------------
(* Types.                                                                  *)

\* The arguments of Build do not change, and only selectTransactions adds to
\* the block.
LEMMA Fixed ==
  ASSUME [Next]_vars
  PROVE  /\ UNCHANGED <<mempool, limits, initial>>
         /\ SelectBid \/ SelectTx \/ UNCHANGED <<bundles, used>>
  <1> USE DEF inputs, orderVars, selectVars
  <1>1. ASSUME NEW i, NEW kind, NEW txs,
               PlaceBid(i, kind, txs) \/ OldBid(i, kind, txs)
        PROVE  UNCHANGED <<mempool, limits, initial, bundles, used>>
    BY <1>1 DEF PlaceBid, OldBid
  <1>2. CASE StartOrder
    BY <1>2, ZenonT(60) DEF StartOrder
  <1>3. ASSUME NEW i, ConsiderBid(i)
        PROVE  UNCHANGED <<mempool, limits, initial, bundles, used>>
    BY <1>3, ZenonT(60) DEF ConsiderBid
  <1>4. CASE ConsiderMempoolTx
    BY <1>4, ZenonT(60) DEF ConsiderMempoolTx
  <1>5. CASE SelectBid
    BY <1>5, ZenonT(60) DEF SelectBid
  <1>6. CASE SelectTx
    BY <1>6, ZenonT(60) DEF SelectTx
  <1>7. CASE OrderDone \/ Finish \/ Returned \/ UNCHANGED vars
    BY <1>7, ZenonT(60) DEF OrderDone, Finish, Returned, vars
  <1> QED
    BY <1>1, <1>2, <1>3, <1>4, <1>5, <1>6, <1>7, ZenonT(60) DEF Next

\* The state has its types at the start.
LEMMA InitTypes == Init => TypeOK
  <1> SUFFICES ASSUME Init PROVE TypeOK
    OBVIOUS
  <1>1. BuilderInv
    BY InitBuilder
  <1>2. /\ limits \in [bytes: Int, gas: Int] /\ looked \in 0..Len(mempool)
        /\ balances \in [Senders -> Nat] /\ initial \in [Senders -> Nat]
    BY <1>1, BuilderAssumption DEF Init, BuilderInv, ShapeInv
  <1>3. used \in [bytes: Int, gas: Int]
    BY DEF Init
  <1>4. queue \in SUBSET BidIds /\ claimed \in SUBSET Txs /\ won \in Seq(BidIds)
    BY DEF Init
  <1> QED
    BY <1>1, <1>2, <1>3, <1>4, ZenonT(60) DEF TypeOK, BuilderInv, ShapeInv

-----------------------------------------------------------------------------
(* The size of the block.                                                  *)

\* The bundles that SelectBid and SelectTx add.
LEMMA Selected ==
  ASSUME BuilderInv, SelectBid \/ SelectTx
  PROVE  \/ UNCHANGED <<bundles, used>>
         \/ \E b \in Bundle : /\ Fits(b.txs) /\ used' = With(b.txs)
                              /\ bundles' = Append(bundles, b)
  <1>1. CASE SelectBid
    <2> DEFINE i == Head(winning)
    <2>1. winning # <<>> /\ winning \in Seq(BidIds)
      BY <1>1, ZenonT(60) DEF SelectBid, BuilderInv, ShapeInv
    <2>2. i \in Listed /\ i \in BidIds
      BY <2>1, TailIndices DEF BuilderInv, WinningInv, ShapeInv
    <2>3. bids[i].txs \in Seq(Txs)
      BY <2>2, ZenonT(60) DEF BuilderInv, ShapeInv, Bid
    <2>4. [bid |-> i, txs |-> bids[i].txs] \in Bundle
      BY <2>2, <2>3, ZenonT(60) DEF Bundle
    <2>5. \/ UNCHANGED <<bundles, used>>
          \/ /\ Fits(bids[i].txs) /\ used' = With(bids[i].txs)
             /\ bundles' = Append(bundles, [bid |-> i, txs |-> bids[i].txs])
      BY <1>1, ZenonT(60) DEF SelectBid
    <2>6. [bid |-> i, txs |-> bids[i].txs].txs = bids[i].txs
      OBVIOUS
    <2> HIDE DEF i
    <2> QED
      BY <2>4, <2>5, <2>6, ZenonT(60)
  <1>2. CASE SelectTx
    <2> DEFINE t == Head(remaining)
    <2>1. remaining # <<>> /\ remaining \in Seq(Txs)
      BY <1>2, ZenonT(60) DEF SelectTx, BuilderInv, ShapeInv
    <2>2. t \in Txs
      BY <2>1, TailIndices, ZenonT(60)
    <2>3. [bid |-> NULL, txs |-> <<t>>] \in Bundle
      BY <2>2 DEF Bundle
    <2>4. \/ UNCHANGED <<bundles, used>>
          \/ /\ Fits(<<t>>) /\ used' = With(<<t>>)
             /\ bundles' = Append(bundles, [bid |-> NULL, txs |-> <<t>>])
      BY <1>2, ZenonT(60) DEF SelectTx
    <2>5. [bid |-> NULL, txs |-> <<t>>].txs = <<t>>
      BY ZenonT(60)
    <2> HIDE DEF t
    <2> QED
      BY <2>3, <2>4, <2>5, ZenonT(60)
  <1> QED
    BY <1>1, <1>2

-----------------------------------------------------------------------------
(* The payment that is announced.                                          *)

\* A step changes the bids by an insertion, the evaluation of the old ones, or
\* the state of one of them.
LEMMA BidChanges ==
  ASSUME BuilderInv, [Next]_vars
  PROVE  \/ phase = "bidding"
         \/ UNCHANGED bids
         \/ \E i \in Listed, st \in {"accepted", "rejected"} :
              bids' = [bids EXCEPT ![i].state = st]
  <1> USE DEF inputs, orderVars, selectVars
  <1>1. ASSUME NEW i, NEW kind, NEW txs,
               PlaceBid(i, kind, txs) \/ OldBid(i, kind, txs)
        PROVE  phase = "bidding"
    BY <1>1, ZenonT(60) DEF PlaceBid, OldBid
  <1>2. CASE StartOrder
    BY <1>2, ZenonT(60) DEF StartOrder
  <1>3. ASSUME NEW i \in queue, ConsiderBid(i)
        PROVE  /\ i \in Listed
               /\ UNCHANGED bids \/ bids' = [bids EXCEPT ![i].state = "rejected"]
    <2>1. i \in Listed
      BY DEF BuilderInv, WinningInv
    <2> QED
      BY <1>3, <2>1, ZenonT(60) DEF ConsiderBid, Reject
  <1>4. CASE ConsiderMempoolTx
    BY <1>4 DEF ConsiderMempoolTx
  <1>5. CASE SelectBid
    <2>1. winning # <<>> /\ winning \in Seq(BidIds)
      BY <1>5, ZenonT(60) DEF SelectBid, BuilderInv, ShapeInv
    <2>2. Head(winning) \in Listed
      BY <2>1, TailIndices DEF BuilderInv, WinningInv
    <2>3. \/ bids' = [bids EXCEPT ![Head(winning)].state = "accepted"]
          \/ bids' = [bids EXCEPT ![Head(winning)].state = "rejected"]
      BY <1>5 DEF SelectBid, Reject
    <2> QED
      BY <2>2, <2>3, ZenonT(60)
  <1>6. CASE SelectTx
    BY <1>6, ZenonT(60) DEF SelectTx
  <1>7. CASE OrderDone \/ Finish \/ Returned \/ UNCHANGED vars
    BY <1>7 DEF OrderDone, Finish, Returned, vars
  <1> QED
    BY <1>1, <1>2, <1>3, <1>4, <1>5, <1>6, <1>7, ZenonT(60) DEF Next

\* After the bidding the bids are the same but for their states.
SameBids ==
  /\ Listed' = Listed
  /\ \A j \in Listed : /\ bids'[j] \in Bid
                       /\ bids'[j].kind = bids[j].kind
                       /\ bids'[j].txs = bids[j].txs
                       /\ bids'[j].priority = bids[j].priority
                       /\ bids'[j].validator = bids[j].validator
                       /\ bids'[j].payments = bids[j].payments

\* So it is for every step after the bidding.
LEMMA BidsStay ==
  ASSUME BuilderInv, [Next]_vars, phase # "bidding"
  PROVE  SameBids
  <1>1. CASE UNCHANGED bids
    BY <1>1 DEF SameBids, BuilderInv, ShapeInv
  <1>2. ASSUME NEW i \in Listed, NEW st \in {"accepted", "rejected"},
               bids' = [bids EXCEPT ![i].state = st]
        PROVE  SameBids
    <2> HIDE DEF Listed
    <2> QED
      BY <1>2, SetState, ZenonT(60) DEF SameBids
  <1> QED
    BY <1>1, <1>2, BidChanges, ZenonT(60)

\* Nothing is evaluated at the start.
LEMMA InitEvaluated == Init => EvaluatedInv
  <1> SUFFICES ASSUME Init PROVE EvaluatedInv
    OBVIOUS
  <1>1. Listed = {}
    BY DEF Init
  <1> QED
    BY <1>1, ZenonT(60) DEF EvaluatedInv

-----------------------------------------------------------------------------
(* The order of the bids.                                                  *)

\* What is ahead of bid i when the winning bids are w and the bids bs.
Earlier(bs, j, i) == \/ bs[j].priority > bs[i].priority
                     \/ bs[j].priority = bs[i].priority /\ j < i
AheadIn(w, bs, i) == {j \in Range(w) : Earlier(bs, j, i)}
PaidIn(a, w, bs) == Sum([n \in DOMAIN w |-> PaidBy(a, bs[w[n]].payments)])
PaidAheadIn(a, w, bs, i) ==
  Sum([n \in DOMAIN w |-> IF w[n] \in AheadIn(w, bs, i)
                          THEN PaidBy(a, bs[w[n]].payments) ELSE 0])

\* The bids bs have types, and those of w are among them.
Typed(w, bs) ==
  /\ w \in Seq(BidIds)
  /\ \A j \in DOMAIN bs : bs[j] \in Bid
  /\ \A n \in DOMAIN w : w[n] \in DOMAIN bs

\* When all of w is ahead of bid i, all that w pays is paid ahead of it.
LEMMA AllAhead ==
  ASSUME NEW w, NEW bs, NEW i, \A n \in DOMAIN w : Earlier(bs, w[n], i)
  PROVE  /\ AheadIn(w, bs, i) = Range(w)
         /\ \A a : PaidAheadIn(a, w, bs, i) = PaidIn(a, w, bs)
  <1>1. AheadIn(w, bs, i) = Range(w)
    BY DEF AheadIn
  <1>2. \A n \in DOMAIN w : w[n] \in Range(w)
    BY ZenonT(60)
  <1>3. ASSUME NEW a
        PROVE  PaidAheadIn(a, w, bs, i) = PaidIn(a, w, bs)
    <2>1. [n \in DOMAIN w |-> IF w[n] \in AheadIn(w, bs, i)
                              THEN PaidBy(a, bs[w[n]].payments) ELSE 0]
            = [n \in DOMAIN w |-> PaidBy(a, bs[w[n]].payments)]
      <3> HIDE DEF Range
      <3> QED
        BY <1>1, <1>2, ZenonT(60)
    <2> QED
      BY <2>1, ZenonT(60) DEF PaidAheadIn, PaidIn
  <1> QED
    BY <1>1, <1>3, ZenonT(60)

\* The operators of the specification are these.
LEMMA OrderOperators ==
  /\ \A i, j : Before(j, i) <=> Earlier(bids, j, i)
  /\ \A i : Ahead(i) = AheadIn(won, bids, i)
  /\ \A a : PaidByWinners(a) = PaidIn(a, won, bids)
  /\ \A a, i : PaidAhead(a, i) = PaidAheadIn(a, won, bids, i)
  BY ZenonT(60) DEF Before, Earlier, Ahead, AheadIn, PaidByWinners, PaidIn, PaidAhead, PaidAheadIn

\* What decides whether bid i wins, in GreedyByPriority.
MayWin(i) ==
  /\ bids[i].kind = "top" => Ahead(i) = {}
  /\ \A j \in Ahead(i) : Range(bids[i].txs) \cap Range(bids[j].txs) = {}
  /\ \A a \in Senders : PaidAhead(a, i) + PaidBy(a, bids[i].payments) <= initial[a]

\* The winning bids are listed bids.
LEMMA WonTyped ==
  ASSUME BuilderInv, TypeOK, OrderInv
  PROVE  Typed(won, bids)
  BY ZenonT(60) DEF BuilderInv, ShapeInv, TypeOK, OrderInv, Typed

\* As long as the winning bids stay, and the bids but for their states, what
\* is ahead of a bid, and whether it may win, stays.
LEMMA OrderStays ==
  ASSUME OrderInv, SameBids, UNCHANGED <<won, initial>>
  PROVE  /\ \A i, j \in Listed : Before(i, j)' <=> Before(i, j)
         /\ \A a : PaidByWinners(a)' = PaidByWinners(a)
         /\ \A i \in Listed : MayWin(i)' <=> MayWin(i)
  <1>0. \A n \in DOMAIN won : won[n] \in Listed
    BY ZenonT(60) DEF OrderInv
  <1>1. \A i, j \in Listed : Before(i, j)' <=> Before(i, j)
    BY ZenonT(60) DEF Before, SameBids
  <1>2. \A j \in Listed : /\ bids'[j].payments = bids[j].payments
                          /\ bids'[j].kind = bids[j].kind
                          /\ bids'[j].txs = bids[j].txs
                          /\ bids'[j].priority = bids[j].priority
    BY ZenonT(60) DEF SameBids
  <1> HIDE DEF Listed
  <1>3. ASSUME NEW a
        PROVE  PaidByWinners(a)' = PaidByWinners(a)
    <2>1. [n \in DOMAIN won |-> PaidBy(a, bids'[won[n]].payments)]
            = [n \in DOMAIN won |-> PaidBy(a, bids[won[n]].payments)]
      BY <1>0, <1>2, ZenonT(60)
    <2>2. PaidByWinners(a)' =
            Sum([n \in DOMAIN won |-> PaidBy(a, bids'[won[n]].payments)])
      BY DEF PaidByWinners, PaidBy
    <2> QED
      BY <2>1, <2>2, ZenonT(60) DEF PaidByWinners
  <1>4. ASSUME NEW i \in Listed
        PROVE  MayWin(i)' <=> MayWin(i)
    <2>1. Ahead(i)' = Ahead(i)
      BY <1>0, <1>2, ZenonT(60) DEF Ahead
    <2>2. ASSUME NEW a
          PROVE  PaidAhead(a, i)' = PaidAhead(a, i)
      <3>1. [n \in DOMAIN won |-> IF won[n] \in Ahead(i)
                                  THEN PaidBy(a, bids'[won[n]].payments) ELSE 0]
              = [n \in DOMAIN won |-> IF won[n] \in Ahead(i)
                                      THEN PaidBy(a, bids[won[n]].payments) ELSE 0]
        BY <1>0, <1>2, ZenonT(60)
      <3>2. PaidAhead(a, i)' =
              Sum([n \in DOMAIN won |-> IF won[n] \in Ahead(i)
                                        THEN PaidBy(a, bids'[won[n]].payments) ELSE 0])
        BY <2>1, ZenonT(60) DEF PaidAhead, PaidBy
      <3> QED
        BY <3>1, <3>2, ZenonT(60) DEF PaidAhead
    <2>3. \A j \in Ahead(i) : j \in Listed
      BY <1>0, ZenonT(60) DEF Ahead
    <2>4. \A a : /\ PaidBy(a, bids[i].payments)' = PaidBy(a, bids[i].payments)
                 /\ (PaidAhead(a, i) + PaidBy(a, bids[i].payments) <= initial[a])'
                      <=> PaidAhead(a, i) + PaidBy(a, bids[i].payments) <= initial[a]
      <3>1. \A a : PaidBy(a, bids[i].payments)' = PaidBy(a, bids'[i].payments)
        BY ZenonT(60) DEF PaidBy
      <3>2. \A a : PaidBy(a, bids'[i].payments) = PaidBy(a, bids[i].payments)
        BY <1>2, ZenonT(60)
      <3> QED
        BY <2>2, <3>1, <3>2, ZenonT(60)
    <2>5. \A j \in Ahead(i) : bids'[j].txs = bids[j].txs
      BY <1>2, <2>3, ZenonT(60)
    <2>6. bids'[i].kind = bids[i].kind /\ bids'[i].txs = bids[i].txs
      BY <1>2, ZenonT(60)
    <2>7. (bids[i].kind = "top" => Ahead(i) = {})'
            <=> (bids[i].kind = "top" => Ahead(i) = {})
      BY <2>1, <2>6
    <2>8. (\A j \in Ahead(i) : Range(bids[i].txs) \cap Range(bids[j].txs) = {})'
            <=> \A j \in Ahead(i) : Range(bids[i].txs) \cap Range(bids[j].txs) = {}
      <3>1. \A j \in Ahead(i) :
               (Range(bids[i].txs) \cap Range(bids[j].txs) = {})'
                 <=> Range(bids[i].txs) \cap Range(bids[j].txs) = {}
        <4> SUFFICES ASSUME NEW j \in Ahead(i)
                     PROVE  (Range(bids[i].txs) \cap Range(bids[j].txs) = {})'
                              <=> Range(bids[i].txs) \cap Range(bids[j].txs) = {}
          BY ZenonT(60)
        <4>1. bids'[i].txs = bids[i].txs /\ bids'[j].txs = bids[j].txs
          BY <2>5, <2>6
        <4> QED
          BY <4>1
      <3> QED
        BY <2>1, <3>1, ZenonT(60)
    <2>9. (\A a \in Senders :
              PaidAhead(a, i) + PaidBy(a, bids[i].payments) <= initial[a])'
            <=> \A a \in Senders :
                  PaidAhead(a, i) + PaidBy(a, bids[i].payments) <= initial[a]
      BY <2>4, ZenonT(60)
    <2> QED
      BY <2>7, <2>8, <2>9, ZenonT(60) DEF MayWin
  <1> QED
    BY <1>1, <1>3, <1>4

\* All winning bids are ahead of the bid that is considered next, and that bid
\* is not ahead of any that was considered.
LEMMA NextBid ==
  ASSUME BuilderInv, TypeOK, OrderInv, NEW i \in queue
  PROVE  /\ Ahead(i) = Range(won)
         /\ \A a : PaidAhead(a, i) = PaidByWinners(a)
         /\ \A k \in (Listed \ queue) \cup {i} : ~ Earlier(bids, i, k)
  <1>1. i \in Listed /\ \A n \in DOMAIN won : won[n] \in Listed \ queue
    BY ZenonT(60) DEF BuilderInv, WinningInv, OrderInv
  <1>2. \A k \in Listed \ queue : Earlier(bids, k, i)
    BY OrderOperators, ZenonT(60) DEF OrderInv
  <1>3. \A n \in DOMAIN won : Earlier(bids, won[n], i)
    BY <1>1, <1>2
  <1>4. /\ AheadIn(won, bids, i) = Range(won)
        /\ \A a : PaidAheadIn(a, won, bids, i) = PaidIn(a, won, bids)
    <2> HIDE DEF Range
    <2> QED
      BY <1>3, AllAhead, ZenonT(60)
  <1>5. \A j \in Listed : j \in Int /\ bids[j].priority \in Int
    <2> SUFFICES ASSUME NEW j \in Listed PROVE j \in Int /\ bids[j].priority \in Int
      BY ZenonT(60)
    <2>1. j \in BidIds /\ bids[j] \in Bid
      BY ZenonT(60) DEF TypeOK
    <2>2. j \in Nat
      BY <2>1, BuilderAssumption
    <2>3. bids[j].priority \in Int
      BY <2>1, ZenonT(60) DEF Bid
    <2> HIDE DEF Listed
    <2> QED
      BY <2>2, <2>3
  <1>6. \A k \in (Listed \ queue) \cup {i} : ~ Earlier(bids, i, k)
    BY <1>1, <1>2, <1>5 DEF Earlier
  <1> QED
    BY <1>4, <1>6, OrderOperators

\* A step of another part than computeOrder's loop over the bids.
OtherStep ==
  /\ SameBids
  /\ UNCHANGED <<queue, won, balances>>
  /\ phase' \in {"bidding", "failed"} <=> phase \in {"bidding", "failed"}
  /\ phase' = "order" => phase = "order" /\ winning' = winning
  /\ phase' = "order" /\ queue # {} => claimed' = claimed
  /\ phase # "bidding"

\* The steps, as the order of the bids sees them.
LEMMA StepsOfOrder ==
  ASSUME BuilderInv, [Next]_vars
  PROVE  \/ phase = "bidding" /\ UNCHANGED <<phase, queue, won, balances>>
         \/ StartOrder
         \/ \E i \in queue : ConsiderBid(i)
         \/ OtherStep
  <1> USE DEF inputs, orderVars, selectVars
  <1>1. ASSUME NEW i, NEW kind, NEW txs,
               PlaceBid(i, kind, txs) \/ OldBid(i, kind, txs)
        PROVE  phase = "bidding" /\ UNCHANGED <<phase, queue, won, balances>>
    BY <1>1, ZenonT(60) DEF PlaceBid, OldBid
  <1>2. ASSUME phase # "bidding", ConsiderMempoolTx \/ OrderDone \/ SelectBid \/ SelectTx
               \/ Finish \/ Returned \/ UNCHANGED vars
        PROVE  OtherStep
    <2>1. SameBids
      BY <1>2, BidsStay, ZenonT(60)
    <2>2. UNCHANGED <<queue, won, balances>>
      BY <1>2 DEF ConsiderMempoolTx, OrderDone, SelectBid, SelectTx, Finish, Returned, vars
    <2>3. phase' \in {"bidding", "failed"} <=> phase \in {"bidding", "failed"}
      BY <1>2, ZenonT(60) DEF ConsiderMempoolTx, OrderDone, SelectBid, SelectTx, Finish, Returned, vars
    <2>4. phase' = "order" => phase = "order" /\ winning' = winning
      BY <1>2, ZenonT(60) DEF ConsiderMempoolTx, OrderDone, SelectBid, SelectTx, Finish, Returned, vars
    <2>5. phase' = "order" /\ queue # {} => claimed' = claimed
      BY <1>2, ZenonT(60) DEF ConsiderMempoolTx, OrderDone, SelectBid, SelectTx, Finish, Returned, vars
    <2> QED
      BY <1>2, <2>1, <2>2, <2>3, <2>4, <2>5, ZenonT(60) DEF OtherStep
  <1>3. CASE phase = "bidding" /\ UNCHANGED vars
    BY <1>3, ZenonT(60) DEF vars
  <1>4. phase # "bidding" \/ ~ (ConsiderMempoolTx \/ OrderDone \/ SelectBid \/ SelectTx
                                \/ Finish \/ Returned)
    BY ZenonT(60) DEF ConsiderMempoolTx, OrderDone, SelectBid, SelectTx, Finish, Returned
  <1> QED
    BY <1>1, <1>2, <1>3, <1>4, ZenonT(60) DEF Next

-----------------------------------------------------------------------------
(* The transactions of the mempool.                                        *)

\* Nothing is claimed at first.
LEMMA InitKept == Init => KeptInv
  <1> SUFFICES ASSUME Init PROVE KeptInv
    OBVIOUS
  <1> QED
    BY DEF Init, KeptInv

\* A bid is placed, or the order is begun.
LEMMA BiddingKept ==
  ASSUME BuilderInv, KeptInv, phase = "bidding", phase' \notin {"select", "done"},
         UNCHANGED <<mempool, limits, looked, claimed, winning, remaining>>
  PROVE  KeptInv'
  <1>1. claimed = {} /\ winning = <<>> /\ remaining = <<>>
    BY DEF BuilderInv, PhaseInv
  <1> QED
    BY <1>1 DEF KeptInv

\* A bid is considered: all that is claimed is a winning bid's.
LEMMA ConsiderKept ==
  ASSUME BuilderInv, TypeOK, OrderInv, KeptInv, NEW i \in queue, ConsiderBid(i)
  PROVE  KeptInv'
  <1> USE DEF inputs, selectVars
  <1>1. /\ phase = "order" /\ phase' = "order" /\ remaining = <<>> /\ remaining' = <<>>
        /\ winning = won /\ UNCHANGED <<mempool, limits, looked>>
        /\ claimed = UNION {TxsOf(won[n]) : n \in DOMAIN won}
        /\ \A n \in DOMAIN won : won[n] \in Listed
    BY ZenonT(60) DEF ConsiderBid, OrderInv, BuilderInv, PhaseInv
  <1>2. SameBids
    <2>1. [Next]_vars
      BY DEF Next
    <2> QED
      BY <1>1, <2>1, BidsStay, ZenonT(60)
  <1>3. i \in Listed /\ i \in BidIds /\ won \in Seq(BidIds)
    BY ZenonT(60) DEF BuilderInv, WinningInv, ShapeInv, TypeOK
  <1>4. \A j \in Listed : bids'[j].txs = bids[j].txs
    BY <1>2, ZenonT(60) DEF SameBids
  <1> HIDE DEF Range, Listed
  <1>5. \A j \in Listed : TxsOf(j)' = TxsOf(j)
    BY <1>4 DEF TxsOf, Range
  <1>6. CASE UNCHANGED <<winning, won, claimed>>
    <2>1. \A t \in claimed' : Kept(t)'
      BY <1>1, <1>5, <1>6, ZenonT(60) DEF Kept
    <2> QED
      BY <1>1, <1>6, <2>1, ZenonT(60) DEF KeptInv
  <1>7. CASE /\ winning' = Append(winning, i) /\ won' = Append(won, i)
             /\ claimed' = claimed \cup Range(bids[i].txs)
    <2>1. /\ DOMAIN won' = DOMAIN won \cup {Len(won) + 1}
          /\ \A n \in DOMAIN won : won'[n] = won[n]
          /\ won'[Len(won) + 1] = i /\ winning' = won'
      BY <1>1, <1>3, <1>7, AppendIndices
    <2>2. \A t \in claimed' : \E n \in DOMAIN winning' : t \in TxsOf(winning'[n])
      BY <1>1, <1>7, <2>1 DEF TxsOf
    <2>3. \A n \in DOMAIN winning' : winning'[n] \in Listed
      BY <1>1, <1>3, <2>1, ZenonT(60)
    <2>4. \A t \in claimed' : Kept(t)'
      <3> SUFFICES ASSUME NEW t \in claimed' PROVE Kept(t)'
        BY ZenonT(60)
      <3>1. PICK n \in DOMAIN winning' : t \in TxsOf(winning'[n])
        BY <2>2, ZenonT(60)
      <3>2. TxsOf(winning'[n]) = Range(bids'[winning'[n]].txs)
        BY <1>4, <2>3, ZenonT(60) DEF TxsOf
      <3>3. (TxsOf(winning[n]))' = Range(bids'[winning'[n]].txs)
        BY DEF TxsOf, Range
      <3> QED
        BY <3>1, <3>2, <3>3, ZenonT(60) DEF Kept
    <2>5. \A n \in 1..looked : mempool[n] \in claimed'
      BY <1>7, ZenonT(60) DEF KeptInv
    <2> QED
      BY <1>1, <2>1, <2>4, <2>5, ZenonT(60) DEF KeptInv
  <1> QED
    BY <1>6, <1>7, ZenonT(60) DEF ConsiderBid

\* A transaction of the mempool is looked at.
LEMMA MempoolTxKept ==
  ASSUME BuilderInv, TypeOK, OrderInv, KeptInv, ConsiderMempoolTx
  PROVE  KeptInv'
  <1> USE DEF inputs, selectVars
  <1>0. PICK t : t = mempool[looked + 1]
    BY ZenonT(60)
  <1>1. /\ phase = "order" /\ phase' = "order" /\ looked < Len(mempool)
        /\ looked' = looked + 1 /\ looked \in Nat /\ Len(mempool) \in Nat
        /\ DOMAIN mempool = 1..Len(mempool)
        /\ UNCHANGED <<mempool, limits, winning, won, bids, bundles, used>>
    BY DEF ConsiderMempoolTx, TypeOK, BuilderInv, ShapeInv
  <1>2. looked + 1 \in DOMAIN mempool /\ t \in Range(mempool) /\ t \in Txs
    <2>1. looked + 1 \in DOMAIN mempool
      BY <1>1
    <2>2. t \in Txs
      BY <1>0, <2>1 DEF TypeOK
    <2> QED
      BY <1>0, <2>1, <2>2
  <1>3. \A n \in DOMAIN winning : winning[n] \in Listed
    BY DEF BuilderInv, WinningInv
  <1> HIDE DEF Range, Listed
  <1>4. t \in claimed' /\ claimed' \subseteq claimed \cup {t} /\ claimed \subseteq claimed'
    BY <1>0, ZenonT(60) DEF ConsiderMempoolTx, Taken
  <1>5. \A n \in 1..looked' : mempool[n] \in claimed'
    <2>1. \A n \in 1..looked' : n \in 1..looked \/ n = looked + 1
      BY <1>1
    <2> QED
      BY <1>0, <1>4, <2>1, ZenonT(60) DEF KeptInv
  <1>6. /\ \A n \in DOMAIN remaining :
             n \in DOMAIN remaining' /\ remaining'[n] = remaining[n]
        /\ \A n \in DOMAIN remaining' :
             \/ remaining'[n] = t
             \/ n \in DOMAIN remaining /\ remaining'[n] = remaining[n]
        /\ claimed' # claimed => \E n \in DOMAIN remaining' : remaining'[n] = t
    <2>1. CASE UNCHANGED <<remaining, claimed>>
      BY <2>1, ZenonT(60)
    <2>2. CASE remaining' = Append(remaining, t)
      <3>1. remaining \in Seq(Txs)
        BY ZenonT(60) DEF TypeOK
      <3>2. /\ DOMAIN remaining' = DOMAIN remaining \cup {Len(remaining) + 1}
            /\ \A n \in DOMAIN remaining : remaining'[n] = remaining[n]
            /\ remaining'[Len(remaining) + 1] = t
        BY <1>2, <2>2, <3>1, AppendIndices
      <3>3. PICK k : k = Len(remaining) + 1
        BY ZenonT(60)
      <3>4. k \in DOMAIN remaining' /\ remaining'[k] = t
        BY <3>2, <3>3, ZenonT(60)
      <3>5. \A n \in DOMAIN remaining' : n = k \/ n \in DOMAIN remaining
        BY <3>2, <3>3, ZenonT(60)
      <3>6. \A n \in DOMAIN remaining' :
              \/ remaining'[n] = t
              \/ n \in DOMAIN remaining /\ remaining'[n] = remaining[n]
        BY <3>2, <3>4, <3>5, ZenonT(60)
      <3>7. \A n \in DOMAIN remaining :
              n \in DOMAIN remaining' /\ remaining'[n] = remaining[n]
        BY <3>2
      <3>8. \E n \in DOMAIN remaining' : remaining'[n] = t
        BY <3>4, ZenonT(60)
      <3> QED
        BY <3>6, <3>7, <3>8, ZenonT(60)
    <2> QED
      BY <1>0, <2>1, <2>2, ZenonT(60) DEF ConsiderMempoolTx
  <1>7. ASSUME NEW s \in claimed \cap Decodes
        PROVE  Kept(s)'
    <2>1. Kept(s)
      BY ZenonT(60) DEF KeptInv
    <2>2. CASE \E n \in DOMAIN remaining : s = remaining[n]
      BY <1>6, <2>2, ZenonT(60) DEF Kept
    <2>3. CASE winning = <<>> /\ s \in Range(mempool) /\ ~ Fits(<<s>>)
      <3>1. Fits(<<s>>)' <=> Fits(<<s>>)
        <4>1. limits' = limits /\ used' = used
          BY <1>1, ZenonT(60)
        <4> QED
          BY <4>1, ZenonT(60) DEF Fits, With, Add, Wrap, Limit, Size, Total
      <3>2. Range(mempool)' = Range(mempool)
        BY <1>1, ZenonT(60) DEF Range
      <3> QED
        BY <1>1, <2>3, <3>1, <3>2, ZenonT(60) DEF Kept
    <2>4. /\ \A j : TxsOf(j)' = TxsOf(j)
          /\ \A n : BundleTxs(n)' = BundleTxs(n)
      BY <1>1, ZenonT(60) DEF TxsOf, BundleTxs, Range
    <2> QED
      BY <1>1, <2>1, <2>2, <2>3, <2>4, ZenonT(60) DEF Kept
  <1>8. t \in claimed \/ Kept(t)'
    BY <1>4, <1>6, ZenonT(60) DEF Kept
  <1>9. \A s \in claimed' \cap Decodes : Kept(s)'
    BY <1>4, <1>7, <1>8, ZenonT(60)
  <1>10. \A n \in DOMAIN remaining' : remaining'[n] \in Range(mempool)
    BY <1>2, <1>6, ZenonT(60) DEF KeptInv
  <1>11. Range(mempool)' = Range(mempool)
    BY <1>1, ZenonT(60) DEF Range
  <1> QED
    BY <1>1, <1>5, <1>9, <1>10, <1>11, ZenonT(60) DEF KeptInv

\* A winning bid is selected or rejected.
LEMMA SelectBidKept ==
  ASSUME BuilderInv, TypeOK, OrderInv, KeptInv, SelectBid
  PROVE  KeptInv'
  <1> USE DEF inputs, orderVars, selectVars
  <1>0. PICK i : i = Head(winning)
    BY ZenonT(60)
  <1>1. /\ phase = "select" /\ winning # <<>> /\ winning \in Seq(BidIds)
        /\ winning' = Tail(winning)
        /\ UNCHANGED <<phase, mempool, limits, looked, claimed, remaining, won>>
    BY DEF SelectBid, BuilderInv, ShapeInv
  <1>2. /\ 1 \in DOMAIN winning /\ winning[1] = i
        /\ \A n \in DOMAIN winning' :
             n + 1 \in DOMAIN winning /\ winning'[n] = winning[n + 1]
        /\ \A n \in DOMAIN winning :
             n # 1 => n - 1 \in DOMAIN winning' /\ winning'[n - 1] = winning[n]
    BY <1>0, <1>1, TailIndices, ZenonT(60)
  <1>3. /\ i \in Listed /\ i \in BidIds /\ bids[i] \in Bid
        /\ \A n \in DOMAIN winning : winning[n] \in Listed
        /\ \A n \in DOMAIN won : won[n] \in Listed
    BY <1>2, ZenonT(60) DEF BuilderInv, WinningInv, ShapeInv, OrderInv
  <1>4. SameBids
    <2>1. [Next]_vars
      BY DEF Next
    <2> QED
      BY <1>1, <2>1, BidsStay
  <1>5. \A j \in Listed : bids'[j].txs = bids[j].txs
    BY <1>4, ZenonT(60) DEF SameBids
  <1>6. /\ \A j \in Listed : j # i => bids'[j].state = bids[j].state
        /\ \/ /\ bids'[i].state = "accepted"
              /\ bundles' = Append(bundles, [bid |-> i, txs |-> bids[i].txs])
           \/ bids'[i].state = "rejected" /\ UNCHANGED bundles
    <2>1. \/ /\ bids' = [bids EXCEPT ![i].state = "accepted"]
             /\ bundles' = Append(bundles, [bid |-> i, txs |-> bids[i].txs])
          \/ bids' = [bids EXCEPT ![i].state = "rejected"] /\ UNCHANGED bundles
      BY <1>0 DEF SelectBid, Reject
    <2>2. \A st \in {"accepted", "rejected"} :
            bids' = [bids EXCEPT ![i].state = st] =>
              /\ \A j \in Listed : j # i => bids'[j] = bids[j]
              /\ bids'[i].state = st
      BY <1>3, SetState, ZenonT(60)
    <2> QED
      BY <2>1, <2>2
  <1>7. PICK m \in DOMAIN won : won[m] = i
    BY <1>2, ZenonT(60) DEF KeptInv
  <1> HIDE DEF Range, Listed
  <1>8. \A j \in Listed : TxsOf(j)' = TxsOf(j)
    BY <1>5, ZenonT(60) DEF TxsOf, Range
  <1>9. /\ \A t : (\E n \in DOMAIN bundles : t \in BundleTxs(n))
                    => (\E n \in DOMAIN bundles : t \in BundleTxs(n))'
        /\ bids'[i].state # "rejected" =>
             \A t \in TxsOf(i) : (\E n \in DOMAIN bundles : t \in BundleTxs(n))'
    <2>1. CASE bids'[i].state = "rejected" /\ UNCHANGED bundles
      BY <2>1, ZenonT(60) DEF BundleTxs, Range
    <2>2. CASE bundles' = Append(bundles, [bid |-> i, txs |-> bids[i].txs])
      <3>1. bundles \in Seq(Bundle) /\ [bid |-> i, txs |-> bids[i].txs] \in Bundle
        BY <1>3, ZenonT(60) DEF TypeOK, Bundle, Bid
      <3>2. /\ DOMAIN bundles' = DOMAIN bundles \cup {Len(bundles) + 1}
            /\ \A n \in DOMAIN bundles : bundles'[n] = bundles[n]
            /\ bundles'[Len(bundles) + 1] = [bid |-> i, txs |-> bids[i].txs]
        BY <2>2, <3>1, AppendIndices
      <3>3. \A n \in DOMAIN bundles : BundleTxs(n)' = BundleTxs(n)
        BY <3>2, ZenonT(60) DEF BundleTxs, Range
      <3>4. PICK k : k = Len(bundles) + 1
        BY ZenonT(60)
      <3>5. bundles'[k].txs = bids[i].txs /\ k \in DOMAIN bundles'
        BY <3>2, <3>4
      <3>6. BundleTxs(k)' = TxsOf(i)
        BY <3>5 DEF BundleTxs, TxsOf, Range
      <3> QED
        BY <3>2, <3>3, <3>5, <3>6, ZenonT(60)
    <2> QED
      BY <1>6, <2>1, <2>2, ZenonT(60)
  <1>10. ASSUME NEW t \in TxsOf(i)
         PROVE  Kept(t)'
    <2>1. CASE bids'[i].state = "rejected"
      <3>1. m \in DOMAIN won' /\ bids'[won'[m]].state = "rejected"
        BY <1>1, <1>7, <2>1, ZenonT(60)
      <3>2. TxsOf(won[m])' = TxsOf(i)
        BY <1>1, <1>3, <1>7, <1>8, ZenonT(60)
      <3> QED
        BY <3>1, <3>2, ZenonT(60) DEF Kept
    <2>2. CASE bids'[i].state # "rejected"
      BY <1>9, <2>2, ZenonT(60) DEF Kept
    <2> QED
      BY <2>1, <2>2, ZenonT(60)
  <1>11. ASSUME NEW t \in claimed \cap Decodes
         PROVE  Kept(t)'
    <2>1. Kept(t)
      BY ZenonT(60) DEF KeptInv
    <2>2. ASSUME NEW n \in DOMAIN winning, t \in TxsOf(winning[n])
          PROVE  Kept(t)'
      <3>1. CASE n = 1
        BY <1>2, <1>10, <2>2, <3>1, ZenonT(60)
      <3>2. CASE n # 1
        <4>1. PICK k : k = n - 1
          BY ZenonT(60)
        <4>2. k \in DOMAIN winning' /\ winning'[k] = winning[n]
          BY <1>2, <3>2, <4>1, ZenonT(60)
        <4>3. TxsOf(winning[k])' = TxsOf(winning[n])
          BY <1>3, <1>8, <4>2, ZenonT(60)
        <4> QED
          BY <2>2, <4>2, <4>3, ZenonT(60) DEF Kept
      <3> QED
        BY <3>1, <3>2, ZenonT(60)
    <2>3. CASE \E n \in DOMAIN remaining : t = remaining[n]
      BY <1>1, <2>3, ZenonT(60) DEF Kept
    <2>4. CASE \E n \in DOMAIN bundles : t \in BundleTxs(n)
      BY <1>9, <2>4, ZenonT(60) DEF Kept
    <2>5. ASSUME NEW n \in DOMAIN won, bids[won[n]].state = "rejected", t \in TxsOf(won[n])
          PROVE  Kept(t)'
      <3>1. CASE won[n] = i
        BY <1>10, <2>5, <3>1, ZenonT(60)
      <3>2. CASE won[n] # i
        <4>1. n \in DOMAIN won' /\ bids'[won'[n]].state = "rejected"
          BY <1>1, <1>3, <1>6, <2>5, <3>2, ZenonT(60)
        <4>2. TxsOf(won[n])' = TxsOf(won[n])
          BY <1>1, <1>3, <1>8, ZenonT(60)
        <4> QED
          BY <2>5, <4>1, <4>2, ZenonT(60) DEF Kept
      <3> QED
        BY <3>1, <3>2, ZenonT(60)
    <2> QED
      BY <1>1, <2>1, <2>2, <2>3, <2>4, <2>5, ZenonT(60) DEF Kept
  <1>12. \A n \in DOMAIN winning' : \E k \in DOMAIN won' : won'[k] = winning'[n]
    BY <1>1, <1>2 DEF KeptInv
  <1>13. Range(mempool)' = Range(mempool)
    BY <1>1 DEF Range
  <1> QED
    BY <1>1, <1>11, <1>12, <1>13, ZenonT(60) DEF KeptInv
==============================================================================
