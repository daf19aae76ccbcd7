------------------------- MODULE AuctionServiceProofs -------------------------
(***************************************************************************)
(* Proofs about module AuctionService, for every value of its constants.   *)
(***************************************************************************)
EXTENDS AuctionService, TLAPS

\* The provers of a leaf that names none, in the order they are tried.
USE SMTT(60), Z3T(60), SMTT(90), Z3T(90)

\* Init: no request, no row, no block.
LEMMA InitIInv == Init => IInv
  <1> SUFFICES ASSUME Init PROVE IInv
    OBVIOUS
  <1> USE ConstantsAssumption, NullAssumption
  <1>1. NoLocal \in Local
    BY DEF NoLocal, NoValidators, Local
  <1>2. TypeOK
    BY <1>1 DEF Init, NoValidators, TypeOK, Heights, PCs
  <1>3. \A p \in Procs : CallInv(p) /\ CommitInv(p) /\ ListedInv(p) /\ BuildInv(p)
    BY DEF Init, CallInv, CommitInv, ListedInv, BuildInv, Building, NoLocal
  <1>4. \A h \in Heights : RowInv(h)
    BY DEF Init, RowInv
  <1>5. ExclusiveBuild
    BY DEF Init, ExclusiveBuild, Building
  <1>6. BlockInv /\ OneBlockPerAuction /\ BlockByRecordedProposer
    BY DEF Init, BlockInv, OneBlockPerAuction, BlockByRecordedProposer
  <1> QED
    BY <1>2, <1>3, <1>4, <1>5, <1>6 DEF IInv

\* Auctions change only in that unfinished ones are opened.
OnlyOpens ==
  \A h \in Heights :
     \/ auctions'[h] = auctions[h]
     \/ /\ auctions[h] = NULL
        /\ auctions'[h] \in Auction
        /\ ~ auctions'[h].finished
        /\ auctions'[h].gen = cleanups[h]

\* A request that has ended satisfies the invariant.
LEMMA EndedInv ==
  ASSUME NEW p \in Procs, pc'[p] = "idle", call'[p] = NULL, loc'[p] = NoLocal
  PROVE  CallInv(p)' /\ CommitInv(p)' /\ ListedInv(p)' /\ ~ Building(p)'
  <1>1. ~ Building(p)' /\ CommitInv(p)'
    BY DEF Building, CommitInv
  <1>2. CallInv(p)'
    BY <1>1 DEF CallInv
  <1>3. ListedInv(p)'
    BY DEF ListedInv, NoLocal
  <1> QED
    BY <1>1, <1>2, <1>3

\* A request that a step leaves alone keeps its part of the invariant.
LEMMA OtherInv ==
  ASSUME IInv, NEW q \in Procs,
         pc'[q] = pc[q], call'[q] = call[q], loc'[q] = loc[q]
  PROVE  CallInv(q)' /\ CommitInv(q)' /\ (Building(q)' <=> Building(q))
  <1>1. CallInv(q) /\ CommitInv(q)
    BY DEF IInv
  <1>2. Building(q)' <=> Building(q)
    BY ZenonT(60) DEF Building
  <1>3. CallInv(q)'
    BY <1>1, <1>2, ZenonT(60) DEF CallInv
  <1>4. CommitInv(q)'
    BY <1>1 DEF CommitInv
  <1> QED
    BY <1>2, <1>3, <1>4

\* The bids it listed are still in the table.
LEMMA ListedKept ==
  ASSUME IInv, NEW q \in Procs, loc'[q].listed = loc[q].listed,
         \A b \in BidIds : bids[b] # NULL => bids'[b] # NULL
  PROVE  ListedInv(q)'
  <1>1. ListedInv(q) /\ loc[q].listed \subseteq BidIds
    BY DEF IInv, TypeOK, Local
  <1> QED
    BY <1>1, ZenonT(60) DEF ListedInv

\* What was claimed stays claimed while no auction changes.
LEMMA SameClaimed ==
  ASSUME NEW h, NEW a, UNCHANGED <<auctions, cleanups>>
  PROVE  WasClaimed(h, a)' <=> WasClaimed(h, a)
  BY DEF WasClaimed

\* The invariant does not speak of the chain and the registrations.
LEMMA SameInv ==
  ASSUME IInv, TypeOK', UNCHANGED <<auctions, bids, pc, call, loc, history>>
  PROVE  IInv'
  <1> USE DEF history
  <1>1. \A q \in Procs : CallInv(q)' /\ CommitInv(q)' /\ (Building(q)' <=> Building(q))
    BY OtherInv
  <1>2. \A q \in Procs : ListedInv(q)'
    BY ListedKept, ZenonT(60)
  <1>3. \A q \in Procs : BuildInv(q)'
    BY <1>1, SameClaimed, ZenonT(60) DEF IInv, BuildInv
  <1>4. \A h \in Heights : RowInv(h)'
    BY ZenonT(60) DEF IInv, RowInv
  <1>5. ExclusiveBuild'
    BY <1>1, ZenonT(60) DEF IInv, ExclusiveBuild
  <1>6. BlockInv'
    BY <1>1, SameClaimed, ZenonT(60) DEF IInv, BlockInv
  <1>7. OneBlockPerAuction' /\ BlockByRecordedProposer'
    BY ZenonT(60) DEF IInv, OneBlockPerAuction, BlockByRecordedProposer
  <1> QED
    BY <1>1, <1>2, <1>3, <1>4, <1>5, <1>6, <1>7, ZenonT(60) DEF IInv

\* An auction that was claimed stays claimed when others are opened.
LEMMA OpenKeepsClaimed ==
  ASSUME OnlyOpens, cleanups' = cleanups, NEW h \in Heights, NEW a \in Auction,
         WasClaimed(h, a)
  PROVE  WasClaimed(h, a)'
  BY NullAssumption, ZenonT(60) DEF OnlyOpens, WasClaimed

\* A step of request p that claims nothing, at most opens an auction and
\* leaves the history and the bids that exist alone keeps the invariant, if it
\* does so for p itself.
LEMMA LocalStep ==
  ASSUME IInv, TypeOK', NEW p \in Procs,
         \A q \in Procs \ {p} : /\ pc'[q] = pc[q]
                                /\ call'[q] = call[q]
                                /\ loc'[q] = loc[q],
         \A b \in BidIds : bids[b] # NULL => bids'[b] # NULL,
         OnlyOpens, UNCHANGED history,
         CallInv(p)', CommitInv(p)', ListedInv(p)', ~ Building(p)'
  PROVE  IInv'
  <1> USE DEF history
  <1>1. \A q \in Procs : CallInv(q)' /\ CommitInv(q)'
    BY OtherInv, ZenonT(60)
  <1>2. \A q \in Procs : ListedInv(q)'
    BY ListedKept, ZenonT(60)
  <1>3. \A q \in Procs : BuildInv(q)'
    <2> SUFFICES ASSUME NEW q \in Procs \ {p}, Building(q) PROVE BuildInv(q)'
      BY DEF BuildInv, Building
    <2>1. call[q].height \in Heights /\ loc[q].auction \in Auction
      BY ConstantsAssumption, ZenonT(60) DEF IInv, CallInv, BuildInv, Building, Call
    <2>2. WasClaimed(call[q].height, loc[q].auction)'
      BY <2>1, OpenKeepsClaimed, ZenonT(60) DEF IInv, BuildInv
    <2> QED
      BY <2>1, <2>2, ZenonT(60) DEF IInv, BuildInv
  <1>4. \A h \in Heights : RowInv(h)'
    BY NullAssumption, ZenonT(60) DEF IInv, RowInv, OnlyOpens
  <1>5. ExclusiveBuild'
    BY ZenonT(60) DEF IInv, ExclusiveBuild, Building
  <1>6. BlockInv'
    <2>1. \A k \in blocks : k.height \in Heights /\ k.auction \in Auction
      BY ZenonT(60) DEF IInv, TypeOK, Block
    <2>2. \A k \in blocks : WasClaimed(k.height, k.auction)'
      BY <2>1, OpenKeepsClaimed, ZenonT(60) DEF IInv, BlockInv
    <2> QED
      BY <2>2 DEF IInv, BlockInv, Building
  <1>7. OneBlockPerAuction' /\ BlockByRecordedProposer'
    BY ZenonT(60) DEF IInv, OneBlockPerAuction, BlockByRecordedProposer
  <1> QED
    BY <1>1, <1>2, <1>3, <1>4, <1>5, <1>6, <1>7, ZenonT(60) DEF IInv

\* A request that ends leaves nothing behind.
LEMMA ReturnStep ==
  ASSUME IInv, NEW p \in Procs, Return(p),
         latest' \in Heights, predicted' \in [Requested -> Validators],
         validators' \in [Validators -> PayAddrs \cup {NULL}],
         bids' \in [BidIds -> Bid \cup {NULL}],
         \A b \in BidIds : bids[b] # NULL => bids'[b] # NULL,
         UNCHANGED <<auctions, history>>
  PROVE  IInv'
  <1> USE DEF history
  <1>0. NoLocal \in Local
    BY ConstantsAssumption, ZenonT(60) DEF NoLocal, NoValidators, Local
  <1>1. TypeOK'
    BY <1>0, ZenonT(60) DEF IInv, TypeOK, Return, PCs
  <1>2. pc'[p] = "idle" /\ call'[p] = NULL /\ loc'[p] = NoLocal
    BY ZenonT(60) DEF IInv, TypeOK, Return
  <1>3. CallInv(p)' /\ CommitInv(p)' /\ ListedInv(p)' /\ ~ Building(p)'
    BY <1>2, EndedInv
  <1>4. \A q \in Procs \ {p} : /\ pc'[q] = pc[q]
                               /\ call'[q] = call[q]
                               /\ loc'[q] = loc[q]
    BY ZenonT(60) DEF IInv, TypeOK, Return
  <1> QED
    BY <1>1, <1>3, <1>4, LocalStep, ZenonT(60) DEF history, OnlyOpens

\* A request that moves on, without a claim, to a place where the invariant
\* holds of its arguments and its local variables.
LEMMA GotoStep ==
  ASSUME IInv, NEW p \in Procs, NEW to \in PCs, NEW local \in Local,
         Goto(p, to, local),
         to \notin {"idle", "order", "update", "respond"},
         call[p] # NULL, pc[p] # "idle",
         to \in {"chainV1", "upsert"} => call[p].op = "buildV1",
         to = "verify" => call[p].op # "buildV1",
         to = "insert" => call[p].op = "bid" /\ local.auction \in Auction,
         to = "commit" =>
            /\ local.auction \in Auction
            /\ ~ local.auction.finished
            /\ local.seen # NULL => local.auction = local.seen
            /\ call[p].op \in {"build", "buildV1"} =>
                  local.auction.validator = call[p].validator,
         \A b \in local.listed : bids'[b] # NULL,
         validators' \in [Validators -> PayAddrs \cup {NULL}],
         UNCHANGED <<chainVars, auctions, bids, history>>
  PROVE  IInv'
  <1> USE DEF history, chainVars
  <1>1. TypeOK'
    BY ZenonT(60) DEF IInv, TypeOK, Goto
  <1>2. pc'[p] = to /\ call'[p] = call[p] /\ loc'[p] = local
    BY ZenonT(60) DEF IInv, TypeOK, Goto
  <1>3. CallInv(p)' /\ CommitInv(p)' /\ ListedInv(p)' /\ ~ Building(p)'
    BY <1>2, ZenonT(60) DEF IInv, CallInv, CommitInv, ListedInv, Building
  <1>4. \A q \in Procs \ {p} : /\ pc'[q] = pc[q]
                               /\ call'[q] = call[q]
                               /\ loc'[q] = loc[q]
    BY DEF IInv, TypeOK, Goto
  <1> QED
    BY <1>1, <1>3, <1>4, LocalStep, ZenonT(60) DEF history, OnlyOpens

\* The chain and the registrations do not touch what the invariant is about.
LEMMA ChainStep ==
  ASSUME IInv,
         AdvanceChain \/ \E v \in Validators, a \in PayAddrs : RegisterValidator(v, a)
  PROVE  IInv'
  <1> USE DEF history, chainVars
  <1>1. TypeOK'
    <2>1. CASE AdvanceChain
      BY <2>1, ConstantsAssumption DEF AdvanceChain, IInv, TypeOK, Heights
    <2>2. CASE \E v \in Validators, a \in PayAddrs : RegisterValidator(v, a)
      BY <2>2 DEF RegisterValidator, IInv, TypeOK
    <2> QED
      BY <2>1, <2>2, ZenonT(60)
  <1>2. UNCHANGED <<auctions, bids, pc, call, loc, history>>
    BY ZenonT(60) DEF AdvanceChain, RegisterValidator
  <1> QED
    BY <1>1, <1>2, SameInv

\* Cleanup starts new generations; what was claimed before is of an earlier one.
LEMMA CleanupStep ==
  ASSUME IInv, Cleanup
  PROVE  IInv'
  <1> USE DEF chainVars
  <1>1. bids' \in [BidIds -> Bid \cup {NULL}]
        /\ \A b \in BidIds : bids[b] # NULL => bids'[b] # NULL
    BY NullAssumption, ZenonT(60) DEF Cleanup, DeleteBids, IInv, TypeOK, Bid, BidState
  <1>2. TypeOK'
    BY <1>1 DEF Cleanup, IInv, TypeOK
  <1>3. \A h \in Heights :
          /\ cleanups[h] \in Nat
          /\ \/ auctions'[h] = auctions[h] /\ cleanups'[h] = cleanups[h]
                /\ claims'[h] = claims[h]
             \/ auctions'[h] = NULL /\ cleanups'[h] = cleanups[h] + 1
                /\ claims'[h] = 0
    BY ZenonT(60) DEF Cleanup, IInv, TypeOK
  <1>4. \A h \in Heights : RowInv(h)'
    BY <1>3, ZenonT(60) DEF RowInv, IInv
  <1>5. ASSUME NEW h \in Heights, NEW a \in Auction, WasClaimed(h, a)
        PROVE  WasClaimed(h, a)'
    BY <1>3, <1>5 DEF WasClaimed, Auction
  <1>6. \A p \in Procs : CallInv(p)' /\ CommitInv(p)'
    BY ZenonT(60) DEF IInv, CallInv, CommitInv, Building, Cleanup
  <1>7. \A p \in Procs : ListedInv(p)'
    BY <1>1, ZenonT(60) DEF IInv, ListedInv, Cleanup, TypeOK, Local
  <1>8. \A p \in Procs : BuildInv(p)'
    <2> SUFFICES ASSUME NEW p \in Procs, Building(p) PROVE BuildInv(p)'
      BY ZenonT(60) DEF BuildInv, Building, Cleanup
    <2>1. call[p] \in Call /\ loc[p].auction \in Auction
      BY DEF IInv, CallInv, BuildInv, Building
    <2>2. call[p].height \in Heights
      BY <2>1, ConstantsAssumption, ZenonT(60) DEF Call
    <2> QED
      BY <1>5, <2>1, <2>2, ZenonT(60) DEF IInv, BuildInv, Cleanup
  <1>9. ExclusiveBuild'
    BY ZenonT(60) DEF IInv, ExclusiveBuild, Building, Cleanup
  <1>10. BlockInv'
    <2>1. \A k \in blocks : k.height \in Heights /\ k.auction \in Auction
      BY ZenonT(60) DEF IInv, TypeOK, Block
    <2> QED
      BY <1>5, <2>1 DEF IInv, BlockInv, Building, Cleanup
  <1>11. OneBlockPerAuction' /\ BlockByRecordedProposer'
    BY DEF IInv, OneBlockPerAuction, BlockByRecordedProposer, Cleanup
  <1> QED
    BY <1>2, <1>4, <1>6, <1>7, <1>8, <1>9, <1>10, <1>11, ZenonT(60) DEF IInv

\* The auction that verifyAuction and BuildV1 go on with.
LEMMA FindOrCreateType ==
  ASSUME IInv, NEW row \in Auction \cup {NULL}, NEW v \in Validators,
         NEW payTo \in PayAddrs
  PROVE  /\ FindOrCreate(row, v, payTo) \in Auction
         /\ row # NULL => FindOrCreate(row, v, payTo) = row
  <1>1. latest \in Nat
    BY ConstantsAssumption DEF IInv, TypeOK, Heights
  <1>2. CASE row # NULL
    BY <1>2, ZenonT(60) DEF FindOrCreate
  <1>3. CASE row = NULL
    BY <1>1, <1>3 DEF FindOrCreate, Auction
  <1> QED
    BY <1>2, <1>3, ZenonT(60)

\* A request that claims nothing.
LEMMA QuietStep ==
  ASSUME IInv, NEW p \in Procs,
         \/ Arrive(p)
         \/ Fail(p)
         \/ TakeSnapshot(p)
         \/ VerifyAuction(p)
         \/ SerializationFailure(p)
         \/ InsertBid(p)
         \/ RefuseBid(p)
         \/ AskChainV1(p)
         \/ UpsertProposer(p)
         \/ SelectAuctionV1(p)
  PROVE  IInv'
  <1> USE DEF history, chainVars
  <1>0. NoLocal \in Local /\ TypeOK /\ loc[p] \in Local
    BY ConstantsAssumption, ZenonT(60) DEF NoLocal, NoValidators, Local, IInv, TypeOK
  <1>a. pc[p] # "idle" => call[p] \in Call /\ call[p] # NULL
    BY NullAssumption DEF IInv, CallInv
  <1>b. NoLocal.listed = {}
    BY ZenonT(60) DEF NoLocal
  <1>1. CASE Arrive(p)
    <2>1. PICK c \in Call : /\ Receive(p, c)
                            /\ c.op = "bid" => c.bid \in BidIds
                            /\ c.op \in {"build", "buildV1"} =>
                                  c.validator \in Validators
      BY <1>1, ConstantsAssumption
         DEF Arrive, SearcherCalls, BuilderCalls, Call, Heights
    <2>2. TypeOK'
      BY <1>0, <2>1, ZenonT(60) DEF Receive, TypeOK, PCs
    <2>3. /\ call'[p] = c
          /\ loc'[p] = NoLocal
          /\ pc'[p] = IF c.op = "buildV1" THEN "chainV1" ELSE "begin"
      BY <1>0, <2>1, ZenonT(60) DEF Receive, TypeOK, IInv, CallInv
    <2>4. CallInv(p)' /\ CommitInv(p)' /\ ListedInv(p)' /\ ~ Building(p)'
      <3>1. ~ Building(p)' /\ CommitInv(p)'
        BY <2>3, ZenonT(60) DEF Building, CommitInv
      <3>2. CallInv(p)'
        BY <2>1, <2>3, <3>1, ZenonT(60) DEF CallInv
      <3>3. ListedInv(p)'
        <4>1. loc'[p].listed = {}
          BY <1>b, <2>3, ZenonT(60)
        <4> QED
          BY <4>1, ZenonT(60) DEF ListedInv
      <3> QED
        BY <3>1, <3>2, <3>3, ZenonT(60)
    <2>5. \A q \in Procs \ {p} : /\ pc'[q] = pc[q]
                                 /\ call'[q] = call[q]
                                 /\ loc'[q] = loc[q]
      BY <1>0, <2>1, ZenonT(60) DEF Receive, TypeOK
    <2>6. UNCHANGED <<auctions, bids, history>>
      BY <2>1 DEF Receive
    <2> QED
      BY <2>2, <2>4, <2>5, <2>6, LocalStep, ZenonT(60) DEF history, OnlyOpens
  <1>2. CASE Fail(p)
    BY <1>0, <1>2, ReturnStep, ZenonT(60) DEF Fail, TypeOK
  <1>10. CASE TakeSnapshot(p)
    <2> DEFINE h == call[p].height
               local == [loc[p] EXCEPT !.known = validators, !.seen = auctions[h],
                   !.listed = IF call[p].op = "build" THEN BidsAt(h) ELSE {}]
    <2>1. /\ Goto(p, "verify", local)
          /\ pc[p] = "begin"
          /\ call[p].op # "buildV1"
          /\ UNCHANGED <<chainVars, validators, auctions, bids, history>>
      BY <1>10 DEF TakeSnapshot
    <2>2. h \in Heights
      BY <1>a, <2>1, ConstantsAssumption DEF Call
    <2>3. local \in Local /\ \A b \in local.listed : bids[b] # NULL
      BY <1>0, <2>2, ZenonT(60) DEF TypeOK, Local, BidsAt
    <2> HIDE DEF local
    <2> QED
      BY <1>0, <1>a, <2>1, <2>3, GotoStep, ZenonT(60) DEF PCs, TypeOK
  <1>3. CASE VerifyAuction(p)
    <2> DEFINE h == call[p].height
               v == predicted[h]
               a == FindOrCreate(loc[p].seen, v, loc[p].known[v])
    <2>1. CASE Return(p)
      BY <1>0, <1>3, <2>1, ReturnStep DEF VerifyAuction, TypeOK
    <2>2. CASE ~ Return(p)
      <3> DEFINE local == [loc[p] EXCEPT !.auction = a, !.known = NoValidators]
      <3>1. /\ loc[p].known[v] # NULL
            /\ Usable(a, v)
            /\ VerifySignature(p)
            /\ Goto(p, "commit", local)
            /\ pc[p] = "verify"
            /\ UNCHANGED <<chainVars, validators, auctions, bids, history>>
        BY <1>3, <2>2, ZenonT(60) DEF VerifyAuction, Registered
      <3>2. /\ h \in Requested
            /\ v \in Validators
            /\ loc[p].known[v] \in PayAddrs
            /\ loc[p].seen \in Auction \cup {NULL}
        BY <1>0, <1>a, <3>1, ConstantsAssumption, ZenonT(60) DEF TypeOK, Call, Local
      <3>3. a \in Auction /\ (loc[p].seen # NULL => a = loc[p].seen)
        BY <3>2, FindOrCreateType, ZenonT(60)
      <3>4. /\ local \in Local
            /\ local.auction = a /\ local.seen = loc[p].seen
            /\ local.listed = loc[p].listed
        BY <1>0, <3>2, <3>3, ZenonT(60) DEF Local, NoValidators
      <3>5. \A b \in local.listed : bids[b] # NULL
        BY <3>4 DEF IInv, ListedInv
      <3>6. /\ ~ a.finished
            /\ call[p].op \in {"build", "buildV1"} =>
                  a.validator = call[p].validator
        BY <3>1, ZenonT(60) DEF Usable, VerifySignature, IInv, CallInv
      <3> HIDE DEF local, a
      <3> QED
        BY <1>0, <1>a, <3>1, <3>3, <3>4, <3>5, <3>6, GotoStep, ZenonT(60) DEF PCs, TypeOK
    <2> QED
      BY <2>1, <2>2
  <1>4. CASE SerializationFailure(p)
    <2>1. CASE Return(p)
      BY <1>0, <1>4, <2>1, ReturnStep DEF SerializationFailure, TypeOK
    <2>2. CASE Goto(p, "begin", NextTry(p))
      <3>1. NextTry(p) \in Local /\ NextTry(p).listed = {}
        BY <1>0 DEF NextTry, Local, NoLocal
      <3> QED
        BY <1>0, <1>a, <1>4, <2>2, <3>1, GotoStep, ZenonT(60)
           DEF SerializationFailure, TypeOK, PCs
    <2> QED
      BY <1>4, <2>1, <2>2, ZenonT(60) DEF SerializationFailure
  <1>5. CASE InsertBid(p)
    <2>1. /\ bids' \in [BidIds -> Bid \cup {NULL}]
          /\ \A b \in BidIds : bids[b] # NULL => bids'[b] # NULL
      <3>1. call[p].height \in Heights
        BY <1>5, <1>a, ConstantsAssumption, ZenonT(60) DEF InsertBid, Call
      <3>2. [height |-> call[p].height, state |-> "pending"] \in Bid
        BY <3>1, ZenonT(60) DEF Bid, BidState
      <3> QED
        BY <1>0, <1>5, <3>2, NullAssumption, ZenonT(60) DEF InsertBid, TypeOK
    <2> QED
      BY <1>0, <1>5, <2>1, ReturnStep DEF InsertBid, TypeOK
  <1>6. CASE RefuseBid(p)
    BY <1>0, <1>6, ReturnStep DEF RefuseBid, TypeOK
  <1>7. CASE AskChainV1(p)
    <2>1. CASE Return(p)
      BY <1>0, <1>7, <2>1, ReturnStep DEF AskChainV1, TypeOK
    <2>2. CASE Goto(p, "upsert", loc[p])
      <3>1. call[p].op = "buildV1" /\ ListedInv(p)
        BY <1>7, ZenonT(60) DEF AskChainV1, IInv, CallInv
      <3> QED
        BY <1>0, <1>a, <1>7, <2>2, <3>1, GotoStep, ZenonT(60)
           DEF AskChainV1, TypeOK, PCs, ListedInv
    <2> QED
      BY <1>7, <2>1, <2>2, ZenonT(60) DEF AskChainV1
  <1>8. CASE UpsertProposer(p)
    <2>1. call[p].op = "buildV1" /\ call[p].validator \in Validators /\ ListedInv(p)
      BY <1>8, ZenonT(60) DEF UpsertProposer, IInv, CallInv
    <2>2. validators' \in [Validators -> PayAddrs \cup {NULL}]
      BY <1>0, <1>8, <2>1, ConstantsAssumption, ZenonT(60) DEF UpsertProposer, TypeOK
    <2> QED
      BY <1>0, <1>a, <1>8, <2>1, <2>2, GotoStep, ZenonT(60)
         DEF UpsertProposer, PCs, ListedInv
  <1>9. CASE SelectAuctionV1(p)
    <2> DEFINE h == call[p].height
               v == call[p].validator
               a == FindOrCreate(auctions[h], v, StakingAddr[v])
               local == [loc[p] EXCEPT !.seen = auctions[h], !.auction = a,
                                       !.listed = BidsAt(h)]
    <2>1. CASE Return(p)
      BY <1>0, <1>9, <2>1, ReturnStep DEF SelectAuctionV1, TypeOK
    <2>2. CASE Usable(a, v) /\ Goto(p, "commit", local)
      <3>1. pc[p] = "begin" /\ call[p].op = "buildV1"
            /\ UNCHANGED <<chainVars, validators, auctions, bids, history>>
        BY <1>9 DEF SelectAuctionV1
      <3>2. h \in Heights /\ v \in Validators /\ StakingAddr[v] \in PayAddrs
        BY <1>a, <3>1, ConstantsAssumption, ZenonT(60) DEF Call, IInv, CallInv
      <3>3. a \in Auction /\ (auctions[h] # NULL => a = auctions[h])
        BY <1>0, <3>2, FindOrCreateType, ZenonT(60) DEF TypeOK
      <3>4. /\ local \in Local
            /\ local.auction = a /\ local.seen = auctions[h]
            /\ \A b \in local.listed : bids[b] # NULL
        BY <1>0, <3>2, <3>3, ZenonT(60) DEF TypeOK, Local, BidsAt
      <3>5. ~ a.finished /\ a.validator = v
        BY <2>2 DEF Usable
      <3> HIDE DEF local, a
      <3> QED
        BY <1>0, <1>a, <2>2, <3>1, <3>3, <3>4, <3>5, GotoStep, ZenonT(60) DEF PCs, TypeOK
    <2> QED
      BY <1>9, <2>1, <2>2 DEF SelectAuctionV1
  <1> QED
    BY <1>1, <1>2, <1>3, <1>4, <1>5, <1>6, <1>7, <1>8, <1>9, <1>10, ZenonT(60)

\* The row that commits is that of the transaction, in the present generation.
LEMMA StoredFacts ==
  ASSUME IInv, NEW p \in Procs, pc[p] = "commit"
  PROVE  /\ Stored(p) \in Auction /\ ~ Stored(p).finished
         /\ Stored(p).gen = cleanups[call[p].height]
         /\ Stored(p).validator = loc[p].auction.validator
         /\ Stored(p).payTo = loc[p].auction.payTo
         /\ auctions[call[p].height] # NULL =>
              Stored(p) = [loc[p].auction EXCEPT !.gen = cleanups[call[p].height]]
  <1> DEFINE h == call[p].height
             a == loc[p].auction
             c == IF CleanedUp(p) THEN latest ELSE a.created
  <1>1. /\ a \in Auction /\ ~ a.finished /\ cleanups[h] \in Nat
        /\ latest \in Heights
    BY ConstantsAssumption, ZenonT(60) DEF IInv, TypeOK, CallInv, CommitInv, Call
  <1>2. latest \in Nat /\ a.created \in Nat
    BY <1>1, ConstantsAssumption DEF Heights, Auction
  <1>3. c \in Nat /\ (auctions[h] # NULL => c = a.created)
    BY <1>2, ZenonT(60) DEF CleanedUp
  <1>4. Stored(p) = [a EXCEPT !.gen = cleanups[h], !.created = c]
    BY <1>1 DEF Stored, Auction
  <1> HIDE DEF c, a, h
  <1>5. /\ Stored(p) \in Auction /\ ~ Stored(p).finished
        /\ Stored(p).gen = cleanups[h]
        /\ Stored(p).validator = a.validator /\ Stored(p).payTo = a.payTo
    BY <1>1, <1>3, <1>4, ZenonT(60) DEF Auction
  <1>6. auctions[h] # NULL => Stored(p) = [a EXCEPT !.gen = cleanups[h]]
    <2> DEFINE r == [a EXCEPT !.gen = cleanups[h]]
    <2>1. r \in Auction /\ r.created = a.created
      BY <1>1, ZenonT(60) DEF Auction
    <2>2. Stored(p) = [r EXCEPT !.created = c]
      BY <1>4, ZenonT(60)
    <2> HIDE DEF r
    <2>3. [r EXCEPT !.created = r.created] = r
      BY <2>1 DEF Auction
    <2>4. auctions[h] # NULL => Stored(p) = r
      BY <1>3, <2>1, <2>2, <2>3, ZenonT(60)
    <2> QED
      BY <2>4 DEF r
  <1> QED
    BY <1>5, <1>6, ZenonT(60) DEF a, h

\* The transaction of Auction or Bid opens at most one auction.
LEMMA CommitAuctionStep ==
  ASSUME IInv, NEW p \in Procs, CommitAuction(p)
  PROVE  IInv'
  <1> USE DEF history, chainVars
  <1> DEFINE h == call[p].height
  <1>1. /\ TypeOK /\ pc[p] = "commit" /\ call[p] \in Call /\ h \in Heights
        /\ loc[p].auction \in Auction /\ ~ loc[p].auction.finished
        /\ cleanups[h] \in Nat /\ loc[p] \in Local
    BY ConstantsAssumption, ZenonT(60) DEF CommitAuction, IInv, TypeOK, CallInv, CommitInv, Call
  <1>2. Stored(p) \in Auction /\ ~ Stored(p).finished /\ Stored(p).gen = cleanups[h]
    BY <1>1, StoredFacts, ZenonT(60)
  <1>3. OnlyOpens /\ auctions' \in [Heights -> Auction \cup {NULL}]
    <2>1. CASE UNCHANGED auctions
      BY <1>1, <2>1, ZenonT(60) DEF OnlyOpens, TypeOK
    <2>2. CASE /\ NoConflict(p) /\ loc[p].seen = NULL
               /\ auctions' = [auctions EXCEPT ![h] = Stored(p)]
      <3> HIDE DEF h
      <3> QED
        BY <1>1, <1>2, <2>2, ZenonT(60) DEF OnlyOpens, TypeOK, NoConflict, h
    <2> QED
      BY <2>1, <2>2, ZenonT(60) DEF CommitAuction
  <1>4. NoLocal \in Local
    BY ConstantsAssumption DEF NoLocal, NoValidators, Local
  <1>5. \A q \in Procs \ {p} : /\ pc'[q] = pc[q]
                               /\ call'[q] = call[q]
                               /\ loc'[q] = loc[q]
    BY <1>1, ZenonT(60) DEF CommitAuction, Return, Goto, TypeOK
  <1>6. CASE call[p].op = "auction"
    <2>1. Return(p) /\ UNCHANGED <<chainVars, validators, bids, history>>
      BY <1>6, ZenonT(60) DEF CommitAuction
    <2>2. TypeOK'
      BY <1>1, <1>3, <1>4, <2>1, ZenonT(60) DEF TypeOK, Return, PCs
    <2>3. pc'[p] = "idle" /\ call'[p] = NULL /\ loc'[p] = NoLocal
      BY <1>1, <2>1, ZenonT(60) DEF TypeOK, Return
    <2>4. CallInv(p)' /\ CommitInv(p)' /\ ListedInv(p)' /\ ~ Building(p)'
      BY <2>3, EndedInv
    <2> QED
      BY <1>3, <1>5, <2>1, <2>2, <2>4, LocalStep, ZenonT(60)
  <1>7. CASE call[p].op = "bid"
    <2> DEFINE local == [NoLocal EXCEPT !.auction = loc[p].auction]
    <2>1. Goto(p, "insert", local) /\ UNCHANGED <<chainVars, validators, bids, history>>
      BY <1>7 DEF CommitAuction
    <2>2. local \in Local /\ local.auction \in Auction /\ local.listed = {}
      BY <1>1, <1>4, ZenonT(60) DEF Local, NoLocal
    <2> HIDE DEF local
    <2>3. TypeOK'
      BY <1>1, <1>3, <2>1, <2>2 DEF TypeOK, Goto, PCs
    <2>4. pc'[p] = "insert" /\ call'[p] = call[p] /\ loc'[p] = local
      BY <1>1, <2>1, ZenonT(60) DEF TypeOK, Goto
    <2>5. CallInv(p)' /\ CommitInv(p)' /\ ListedInv(p)' /\ ~ Building(p)'
      BY <1>1, <1>7, <2>2, <2>4, ZenonT(60)
         DEF IInv, CallInv, CommitInv, ListedInv, Building
    <2> QED
      BY <1>3, <1>5, <2>1, <2>3, <2>5, LocalStep, ZenonT(60)
  <1> QED
    BY <1>6, <1>7, ZenonT(60) DEF CommitAuction

\* What a claim writes: the auction of the snapshot, finished, on a row that
\* is not finished.
LEMMA ClaimWrites ==
  ASSUME IInv, NEW p \in Procs, CommitClaim(p)
  PROVE  LET h == call[p].height
             a == [Stored(p) EXCEPT !.finished = TRUE]
         IN /\ h \in Heights
            /\ a \in Auction /\ a.finished /\ a.gen = cleanups[h]
            /\ a.validator = call[p].validator
            /\ auctions[h] = NULL \/ (auctions[h] \in Auction /\ ~ auctions[h].finished)
            /\ auctions[h] # NULL => a = [auctions[h] EXCEPT !.finished = TRUE]
            /\ claims[h] = 0
            /\ auctions' = [auctions EXCEPT ![h] = a]
  <1> DEFINE h == call[p].height
             a == [Stored(p) EXCEPT !.finished = TRUE]
  <1>1. /\ TypeOK /\ pc[p] = "commit" /\ call[p] \in Call /\ h \in Heights
        /\ loc[p].auction \in Auction /\ ~ loc[p].auction.finished
        /\ cleanups[h] \in Nat /\ loc[p] \in Local
        /\ loc[p].seen # NULL => loc[p].auction = loc[p].seen
        /\ loc[p].auction.validator = call[p].validator
        /\ auctions[h] # NULL => auctions[h] = loc[p].seen
    BY ConstantsAssumption
       DEF CommitClaim, NoConflict, IInv, TypeOK, CallInv, CommitInv, Call
  <1>2. a \in Auction /\ a.finished /\ a.gen = cleanups[h]
        /\ a.validator = loc[p].auction.validator
    BY <1>1, StoredFacts, ZenonT(60) DEF Auction
  <1>3. RowInv(h)
    BY <1>1, ZenonT(60) DEF IInv
  <1>4. auctions[h] # NULL => a = [auctions[h] EXCEPT !.finished = TRUE]
    <2> SUFFICES ASSUME auctions[h] # NULL
                 PROVE  Stored(p) = auctions[h]
      BY ZenonT(60)
    <2>1. loc[p].auction = auctions[h] /\ auctions[h].gen = cleanups[h]
      BY <1>1, <1>3, ZenonT(60) DEF RowInv
    <2>2. Stored(p) = [loc[p].auction EXCEPT !.gen = cleanups[h]]
      BY <1>1, StoredFacts, ZenonT(60)
    <2> QED
      BY <1>1, <2>1, <2>2 DEF Auction
  <1>5. claims[h] = 0
    BY <1>1, <1>3 DEF RowInv
  <1>6. auctions' = [auctions EXCEPT ![h] = a]
    BY ZenonT(60) DEF CommitClaim
  <1> QED
    BY <1>1, <1>2, <1>4, <1>5, <1>6, ZenonT(60)

\* A claim: the auction was not finished, so nobody holds a claim on it.
LEMMA CommitClaimStep ==
  ASSUME IInv, NEW p \in Procs, CommitClaim(p)
  PROVE  IInv'
  <1> USE DEF chainVars
  <1> DEFINE h == call[p].height
             a == [Stored(p) EXCEPT !.finished = TRUE]
             local == [NoLocal EXCEPT !.auction = a, !.listed = loc[p].listed]
  <1>1. /\ h \in Heights
        /\ a \in Auction /\ a.finished /\ a.gen = cleanups[h]
        /\ a.validator = call[p].validator
        /\ auctions[h] = NULL \/ (auctions[h] \in Auction /\ ~ auctions[h].finished)
        /\ claims[h] = 0
        /\ auctions' = [auctions EXCEPT ![h] = a]
    BY ClaimWrites, ZenonT(60)
  <1>2. /\ TypeOK /\ pc[p] = "commit" /\ call[p] \in Call
        /\ loc[p] \in Local /\ call[p].op \in {"build", "buildV1"}
        /\ claims' = [claims EXCEPT ![h] = @ + 1]
        /\ Goto(p, "order", local)
        /\ UNCHANGED <<chainVars, validators, bids, cleanups, blocks>>
    BY DEF CommitClaim, IInv, TypeOK, CallInv
  <1>3. local \in Local /\ local.auction = a /\ local.listed = loc[p].listed
    BY <1>1, <1>2, ConstantsAssumption, ZenonT(60) DEF NoLocal, NoValidators, Local
  <1> HIDE DEF local, a, h
  <1>4. TypeOK'
    <2>1. auctions' \in [Heights -> Auction \cup {NULL}]
      BY <1>1, <1>2, ZenonT(60) DEF TypeOK
    <2>2. claims' \in [Heights -> Nat]
      BY <1>1, <1>2 DEF TypeOK
    <2>3. /\ pc' \in [Procs -> PCs]
          /\ call' \in [Procs -> Call \cup {NULL}]
          /\ loc' \in [Procs -> Local]
      BY <1>2, <1>3, ZenonT(60) DEF TypeOK, Goto, PCs
    <2> QED
      BY <1>2, <2>1, <2>2, <2>3, ZenonT(60) DEF TypeOK
  <1>5. pc'[p] = "order" /\ call'[p] = call[p] /\ loc'[p] = local
    BY <1>2 DEF TypeOK, Goto
  <1>6. \A q \in Procs \ {p} : /\ pc'[q] = pc[q]
                               /\ call'[q] = call[q]
                               /\ loc'[q] = loc[q]
    BY <1>2, ZenonT(60) DEF TypeOK, Goto
  <1>7. ASSUME NEW g \in Heights, NEW c \in Auction, WasClaimed(g, c)
        PROVE  WasClaimed(g, c)' /\ (g = h => c.gen # a.gen)
    BY <1>1, <1>2, <1>7, NullAssumption DEF WasClaimed, TypeOK
  <1>8. \A q \in Procs : CallInv(q)' /\ CommitInv(q)' /\ ListedInv(q)'
    <2>1. CallInv(p)' /\ CommitInv(p)' /\ ListedInv(p)'
      BY <1>2, <1>3, <1>5, ZenonT(60) DEF IInv, CallInv, CommitInv, ListedInv, Building
    <2>2. ASSUME NEW q \in Procs \ {p}
          PROVE  CallInv(q)' /\ CommitInv(q)' /\ ListedInv(q)'
      BY <1>2, <1>6, OtherInv, ListedKept, ZenonT(60)
    <2> QED
      BY <2>1, <2>2, ZenonT(60)
  <1>9. \A q \in Procs \ {p} : Building(q) => 
           /\ call[q].height \in Heights /\ loc[q].auction \in Auction
           /\ loc[q].auction.validator = call[q].validator
           /\ WasClaimed(call[q].height, loc[q].auction)
    BY ConstantsAssumption, ZenonT(60) DEF IInv, CallInv, BuildInv, Building, Call
  <1>10. \A q \in Procs : BuildInv(q)'
    <2>1. BuildInv(p)'
      <3>1. auctions'[h] = a /\ cleanups' = cleanups
        BY <1>1, <1>2, ZenonT(60) DEF TypeOK
      <3>2. a.gen \in Nat /\ a.gen <= cleanups'[h]
        BY <1>1, <3>1 DEF Auction
      <3>3. call'[p].height = h /\ loc'[p].auction = a
        BY <1>3, <1>5, ZenonT(60) DEF h
      <3> QED
        BY <1>1, <1>5, <3>1, <3>2, <3>3, ZenonT(60) DEF BuildInv, WasClaimed
    <2>2. ASSUME NEW q \in Procs \ {p} PROVE BuildInv(q)'
      BY <1>6, <1>7, <1>9, ZenonT(60) DEF BuildInv, Building
    <2> QED
      BY <2>1, <2>2, ZenonT(60)
  <1>11. \A g \in Heights : RowInv(g)'
    <2>1. ASSUME NEW g \in {h} PROVE RowInv(g)'
      <3>1. auctions'[g] = a /\ claims'[g] = 1 /\ cleanups'[g] = cleanups[h]
        BY <1>1, <1>2, <2>1 DEF TypeOK
      <3>2. a # NULL
        BY <1>1, NullAssumption, ZenonT(60)
      <3> QED
        BY <1>1, <3>1, <3>2, ZenonT(60) DEF RowInv
    <2>2. ASSUME NEW g \in Heights \ {h} PROVE RowInv(g)'
      <3>1. auctions'[g] = auctions[g] /\ claims'[g] = claims[g]
            /\ cleanups' = cleanups
        BY <1>1, <1>2, ZenonT(60) DEF TypeOK
      <3> QED
        BY <3>1, ZenonT(60) DEF RowInv, IInv
    <2> QED
      BY <1>1, <2>1, <2>2, ZenonT(60)
  <1>12. ExclusiveBuild'
    <2>1. \A q \in Procs \ {p} : Building(q) /\ call[q].height = h
                                   => loc[q].auction.gen # a.gen
      BY <1>7, <1>9, ZenonT(60)
    <2>2. call'[p].height = h /\ loc'[p].auction = a
      BY <1>3, <1>5, ZenonT(60) DEF h
    <2>3. \A q \in Procs \ {p} :
             /\ Building(q)' => Building(q)
             /\ call'[q] = call[q] /\ loc'[q] = loc[q]
      BY <1>6, ZenonT(60) DEF Building
    <2>4. ASSUME NEW q \in Procs, NEW r \in Procs, Building(q)', Building(r)',
                 call'[q].height = call'[r].height,
                 loc'[q].auction.gen = loc'[r].auction.gen
          PROVE  q = r
      <3>1. CASE q = p \/ r = p
        BY <2>1, <2>2, <2>3, <2>4, <3>1, ZenonT(60)
      <3>2. CASE q # p /\ r # p
        BY <2>3, <2>4, <3>2, ZenonT(60) DEF IInv, ExclusiveBuild
      <3> QED
        BY <3>1, <3>2, ZenonT(60)
    <2> QED
      BY <2>4, ZenonT(60) DEF ExclusiveBuild
  <1>13. BlockInv'
    <2>1. \A k \in blocks : /\ WasClaimed(k.height, k.auction)'
                            /\ k.height = h => k.auction.gen # a.gen
      BY <1>2, <1>7, ZenonT(60) DEF IInv, TypeOK, Block, BlockInv
    <2>2. ASSUME NEW k \in blocks, NEW q \in Procs, Building(q)',
                 call'[q].height = k.height
          PROVE  loc'[q].auction.gen # k.auction.gen
      <3>1. CASE q = p
        BY <1>3, <1>5, <2>1, <2>2, <3>1, ZenonT(60) DEF h
      <3>2. CASE q # p
        <4>1. Building(q) /\ call'[q] = call[q] /\ loc'[q] = loc[q]
          BY <1>6, <2>2, <3>2, ZenonT(60) DEF Building
        <4> QED
          BY <2>2, <4>1, ZenonT(60) DEF IInv, BlockInv
      <3> QED
        BY <3>1, <3>2, ZenonT(60)
    <2> QED
      BY <1>2, <2>1, <2>2, ZenonT(60) DEF BlockInv
  <1>14. OneBlockPerAuction' /\ BlockByRecordedProposer'
    BY <1>2, ZenonT(60) DEF IInv, OneBlockPerAuction, BlockByRecordedProposer
  <1> QED
    BY <1>4, <1>8, <1>10, <1>11, <1>12, <1>13, <1>14, ZenonT(60) DEF IInv

\* Between its claim and its answer a request only decides its bids.
LEMMA DecideStep ==
  ASSUME IInv, NEW p \in Procs, OrderBids(p) \/ UpdateBids(p)
  PROVE  IInv'
  <1> USE DEF history, chainVars
  <1>1. /\ TypeOK /\ loc[p] \in Local /\ ListedInv(p) /\ Building(p)
    BY ZenonT(60) DEF OrderBids, UpdateBids, IInv, TypeOK, Building
  <1>2. PICK to \in {"update", "respond"}, local \in Local :
           /\ Goto(p, to, local)
           /\ local.auction = loc[p].auction /\ local.listed = loc[p].listed
    <2>1. CASE OrderBids(p)
      <3>1. PICK acc \in SUBSET loc[p].listed :
               Goto(p, "update", [loc[p] EXCEPT !.accepted = acc])
        BY <2>1 DEF OrderBids
      <3> DEFINE local == [loc[p] EXCEPT !.accepted = acc]
      <3>2. local \in Local /\ local.auction = loc[p].auction
            /\ local.listed = loc[p].listed
        BY <1>1, ZenonT(60) DEF Local
      <3> HIDE DEF local
      <3> QED
        BY <3>1, <3>2, ZenonT(60) DEF local
    <2>2. CASE UpdateBids(p)
      BY <1>1, <2>2 DEF UpdateBids
    <2> QED
      BY <2>1, <2>2
  <1>3. UNCHANGED <<chainVars, validators, auctions, history>>
    BY ZenonT(60) DEF OrderBids, UpdateBids
  <1>4. /\ bids' \in [BidIds -> Bid \cup {NULL}]
        /\ \A b \in BidIds : bids[b] # NULL => bids'[b] # NULL
    <2>1. CASE OrderBids(p)
      BY <1>1, <2>1 DEF OrderBids, TypeOK
    <2>2. CASE UpdateBids(p)
      <3>1. bids' = Decided(p)
        BY <2>2, ZenonT(60) DEF UpdateBids
      <3>2. \A b \in BidIds : b \in loc[p].listed => bids[b] \in Bid
        BY <1>1 DEF TypeOK, ListedInv
      <3>3. ASSUME NEW b \in BidIds, b \in loc[p].listed,
                   NEW st \in BidState
            PROVE  [bids[b] EXCEPT !.state = st] \in Bid
        BY <3>2, <3>3 DEF Bid
      <3>4. \A b \in BidIds : Decided(p)[b] \in Bid \/ Decided(p)[b] = bids[b]
        BY <3>3, ZenonT(60) DEF Decided, BidState
      <3> QED
        BY <1>1, <3>1, <3>4, NullAssumption, ZenonT(60) DEF Decided, TypeOK
    <2> QED
      BY <2>1, <2>2, ZenonT(60)
  <1>5. TypeOK'
    BY <1>1, <1>2, <1>3, <1>4, ZenonT(60) DEF TypeOK, Goto, PCs
  <1>6. pc'[p] \in {"update", "respond"} /\ loc'[p] = local /\ call' = call
    BY <1>1, <1>2 DEF TypeOK, Goto
  <1>7. \A q \in Procs \ {p} : pc'[q] = pc[q] /\ loc'[q] = loc[q]
    BY <1>1, <1>2, ZenonT(60) DEF TypeOK, Goto
  <1>8. \A q \in Procs : /\ Building(q)' <=> Building(q)
                         /\ loc'[q].auction = loc[q].auction
                         /\ loc'[q].listed = loc[q].listed
                         /\ call'[q] = call[q]
    BY <1>1, <1>2, <1>6, <1>7 DEF Building
  <1>9. \A q \in Procs : CallInv(q)' /\ CommitInv(q)'
    <2>1. CallInv(p)' /\ CommitInv(p)'
      BY <1>1, <1>6, ZenonT(60) DEF IInv, CallInv, CommitInv, Building
    <2>2. ASSUME NEW q \in Procs \ {p} PROVE CallInv(q)' /\ CommitInv(q)'
      BY <1>6, <1>7, OtherInv, ZenonT(60)
    <2> QED
      BY <2>1, <2>2, ZenonT(60)
  <1>10. \A q \in Procs : ListedInv(q)'
    BY <1>4, <1>8, ListedKept, ZenonT(60)
  <1>11. \A q \in Procs : BuildInv(q)'
    BY <1>3, <1>8, SameClaimed, ZenonT(60) DEF IInv, BuildInv
  <1>12. ExclusiveBuild' /\ BlockInv'
    <2>1. ExclusiveBuild'
      <3> SUFFICES ASSUME NEW q \in Procs, NEW r \in Procs, Building(q)', Building(r)',
                          call'[q].height = call'[r].height,
                          loc'[q].auction.gen = loc'[r].auction.gen
                   PROVE  q = r
        BY ZenonT(60) DEF ExclusiveBuild
      <3>1. /\ Building(q) /\ Building(r) /\ call[q].height = call[r].height
            /\ loc[q].auction.gen = loc[r].auction.gen
        BY <1>8, ZenonT(60)
      <3> QED
        BY <3>1, ZenonT(60) DEF IInv, ExclusiveBuild
    <2>2. BlockInv'
      <3>1. \A k \in blocks : WasClaimed(k.height, k.auction)'
        BY <1>3, SameClaimed, ZenonT(60) DEF IInv, BlockInv
      <3>2. \A k \in blocks, q \in Procs :
               Building(q)' /\ call'[q].height = k.height =>
                  loc'[q].auction.gen # k.auction.gen
        <4>1. BlockInv
          BY DEF IInv
        <4>2. SUFFICES ASSUME NEW k \in blocks, NEW q \in Procs, Building(q)',
                              call'[q].height = k.height
                       PROVE  loc'[q].auction.gen # k.auction.gen
          BY ZenonT(60)
        <4>3. /\ Building(q) /\ call[q].height = k.height
              /\ loc'[q].auction.gen = loc[q].auction.gen
          BY <1>8, <4>2, ZenonT(60)
        <4> QED
          BY <4>1, <4>3, ZenonT(60) DEF BlockInv
      <3> QED
        BY <1>3, <3>1, <3>2, ZenonT(60) DEF BlockInv
    <2> QED
      BY <2>1, <2>2, ZenonT(60)
  <1>13. \A h \in Heights : RowInv(h)'
    BY <1>3, ZenonT(60) DEF IInv, RowInv
  <1>14. OneBlockPerAuction' /\ BlockByRecordedProposer'
    BY <1>3, ZenonT(60) DEF IInv, OneBlockPerAuction, BlockByRecordedProposer
  <1> QED
    BY <1>5, <1>9, <1>10, <1>11, <1>12, <1>13, <1>14, ZenonT(60) DEF IInv

\* The block takes the place of the claim of the request that ends.
LEMMA RespondStep ==
  ASSUME IInv, NEW p \in Procs, Respond(p)
  PROVE  IInv'
  <1> USE DEF chainVars
  <1> DEFINE k == [height |-> call[p].height, auction |-> loc[p].auction,
                   builder |-> call[p].validator, listed |-> loc[p].listed,
                   bids |-> loc[p].accepted]
  <1>1. /\ TypeOK /\ Building(p) /\ loc[p] \in Local /\ call[p] \in Call
        /\ call[p].validator \in Validators
        /\ loc[p].auction \in Auction
        /\ loc[p].auction.validator = call[p].validator
        /\ WasClaimed(call[p].height, loc[p].auction)
    BY ZenonT(60) DEF Respond, IInv, TypeOK, Building, CallInv, BuildInv
  <1>2. /\ Return(p) /\ blocks' = blocks \cup {k}
        /\ UNCHANGED <<chainVars, validators, auctions, bids, cleanups, claims>>
    BY ZenonT(60) DEF Respond
  <1>3. k \in Block
    BY <1>1, ConstantsAssumption, ZenonT(60) DEF Block, Call, Local
  <1>4. NoLocal \in Local
    BY ConstantsAssumption DEF NoLocal, NoValidators, Local
  <1>5. /\ k.height = call[p].height /\ k.auction = loc[p].auction
        /\ k.builder = call[p].validator
    OBVIOUS
  <1> HIDE DEF k
  <1>6. TypeOK'
    BY <1>1, <1>2, <1>3, <1>4, ZenonT(60) DEF TypeOK, Return, PCs
  <1>7. /\ pc'[p] = "idle" /\ call'[p] = NULL /\ loc'[p] = NoLocal
        /\ \A q \in Procs \ {p} : /\ pc'[q] = pc[q]
                                  /\ call'[q] = call[q]
                                  /\ loc'[q] = loc[q]
    BY <1>1, <1>2, ZenonT(60) DEF TypeOK, Return
  <1>8. \A q \in Procs : CallInv(q)' /\ CommitInv(q)' /\ ListedInv(q)' /\ BuildInv(q)'
    <2>1. CallInv(p)' /\ CommitInv(p)' /\ ListedInv(p)' /\ BuildInv(p)'
      BY <1>7, EndedInv, ZenonT(60) DEF BuildInv
    <2>2. ASSUME NEW q \in Procs \ {p}
          PROVE  CallInv(q)' /\ CommitInv(q)' /\ ListedInv(q)' /\ BuildInv(q)'
      <3>1. CallInv(q)' /\ CommitInv(q)' /\ (Building(q)' <=> Building(q))
        BY <1>7, OtherInv, ZenonT(60)
      <3>2. ListedInv(q)'
        BY <1>2, <1>7, ListedKept, ZenonT(60)
      <3>3. BuildInv(q)'
        BY <1>2, <1>7, <3>1, SameClaimed, ZenonT(60) DEF IInv, BuildInv
      <3> QED
        BY <3>1, <3>2, <3>3, ZenonT(60)
    <2> QED
      BY <2>1, <2>2, ZenonT(60)
  <1>9. \A h \in Heights : RowInv(h)'
    BY <1>2, ZenonT(60) DEF IInv, RowInv
  <1>10. ExclusiveBuild'
    BY <1>7, ZenonT(60) DEF IInv, ExclusiveBuild, Building
  <1>11. BlockInv'
    <2>1. \A q \in Procs : Building(q)' => q # p /\ Building(q)
      BY <1>7, ZenonT(60) DEF Building
    <2>2. \A l \in blocks' : WasClaimed(l.height, l.auction)'
      <3>1. \A l \in blocks' : WasClaimed(l.height, l.auction)
        BY <1>1, <1>2, <1>5, ZenonT(60) DEF IInv, BlockInv
      <3> QED
        BY <1>2, <3>1, SameClaimed
    <2>3. ASSUME NEW q \in Procs, Building(q)', NEW l \in blocks',
                 call'[q].height = l.height
          PROVE  loc'[q].auction.gen # l.auction.gen
      <3>1. q # p /\ Building(q) /\ call'[q] = call[q] /\ loc'[q] = loc[q]
        BY <1>7, <2>1, <2>3, ZenonT(60)
      <3>2. CASE l \in blocks
        BY <2>3, <3>1, <3>2, ZenonT(60) DEF IInv, BlockInv
      <3>3. CASE l = k
        BY <1>1, <1>5, <2>3, <3>1, <3>3, ZenonT(60) DEF IInv, ExclusiveBuild
      <3> QED
        BY <1>2, <3>2, <3>3
    <2> QED
      BY <2>2, <2>3, ZenonT(60) DEF BlockInv
  <1>12. OneBlockPerAuction'
    <2>1. \A l \in blocks : l.height = k.height => l.auction.gen # k.auction.gen
      BY <1>1, <1>5, ZenonT(60) DEF IInv, BlockInv
    <2>2. OneBlockPerAuction
      BY DEF IInv
    <2> QED
      BY <1>2, <2>1, <2>2, ZenonT(60) DEF OneBlockPerAuction
  <1>13. BlockByRecordedProposer'
    BY <1>1, <1>2, <1>5, ZenonT(60) DEF IInv, BlockByRecordedProposer
  <1> QED
    BY <1>6, <1>8, <1>9, <1>10, <1>11, <1>12, <1>13, ZenonT(60) DEF IInv

\* Every step keeps the invariant.
LEMMA NextIInv == IInv /\ [Next]_vars => IInv'
  <1> SUFFICES ASSUME IInv, [Next]_vars PROVE IInv'
    OBVIOUS
  <1>1. CASE Environment
    BY <1>1, ChainStep, CleanupStep, ZenonT(60) DEF Environment
  <1>2. CASE \E p \in Procs : Arrive(p) \/ Serve(p) \/ Fail(p)
    BY <1>2, QuietStep, CommitAuctionStep, CommitClaimStep, DecideStep,
       RespondStep DEF Serve
  <1>3. CASE UNCHANGED vars
    <2>1. TypeOK'
      BY <1>3 DEF vars, IInv, TypeOK
    <2> QED
      BY <1>3, <2>1, SameInv, ZenonT(60) DEF vars, history
  <1> QED
    BY <1>1, <1>2, <1>3 DEF Next

\* The inductive invariant holds throughout.
THEOREM Invariance == Spec => []IInv
  BY InitIInv, NextIInv, PTL DEF Spec

\* The store, the requests and the history have their types.
THEOREM TypeCorrect == Spec => []TypeOK
  <1>1. IInv => TypeOK
    BY DEF IInv
  <1> QED
    BY <1>1, Invariance, PTL

\* Build and BuildV1 claim an auction at most once, for any number of
\* concurrent requests, retries, crashes and clean-ups.
THEOREM ClaimsExclusive == Spec => []OneClaimPerAuction
  <1>1. IInv => OneClaimPerAuction
    BY DEF IInv, TypeOK, RowInv, OneClaimPerAuction
  <1> QED
    BY <1>1, Invariance, PTL

\* An auction yields at most one block.
THEOREM BlocksUnique == Spec => []OneBlockPerAuction
  <1>1. IInv => OneBlockPerAuction
    BY DEF IInv
  <1> QED
    BY <1>1, Invariance, PTL

\* A block goes to the validator its auction was opened for.
THEOREM ProposerRecorded == Spec => []BlockByRecordedProposer
  <1>1. IInv => BlockByRecordedProposer
    BY DEF IInv
  <1> QED
    BY <1>1, Invariance, PTL

\* The steps that touch the auctions.
LEMMA AuctionSteps ==
  ASSUME IInv, Next
  PROVE  \/ UNCHANGED auctions
         \/ Cleanup
         \/ \E p \in Procs : CommitAuction(p) \/ CommitClaim(p)
  BY ZenonT(60) DEF Next, Environment, AdvanceChain, RegisterValidator, Arrive, Receive,
         Fail, Serve, TakeSnapshot, VerifyAuction, SerializationFailure, InsertBid, RefuseBid,
         AskChainV1, UpsertProposer, SelectAuctionV1, OrderBids, UpdateBids,
         Respond

\* finished_at is the only field of an auction that ever changes, it changes
\* once, and only an expired auction is removed.
THEOREM AuctionsImmutable == Spec => AuctionImmutable
  <1> DEFINE Keeps == \A h \in Heights : auctions[h] # NULL =>
        \/ auctions'[h] = auctions[h]
        \/ auctions'[h] = [auctions[h] EXCEPT !.finished = TRUE]
        \/ auctions'[h] = NULL /\ latest >= auctions[h].created + Retention
  <1>1. IInv /\ [Next]_vars => [Keeps]_vars
    <2> SUFFICES ASSUME IInv, Next PROVE Keeps
      OBVIOUS
    <2>1. CASE UNCHANGED auctions
      BY <2>1
    <2>2. CASE Cleanup
      BY <2>2 DEF Cleanup, Expired
    <2>3. ASSUME NEW p \in Procs, CommitAuction(p) PROVE Keeps
      <3>1. CASE UNCHANGED auctions
        BY <3>1
      <3>2. CASE auctions[call[p].height] = NULL
                 /\ auctions' = [auctions EXCEPT ![call[p].height] = Stored(p)]
        BY <3>2 DEF IInv, TypeOK
      <3> QED
        BY <2>3, <3>1, <3>2, ZenonT(60) DEF CommitAuction, NoConflict
    <2>4. ASSUME NEW p \in Procs, CommitClaim(p) PROVE Keeps
      <3> DEFINE a == [Stored(p) EXCEPT !.finished = TRUE]
      <3>1. /\ auctions[call[p].height] # NULL =>
                  a = [auctions[call[p].height] EXCEPT !.finished = TRUE]
            /\ auctions' = [auctions EXCEPT ![call[p].height] = a]
        BY <2>4, ClaimWrites
      <3> HIDE DEF a
      <3> QED
        BY <3>1, ZenonT(60) DEF IInv, TypeOK
    <2> QED
      BY <2>1, <2>2, <2>3, <2>4, AuctionSteps
  <1> QED
    BY <1>1, Invariance, PTL DEF Spec, AuctionImmutable

-----------------------------------------------------------------------------
(* AuctionService implements AuctionLifecycle.                             *)


\* Init maps to the initial state of the abstract specification.
LEMMA InitMaps == Init => Lifecycle!Init
  BY ZenonT(60) DEF Init, Lifecycle!Init, Opened, Claimed, Rights, Given, Building

\* A step that leaves the store, the claims and the blocks alone stutters.
LEMMA Stutters ==
  ASSUME UNCHANGED <<auctions, cleanups, blocks>>,
         \A q \in Procs : /\ (Building(q)' <=> Building(q))
                          /\ Building(q) => ClaimOf(q)' = ClaimOf(q)
  PROVE  UNCHANGED Lifecycle!vars
  BY DEF Lifecycle!vars, Opened, Claimed, Rights, Given

\* Cleanup expires the auctions past their retention time.
LEMMA CleanupMaps ==
  ASSUME IInv, Cleanup
  PROVE  Lifecycle!Next
  <1>1. ExpiredAuctions \in SUBSET Heights
    BY DEF ExpiredAuctions
  <1>2. \A h \in ExpiredAuctions : Opened[h] # NULL
    BY ConstantsAssumption, ZenonT(60)
       DEF ExpiredAuctions, Expired, Opened, IInv, TypeOK, Auction
  <1>3. Opened' = [h \in Heights |-> IF h \in ExpiredAuctions THEN NULL
                                     ELSE Opened[h]]
    BY ZenonT(60) DEF Cleanup, ExpiredAuctions, Opened
  <1>4. Claimed' = Claimed \ ExpiredAuctions
    BY DEF Cleanup, ExpiredAuctions, Claimed
  <1>5. cleanups' = [h \in Heights |-> IF h \in ExpiredAuctions
                                       THEN cleanups[h] + 1 ELSE cleanups[h]]
    BY ZenonT(60) DEF Cleanup, ExpiredAuctions
  <1>6. Rights' = Rights /\ Given' = Given
    BY ZenonT(60) DEF Cleanup, Rights, Given, Building, ClaimOf
  <1>7. Lifecycle!Expire(ExpiredAuctions)
    BY <1>2, <1>3, <1>4, <1>5, <1>6 DEF Lifecycle!Expire
  <1> QED
    BY <1>1, <1>7 DEF Lifecycle!Next

\* When a request that builds ends, its claim, and no other, is given up.
LEMMA EndOfBuild ==
  ASSUME IInv, NEW p \in Procs, Building(p), Return(p)
  PROVE  ClaimOf(p) \in Rights /\ Rights' = Rights \ {ClaimOf(p)}
  <1>1. /\ ~ Building(p)'
        /\ \A q \in Procs \ {p} : /\ (Building(q)' <=> Building(q))
                                  /\ ClaimOf(q)' = ClaimOf(q)
    BY DEF IInv, TypeOK, Return, Building, ClaimOf
  <1>2. \A q \in Procs \ {p} : Building(q) => ClaimOf(q) # ClaimOf(p)
    BY ZenonT(60) DEF IInv, ExclusiveBuild, ClaimOf
  <1> QED
    BY <1>1, <1>2, ZenonT(60) DEF Rights

\* A claim that commits is a claim of the abstract specification.
LEMMA ClaimMaps ==
  ASSUME IInv, NEW p \in Procs, CommitClaim(p)
  PROVE  Lifecycle!Next
  <1> DEFINE h == call[p].height
             v == call[p].validator
             a == [Stored(p) EXCEPT !.finished = TRUE]
  <1>1. /\ h \in Heights
        /\ a \in Auction /\ a.finished /\ a.gen = cleanups[h]
        /\ a.validator = v
        /\ auctions[h] = NULL \/ (auctions[h] \in Auction /\ ~ auctions[h].finished)
        /\ auctions[h] # NULL => a = [auctions[h] EXCEPT !.finished = TRUE]
        /\ auctions' = [auctions EXCEPT ![h] = a]
    BY ClaimWrites, ZenonT(60)
  <1>2. auctions[h] # NULL => auctions[h].validator = v
    BY <1>1 DEF Auction
  <1>3. /\ pc[p] = "commit"
        /\ Goto(p, "order", [NoLocal EXCEPT !.auction = a, !.listed = loc[p].listed])
        /\ UNCHANGED <<cleanups, blocks>>
    BY DEF CommitClaim
  <1>4. [NoLocal EXCEPT !.auction = a, !.listed = loc[p].listed].auction = a
    BY ZenonT(60) DEF NoLocal
  <1>5. v \in Validators /\ TypeOK
    BY <1>1, ZenonT(60) DEF IInv, Auction
  <1> HIDE DEF a
  <1>6. /\ ~ Building(p) /\ Building(p)'
        /\ ClaimOf(p)' = [height |-> h, gen |-> cleanups[h], validator |-> v]
        /\ \A q \in Procs \ {p} : /\ (Building(q)' <=> Building(q))
                                  /\ ClaimOf(q)' = ClaimOf(q)
    BY <1>1, <1>3, <1>4, <1>5 DEF Building, ClaimOf, Goto, TypeOK
  <1>7. Rights' = Rights \cup {[height |-> h, gen |-> cleanups[h], validator |-> v]}
    BY <1>6, ZenonT(60) DEF Rights
  <1> HIDE DEF h, v
  <1>8. Opened[h] \in {NULL, v} /\ h \notin Claimed
    BY <1>1, <1>2 DEF Opened, Claimed
  <1>9. Opened' = [Opened EXCEPT ![h] = v] /\ Claimed' = Claimed \cup {h}
    BY <1>1, <1>5, NullAssumption, ZenonT(60) DEF Opened, Claimed, TypeOK
  <1>10. Given' = Given
    BY <1>3 DEF Given
  <1>11. Lifecycle!MakeClaim(h, v)
    BY <1>3, <1>7, <1>8, <1>9, <1>10 DEF Lifecycle!MakeClaim
  <1> QED
    BY <1>1, <1>5, <1>11, ZenonT(60) DEF Lifecycle!Next

\* The transaction of Auction or Bid opens an auction, or does nothing.
LEMMA CommitAuctionMaps ==
  ASSUME IInv, NEW p \in Procs, CommitAuction(p)
  PROVE  Lifecycle!Next \/ UNCHANGED Lifecycle!vars
  <1> DEFINE h == call[p].height
             v == loc[p].auction.validator
  <1>1. /\ TypeOK /\ h \in Heights
        /\ loc[p].auction \in Auction /\ ~ loc[p].auction.finished
        /\ cleanups[h] \in Nat
    BY ConstantsAssumption, ZenonT(60) DEF CommitAuction, IInv, TypeOK, CallInv, CommitInv, Call
  <1>2. UNCHANGED <<cleanups, blocks>>
    BY ZenonT(60) DEF CommitAuction, history
  <1>3. \A q \in Procs : /\ (Building(q)' <=> Building(q))
                         /\ Building(q) => ClaimOf(q)' = ClaimOf(q)
    BY <1>1, ZenonT(60) DEF CommitAuction, Return, Goto, TypeOK, Building, ClaimOf
  <1>4. CASE UNCHANGED auctions
    BY <1>2, <1>3, <1>4, Stutters, ZenonT(60)
  <1>5. CASE auctions[h] = NULL /\ auctions' = [auctions EXCEPT ![h] = Stored(p)]
    <2>1. Stored(p) \in Auction /\ ~ Stored(p).finished /\ Stored(p).validator = v
      BY StoredFacts, ZenonT(60) DEF CommitAuction
    <2>2. v \in Validators
      BY <1>1 DEF Auction
    <2> HIDE DEF h, v
    <2>3. Opened[h] = NULL /\ Opened' = [Opened EXCEPT ![h] = v]
      BY <1>1, <1>5, <2>1, NullAssumption, ZenonT(60) DEF Opened, TypeOK
    <2>4. Claimed' = Claimed
      BY <1>1, <1>5, <2>1, ZenonT(60) DEF Claimed, TypeOK
    <2>5. Rights' = Rights /\ Given' = Given
      BY <1>2, <1>3, ZenonT(60) DEF Rights, Given
    <2>6. Lifecycle!Open(h, v)
      BY <1>2, <2>3, <2>4, <2>5 DEF Lifecycle!Open
    <2> QED
      BY <1>1, <2>2, <2>6, ZenonT(60) DEF Lifecycle!Next
  <1> QED
    BY <1>4, <1>5 DEF CommitAuction, NoConflict

\* The block that is handed out is given; its claim is used up.
LEMMA RespondMaps ==
  ASSUME IInv, NEW p \in Procs, Respond(p)
  PROVE  Lifecycle!Next
  <1>1. Building(p) /\ Return(p) /\ UNCHANGED <<auctions, cleanups>>
    <2>1. pc[p] = "respond" /\ Return(p) /\ UNCHANGED <<auctions, cleanups>>
      BY ZenonT(60) DEF Respond
    <2> QED
      BY <2>1, ZenonT(60) DEF Building
  <1>2. ClaimOf(p) \in Rights /\ Rights' = Rights \ {ClaimOf(p)}
    BY <1>1, EndOfBuild, ZenonT(60)
  <1>3. Given' = Given \cup {ClaimOf(p)}
    <2> DEFINE k == [height |-> call[p].height, auction |-> loc[p].auction,
                     builder |-> call[p].validator, listed |-> loc[p].listed,
                     bids |-> loc[p].accepted]
    <2>1. blocks' = blocks \cup {k}
      BY ZenonT(60) DEF Respond
    <2>2. ClaimUsed(k) = ClaimOf(p)
      BY ZenonT(60) DEF ClaimUsed, ClaimOf
    <2> HIDE DEF k
    <2> QED
      <3>1. Given' = {ClaimUsed(x) : x \in blocks'}
        BY ZenonT(60) DEF Given, ClaimUsed
      <3> QED
        BY <2>1, <2>2, <3>1, ZenonT(60) DEF Given
  <1>4. Opened' = Opened /\ Claimed' = Claimed
    BY <1>1, ZenonT(60) DEF Opened, Claimed
  <1>5. Lifecycle!Give(ClaimOf(p))
    BY <1>1, <1>2, <1>3, <1>4, ZenonT(60) DEF Lifecycle!Give
  <1> QED
    BY <1>2, <1>5, ZenonT(60) DEF Lifecycle!Next

\* A request that fails loses the claim it may have.
LEMMA FailMaps ==
  ASSUME IInv, NEW p \in Procs, Fail(p)
  PROVE  Lifecycle!Next \/ UNCHANGED Lifecycle!vars
  <1>1. Return(p) /\ UNCHANGED <<auctions, cleanups, blocks>>
    BY ZenonT(60) DEF Fail, history
  <1>2. CASE Building(p)
    <2>1. ClaimOf(p) \in Rights /\ Rights' = Rights \ {ClaimOf(p)}
      BY <1>1, <1>2, EndOfBuild, ZenonT(60)
    <2>2. UNCHANGED <<Opened, Claimed, Given>>
      BY <1>1, ZenonT(60) DEF Opened, Claimed, Given
    <2>3. Lifecycle!Lose(ClaimOf(p))
      BY <1>1, <2>1, <2>2 DEF Lifecycle!Lose
    <2> QED
      BY <2>1, <2>3 DEF Lifecycle!Next
  <1>3. CASE ~ Building(p)
    <2>1. /\ pc'[p] = "idle"
          /\ \A q \in Procs \ {p} : /\ pc'[q] = pc[q]
                                    /\ call'[q] = call[q]
                                    /\ loc'[q] = loc[q]
      BY <1>1, ZenonT(60) DEF Return, IInv, TypeOK
    <2>2. \A q \in Procs : Building(q)' <=> Building(q)
      BY <1>3, <2>1, ZenonT(60) DEF Building
    <2>3. ASSUME NEW q \in Procs, Building(q) PROVE ClaimOf(q)' = ClaimOf(q)
      <3>1. call'[q] = call[q] /\ loc'[q] = loc[q]
        BY <1>3, <2>1, <2>3, ZenonT(60)
      <3> QED
        BY <3>1, ZenonT(60) DEF ClaimOf
    <2> QED
      BY <1>1, <2>2, <2>3, Stutters, ZenonT(60)
  <1> QED
    BY <1>2, <1>3, ZenonT(60)

\* All other steps of a request stutter.
LEMMA QuietMaps ==
  ASSUME IInv, NEW p \in Procs,
         \/ Arrive(p)
         \/ TakeSnapshot(p)
         \/ VerifyAuction(p)
         \/ SerializationFailure(p)
         \/ InsertBid(p)
         \/ RefuseBid(p)
         \/ AskChainV1(p)
         \/ UpsertProposer(p)
         \/ SelectAuctionV1(p)
         \/ OrderBids(p)
         \/ UpdateBids(p)
  PROVE  UNCHANGED Lifecycle!vars
  <1> USE DEF history
  <1>0. TypeOK /\ loc[p] \in Local
    BY ZenonT(60) DEF IInv, TypeOK
  <1>1. UNCHANGED <<auctions, cleanups, blocks>>
    BY ZenonT(60) DEF Arrive, Receive, TakeSnapshot, VerifyAuction, SerializationFailure, InsertBid,
       RefuseBid, AskChainV1, UpsertProposer, SelectAuctionV1, OrderBids,
       UpdateBids
  <1>2. CASE OrderBids(p) \/ UpdateBids(p)
    <2>1. \A acc : [loc[p] EXCEPT !.accepted = acc].auction = loc[p].auction
      BY <1>0 DEF Local
    <2>2. \E to \in {"update", "respond"} : \E local :
             Goto(p, to, local) /\ local.auction = loc[p].auction
      BY <1>2, <2>1, ZenonT(60) DEF OrderBids, UpdateBids
    <2>3. \A q \in Procs : (Building(q)' <=> Building(q)) /\ ClaimOf(q)' = ClaimOf(q)
      BY <1>0, <1>2, <2>2
         DEF Goto, TypeOK, Building, ClaimOf, OrderBids, UpdateBids
    <2> QED
      BY <1>1, <2>3, Stutters
  <1>3. CASE ~ (OrderBids(p) \/ UpdateBids(p))
    <2>1. ~ Building(p) /\ ~ Building(p)'
      BY <1>0, <1>3, ZenonT(60) DEF Arrive, Receive, TakeSnapshot, VerifyAuction, SerializationFailure,
         InsertBid, RefuseBid, AskChainV1, UpsertProposer, SelectAuctionV1,
         Goto, Return, TypeOK, Building
    <2>2. \A q \in Procs \ {p} : /\ pc'[q] = pc[q]
                                 /\ call'[q] = call[q]
                                 /\ loc'[q] = loc[q]
      BY <1>0, <1>3, ZenonT(60) DEF Arrive, Receive, TakeSnapshot, VerifyAuction, SerializationFailure,
         InsertBid, RefuseBid, AskChainV1, UpsertProposer, SelectAuctionV1,
         Goto, Return, TypeOK
    <2>3. ASSUME NEW q \in Procs PROVE Building(q)' <=> Building(q)
      <3>1. CASE q = p
        BY <2>1, <3>1, ZenonT(60)
      <3>2. CASE q # p
        BY <2>2, <3>2, ZenonT(60) DEF Building
      <3> QED
        BY <3>1, <3>2
    <2>4. ASSUME NEW q \in Procs, Building(q) PROVE ClaimOf(q)' = ClaimOf(q)
      <3>1. call'[q] = call[q] /\ loc'[q] = loc[q]
        BY <2>1, <2>2, <2>4, ZenonT(60)
      <3> QED
        BY <3>1, ZenonT(60) DEF ClaimOf
    <2> QED
      BY <1>1, <2>3, <2>4, Stutters, ZenonT(60)
  <1> QED
    BY <1>2, <1>3, ZenonT(60)

\* Every step maps to a step of the abstract specification or to none.
LEMMA NextMaps ==
  IInv /\ [Next]_vars => [Lifecycle!Next]_(Lifecycle!vars)
  <1> SUFFICES ASSUME IInv, [Next]_vars
               PROVE  Lifecycle!Next \/ UNCHANGED Lifecycle!vars
    OBVIOUS
  <1>1. CASE Cleanup
    BY <1>1, CleanupMaps, ZenonT(60)
  <1>2. CASE \/ AdvanceChain
             \/ \E v \in Validators, a \in PayAddrs : RegisterValidator(v, a)
             \/ UNCHANGED vars
    BY <1>2, Stutters, ZenonT(60)
       DEF AdvanceChain, RegisterValidator, vars, history, Building, ClaimOf
  <1>3. CASE \E p \in Procs : Arrive(p) \/ Serve(p) \/ Fail(p)
    BY <1>3, CommitAuctionMaps, ClaimMaps, RespondMaps, FailMaps, QuietMaps, ZenonT(60)
       DEF Serve
  <1> QED
    BY <1>1, <1>2, <1>3 DEF Next, Environment

\* The service opens, claims, gives and expires auctions only as
\* AuctionLifecycle allows: a claim is exclusive and worth at most one block,
\* for the validator the auction was opened for.
THEOREM Refinement == Spec => ImplementsLifecycle
  BY InitMaps, NextMaps, Invariance, PTL
     DEF Spec, ImplementsLifecycle, Lifecycle!Spec

-----------------------------------------------------------------------------
(* The bids.  The proofs use the invariant of the requests: a claim is     *)
(* exclusive, so that nobody but its holder decides the bids of the        *)
(* auction.                                                                *)

\* At first there are no bids and no requests.
LEMMA InitBids == Init => BidInv
  <1> SUFFICES ASSUME Init PROVE BidInv
    OBVIOUS
  <1>1. \A p \in Procs : SentInv(p) /\ SnapshotInv(p) /\ InsertInv(p) /\ DecideInv(p)
    BY ZenonT(60) DEF Init, SentInv, SnapshotInv, InsertInv, DecideInv, Building
  <1>2. (\A b \in BidIds : PlacedInv(b)) /\ SettledAfterFinish
    BY DEF Init, PlacedInv, SettledAfterFinish
  <1>3. \A k \in blocks : GivenInv(k)
    BY ZenonT(60) DEF Init
  <1> QED
    BY <1>1, <1>2, <1>3 DEF BidInv

-----------------------------------------------------------------------------
(* What any step does to the tables.                                       *)

\* The row of height h stays, but for finished_at, or is created.
RowKept(h) ==
  /\ cleanups'[h] = cleanups[h]
  /\ auctions[h] # NULL => /\ auctions'[h] # NULL
                           /\ auctions'[h].payTo = auctions[h].payTo
                           /\ auctions[h].finished => auctions'[h].finished

\* The row is cleaned up, with its bids.
RowGone(h) ==
  /\ cleanups'[h] = cleanups[h] + 1
  /\ \A b \in BidIds : bids[b] # NULL /\ bids[b].height = h
                          => bids'[b].state = "deleted"

\* A bid stays in the table, at its height; a deleted one stays deleted.
BidKept(b) ==
  bids[b] # NULL => /\ bids'[b] # NULL /\ bids'[b].height = bids[b].height
                    /\ bids[b].state = "deleted" => bids'[b].state = "deleted"

Evolves ==
  /\ \A h \in Heights : RowKept(h) \/ RowGone(h)
  /\ \A b \in BidIds : BidKept(b)

\* Nobody decides b.
Undecided(b) == bids'[b].state \in {bids[b].state, "deleted"}

\* A step that leaves the tables alone.
LEMMA SameEvolves ==
  ASSUME UNCHANGED <<auctions, bids, cleanups>>
  PROVE  Evolves /\ \A b \in BidIds : Undecided(b)
  BY ZenonT(60) DEF Evolves, RowKept, BidKept, Undecided

\* The first auction of a height pays the same address as long as it is there.
LEMMA PaysKept ==
  ASSUME TypeOK, Evolves, NEW h \in Heights, NEW addr, FirstPays(h, addr)
  PROVE  cleanups'[h] = 0 => auctions'[h] # NULL /\ auctions'[h].payTo = addr
  <1>1. cleanups[h] \in Nat
    BY ZenonT(60) DEF TypeOK
  <1> QED
    BY <1>1 DEF Evolves, RowKept, RowGone, FirstPays

\* A bid of a generation of an auction is deleted with it.
LEMMA PlaceKept ==
  ASSUME TypeOK, Evolves, NEW b \in BidIds, NEW h \in Heights, NEW g, PlacedIn(b, h, g)
  PROVE  /\ bids'[b] # NULL /\ bids'[b].height = h
         /\ bids'[b].state # "deleted" => g = cleanups'[h]
  BY ZenonT(60) DEF Evolves, RowKept, RowGone, BidKept, PlacedIn

-----------------------------------------------------------------------------
(* What a step leaves alone keeps its part of the invariant.               *)

\* The types of what a request works on.
LEMMA RequestTypes ==
  ASSUME IInv, NEW q \in Procs, pc[q] # "idle"
  PROVE  /\ call[q] \in Call /\ call[q] # NULL /\ call[q].height \in Heights
         /\ loc[q] \in Local /\ loc[q].listed \subseteq BidIds
         /\ loc[q].seen \in Auction \cup {NULL}
         /\ Building(q) => loc[q].auction \in Auction
  <1>1. CallInv(q) /\ TypeOK /\ BuildInv(q)
    BY ZenonT(60) DEF IInv
  <1>2. call[q] \in Call /\ loc[q] \in Local
    BY <1>1 DEF CallInv, TypeOK
  <1> QED
    BY <1>1, <1>2, ConstantsAssumption, NullAssumption, ZenonT(60) DEF Call, Local, BuildInv

\* A request that a step leaves alone, while nobody decides the bids it builds
\* from.
LEMMA OtherBids ==
  ASSUME IInv, BidInv, Evolves, NEW q \in Procs,
         pc'[q] = pc[q], call'[q] = call[q], loc'[q] = loc[q],
         Building(q) => \A b \in loc[q].listed : Undecided(b)
  PROVE  SnapshotInv(q)' /\ InsertInv(q)' /\ DecideInv(q)'
  <1>1. /\ TypeOK /\ SnapshotInv(q) /\ InsertInv(q) /\ DecideInv(q)
    BY ZenonT(60) DEF IInv, BidInv
  <1>2. SnapshotInv(q)'
    <2> SUFFICES ASSUME pc[q] \in {"verify", "commit"}, loc[q].seen # NULL
                 PROVE  /\ FirstPays(call[q].height, loc[q].seen.payTo)'
                        /\ \A b \in loc[q].listed :
                              PlacedIn(b, call[q].height, loc[q].seen.gen)'
      BY <1>1, ZenonT(60) DEF SnapshotInv
    <2>1. call[q].height \in Heights /\ loc[q].listed \subseteq BidIds
      BY RequestTypes, ZenonT(60)
    <2>2. FirstPays(call[q].height, loc[q].seen.payTo)'
      BY <1>1, <2>1, PaysKept, ZenonT(60) DEF SnapshotInv, FirstPays
    <2>3. ASSUME NEW b \in loc[q].listed
          PROVE  PlacedIn(b, call[q].height, loc[q].seen.gen)'
      <3>1. PlacedIn(b, call[q].height, loc[q].seen.gen) /\ b \in BidIds
        BY <1>1, <2>1, ZenonT(60) DEF SnapshotInv
      <3>2. /\ bids'[b] # NULL /\ bids'[b].height = call[q].height
            /\ bids'[b].state # "deleted" => loc[q].seen.gen = cleanups'[call[q].height]
        BY <1>1, <2>1, <3>1, PlaceKept, ZenonT(60)
      <3> QED
        BY <3>2, ZenonT(60) DEF PlacedIn
    <2> QED
      BY <2>2, <2>3, ZenonT(60)
  <1>3. InsertInv(q)'
    <2> SUFFICES ASSUME pc[q] = "insert"
                 PROVE  FirstPays(call[q].height, loc[q].auction.payTo)'
      BY ZenonT(60) DEF InsertInv
    <2>1. call[q].height \in Heights
      BY RequestTypes, ZenonT(60)
    <2> QED
      BY <1>1, <2>1, PaysKept, ZenonT(60) DEF InsertInv, FirstPays
  <1>4. DecideInv(q)'
    <2> SUFFICES ASSUME Building(q) PROVE DecideInv(q)'
      BY ZenonT(60) DEF DecideInv, Building
    <2>1. call[q].height \in Heights /\ loc[q].listed \subseteq BidIds
      BY RequestTypes, ZenonT(60) DEF Building
    <2>2. ASSUME NEW b \in loc[q].listed
          PROVE  /\ PlacedIn(b, call[q].height, loc[q].auction.gen)'
                 /\ bids'[b].state \in {"deleted", bids[b].state}
      <3>1. PlacedIn(b, call[q].height, loc[q].auction.gen) /\ b \in BidIds
        BY <1>1, <2>1, ZenonT(60) DEF DecideInv
      <3>2. /\ bids'[b] # NULL /\ bids'[b].height = call[q].height
            /\ bids'[b].state # "deleted" => loc[q].auction.gen = cleanups'[call[q].height]
        BY <1>1, <2>1, <3>1, PlaceKept, ZenonT(60)
      <3> QED
        BY <3>2, ZenonT(60) DEF PlacedIn, Undecided
    <2>3. /\ loc[q].accepted \subseteq loc[q].listed
          /\ \A b \in loc[q].listed :
               /\ loc[q].auction.gen = 0 => BidPays[b] = loc[q].auction.payTo
               /\ bids[b].state \in
                    {"deleted", IF pc[q] = "respond" THEN Verdict(b, loc[q].accepted)
                                                     ELSE "pending"}
      BY <1>1, ZenonT(60) DEF DecideInv
    <2> QED
      <3>1. ASSUME NEW b \in loc[q].listed
            PROVE  bids'[b].state \in
                     {"deleted", IF pc'[q] = "respond" THEN Verdict(b, loc'[q].accepted)
                                                       ELSE "pending"}
        <4> DEFINE decided == IF pc[q] = "respond" THEN Verdict(b, loc[q].accepted)
                                                   ELSE "pending"
        <4>1. decided = IF pc'[q] = "respond" THEN Verdict(b, loc'[q].accepted)
                                              ELSE "pending"
          BY ZenonT(60)
        <4> QED
          BY <2>2, <2>3, <3>1, <4>1, ZenonT(60)
      <3>2. ASSUME NEW b \in loc[q].listed
            PROVE  /\ PlacedIn(b, call[q].height, loc[q].auction.gen)'
                   /\ loc'[q].auction.gen = 0 => BidPays[b] = loc'[q].auction.payTo
        <4>1. PlacedIn(b, call[q].height, loc[q].auction.gen)'
          BY <2>2, <3>2, ZenonT(60)
        <4>2. loc[q].auction.gen = 0 => BidPays[b] = loc[q].auction.payTo
          BY <2>3, <3>2, ZenonT(60)
        <4> QED
          BY <4>1, <4>2, ZenonT(60)
      <3>3. loc'[q].accepted \subseteq loc'[q].listed /\ loc'[q].listed = loc[q].listed
        BY <2>3, ZenonT(60)
      <3> QED
        BY <3>1, <3>2, <3>3, ZenonT(60) DEF DecideInv, Verdict
  <1> QED
    BY <1>2, <1>3, <1>4, ZenonT(60)

\* A block whose bids nobody decides again.
LEMMA GivenKept ==
  ASSUME IInv, BidInv, Evolves, NEW k \in blocks,
         \A b \in k.listed : Undecided(b)
  PROVE  GivenInv(k)'
  <1>1. TypeOK /\ GivenInv(k) /\ k.height \in Heights /\ k.listed \subseteq BidIds
    BY DEF IInv, BidInv, TypeOK, Block
  <1>2. ASSUME NEW b \in k.listed
        PROVE  /\ PlacedIn(b, k.height, k.auction.gen)'
               /\ bids'[b].state \in {"deleted", bids[b].state}
    <2>1. PlacedIn(b, k.height, k.auction.gen) /\ b \in BidIds
      BY <1>1, ZenonT(60) DEF GivenInv
    <2>2. /\ bids'[b] # NULL /\ bids'[b].height = k.height
          /\ bids'[b].state # "deleted" => k.auction.gen = cleanups'[k.height]
      BY <1>1, <2>1, PlaceKept, ZenonT(60)
    <2> QED
      BY <2>2, ZenonT(60) DEF PlacedIn, Undecided
  <1> QED
    BY <1>1, <1>2, ZenonT(60) DEF GivenInv

\* A bid of the table keeps its auction, or is deleted with it.
LEMMA PlacedKept ==
  ASSUME IInv, BidInv, Evolves, NEW b \in BidIds, bids[b] # NULL
  PROVE  PlacedInv(b)'
  <1>1. /\ TypeOK /\ PlacedInv(b) /\ bids[b].height \in Heights /\ BidKept(b)
    BY ZenonT(60) DEF IInv, BidInv, TypeOK, Bid, Evolves
  <1>2. FirstPays(bids[b].height, BidPays[b])'
    BY <1>1, PaysKept, ZenonT(60) DEF PlacedInv, FirstPays, BidKept
  <1>3. bids'[b].state # "deleted" => auctions'[bids'[b].height] # NULL
    BY <1>1, ZenonT(60) DEF PlacedInv, BidKept, Evolves, RowKept, RowGone
  <1> QED
    BY <1>2, <1>3 DEF PlacedInv

Settled(b) == bids[b] # NULL /\ bids[b].state \in {"accepted", "rejected"}

\* The auction of a bid that was decided before stays finished.
LEMMA SettledKept ==
  ASSUME IInv, BidInv, Evolves, NEW b \in BidIds, bids[b] # NULL, Undecided(b),
         Settled(b)'
  PROVE  /\ auctions'[bids'[b].height] # NULL
         /\ auctions'[bids'[b].height].finished
  <1>1. /\ bids[b].height \in Heights /\ BidKept(b) /\ Settled(b)
    BY ZenonT(60) DEF IInv, TypeOK, Bid, Evolves, Settled, Undecided
  <1>2. /\ auctions[bids[b].height] # NULL
        /\ auctions[bids[b].height].finished
    BY <1>1, ZenonT(60) DEF BidInv, SettledAfterFinish, Settled
  <1> QED
    BY <1>1, <1>2, ZenonT(60) DEF Evolves, BidKept, RowKept, RowGone, Settled

\* No bid comes into the table, and no request.
LEMMA SentKept ==
  ASSUME IInv, BidInv, \A b \in BidIds : bids[b] = NULL => bids'[b] = NULL,
         \A q \in Procs : call'[q] \in {call[q], NULL}
  PROVE  \A p \in Procs : SentInv(p)'
  <1> SUFFICES ASSUME NEW p \in Procs, call'[p] # NULL, call'[p].op = "bid"
               PROVE  SentInv(p)'
    BY ZenonT(60) DEF SentInv
  <1>1. call'[p] = call[p] /\ call[p] # NULL /\ SentInv(p)
    BY ZenonT(60) DEF BidInv
  <1>2. call[p].bid \in BidIds
    BY <1>1, ZenonT(60) DEF IInv, CallInv
  <1> QED
    BY <1>1, <1>2, ZenonT(60) DEF SentInv

\* The parts put together: no bid comes into the table or is decided, and the
\* requests that a step leaves alone are all but those of P.
LEMMA Assemble ==
  ASSUME IInv, BidInv, Evolves, NEW P \in SUBSET Procs,
         \A q \in Procs \ P : pc'[q] = pc[q] /\ call'[q] = call[q] /\ loc'[q] = loc[q],
         \A p \in P : SnapshotInv(p)' /\ InsertInv(p)' /\ DecideInv(p)',
         \A p \in Procs : SentInv(p)',
         \A b \in BidIds : Undecided(b) /\ (bids[b] = NULL => bids'[b] = NULL),
         blocks' = blocks
  PROVE  BidInv'
  <1>1. \A q \in Procs : loc[q].listed \subseteq BidIds
    BY ZenonT(60) DEF IInv, TypeOK, Local
  <1>2. \A q \in Procs \ P : SnapshotInv(q)' /\ InsertInv(q)' /\ DecideInv(q)'
    BY <1>1, OtherBids, ZenonT(60)
  <1>3. \A b \in BidIds : PlacedInv(b)'
    BY PlacedKept, ZenonT(60) DEF PlacedInv
  <1>4. SettledAfterFinish'
    BY SettledKept, ZenonT(60) DEF SettledAfterFinish, Settled
  <1>5. \A k \in blocks : k.listed \subseteq BidIds
    BY ZenonT(60) DEF IInv, TypeOK, Block
  <1>6. \A k \in blocks' : GivenInv(k)'
    BY <1>5, GivenKept, ZenonT(60)
  <1> QED
    BY <1>2, <1>3, <1>4, <1>6, ZenonT(60) DEF BidInv

-----------------------------------------------------------------------------
(* The steps of a request.                                                 *)

\* The other requests are left alone.
Alone(p) ==
  \A q \in Procs \ {p} : pc'[q] = pc[q] /\ call'[q] = call[q] /\ loc'[q] = loc[q]

\* Where Return leaves the requests.
LEMMA Leaves ==
  ASSUME TypeOK, NEW p \in Procs, Return(p)
  PROVE  Alone(p) /\ pc'[p] = "idle" /\ call'[p] = NULL
  BY ZenonT(60) DEF TypeOK, Return, Alone

\* Where Goto leaves them.
LEMMA Moves ==
  ASSUME TypeOK, NEW p \in Procs, NEW to, NEW local, Goto(p, to, local)
  PROVE  Alone(p) /\ pc'[p] = to /\ call' = call /\ loc'[p] = local
  BY DEF TypeOK, Goto, Alone

\* A request before its transaction, or after its end.
LEMMA Rests ==
  ASSUME NEW p \in Procs, pc'[p] \in {"idle", "chainV1", "upsert", "begin"}
  PROVE  SnapshotInv(p)' /\ InsertInv(p)' /\ DecideInv(p)'
  BY ZenonT(60) DEF SnapshotInv, InsertInv, DecideInv, Building

\* A step of p that leaves the tables alone.
LEMMA LocalBids ==
  ASSUME IInv, BidInv, NEW p \in Procs, Alone(p), call'[p] \in {call[p], NULL},
         UNCHANGED <<auctions, bids, cleanups, blocks>>,
         SnapshotInv(p)' /\ InsertInv(p)' /\ DecideInv(p)'
  PROVE  BidInv'
  <1>1. Evolves /\ \A b \in BidIds : Undecided(b)
    BY SameEvolves, ZenonT(60)
  <1>2. \A q \in Procs : SentInv(q)'
    BY SentKept, ZenonT(60) DEF Alone
  <1>3. {p} \in SUBSET Procs
    BY ZenonT(60)
  <1> QED
    BY <1>1, <1>2, <1>3, Assemble, ZenonT(60) DEF Alone

\* A request that ends, or waits for its transaction.
LEMMA RestBids ==
  ASSUME IInv, BidInv, NEW p \in Procs,
         Return(p) \/ \E to \in {"upsert", "begin"} : \E local : Goto(p, to, local),
         UNCHANGED <<auctions, bids, cleanups, blocks>>
  PROVE  BidInv'
  <1>1. /\ Alone(p) /\ call'[p] \in {call[p], NULL}
        /\ pc'[p] \in {"idle", "upsert", "begin"}
    <2>1. CASE Return(p)
      BY <2>1, Leaves, ZenonT(60) DEF IInv
    <2>2. ASSUME NEW to \in {"upsert", "begin"}, NEW local, Goto(p, to, local)
          PROVE  Alone(p) /\ call'[p] = call[p] /\ pc'[p] = to
      BY <2>2, Moves, ZenonT(60) DEF IInv
    <2> QED
      BY <2>1, <2>2, ZenonT(60)
  <1> QED
    BY <1>1, Rests, LocalBids, ZenonT(60)

\* A new request: its bid was not sent before.
LEMMA ArriveBids ==
  ASSUME IInv, BidInv, NEW p \in Procs, Arrive(p)
  PROVE  BidInv'
  <1>1. PICK c : /\ Receive(p, c)
                 /\ c.op = "bid" => p \in Searchers /\ Unsent(c.bid)
    BY ZenonT(60) DEF Arrive, SearcherCalls, BuilderCalls
  <1>2. /\ Alone(p) /\ call'[p] = c /\ pc'[p] \in {"chainV1", "begin"}
        /\ pc[p] = "idle" /\ call[p] = NULL
        /\ UNCHANGED <<auctions, bids, cleanups, blocks>>
    BY <1>1, ZenonT(60) DEF Receive, IInv, TypeOK, CallInv, Alone, history
  <1>3. ASSUME NEW q \in Procs PROVE SentInv(q)'
    <2>1. CASE q = p
      <3> SUFFICES ASSUME c.op = "bid" PROVE SentInv(p)'
        BY <1>2, <2>1, ZenonT(60) DEF SentInv
      <3>1. ASSUME NEW r \in Procs \ {p}, call[r] # NULL, call[r].op = "bid"
            PROVE  call[r].bid # c.bid
        BY <1>1, <3>1, ZenonT(60) DEF BidInv, SentInv, Unsent
      <3> QED
        <4>1. call'[p] = c /\ \A r \in Procs \ {p} : call'[r] = call[r]
          BY <1>2, ZenonT(60) DEF Alone
        <4>2. p \in Searchers /\ bids'[c.bid] = NULL
          BY <1>1, <1>2, ZenonT(60) DEF Unsent
        <4> QED
          BY <3>1, <4>1, <4>2, ZenonT(60) DEF SentInv
    <2>2. CASE q # p
      <3> SUFFICES ASSUME call[q] # NULL, call[q].op = "bid" PROVE SentInv(q)'
        BY <1>2, <2>2, ZenonT(60) DEF SentInv, Alone
      <3>1. SentInv(q) /\ q \in Searchers
        BY ZenonT(60) DEF BidInv, SentInv
      <3>2. c.op = "bid" => call[q].bid # c.bid
        BY <1>1, <3>1, ZenonT(60) DEF Unsent
      <3> QED
        BY <1>2, <2>2, <3>1, <3>2, ZenonT(60) DEF SentInv, Alone
    <2> QED
      BY <2>1, <2>2, ZenonT(60)
  <1>4. Evolves /\ \A b \in BidIds : Undecided(b)
    BY <1>2, SameEvolves, ZenonT(60)
  <1>5. SnapshotInv(p)' /\ InsertInv(p)' /\ DecideInv(p)'
    BY <1>2, Rests
  <1>6. {p} \in SUBSET Procs
    BY ZenonT(60)
  <1> QED
    BY <1>2, <1>3, <1>4, <1>5, <1>6, Assemble, ZenonT(60) DEF Alone

\* What a snapshot of height h sees: no row and no bids, or bids of the row.
LEMMA SeenBids ==
  ASSUME IInv, BidInv, NEW h \in Heights
  PROVE  /\ auctions[h] = NULL => BidsAt(h) = {}
         /\ auctions[h] # NULL =>
              /\ FirstPays(h, auctions[h].payTo)
              /\ \A b \in BidsAt(h) : PlacedIn(b, h, auctions[h].gen)
  <1>1. \A b \in BidsAt(h) : /\ bids[b] # NULL /\ bids[b].height = h
                             /\ auctions[h] # NULL
    BY ZenonT(60) DEF BidsAt, BidInv, PlacedInv
  <1>2. auctions[h] # NULL => auctions[h].gen = cleanups[h]
    BY ZenonT(60) DEF IInv, RowInv
  <1> QED
    BY <1>1, <1>2, ZenonT(60) DEF FirstPays, PlacedIn

\* A request in its transaction, with the snapshot of row seen and bids listed.
LEMMA InTransaction ==
  ASSUME NEW p \in Procs, pc'[p] \in {"verify", "commit"},
         loc'[p].seen = NULL => loc'[p].listed = {},
         loc'[p].seen # NULL =>
              /\ FirstPays(call'[p].height, loc'[p].seen.payTo)
              /\ \A b \in loc'[p].listed :
                    PlacedIn(b, call'[p].height, loc'[p].seen.gen),
         UNCHANGED <<auctions, bids, cleanups>>
  PROVE  SnapshotInv(p)' /\ InsertInv(p)' /\ DecideInv(p)'
  BY ZenonT(60) DEF SnapshotInv, InsertInv, DecideInv, Building, FirstPays, PlacedIn

\* A step into the transaction, or inside it.
LEMMA SnapshotBids ==
  ASSUME IInv, BidInv, NEW p \in Procs,
         TakeSnapshot(p) \/ SelectAuctionV1(p) \/ VerifyAuction(p)
  PROVE  BidInv'
  <1> USE DEF history
  <1>1. /\ TypeOK /\ pc[p] # "idle" /\ call[p].height \in Heights /\ loc[p] \in Local
        /\ UNCHANGED <<auctions, bids, cleanups, blocks>>
    BY RequestTypes, ZenonT(60) DEF TakeSnapshot, SelectAuctionV1, VerifyAuction, IInv
  <1>2. CASE Return(p)
    BY <1>1, <1>2, RestBids, ZenonT(60)
  <1>3. CASE ~ Return(p)
    <2>1. /\ Alone(p) /\ call' = call /\ pc'[p] \in {"verify", "commit"}
          /\ \/ /\ loc'[p].seen = auctions[call[p].height]
                /\ loc'[p].listed \in {{}, BidsAt(call[p].height)}
             \/ /\ pc[p] = "verify"
                /\ loc'[p].seen = loc[p].seen /\ loc'[p].listed = loc[p].listed
      <3>1. CASE TakeSnapshot(p)
        <4> DEFINE listed == IF call[p].op = "build" THEN BidsAt(call[p].height) ELSE {}
                   local == [loc[p] EXCEPT !.known = validators,
                               !.seen = auctions[call[p].height], !.listed = listed]
        <4>1. Goto(p, "verify", local)
          BY <3>1 DEF TakeSnapshot
        <4>2. local.seen = auctions[call[p].height] /\ local.listed = listed
          BY <1>1, ZenonT(60) DEF Local
        <4> HIDE DEF local
        <4> QED
          BY <1>1, <4>1, <4>2, Moves, ZenonT(60)
      <3>2. CASE SelectAuctionV1(p)
        <4>1. PICK a : Goto(p, "commit", [loc[p] EXCEPT !.seen = auctions[call[p].height],
                                            !.auction = a, !.listed = BidsAt(call[p].height)])
          BY <1>3, <3>2, ZenonT(60) DEF SelectAuctionV1
        <4> DEFINE local == [loc[p] EXCEPT !.seen = auctions[call[p].height],
                               !.auction = a, !.listed = BidsAt(call[p].height)]
        <4>2. /\ local.seen = auctions[call[p].height]
              /\ local.listed = BidsAt(call[p].height)
          BY <1>1 DEF Local
        <4>3. Goto(p, "commit", local)
          BY <4>1, ZenonT(60)
        <4> HIDE DEF local
        <4> QED
          BY <1>1, <4>2, <4>3, Moves, ZenonT(60)
      <3>3. CASE VerifyAuction(p)
        <4>1. /\ pc[p] = "verify"
              /\ \E a : Goto(p, "commit", [loc[p] EXCEPT !.auction = a,
                                              !.known = NoValidators])
          BY <1>3, <3>3, ZenonT(60) DEF VerifyAuction
        <4>2. PICK a : Goto(p, "commit", [loc[p] EXCEPT !.auction = a,
                                            !.known = NoValidators])
          BY <4>1, ZenonT(60)
        <4> DEFINE local == [loc[p] EXCEPT !.auction = a, !.known = NoValidators]
        <4>3. local.seen = loc[p].seen /\ local.listed = loc[p].listed
          BY <1>1, ZenonT(60) DEF Local
        <4>4. Goto(p, "commit", local)
          BY <4>2, ZenonT(60)
        <4> HIDE DEF local
        <4> QED
          BY <1>1, <4>1, <4>3, <4>4, Moves, ZenonT(60)
      <3> QED
        BY <3>1, <3>2, <3>3, ZenonT(60)
    <2>2. /\ loc'[p].seen = NULL => loc'[p].listed = {}
          /\ loc'[p].seen # NULL =>
               /\ FirstPays(call'[p].height, loc'[p].seen.payTo)
               /\ \A b \in loc'[p].listed :
                     PlacedIn(b, call'[p].height, loc'[p].seen.gen)
      BY <1>1, <2>1, SeenBids, ZenonT(60) DEF BidInv, SnapshotInv
    <2>3. SnapshotInv(p)' /\ InsertInv(p)' /\ DecideInv(p)'
      BY <1>1, <2>1, <2>2, InTransaction, ZenonT(60)
    <2> QED
      BY <1>1, <2>1, <2>3, LocalBids, ZenonT(60)
  <1> QED
    BY <1>2, <1>3, ZenonT(60)

\* The other steps of a request that leave the tables alone.
LEMMA QuietBids ==
  ASSUME IInv, BidInv, NEW p \in Procs,
         \/ Fail(p)
         \/ SerializationFailure(p)
         \/ RefuseBid(p)
         \/ AskChainV1(p)
         \/ UpsertProposer(p)
  PROVE  BidInv'
  <1> USE DEF history
  <1>1. /\ UNCHANGED <<auctions, bids, cleanups, blocks>>
        /\ Return(p) \/ \E to \in {"upsert", "begin"} : \E local : Goto(p, to, local)
    BY ZenonT(60) DEF Fail, SerializationFailure, RefuseBid, AskChainV1, UpsertProposer
  <1> QED
    BY <1>1, RestBids, ZenonT(60)

\* OrderBids accepts some of the listed bids.
LEMMA OrderBidsStep ==
  ASSUME IInv, BidInv, NEW p \in Procs, OrderBids(p)
  PROVE  BidInv'
  <1> USE DEF history
  <1>1. /\ TypeOK /\ Building(p) /\ DecideInv(p) /\ pc[p] = "order" /\ loc[p] \in Local
        /\ UNCHANGED <<auctions, bids, cleanups, blocks>>
    BY ZenonT(60) DEF OrderBids, IInv, BidInv, Building, TypeOK
  <1>2. PICK acc \in SUBSET loc[p].listed :
           Goto(p, "update", [loc[p] EXCEPT !.accepted = acc])
    BY ZenonT(60) DEF OrderBids
  <1>3. /\ Alone(p) /\ pc'[p] = "update" /\ call' = call
        /\ loc'[p].accepted = acc /\ loc'[p].listed = loc[p].listed
        /\ loc'[p].auction = loc[p].auction
    BY <1>1, <1>2, Moves DEF Local
  <1>4. SnapshotInv(p)' /\ InsertInv(p)'
    BY <1>3, ZenonT(60) DEF SnapshotInv, InsertInv
  <1>5. DecideInv(p)'
    BY <1>1, <1>3, ZenonT(60) DEF DecideInv, PlacedIn
  <1> QED
    BY <1>1, <1>3, <1>4, <1>5, LocalBids, ZenonT(60)

\* A row that is created or claimed is otherwise the one of before.
LEMMA RowEvolves ==
  ASSUME TypeOK, NEW h \in Heights, NEW a \in Auction,
         auctions' = [auctions EXCEPT ![h] = a],
         auctions[h] # NULL => /\ a.payTo = auctions[h].payTo
                               /\ auctions[h].finished => a.finished,
         UNCHANGED <<bids, cleanups>>
  PROVE  Evolves /\ \A b \in BidIds : Undecided(b)
  <1>1. \A g \in Heights : RowKept(g)
    BY NullAssumption, ZenonT(60) DEF TypeOK, RowKept
  <1> QED
    BY <1>1, ZenonT(60) DEF Evolves, BidKept, Undecided

\* The transaction of Auction commits.  Bid goes on with the row that was seen,
\* or created.
LEMMA CommitAuctionBids ==
  ASSUME IInv, BidInv, NEW p \in Procs, CommitAuction(p)
  PROVE  BidInv'
  <1> USE DEF history
  <1> DEFINE h == call[p].height
  <1>1. /\ TypeOK /\ pc[p] = "commit" /\ h \in Heights /\ loc[p] \in Local
        /\ loc[p].auction \in Auction /\ cleanups[h] \in Nat
        /\ loc[p].seen # NULL => loc[p].auction = loc[p].seen
        /\ UNCHANGED <<bids, cleanups, blocks>>
    BY RequestTypes, ZenonT(60) DEF CommitAuction, IInv, CommitInv, TypeOK
  <1>2. Stored(p) \in Auction /\ Stored(p).payTo = loc[p].auction.payTo
    BY <1>1, StoredFacts, ZenonT(60)
  <1>3. /\ Evolves /\ \A b \in BidIds : Undecided(b)
        /\ cleanups[h] = 0 => /\ auctions'[h] # NULL
                               /\ auctions'[h].payTo = loc[p].auction.payTo
    <2>1. CASE loc[p].seen # NULL
      <3>1. UNCHANGED auctions /\ FirstPays(h, loc[p].auction.payTo)
        BY <1>1, <2>1, ZenonT(60) DEF CommitAuction, BidInv, SnapshotInv
      <3> QED
        BY <1>1, <3>1, SameEvolves, ZenonT(60) DEF FirstPays
    <2>2. CASE loc[p].seen = NULL
      <3>1. auctions[h] = NULL /\ auctions' = [auctions EXCEPT ![h] = Stored(p)]
        BY <2>2, ZenonT(60) DEF CommitAuction, NoConflict
      <3>2. Evolves /\ \A b \in BidIds : Undecided(b)
        BY <1>1, <1>2, <3>1, RowEvolves, ZenonT(60)
      <3>3. auctions'[h] = Stored(p) /\ Stored(p) # NULL
        BY <1>1, <1>2, <3>1, NullAssumption, ZenonT(60) DEF TypeOK
      <3> QED
        BY <1>2, <3>2, <3>3, ZenonT(60)
    <2> QED
      BY <2>1, <2>2, ZenonT(60)
  <1>4. /\ Alone(p) /\ call'[p] \in {call[p], NULL}
        /\ SnapshotInv(p)' /\ InsertInv(p)' /\ DecideInv(p)'
    <2>1. CASE call[p].op = "auction"
      <3>1. Return(p)
        BY <2>1, ZenonT(60) DEF CommitAuction
      <3> QED
        BY <1>1, <3>1, Leaves, Rests, ZenonT(60)
    <2>2. CASE call[p].op = "bid"
      <3> DEFINE local == [NoLocal EXCEPT !.auction = loc[p].auction]
      <3>1. Goto(p, "insert", local) /\ local.auction = loc[p].auction
        BY <2>2, ZenonT(60) DEF CommitAuction, NoLocal
      <3> HIDE DEF local
      <3>2. /\ Alone(p) /\ pc'[p] = "insert" /\ call' = call
            /\ loc'[p].auction = loc[p].auction
        BY <1>1, <3>1, Moves, ZenonT(60)
      <3>3. InsertInv(p)'
        BY <1>1, <1>3, <3>2, ZenonT(60) DEF InsertInv, FirstPays
      <3> QED
        BY <3>2, <3>3, ZenonT(60) DEF SnapshotInv, DecideInv, Building
    <2> QED
      BY <2>1, <2>2, ZenonT(60) DEF CommitAuction
  <1>5. \A q \in Procs : SentInv(q)'
    BY <1>1, <1>4, SentKept, ZenonT(60) DEF Alone
  <1>6. {p} \in SUBSET Procs
    OBVIOUS
  <1> QED
    BY <1>1, <1>3, <1>4, <1>5, <1>6, Assemble, ZenonT(60) DEF Alone

\* A claim: the bids it listed are pending, since their auction was not
\* finished, and pay what the auction wants; or they were deleted with it.
LEMMA CommitClaimBids ==
  ASSUME IInv, BidInv, NEW p \in Procs, CommitClaim(p)
  PROVE  BidInv'
  <1> USE DEF history
  <1> DEFINE h == call[p].height
             a == [Stored(p) EXCEPT !.finished = TRUE]
             local == [NoLocal EXCEPT !.auction = a, !.listed = loc[p].listed]
  <1>1. /\ h \in Heights /\ a \in Auction /\ a.finished /\ a.gen = cleanups[h]
        /\ auctions[h] # NULL => a = [auctions[h] EXCEPT !.finished = TRUE]
        /\ auctions[h] = NULL \/ (auctions[h] \in Auction /\ ~ auctions[h].finished)
        /\ auctions' = [auctions EXCEPT ![h] = a]
    BY ClaimWrites, ZenonT(60)
  <1>2. /\ TypeOK /\ pc[p] = "commit" /\ auctions[h] \in {NULL, loc[p].seen}
        /\ loc[p].listed \subseteq BidIds /\ SnapshotInv(p)
        /\ Goto(p, "order", local)
        /\ UNCHANGED <<bids, cleanups, blocks>>
    BY RequestTypes, ZenonT(60) DEF CommitClaim, NoConflict, IInv, BidInv
  <1>3. local.auction = a /\ local.listed = loc[p].listed /\ local.accepted = {}
    BY DEF NoLocal
  <1>4. auctions[h] # NULL => a.payTo = auctions[h].payTo
    BY <1>1, ZenonT(60) DEF Auction
  <1> HIDE DEF local, a, h
  <1>5. /\ Alone(p) /\ pc'[p] = "order" /\ call' = call /\ loc'[p].auction = a
        /\ loc'[p].listed = loc[p].listed /\ loc'[p].accepted = {}
    BY <1>2, <1>3, Moves, ZenonT(60)
  <1>6. Evolves /\ \A b \in BidIds : Undecided(b)
    BY <1>1, <1>2, <1>4, RowEvolves, ZenonT(60)
  <1>7. ASSUME NEW b \in loc[p].listed
        PROVE  /\ bids[b] # NULL /\ bids[b].height = h
               /\ cleanups[h] = 0 => BidPays[b] = a.payTo
               /\ bids[b].state \in {"deleted", "pending"}
    <2>1. /\ b \in BidIds /\ bids[b] # NULL /\ bids[b].height = h
      BY <1>2, ZenonT(60) DEF SnapshotInv, PlacedIn, h
    <2>2. cleanups[h] = 0 => BidPays[b] = a.payTo
      BY <1>4, <2>1 DEF BidInv, PlacedInv, FirstPays
    <2>3. bids[b].state \notin {"accepted", "rejected"}
      BY <1>1, <2>1, ZenonT(60) DEF BidInv, SettledAfterFinish
    <2>4. bids[b].state \in BidState
      BY <1>2, <2>1, ZenonT(60) DEF TypeOK, Bid
    <2> QED
      BY <2>1, <2>2, <2>3, <2>4 DEF BidState
  <1>8. SnapshotInv(p)' /\ InsertInv(p)'
    BY <1>5, ZenonT(60) DEF SnapshotInv, InsertInv
  <1>9. DecideInv(p)'
    BY <1>1, <1>2, <1>5, <1>7 DEF DecideInv, PlacedIn, h
  <1>10. \A q \in Procs : SentInv(q)'
    BY <1>2, <1>5, SentKept, ZenonT(60) DEF Alone
  <1>11. {p} \in SUBSET Procs
    OBVIOUS
  <1> QED
    BY <1>2, <1>5, <1>6, <1>8, <1>9, <1>10, <1>11, Assemble, ZenonT(60) DEF Alone

\* InsertBid: the bid is new, and was evaluated against the auction it is in.
LEMMA InsertBids ==
  ASSUME IInv, BidInv, NEW p \in Procs, InsertBid(p)
  PROVE  BidInv'
  <1> USE DEF history
  <1> DEFINE c == call[p].bid
             h == call[p].height
  <1>1. /\ TypeOK /\ pc[p] = "insert" /\ call[p] # NULL /\ call[p].op = "bid"
        /\ c \in BidIds /\ h \in Heights
        /\ auctions[h] # NULL /\ BidPays[c] = loc[p].auction.payTo
        /\ Return(p) /\ UNCHANGED <<auctions, cleanups, blocks>>
    BY RequestTypes, ZenonT(60) DEF InsertBid, EvaluateBid, IInv, CallInv
  <1>2. /\ SentInv(p) /\ bids[c] = NULL /\ FirstPays(h, BidPays[c])
    BY <1>1, ZenonT(60) DEF BidInv, SentInv, InsertInv
  <1>3. /\ bids'[c] # NULL /\ bids'[c].height = h /\ bids'[c].state = "pending"
        /\ \A b \in BidIds \ {c} : bids'[b] = bids[b]
    <2>1. [height |-> h, state |-> "pending"] \in Bid
      BY <1>1, ZenonT(60) DEF Bid, BidState
    <2> QED
      BY <1>1, <2>1, NullAssumption, ZenonT(60) DEF InsertBid, TypeOK
  <1>4. /\ Alone(p) /\ pc'[p] = "idle" /\ call'[p] = NULL
    BY <1>1, Leaves, ZenonT(60)
  <1>5. \A q \in Procs \ {p} : call[q] # NULL /\ call[q].op = "bid" =>
                               call[q].bid \in BidIds \ {c}
    <2>1. \A q \in Procs : call[q] # NULL /\ call[q].op = "bid" =>
                            call[q].bid \in BidIds
      BY ZenonT(60) DEF IInv, CallInv
    <2> QED
      BY <1>1, <1>2, <2>1, ZenonT(60) DEF SentInv
  <1> HIDE DEF c, h
  <1>6. Evolves /\ \A b \in BidIds \ {c} : Undecided(b)
    BY <1>1, <1>2, <1>3, ZenonT(60) DEF Evolves, RowKept, BidKept, Undecided
  <1>7. \A q \in Procs : SentInv(q)'
    <2> SUFFICES ASSUME NEW q \in Procs \ {p}, call[q] # NULL, call[q].op = "bid"
                 PROVE  SentInv(q)'
      BY <1>4, ZenonT(60) DEF SentInv, Alone
    <2>1. SentInv(q) /\ call[q].bid \in BidIds \ {c}
      BY <1>5, ZenonT(60) DEF BidInv
    <2>2. bids'[call[q].bid] = NULL
      BY <1>3, <2>1, ZenonT(60) DEF SentInv
    <2> QED
      BY <1>4, <2>1, <2>2, ZenonT(60) DEF SentInv, Alone
  <1>8. \A q \in Procs : SnapshotInv(q)' /\ InsertInv(q)' /\ DecideInv(q)'
    <2>1. ASSUME NEW q \in Procs \ {p} PROVE \A b \in loc[q].listed : Undecided(b)
      <3>1. ListedInv(q) /\ loc[q].listed \subseteq BidIds
        BY ZenonT(60) DEF IInv, TypeOK, Local
      <3> QED
        BY <1>2, <1>6, <3>1, ZenonT(60) DEF ListedInv
    <2> QED
      BY <1>4, <1>6, <2>1, OtherBids, Rests, ZenonT(60) DEF Alone
  <1>9. \A b \in BidIds : PlacedInv(b)'
    <2>1. ASSUME NEW b \in BidIds, b = c PROVE PlacedInv(b)'
      BY <1>1, <1>2, <1>3, <2>1, ZenonT(60) DEF PlacedInv, FirstPays
    <2>2. ASSUME NEW b \in BidIds \ {c} PROVE PlacedInv(b)'
      BY <1>3, <1>6, PlacedKept, ZenonT(60) DEF PlacedInv
    <2> QED
      BY <2>1, <2>2, ZenonT(60)
  <1>10. SettledAfterFinish'
    <2>1. \A b \in BidIds : Settled(b)' => b # c
      BY <1>3, ZenonT(60) DEF Settled
    <2> QED
      BY <1>3, <1>6, <2>1, SettledKept, ZenonT(60) DEF SettledAfterFinish, Settled
  <1>11. \A k \in blocks' : GivenInv(k)'
    <2> SUFFICES ASSUME NEW k \in blocks PROVE GivenInv(k)'
      BY <1>1, ZenonT(60)
    <2>1. k.listed \subseteq BidIds /\ \A b \in k.listed : bids[b] # NULL
      BY ZenonT(60) DEF IInv, TypeOK, Block, BidInv, GivenInv, PlacedIn
    <2> QED
      BY <1>2, <1>6, <2>1, GivenKept, ZenonT(60)
  <1> QED
    BY <1>7, <1>8, <1>9, <1>10, <1>11, ZenonT(60) DEF BidInv

\* UpdateBids decides bids of the auction that p holds a claim on; nobody else
\* builds from them, and no block was given with them.
LEMMA UpdateBidsStep ==
  ASSUME IInv, BidInv, NEW p \in Procs, UpdateBids(p)
  PROVE  BidInv'
  <1> USE DEF history
  <1> DEFINE h == call[p].height
             g == loc[p].auction.gen
             mine == {b \in loc[p].listed : bids[b].state # "deleted"}
  <1>1. /\ TypeOK /\ pc[p] = "update" /\ Building(p) /\ DecideInv(p) /\ BuildInv(p)
        /\ h \in Heights /\ loc[p].auction \in Auction
        /\ loc[p].listed \subseteq BidIds /\ mine \subseteq BidIds
        /\ bids' = Decided(p) /\ Goto(p, "respond", loc[p])
        /\ UNCHANGED <<auctions, cleanups, blocks>>
    BY RequestTypes, ZenonT(60) DEF UpdateBids, Building, IInv, BidInv
  <1>2. /\ Alone(p) /\ pc'[p] = "respond" /\ call' = call /\ loc'[p] = loc[p]
    BY <1>1, Moves, ZenonT(60)
  <1>3. \A b \in mine : bids[b] # NULL /\ bids[b].height = h /\ g = cleanups[h]
    BY <1>1, ZenonT(60) DEF DecideInv, PlacedIn
  <1>4. /\ \A b \in BidIds \ mine : bids'[b] = bids[b]
        /\ \A b \in mine : /\ bids'[b] # NULL /\ bids'[b].height = h
                            /\ bids'[b].state = Verdict(b, loc[p].accepted)
    <2>1. \A b \in BidIds \ mine : bids'[b] = bids[b]
      BY <1>1, ZenonT(60) DEF Decided
    <2>2. ASSUME NEW b \in mine
          PROVE  /\ bids'[b] # NULL /\ bids'[b].height = h
                 /\ bids'[b].state = Verdict(b, loc[p].accepted)
      <3>1. bids[b] \in Bid /\ bids[b].height = h
        BY <1>1, <1>3, ZenonT(60) DEF TypeOK
      <3>2. bids'[b] = [bids[b] EXCEPT !.state = Verdict(b, loc[p].accepted)]
        BY <1>1 DEF Decided, Verdict
      <3> QED
        BY <3>1, <3>2, NullAssumption, ZenonT(60) DEF Bid, Verdict, BidState
    <2> QED
      BY <2>1, <2>2, ZenonT(60)
  <1> HIDE DEF mine
  <1>5. Evolves /\ \A b \in BidIds \ mine : Undecided(b)
    BY <1>1, <1>3, <1>4, ZenonT(60) DEF Evolves, RowKept, BidKept, Undecided, mine
  <1>6. \A q \in Procs : SentInv(q)'
    <2>1. \A b \in BidIds : bids[b] = NULL => bids'[b] = NULL
      BY <1>3, <1>4, ZenonT(60)
    <2> QED
      BY <1>2, <2>1, SentKept, ZenonT(60)
  <1>7. ASSUME NEW q \in Procs \ {p}
        PROVE  SnapshotInv(q)' /\ InsertInv(q)' /\ DecideInv(q)'
    <2>1. ASSUME Building(q), NEW b \in loc[q].listed PROVE Undecided(b)
      <3>1. PlacedIn(b, call[q].height, loc[q].auction.gen) /\ b \in BidIds
        BY <2>1, RequestTypes, ZenonT(60) DEF BidInv, DecideInv, Building
      <3>2. ASSUME b \in mine PROVE FALSE
        <4>1. call[q].height = h /\ loc[q].auction.gen = g
          BY <1>3, <3>1, <3>2, ZenonT(60) DEF PlacedIn, mine
        <4> QED
          BY <1>1, <2>1, <4>1, ZenonT(60) DEF IInv, ExclusiveBuild
      <3> QED
        BY <1>5, <3>1, <3>2, ZenonT(60)
    <2> QED
      BY <1>2, <1>5, <2>1, OtherBids, ZenonT(60) DEF Alone
  <1>8. SnapshotInv(p)' /\ InsertInv(p)' /\ DecideInv(p)'
    <2>1. ASSUME NEW b \in loc[p].listed
          PROVE  /\ bids'[b] # NULL /\ bids'[b].height = h
                 /\ bids'[b].state # "deleted" => g = cleanups[h]
                 /\ g = 0 => BidPays[b] = loc[p].auction.payTo
                 /\ bids'[b].state \in {"deleted", Verdict(b, loc[p].accepted)}
      <3>1. /\ PlacedIn(b, h, g) /\ b \in BidIds
            /\ g = 0 => BidPays[b] = loc[p].auction.payTo
        BY <1>1, ZenonT(60) DEF DecideInv
      <3>2. CASE b \in mine
        BY <1>3, <1>4, <3>1, <3>2, ZenonT(60)
      <3>3. CASE b \notin mine
        BY <1>4, <3>1, <3>3, ZenonT(60) DEF mine, PlacedIn
      <3> QED
        BY <3>2, <3>3, ZenonT(60)
    <2>2. loc[p].accepted \subseteq loc[p].listed
      BY <1>1, ZenonT(60) DEF DecideInv
    <2>3. DecideInv(p)'
      BY <1>1, <1>2, <2>1, <2>2, ZenonT(60) DEF DecideInv, PlacedIn
    <2> QED
      BY <1>2, <2>3, ZenonT(60) DEF SnapshotInv, InsertInv
  <1>9. \A b \in BidIds : PlacedInv(b)'
    <2>1. \A b \in BidIds : bids[b] = NULL => PlacedInv(b)'
      BY <1>3, <1>4, ZenonT(60) DEF PlacedInv
    <2> QED
      BY <1>5, <2>1, PlacedKept
  <1>10. SettledAfterFinish'
    <2>1. ASSUME NEW b \in mine PROVE auctions'[h] # NULL /\ auctions'[h].finished
      BY <1>1, <1>3, NullAssumption, ZenonT(60) DEF BuildInv, WasClaimed
    <2>2. ASSUME NEW b \in BidIds \ mine, Settled(b)'
          PROVE  /\ auctions'[bids'[b].height] # NULL
                 /\ auctions'[bids'[b].height].finished
      BY <1>4, <1>5, <2>2, SettledKept, ZenonT(60) DEF Settled
    <2> QED
      BY <1>4, <2>1, <2>2, ZenonT(60) DEF SettledAfterFinish, Settled
  <1>11. \A k \in blocks' : GivenInv(k)'
    <2> SUFFICES ASSUME NEW k \in blocks PROVE GivenInv(k)'
      BY <1>1, ZenonT(60)
    <2>1. ASSUME NEW b \in k.listed PROVE Undecided(b)
      <3>1. PlacedIn(b, k.height, k.auction.gen) /\ b \in BidIds
        BY ZenonT(60) DEF IInv, TypeOK, Block, BidInv, GivenInv
      <3>2. ASSUME b \in mine PROVE FALSE
        <4>1. k.height = h /\ k.auction.gen = g
          BY <1>3, <3>1, <3>2, ZenonT(60) DEF PlacedIn, mine
        <4> QED
          BY <1>1, <4>1, ZenonT(60) DEF IInv, BlockInv
      <3> QED
        BY <1>5, <3>1, <3>2, ZenonT(60)
    <2> QED
      BY <1>5, <2>1, GivenKept, ZenonT(60)
  <1> QED
    BY <1>6, <1>7, <1>8, <1>9, <1>10, <1>11, ZenonT(60) DEF BidInv

\* The response: the block has the bids that the claim accepted.
LEMMA RespondBids ==
  ASSUME IInv, BidInv, NEW p \in Procs, Respond(p)
  PROVE  BidInv'
  <1> DEFINE k == [height |-> call[p].height, auction |-> loc[p].auction,
                   builder |-> call[p].validator, listed |-> loc[p].listed,
                   bids |-> loc[p].accepted]
  <1>1. /\ TypeOK /\ pc[p] = "respond" /\ DecideInv(p) /\ Return(p)
        /\ blocks' = blocks \cup {k}
        /\ UNCHANGED <<auctions, bids, cleanups>>
    BY ZenonT(60) DEF Respond, IInv, BidInv
  <1>2. Alone(p) /\ pc'[p] = "idle" /\ call'[p] = NULL
    BY <1>1, Leaves, ZenonT(60)
  <1>3. GivenInv(k)
    BY <1>1, ZenonT(60) DEF DecideInv, GivenInv, Building
  <1> HIDE DEF k
  <1>4. Evolves /\ \A b \in BidIds : Undecided(b)
    BY <1>1, SameEvolves, ZenonT(60)
  <1>5. \A q \in Procs : SentInv(q)'
    BY <1>1, <1>2, SentKept, ZenonT(60) DEF Alone
  <1>6. \A q \in Procs : SnapshotInv(q)' /\ InsertInv(q)' /\ DecideInv(q)'
    <2>1. \A q \in Procs : loc[q].listed \subseteq BidIds
      BY ZenonT(60) DEF IInv, TypeOK, Local
    <2> QED
      BY <1>2, <1>4, <2>1, OtherBids, Rests, ZenonT(60) DEF Alone
  <1>7. (\A b \in BidIds : PlacedInv(b)') /\ SettledAfterFinish'
    BY <1>1, ZenonT(60) DEF BidInv, PlacedInv, FirstPays, SettledAfterFinish
  <1>8. \A l \in blocks' : GivenInv(l)'
    <2>1. \A l \in blocks : l.listed \subseteq BidIds
      BY <1>1, ZenonT(60) DEF TypeOK, Block
    <2>2. \A l \in blocks : GivenInv(l)'
      BY <1>4, <2>1, GivenKept, ZenonT(60)
    <2>3. \A l : GivenInv(l) => GivenInv(l)'
      BY <1>1, ZenonT(60) DEF GivenInv, PlacedIn
    <2> QED
      BY <1>1, <1>3, <2>2, <2>3, ZenonT(60)
  <1> QED
    BY <1>5, <1>6, <1>7, <1>8, ZenonT(60) DEF BidInv

-----------------------------------------------------------------------------
(* The environment.                                                        *)

\* Cleanup deletes the bids of the auctions that it deletes.
LEMMA CleanupBids ==
  ASSUME IInv, BidInv, Cleanup
  PROVE  BidInv'
  <1>1. /\ TypeOK /\ bids' = DeleteBids(ExpiredAuctions)
        /\ auctions' = [h \in Heights |-> IF Expired(h) THEN NULL ELSE auctions[h]]
        /\ cleanups' = [h \in Heights |-> IF Expired(h) THEN cleanups[h] + 1
                                                        ELSE cleanups[h]]
        /\ UNCHANGED <<pc, call, loc, blocks>>
    BY ZenonT(60) DEF Cleanup, IInv
  <1>2. ASSUME NEW b \in BidIds
        PROVE  /\ bids[b] = NULL => bids'[b] = NULL
               /\ bids[b] # NULL =>
                    /\ bids'[b] # NULL /\ bids'[b].height = bids[b].height
                    /\ bids'[b].state = IF Expired(bids[b].height) THEN "deleted"
                                        ELSE bids[b].state
    <2>1. CASE bids[b] = NULL
      BY <1>1, <2>1, ZenonT(60) DEF DeleteBids
    <2>2. CASE bids[b] # NULL
      <3>1. bids[b] \in Bid /\ bids[b].height \in Heights
        BY <1>1, <2>2, ZenonT(60) DEF TypeOK, Bid
      <3>2. bids'[b] = IF Expired(bids[b].height)
                       THEN [bids[b] EXCEPT !.state = "deleted"] ELSE bids[b]
        BY <1>1, <2>2, <3>1, ZenonT(60) DEF DeleteBids, ExpiredAuctions
      <3>3. [bids[b] EXCEPT !.state = "deleted"] \in Bid
        BY <3>1 DEF Bid, BidState
      <3> QED
        BY <2>2, <3>1, <3>2, <3>3, NullAssumption, ZenonT(60) DEF Bid
    <2> QED
      BY <2>1, <2>2, ZenonT(60)
  <1>3. \A h \in Heights : RowKept(h) \/ RowGone(h)
    BY <1>1, <1>2, ZenonT(60) DEF RowKept, RowGone
  <1>4. Evolves
    BY <1>2, <1>3, ZenonT(60) DEF Evolves, BidKept
  <1>5. \A b \in BidIds : bids[b] # NULL => Undecided(b)
    BY <1>2, ZenonT(60) DEF Undecided
  <1>6. \A q \in Procs : SentInv(q)'
    BY <1>1, <1>2, SentKept, ZenonT(60)
  <1>7. \A q \in Procs : SnapshotInv(q)' /\ InsertInv(q)' /\ DecideInv(q)'
    <2>1. \A q \in Procs : \A b \in loc[q].listed : b \in BidIds /\ bids[b] # NULL
      BY DEF IInv, TypeOK, Local, ListedInv
    <2> QED
      BY <1>1, <1>4, <1>5, <2>1, OtherBids, ZenonT(60)
  <1>8. \A b \in BidIds : PlacedInv(b)'
    BY <1>2, <1>4, PlacedKept, ZenonT(60) DEF PlacedInv
  <1>9. SettledAfterFinish'
    BY <1>2, <1>4, <1>5, SettledKept, ZenonT(60) DEF SettledAfterFinish, Settled
  <1>10. \A k \in blocks' : GivenInv(k)'
    <2>1. \A k \in blocks : \A b \in k.listed : b \in BidIds /\ bids[b] # NULL
      BY ZenonT(60) DEF IInv, TypeOK, Block, BidInv, GivenInv, PlacedIn
    <2> QED
      BY <1>1, <1>4, <1>5, <2>1, GivenKept, ZenonT(60)
  <1> QED
    BY <1>6, <1>7, <1>8, <1>9, <1>10, ZenonT(60) DEF BidInv

\* The chain and the registrations do not touch what the invariant is about.
LEMMA SameBids ==
  ASSUME IInv, BidInv, UNCHANGED <<auctions, bids, pc, call, loc, cleanups, blocks>>
  PROVE  BidInv'
  <1>1. Evolves /\ \A b \in BidIds : Undecided(b)
    BY SameEvolves, ZenonT(60)
  <1>2. \A q \in Procs : SentInv(q)'
    BY SentKept, ZenonT(60)
  <1>3. {} \in SUBSET Procs
    BY ZenonT(60)
  <1> QED
    BY <1>1, <1>2, <1>3, Assemble, ZenonT(60)

-----------------------------------------------------------------------------
\* Every step keeps the invariant of the bids.
LEMMA NextBids == IInv /\ BidInv /\ [Next]_vars => BidInv'
  <1> SUFFICES ASSUME IInv, BidInv, [Next]_vars PROVE BidInv'
    OBVIOUS
  <1>1. CASE Environment
    BY <1>1, CleanupBids, SameBids, ZenonT(60)
       DEF Environment, AdvanceChain, RegisterValidator, history
  <1>2. CASE \E p \in Procs : Arrive(p) \/ Serve(p) \/ Fail(p)
    BY <1>2, ArriveBids, SnapshotBids, QuietBids, OrderBidsStep, CommitAuctionBids,
       CommitClaimBids, InsertBids, UpdateBidsStep, RespondBids, ZenonT(60) DEF Serve
  <1>3. CASE UNCHANGED vars
    BY <1>3, SameBids, ZenonT(60) DEF vars
  <1> QED
    BY <1>1, <1>2, <1>3, ZenonT(60) DEF Next

\* The inductive invariant of the bids holds throughout.
THEOREM BidInvariance == Spec => []BidInv
  BY InitBids, NextBids, Invariance, PTL DEF Spec

\* UpdateBids decides a bid only while its auction is there, and finished by the
\* claim of the request that decides, for any number of requests.
THEOREM DecidedAfterFinish == Spec => []SettledAfterFinish
  <1>1. BidInv => SettledAfterFinish
    BY ZenonT(60) DEF BidInv
  <1> QED
    BY <1>1, BidInvariance, PTL

\* The store agrees with every block that was handed out, until it cleans the
\* bids up.
THEOREM BlocksStored == Spec => []BlockBidsStored
  <1>1. BidInv => BlockBidsStored
    BY ZenonT(60) DEF BidInv, GivenInv, BlockBidsStored
  <1> QED
    BY <1>1, BidInvariance, PTL

\* The bids of a block pay the address recorded in its auction, however often
\* the validator registers anew, at a height that was not cleaned up before.
THEOREM BlocksPay == Spec => []BlockPaysAuction
  <1>1. BidInv => BlockPaysAuction
    BY ZenonT(60) DEF BidInv, GivenInv, BlockPaysAuction
  <1> QED
    BY <1>1, BidInvariance, PTL
=============================================================================
