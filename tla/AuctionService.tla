---------------------------- MODULE AuctionService ----------------------------
(***************************************************************************)
(* The auction life cycle of one chain: the handlers Auction, Bid, Build   *)
(* and BuildV1 of block.CoreService, run by concurrent request goroutines  *)
(* over the PostgreSQL store (pgstore), beside a chain that advances,      *)
(* validators that (re-)register and the periodic Cleanup.                 *)
(*                                                                         *)
(* A store transaction is a serializable PostgreSQL transaction: it works  *)
(* on the snapshot taken by its first statement, and may not commit a      *)
(* write to an auction row that another transaction wrote since then;      *)
(* PostgreSQL may answer 40001 (serialization failure) whenever it likes.  *)
(* Statements issued outside Transact (InsertBid, UpdateBids,              *)
(* UpsertValidator, Cleanup) are transactions of their own.  What the      *)
(* transactions contain of a block is left to module BlockBuilder.         *)
(***************************************************************************)
EXTENDS Integers

CONSTANTS
  Searchers,      \* goroutines that serve Auction and Bid requests
  Builders,       \* goroutines that serve Build and BuildV1 requests
  Validators,     \* validator addresses
  PayAddrs,       \* payment addresses
  StakingAddr,    \* payment address of a validator according to its chain
  BidIds,         \* the bids that can be placed, each at most once
  BidPays,        \* the address that the transactions of a bid pay
  MaxHeight,      \* bound: the chain stops at this height
  Requested,      \* bound: the heights that requests ask for
  AuctionOffset,  \* how far ahead an auction can be asked for (code: 10)
  BuildOffset,    \* how far ahead a block can be built (code: 2)
  MaxTries,       \* attempts of Transact (code: 3)
  Retention,      \* chains.retention_time, measured in blocks
  NULL            \* no row, no value

Procs == Searchers \cup Builders
Heights == 1..MaxHeight

ASSUME ConstantsAssumption ==
  /\ MaxHeight \in Nat \ {0}
  /\ Requested \subseteq Heights
  /\ AuctionOffset \in Nat /\ BuildOffset \in Nat
  /\ MaxTries \in Nat \ {0}
  /\ Retention \in Nat \ {0}
  /\ StakingAddr \in [Validators -> PayAddrs]
  /\ BidPays \in [BidIds -> PayAddrs]
  /\ Searchers \cap Builders = {}
  /\ NULL \notin Validators \cup PayAddrs \cup BidIds

VARIABLES
  latest,      \* LatestHeight of the chain
  predicted,   \* PredictProposer, for the latest validator set
  validators,  \* table validators: payment address by address, or NULL
  auctions,    \* table auctions: row by height, or NULL
  bids,        \* table bids: row by id, or NULL before it is inserted
  pc,          \* where each request is
  call,        \* the arguments of each request
  loc,         \* the local variables of each request
  cleanups,    \* history: how often the auction of a height was cleaned up
  claims,      \* history: how often the present auction was claimed
  blocks       \* history: the blocks that were handed to a validator

chainVars == <<latest, predicted>>
history == <<cleanups, claims, blocks>>
vars == <<latest, predicted, validators, auctions, bids, pc, call, loc,
          cleanups, claims, blocks>>

-----------------------------------------------------------------------------
(* The rows of the store, the requests and their local state.              *)

\* created is created_at, measured by the height that the chain reported to
\* the transaction that created the row (a transaction is short against the
\* retention time); gen tells a row from one
\* of the same height that was deleted before it.
Auction == [validator: Validators, payTo: PayAddrs, created: Nat, gen: Nat,
            finished: BOOLEAN]

\* "deleted" stands for a row that is gone: identifiers are never reused.
BidState == {"pending", "accepted", "rejected", "deleted"}
Bid == [height: Heights, state: BidState]

Call == [op: {"auction", "bid", "build", "buildV1"}, height: Requested,
         validator: Validators \cup {NULL}, bid: BidIds \cup {NULL}]

\* In the snapshot of a transaction known is the table of validators, seen the
\* row of the auction and listed its bids.  auction is the variable of that
\* name in the handlers.
Local == [try: Nat, known: [Validators -> PayAddrs \cup {NULL}],
          seen: Auction \cup {NULL}, auction: Auction \cup {NULL},
          listed: SUBSET BidIds, accepted: SUBSET BidIds]

Block == [height: Heights, auction: Auction, builder: Validators,
          listed: SUBSET BidIds, bids: SUBSET BidIds]

PCs == {"idle", "chainV1", "upsert", "begin", "verify", "commit", "insert",
        "order", "update", "respond"}

TypeOK ==
  /\ latest \in Heights
  /\ predicted \in [Requested -> Validators]
  /\ validators \in [Validators -> PayAddrs \cup {NULL}]
  /\ auctions \in [Heights -> Auction \cup {NULL}]
  /\ bids \in [BidIds -> Bid \cup {NULL}]
  /\ pc \in [Procs -> PCs]
  /\ call \in [Procs -> Call \cup {NULL}]
  /\ loc \in [Procs -> Local]
  /\ cleanups \in [Heights -> Nat]
  /\ claims \in [Heights -> Nat]
  /\ blocks \in SUBSET Block

ASSUME NullAssumption ==
  NULL \notin Auction /\ NULL \notin Bid /\ NULL \notin Call

NoValidators == [v \in Validators |-> NULL]

NoLocal == [try |-> 1, known |-> NoValidators, seen |-> NULL,
            auction |-> NULL, listed |-> {}, accepted |-> {}]

Init ==
  /\ latest = 1
  /\ predicted \in [Requested -> Validators]
  /\ validators = NoValidators
  /\ auctions = [h \in Heights |-> NULL]
  /\ bids = [b \in BidIds |-> NULL]
  /\ pc = [p \in Procs |-> "idle"]
  /\ call = [p \in Procs |-> NULL]
  /\ loc = [p \in Procs |-> NoLocal]
  /\ cleanups = [h \in Heights |-> 0]
  /\ claims = [h \in Heights |-> 0]
  /\ blocks = {}

-----------------------------------------------------------------------------
(* The environment: the chain, registrations, the clock-driven clean-up.   *)

\* A block is committed; the validator set, and so the proposers predicted
\* for the heights ahead, may change with it.
AdvanceChain ==
  /\ latest < MaxHeight
  /\ latest' = latest + 1
  /\ predicted' \in [Requested -> Validators]
  /\ \A h \in Requested : h <= latest' => predicted'[h] = predicted[h]
  /\ UNCHANGED <<validators, auctions, bids, pc, call, loc, history>>

\* The upsert that ends a successful Register.
RegisterValidator(v, addr) ==
  /\ validators' = [validators EXCEPT ![v] = addr]
  /\ UNCHANGED <<chainVars, auctions, bids, pc, call, loc, history>>

Expired(h) ==
  /\ auctions[h] # NULL
  /\ latest >= auctions[h].created + Retention

ExpiredAuctions == {h \in Heights : Expired(h)}

\* Mutant: the bids of a deleted auction stay.
KeepBids(hs) == bids

DeleteBids(hs) ==
  [b \in BidIds |-> IF bids[b] # NULL /\ bids[b].height \in hs
                    THEN [bids[b] EXCEPT !.state = "deleted"]
                    ELSE bids[b]]

\* One statement deletes the auctions past their retention time with their
\* bids.
Cleanup ==
  /\ ExpiredAuctions # {}
  /\ auctions' = [h \in Heights |-> IF Expired(h) THEN NULL ELSE auctions[h]]
  /\ bids' = DeleteBids(ExpiredAuctions)
  /\ cleanups' = [h \in Heights |-> IF Expired(h) THEN cleanups[h] + 1
                                                  ELSE cleanups[h]]
  /\ claims' = [h \in Heights |-> IF Expired(h) THEN 0 ELSE claims[h]]
  /\ UNCHANGED <<chainVars, validators, pc, call, loc, blocks>>

-----------------------------------------------------------------------------
(* Requests.                                                               *)

\* The request ends, with a result or an error: the goroutine is free.
Return(p) ==
  /\ pc' = [pc EXCEPT ![p] = "idle"]
  /\ call' = [call EXCEPT ![p] = NULL]
  /\ loc' = [loc EXCEPT ![p] = NoLocal]

Goto(p, to, local) ==
  /\ pc' = [pc EXCEPT ![p] = to]
  /\ loc' = [loc EXCEPT ![p] = local]
  /\ UNCHANGED call

\* A request arrives.
Receive(p, c) ==
  /\ pc[p] = "idle"
  /\ pc' = [pc EXCEPT ![p] = IF c.op = "buildV1" THEN "chainV1" ELSE "begin"]
  /\ call' = [call EXCEPT ![p] = c]
  /\ UNCHANGED <<chainVars, validators, auctions, bids, loc, history>>

\* A bid is sent once: a second submission would be another member of BidIds.
Unsent(b) ==
  /\ bids[b] = NULL
  /\ \A p \in Searchers : call[p] # NULL => call[p].bid # b

SearcherCalls ==
  [op: {"auction"}, height: Requested, validator: {NULL}, bid: {NULL}]
    \cup [op: {"bid"}, height: Requested, validator: {NULL},
          bid: {b \in BidIds : Unsent(b)}]

BuilderCalls ==
  [op: {"build", "buildV1"}, height: Requested, validator: Validators,
   bid: {NULL}]

\* The request fails on its way: an RPC or store error, a cancelled context,
\* a panic, a crash of the server.  An open transaction is rolled back; what
\* was committed stays.
Fail(p) ==
  /\ pc[p] # "idle"
  /\ Return(p)
  /\ UNCHANGED <<chainVars, validators, auctions, bids, history>>

BidsAt(h) ==
  {b \in BidIds : bids[b] # NULL /\ bids[b].height = h
                  /\ bids[b].state # "deleted"}

\* Mutant: the transaction is not isolated, the last writer wins.
LastWriterWins(p) == TRUE

\* A transaction works on rows of its snapshot.  Its write to an auction
\* conflicts with one that created or finished the row since; not with the
\* delete of Cleanup, which is no serializable transaction: "insert ... on
\* conflict" then meets no row, and inserts it.
NoConflict(p) == auctions[call[p].height] \in {NULL, loc[p].seen}

\* PostgreSQL reports 40001, at a conflict or whenever it likes: Transact
\* starts over, MaxTries times in all.
MayRetry(p) == loc[p].try < MaxTries

\* Mutant: the attempts are not counted.
TryAgain(p) == NoLocal

NextTry(p) == [NoLocal EXCEPT !.try = loc[p].try + 1]

SerializationFailure(p) ==
  /\ pc[p] \in {"verify", "commit"}
  /\ IF MayRetry(p)
     THEN Goto(p, "begin", NextTry(p))
     ELSE Return(p)
  /\ UNCHANGED <<chainVars, validators, auctions, bids, history>>

-----------------------------------------------------------------------------
(* verifyAuction, in the transactions of Auction (and so of Bid) and of    *)
(* Build.                                                                  *)

\* The first statement of the transaction takes the snapshot that all its
\* statements read; the chain is asked after it.
TakeSnapshot(p) ==
  LET h == call[p].height
  IN /\ pc[p] = "begin"
     /\ call[p].op # "buildV1"
     /\ Goto(p, "verify", [loc[p] EXCEPT !.known = validators,
                 !.seen = auctions[h],
                 !.listed = IF call[p].op = "build" THEN BidsAt(h) ELSE {}])
     /\ UNCHANGED <<chainVars, validators, auctions, bids, history>>

Offset(op) == IF op = "build" THEN BuildOffset ELSE AuctionOffset

\* The heights that are served: not too old, not too new, and ahead of the
\* validator set that PredictProposer starts from.
InWindow(h, offset) == latest < h /\ h <= latest + offset

\* The row found, or one to be created for v.
FindOrCreate(row, v, payTo) ==
  IF row # NULL THEN row
  ELSE [validator |-> v, payTo |-> payTo, created |-> latest, gen |-> 0,
        finished |-> FALSE]

\* Mutants: finished_at, or the validator, is not looked at.
UsableAgain(a, v) == a.validator = v
UsableByAnyone(a, v) == ~ a.finished

\* An auction can be used while it is not finished and its validator is the
\* proposer v.
Usable(a, v) == ~ a.finished /\ a.validator = v

Registered(p, v) == loc[p].known[v] # NULL

\* Build is signed with the key of validator call[p].validator.
VerifySignature(p) == call[p].op = "build" =>
                         call[p].validator = predicted[call[p].height]

\* verifyAuction goes on with the answers of the chain.  An error ends the
\* request: ErrAuctionTooOld, ErrAuctionTooNew, ErrAuctionUnavailable,
\* ErrAuctionFinished, another proposer, a bad signature.
VerifyAuction(p) ==
  LET h == call[p].height
      v == predicted[h]
      a == FindOrCreate(loc[p].seen, v, loc[p].known[v])
      ok == /\ InWindow(h, Offset(call[p].op))
            /\ Registered(p, v)
            /\ Usable(a, v)
            /\ VerifySignature(p)
  IN /\ pc[p] = "verify"
     /\ IF ok
        THEN Goto(p, "commit", [loc[p] EXCEPT !.auction = a,
                                  !.known = NoValidators])
        ELSE Return(p)
     /\ UNCHANGED <<chainVars, validators, auctions, bids, history>>

\* The row was there in the snapshot and Cleanup deleted it.
CleanedUp(p) == loc[p].seen # NULL /\ auctions[call[p].height] = NULL

\* The row that commits: one that is created is of the present generation, one
\* that is inserted again has a created_at of its own.
Stored(p) ==
  [loc[p].auction EXCEPT !.gen = cleanups[call[p].height],
                         !.created = IF CleanedUp(p) THEN latest ELSE @]

\* The transaction of Auction commits, with the auction it created if there
\* was none; Bid goes on with that auction.
CommitAuction(p) ==
  LET h == call[p].height
  IN /\ pc[p] = "commit"
     /\ call[p].op \in {"auction", "bid"}
     /\ IF loc[p].seen # NULL
        THEN UNCHANGED auctions
        ELSE /\ NoConflict(p)
             /\ auctions' = [auctions EXCEPT ![h] = Stored(p)]
     /\ IF call[p].op = "auction"
        THEN Return(p)
        ELSE Goto(p, "insert", [NoLocal EXCEPT !.auction = loc[p].auction])
     /\ UNCHANGED <<chainVars, validators, bids, history>>

\* The transaction of Build or BuildV1 commits: the auction is claimed.
CommitClaim(p) ==
  LET h == call[p].height
      a == [Stored(p) EXCEPT !.finished = TRUE]
  IN /\ pc[p] = "commit"
     /\ call[p].op \in {"build", "buildV1"}
     /\ NoConflict(p)
     /\ auctions' = [auctions EXCEPT ![h] = a]
     /\ claims' = [claims EXCEPT ![h] = @ + 1]
     /\ Goto(p, "order", [NoLocal EXCEPT !.auction = a,
                            !.listed = loc[p].listed])
     /\ UNCHANGED <<chainVars, validators, bids, cleanups, blocks>>

-----------------------------------------------------------------------------
(* The rest of Bid.                                                        *)

\* Mutant: the payments go to the address registered now.
EvaluateAgainstRegistered(p) ==
  BidPays[call[p].bid] = validators[loc[p].auction.validator]

\* evaluateBid accepts a bid that pays the address of the auction it read.
EvaluateBid(p) == BidPays[call[p].bid] = loc[p].auction.payTo

\* InsertBid, a statement of its own.  The foreign key wants the auction row
\* to be there; nobody looks at finished_at again.
InsertBid(p) ==
  LET h == call[p].height
  IN /\ pc[p] = "insert"
     /\ EvaluateBid(p)
     /\ auctions[h] # NULL
     /\ bids' = [bids EXCEPT ![call[p].bid] =
                    [height |-> h, state |-> "pending"]]
     /\ Return(p)
     /\ UNCHANGED <<chainVars, validators, auctions, history>>

\* evaluateBid or InsertBid returns an error.
RefuseBid(p) ==
  /\ pc[p] = "insert"
  /\ ~ EvaluateBid(p) \/ auctions[call[p].height] = NULL
  /\ Return(p)
  /\ UNCHANGED <<chainVars, validators, auctions, bids, history>>

-----------------------------------------------------------------------------
(* The rest of Build and BuildV1.                                          *)

\* BuildV1 asks the chain before its transaction: the height must be in the
\* window, and the request come from, and be signed by, the proposer.
AskChainV1(p) ==
  LET h == call[p].height
  IN /\ pc[p] = "chainV1"
     /\ IF InWindow(h, BuildOffset) /\ call[p].validator = predicted[h]
        THEN Goto(p, "upsert", loc[p])
        ELSE Return(p)
     /\ UNCHANGED <<chainVars, validators, auctions, bids, history>>

\* BuildV1 registers the proposer with the address its chain reports.
UpsertProposer(p) ==
  LET v == call[p].validator
  IN /\ pc[p] = "upsert"
     /\ validators' = [validators EXCEPT ![v] = StakingAddr[v]]
     /\ Goto(p, "begin", loc[p])
     /\ UNCHANGED <<chainVars, auctions, bids, history>>

\* The transaction of BuildV1 takes its snapshot.  It relies on what the
\* chain said before, and does not look at the table of validators.
SelectAuctionV1(p) ==
  LET h == call[p].height
      v == call[p].validator
      a == FindOrCreate(auctions[h], v, StakingAddr[v])
  IN /\ pc[p] = "begin"
     /\ call[p].op = "buildV1"
     /\ IF Usable(a, v)
        THEN Goto(p, "commit", [loc[p] EXCEPT !.seen = auctions[h],
                                  !.auction = a, !.listed = BidsAt(h)])
        ELSE Return(p)
     /\ UNCHANGED <<chainVars, validators, auctions, bids, history>>

\* computeOrder and selectTransactions decide every listed bid, in memory.
OrderBids(p) ==
  /\ pc[p] = "order"
  /\ \E acc \in SUBSET loc[p].listed :
        Goto(p, "update", [loc[p] EXCEPT !.accepted = acc])
  /\ UNCHANGED <<chainVars, validators, auctions, bids, history>>

\* Mutant: only the accepted bids are updated.
AcceptedOnly(p) ==
  [b \in BidIds |->
     IF b \in loc[p].accepted /\ bids[b].state # "deleted"
     THEN [bids[b] EXCEPT !.state = "accepted"] ELSE bids[b]]

Decided(p) ==
  [b \in BidIds |->
     IF b \in loc[p].listed /\ bids[b].state # "deleted"
     THEN [bids[b] EXCEPT !.state = IF b \in loc[p].accepted
                                    THEN "accepted" ELSE "rejected"]
     ELSE bids[b]]

\* UpdateBids stores the decisions, a statement of its own.
UpdateBids(p) ==
  /\ pc[p] = "update"
  /\ bids' = Decided(p)
  /\ Goto(p, "respond", loc[p])
  /\ UNCHANGED <<chainVars, validators, auctions, history>>

\* The block is handed to the validator.
Respond(p) ==
  /\ pc[p] = "respond"
  /\ blocks' = blocks \cup
       {[height |-> call[p].height, auction |-> loc[p].auction,
         builder |-> call[p].validator, listed |-> loc[p].listed,
         bids |-> loc[p].accepted]}
  /\ Return(p)
  /\ UNCHANGED <<chainVars, validators, auctions, bids, cleanups, claims>>

-----------------------------------------------------------------------------
Arrive(p) ==
  \/ p \in Searchers /\ \E c \in SearcherCalls : Receive(p, c)
  \/ p \in Builders /\ \E c \in BuilderCalls : Receive(p, c)

Serve(p) ==
  \/ TakeSnapshot(p)
  \/ VerifyAuction(p)
  \/ SerializationFailure(p)
  \/ CommitAuction(p)
  \/ CommitClaim(p)
  \/ InsertBid(p)
  \/ RefuseBid(p)
  \/ AskChainV1(p)
  \/ UpsertProposer(p)
  \/ SelectAuctionV1(p)
  \/ OrderBids(p)
  \/ UpdateBids(p)
  \/ Respond(p)

Environment ==
  \/ AdvanceChain
  \/ \E v \in Validators, a \in PayAddrs : RegisterValidator(v, a)
  \/ Cleanup

Next ==
  \/ Environment
  \/ \E p \in Procs : Arrive(p) \/ Serve(p) \/ Fail(p)

Spec == Init /\ [][Next]_vars

\* Every request that has arrived is served: its goroutine keeps running, the
\* calls it waits for return.
FairSpec == Spec /\ \A p \in Procs : WF_vars(Serve(p))

-----------------------------------------------------------------------------
(* Properties.                                                             *)

\* Build and BuildV1 claim an auction at most once, however many of them
\* compete for it, retry or crash: the finished_at test of verifyAuction
\* and BuildV1 decides on a row that no other request changed until the commit.
OneClaimPerAuction == \A h \in Heights : claims[h] <= 1

\* A block goes only to the validator the auction was opened for, also when
\* the predicted proposer changed after the auction was created or bid on.
BlockByRecordedProposer ==
  \A k \in blocks : k.builder = k.auction.validator

\* The bids of a block pay the validator address recorded in the claimed
\* auction, whatever addresses the validator registered in the meantime
\* (for a height whose auction was not cleaned up before).
BlockPaysAuction ==
  \A k \in blocks : k.auction.gen = 0 =>
     \A b \in k.bids : BidPays[b] = k.auction.payTo

\* The decision about b when the bids in acc are accepted.
Verdict(b, acc) == IF b \in acc THEN "accepted" ELSE "rejected"

\* What the store says about the bids of a block that was handed out agrees
\* with the block, and stays so until the bids are cleaned up: UpdateBids
\* precedes the response and no other request decides these bids.
BlockBidsStored ==
  \A k \in blocks : \A b \in k.listed :
     bids[b].state \in {"deleted", Verdict(b, k.bids)}

\* A bid is decided only when its auction is finished.
SettledAfterFinish ==
  \A b \in BidIds :
     (bids[b] # NULL /\ bids[b].state \in {"accepted", "rejected"})
        => /\ auctions[bids[b].height] # NULL
           /\ auctions[bids[b].height].finished

\* store.Auction: FinishedAt is the only field that changes after creation,
\* it is set once and never reset, and only Cleanup removes the row.
AuctionImmutable ==
  [][\A h \in Heights : auctions[h] # NULL =>
        \/ auctions'[h] = auctions[h]
        \/ auctions'[h] = [auctions[h] EXCEPT !.finished = TRUE]
        \/ auctions'[h] = NULL /\ latest >= auctions[h].created + Retention
    ]_vars

\* Every request ends, even if every transaction meets a serialization
\* failure: Transact gives up after MaxTries attempts.
RequestsEnd == \A p \in Procs : pc[p] # "idle" ~> pc[p] = "idle"

\* A block that was handed out is the only one of its auction: two requests
\* never build from the same claim.
OneBlockPerAuction ==
  \A k, l \in blocks :
     k.height = l.height /\ k.auction.gen = l.auction.gen => k = l

\* A request that claimed an auction and has not answered yet.
Building(p) == pc[p] \in {"order", "update", "respond"}

ClaimOf(p) == [height |-> call[p].height, gen |-> loc[p].auction.gen,
               validator |-> call[p].validator]

\* The refinement mapping.
Opened == [h \in Heights |-> IF auctions[h] = NULL THEN NULL
                             ELSE auctions[h].validator]
Claimed == {h \in Heights : auctions[h] # NULL /\ auctions[h].finished}
Rights == {ClaimOf(p) : p \in {q \in Procs : Building(q)}}
ClaimUsed(k) == [height |-> k.height, gen |-> k.auction.gen,
                 validator |-> k.builder]
Given == {ClaimUsed(k) : k \in blocks}

Lifecycle ==
  INSTANCE AuctionLifecycle WITH
    opened <- Opened, claimed <- Claimed, gen <- cleanups, rights <- Rights,
    given <- Given

\* The service keeps the promise of AuctionLifecycle: it opens, claims, gives
\* and expires auctions only in the steps allowed there.
ImplementsLifecycle == Lifecycle!Spec

\* A bid on an auction that is already finished is refused.
NoBidAfterFinish ==
  [][\A b \in BidIds : bids[b] = NULL /\ bids'[b] # NULL =>
        ~ auctions[bids'[b].height].finished]_vars

-----------------------------------------------------------------------------
(* The inductive invariant behind these properties.                        *)

\* A request has the arguments of its kind wherever it stands.
CallInv(p) ==
  /\ pc[p] = "idle" => call[p] = NULL /\ loc[p] = NoLocal
  /\ pc[p] # "idle" =>
       /\ call[p] \in Call
       /\ call[p].op = "bid" => call[p].bid \in BidIds
       /\ call[p].op \in {"build", "buildV1"} => call[p].validator \in Validators
  /\ pc[p] \in {"chainV1", "upsert"} => call[p].op = "buildV1"
  /\ pc[p] = "verify" => call[p].op # "buildV1"
  /\ pc[p] = "insert" => call[p].op = "bid" /\ loc[p].auction \in Auction
  /\ Building(p) => call[p].op \in {"build", "buildV1"}

\* A transaction that has passed its checks writes an unfinished auction of
\* the validator that calls, and keeps the row of its snapshot if it has one.
CommitInv(p) ==
  pc[p] = "commit" =>
     /\ loc[p].auction \in Auction
     /\ ~ loc[p].auction.finished
     /\ loc[p].seen # NULL => loc[p].auction = loc[p].seen
     /\ call[p].op \in {"build", "buildV1"} =>
           loc[p].auction.validator = call[p].validator

\* ListBids returned bids of the table.
ListedInv(p) == \A b \in loc[p].listed : bids[b] # NULL

\* finished_at is set exactly by a claim.
RowInv(h) ==
  /\ auctions[h] = NULL => claims[h] = 0
  /\ auctions[h] # NULL =>
       /\ auctions[h].gen = cleanups[h]
       /\ claims[h] = IF auctions[h].finished THEN 1 ELSE 0

\* a is the auction of height h, or one that was cleaned up since, and it
\* is finished.
WasClaimed(h, a) ==
  /\ a.finished
  /\ a.gen <= cleanups[h]
  /\ a.gen = cleanups[h] => auctions[h] = a

\* A request that builds holds a claim, for its own validator.
BuildInv(p) ==
  Building(p) =>
     /\ loc[p].auction \in Auction
     /\ loc[p].auction.validator = call[p].validator
     /\ WasClaimed(call[p].height, loc[p].auction)

\* No two requests build from the same claim.
ExclusiveBuild ==
  \A p, q \in Procs :
     Building(p) /\ Building(q) /\ call[p].height = call[q].height
        /\ loc[p].auction.gen = loc[q].auction.gen => p = q

\* The blocks handed out came from claims that are used up.
BlockInv ==
  \A k \in blocks :
     /\ WasClaimed(k.height, k.auction)
     /\ \A p \in Procs : Building(p) /\ call[p].height = k.height =>
           loc[p].auction.gen # k.auction.gen

\* Claims are exclusive from the commit to the block.
IInv ==
  /\ TypeOK
  /\ \A p \in Procs : /\ CallInv(p)
                      /\ CommitInv(p)
                      /\ ListedInv(p)
                      /\ BuildInv(p)
  /\ \A h \in Heights : RowInv(h)
  /\ ExclusiveBuild
  /\ BlockInv
  /\ OneBlockPerAuction
  /\ BlockByRecordedProposer

-----------------------------------------------------------------------------
(* The inductive invariant behind the properties of bids.                  *)

\* A bid that a request carries is not in the table, and no other request
\* carries it.
SentInv(p) ==
  (call[p] # NULL /\ call[p].op = "bid") =>
     /\ p \in Searchers
     /\ bids[call[p].bid] = NULL
     /\ \A q \in Procs : call[q] # NULL /\ call[q].op = "bid"
                            /\ call[q].bid = call[p].bid => q = p

\* Before any clean-up of height h its auction is there, and pays addr.
FirstPays(h, addr) ==
  cleanups[h] = 0 => auctions[h] # NULL /\ auctions[h].payTo = addr

\* b is a bid of height h that is deleted when generation g is cleaned up.
PlacedIn(b, h, g) ==
  /\ bids[b] # NULL /\ bids[b].height = h
  /\ bids[b].state # "deleted" => g = cleanups[h]

\* The foreign key; and bids were evaluated against the auction they are in.
PlacedInv(b) ==
  bids[b] # NULL =>
     /\ bids[b].state # "deleted" => auctions[bids[b].height] # NULL
     /\ FirstPays(bids[b].height, BidPays[b])

\* A transaction lists the bids of the row that it has seen.
SnapshotInv(p) ==
  pc[p] \in {"verify", "commit"} =>
     /\ loc[p].seen = NULL => loc[p].listed = {}
     /\ loc[p].seen # NULL =>
          /\ FirstPays(call[p].height, loc[p].seen.payTo)
          /\ \A b \in loc[p].listed : PlacedIn(b, call[p].height, loc[p].seen.gen)

\* Bid evaluates against the first auction of its height, if there is no other.
InsertInv(p) ==
  pc[p] = "insert" => FirstPays(call[p].height, loc[p].auction.payTo)

\* A request that builds decides the bids of the auction it claimed, and
\* nobody else does.
DecideInv(p) ==
  Building(p) =>
     /\ loc[p].accepted \subseteq loc[p].listed
     /\ \A b \in loc[p].listed :
          /\ PlacedIn(b, call[p].height, loc[p].auction.gen)
          /\ loc[p].auction.gen = 0 => BidPays[b] = loc[p].auction.payTo
          /\ bids[b].state \in
               {"deleted", IF pc[p] = "respond" THEN Verdict(b, loc[p].accepted)
                                                ELSE "pending"}

\* The bids of a block stay as it was handed out.
GivenInv(k) ==
  /\ k.bids \subseteq k.listed
  /\ \A b \in k.listed :
       /\ PlacedIn(b, k.height, k.auction.gen)
       /\ k.auction.gen = 0 => BidPays[b] = k.auction.payTo
       /\ bids[b].state \in {"deleted", Verdict(b, k.bids)}

BidInv ==
  /\ \A p \in Procs : /\ SentInv(p)
                      /\ SnapshotInv(p)
                      /\ InsertInv(p)
                      /\ DecideInv(p)
  /\ \A b \in BidIds : PlacedInv(b)
  /\ SettledAfterFinish
  /\ \A k \in blocks : GivenInv(k)
=============================================================================
