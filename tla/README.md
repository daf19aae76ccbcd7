# Zenith in TLA+

Zenith is a block builder service for Cosmos chains. Searchers place bids (lists
of transactions) on the auction of a height; the validator who proposes that
height asks for a block, and the service orders the winning bids and the
validator's mempool into one. This directory holds TLA+ models of the service,
TLC configurations that check them on small instances, and TLAPS proofs of the
most important invariants for instances of any size. Paths below are relative to
the repository (`src/`).

`PROJECT.json` lists the components, every run, the source lines that each
definition models (`map`), a mutation of the code for every checked property
(`mutants`), the hazards the properties are aimed at, and the findings.

## The system

| Part | State | Operations | Where |
|---|---|---|---|
| Auction service | tables auctions, bids, validators; locals of each request | `Auction`, `Bid`, `Build`, `BuildV1`, `verifyAuction` | `block/service.go` |
| Block building | bid states, claimed transactions, balances, totals | `evaluateBid`, `computeOrder`, `selectTransactions` | `block/service.go` |
| Registration | tables challenges, validators; connections of the pool | `Apply`, `Register` | `block/service.go`, `api/handler.go` |
| Store | the tables | serializable `Transact` with retries, autocommit statements, `Cleanup` | `store/pgstore/pgstore.go` |
| Caches of validator sets | ring and index; map and order of use; items with locks | `Get` | `chain/ring_cache.go`, `chain/cond_cache.go` |
| Chain client | position in pages, keys and nodes | `LatestHeight`, `ValidatorSet`, `PredictProposer`, `rpcClients.do` | `zcosmos/chain.go`, `zcosmos/rpc_clients.go` |
| Service manager, proxy | map from chain to service or to instance | `Refresh`, `GetService`, `handleProxy` | `block/service_manager.go`, `api/proxy.go`, `zcosmos/run_main.go`, `cmd/zenith-proxy/main.go` |
| A process | store, group of actors, requests in flight | `RunMain`, `exe`, `NewStore`, `Close`, signals and interrupts | `zcosmos/run_main.go`, `cmd/zenith-proxy/main.go`, `store/pgstore/pgstore.go` |

How they interact: the proxy sends a request to the API instance of the chain's
network; the instance gives it to the chain's service; the service talks to the
store (shared by all instances and the proxy) and, through the ring cache and
the chain client, to the full nodes of the chain. Three loops run beside the
requests: store clean-up, store metrics, and the refresh of services or routes.

What makes it hard: requests of several goroutines and processes interleave
between any two statements; the chain moves on between two questions; a request
may fail or the process crash between the commit of a claim and the response;
PostgreSQL may refuse any serializable transaction; some statements that look
transactional are not; nodes disagree about the height and fail halfway; the
caches are read while another caller fills, evicts or deletes; refreshes of two
processes see different versions of one table; a process is stopped while its
loops work and its requests hold connections.

## Modules

| Module | Models | Checked by |
|---|---|---|
| `AuctionService` | `Auction`, `Bid`, `Build`, `BuildV1`, Cleanup, one chain | runs `auction_*`, `AuctionServiceProofs` |
| `AuctionLifecycle` | what the auction service promises (abstract) | implemented by `AuctionService`: run `auction_refinement`, `AuctionServiceProofs` |
| `Payments` | what a list of transactions pays, takes and charges | used by `BlockBuilder`; `PaymentsProofs` |
| `BlockBuilder` | from the bids of a claimed auction to the block | runs `block_*`, `BlockBuilderSteps`, `BlockBuilderProofs`, `BlockBuilderOrder` |
| `Registration` | `Apply`, `Register`, the pool | run `registration`, `ServerProofs` |
| `ReadThrough` | what a cache of validator sets promises (abstract) | implemented by both caches |
| `RingCache` | `ring_cache.go` | run `ring_cache`, `InstanceProofs` |
| `CondCache` | `cond_cache.go` | run `cond_cache`, `ServerProofs` |
| `ValidatorSet` | `LatestHeight` and `ValidatorSet` over several nodes | run `validator_set`, `ValidatorSetProofs` |
| `Proposer` | `PredictProposer`, and the rotation of Tendermint | used by `ValidatorSet`: run `validator_set`, `ValidatorSetProofs` |
| `Routing` | proxy and instances over table chains | run `routing`, `ServerProofs` |
| `Process` | a process of either program from start to exit | run `process`, `InstanceProofs` |

`MC<Module>` gives the constants their values for TLC. Names follow the source;
an operator whose comment starts with "Mutant:" is a plausible error in the code,
used by no specification.

### AuctionService

A request is a process with a program counter. Its steps are what other requests
can observe: the snapshot of a transaction (`TakeSnapshot`, `SelectAuctionV1`),
the answers of the chain (`VerifyAuction`, `AskChainV1`), the commit
(`CommitAuction`, `CommitClaim`), and each statement outside a transaction
(`UpsertProposer`, `InsertBid`, `UpdateBids`). `Fail` ends a request anywhere: an
error, a cancelled context, a panic, a crash.

The store is modelled from how `pgstore` uses PostgreSQL at isolation level
serializable: a transaction reads the snapshot that its first statement took
and may commit a write to an auction row only if the row is still the one of the
snapshot, or is gone (`NoConflict`): a row that `Cleanup` has removed since is
inserted again, with a new `created_at` (`CleanedUp`); error 40001 may come at any time, and `Transact` starts over, three
times in all (`MaxTries`). `InsertBid`, `UpdateBids`, `UpsertValidator` and
`Cleanup` are single statements with their own commit. A transaction that only
reads commits without a conflict. The foreign key of a bid needs the auction row
to exist and does not conflict with an update of `finished_at`.

Abstractions: a bid is the address it pays; a block is the set of bids accepted
of those listed (any subset: `BlockBuilder` says which); `created_at` and the
retention time are measured in blocks; a proposer is predicted arbitrarily for
heights ahead, and may change with each block; an auction has a generation, which
the table has not, to tell it from one that was cleaned up before it. A deleted
bid keeps its identifier, since identifiers are never reused. `registered_power`
and `total_power` decide nothing and are left out.

### Payments, BlockBuilder

One build, in rounds: bids are placed (`evaluateBid`), then one action per
iteration of each loop of `computeOrder` and `selectTransactions`. What these
compute without touching the state of the build (payments, sizes, charges to
balances) are the operators of `Payments`. A transaction is opaque; constants say whether it decodes, what it encodes to, whom
it pays, its bytes and gas. Bids are normalised, mempool transactions are not, as
in the code. A transaction that was encoded again decodes, encodes and pays as
before (`NormalAssumption`). Sums are int64 with wrap-around at `MaxInt`, a
constant. A row from before bids were evaluated on arrival (`OldIds`) is evaluated during the build. The float
comparison of allocations is done in integers, in per cent.

### Registration

`Register` opens a transaction, but its closure uses `s.store`, so each
statement inside runs on a second connection and commits by itself. The module
has the pool: a transaction and each statement need a free connection. Two
Registers that overlap may therefore both succeed with one challenge, and a
`DeleteChallenge` that fails leaves it usable; a Register that arrives after
another has settled the challenge changes nothing (`NoReplay`).

### RingCache, CondCache, ReadThrough

Every step is one critical section, or the fill. Items are heap objects: one
that nothing refers to is free to be allocated again, so one item for every
position and every caller is enough. `ReadThrough` says that a `Get` of k
returns the value of k; its own error if its own fill failed; and otherwise an
error only if a fill of k by another caller failed while the `Get` ran. The errors
that such a caller can be told are a constant (`Told`): that of the fill for the ring
cache, that of the fill or "deleted" for the cond cache.

### ValidatorSet

The consensus validators come by pages of the height asked for, the staking
validators by keys of whatever height the node has. Both loops run as
goroutines of an errgroup; the failure of one cancels the other. Nodes are at
different heights, and a node that is not `good` may fail at any request.
A Tendermint node answers for the height it is asked for, so the branches for an
answer of another height are not taken; it refuses a page beyond the last one.

A history of the chain gives the validators of each height with their powers and
proposer priorities. `Proposer` holds `PredictProposer` and the part of
Tendermint's `ValidatorSet` that it calls (rescaling, centring and rotating the
priorities), which is external to the repository. A validator set is a list of
members, in the order in which the node sends them; an address is a number, and
the lowest address breaks ties. What is predicted in one go, from the fetched set, is compared with what the chain comes
to block by block.

### Routing

Each process lists the chains, makes the next generation of its map and swaps it
in. `ListChains` may fail, and a row that does not convert fails the refresh; at
the start either ends the process, later the map stays as it is.

### Process

The goroutine of main opens the store, prepares, and runs the group; then each
actor has a goroutine: the servers, the loops and the signal handler, in the
order in which the program adds them (`Instance` or `ReverseProxy`). The first
actor to return makes main interrupt all of them, one after the other:
`Shutdown` of a server waits for its requests or for a second, `cancel` of a loop
does not wait. When all have returned, the deferred `Close` turns new users of
the pool away and waits for the connections that are out. `run.Group`,
`net/http` and `pgxpool` are external and modelled from how the programs use
them. An actor may be interrupted before its goroutine has started. When `NewStore`
fails the process exits without a pool, with one that it has closed, or, if the
metrics of the pool cannot be registered, with one that is still open: the `defer`
that closes it comes after (`pgstore.go:97`).

## Runs

All "pass" runs finish without error; a "violation" run shows a disagreement
between the code and what the repository says of it.

| Run | Shows |
|---|---|
| `auction_build` | One claim and one block per auction (`OneClaimPerAuction`, `OneBlockPerAuction`), bid states that agree with the block (`BlockBidsStored`, `SettledAfterFinish`), rows that change only in `finished_at` (`AuctionImmutable`), with two builders, a searcher, clean-up and failures. |
| `auction_payments` | Blocks for the recorded proposer (`BlockByRecordedProposer`) and bids that pay the recorded address (`BlockPaysAuction`), with two validators, two addresses, two bids. |
| `auction_refinement` | `ImplementsLifecycle`, the inductive invariant `IInv`, and that every request ends (`RequestsEnd`), with a builder and a searcher who retry. |
| `auction_late_bid` | Violation of `NoBidAfterFinish`. |
| `block_build` | `BundlesDisjoint`, `TopBidFirst`, `EveryBidDecided`, `GreedyByPriority`, `CountedWithinLimits`, `AnnouncedPaymentPaid`, and that a mempool transaction is left out only for want of room, or with a winning bid that held it and did not fit (`MempoolKept`). |
| `block_bytes` | Violation of `BytesWithinLimit`. |
| `ring_cache` | `IndexMatchesRing`, `FillsOnce`, `ErrorsLeave`, `ImplementsReadThrough`, and `GetsEnd`. |
| `cond_cache` | `CacheMatchesOrder`, `ImplementsReadThrough`, and that a waiting caller always has one who will wake it (`NobodyForgotten`). |
| `registration` | `RegistrationProved`, that the challenge of a Register that was answered serves no later one (`NoReplay`), the inductive invariant `RegInv`, and `RequestsEnd` up to an exhausted pool. |
| `validator_set` | `SetWhole`, `FetchEnds`, that one good node with the height is enough, but for two cases that the property names (`NoNeedlessError`), and that the proposer predicted from the fetched set is the one the chain elects, as long as its validators stay and it need not rescale their priorities on the way (`PredictionHolds`). |
| `routing` | `OneGeneration`, `ServedAsConfigured`, `Converges`. |
| `process` | The store is open for whoever uses it (`StoreOutlivesUsers`), a request is cut off or turned away only after its second of grace (`RequestsGetGrace`), and a process whose group has ended exits (`ProcessEnds`). |

### Bounds

* Auctions: three or four heights, one of them requested: enough for an auction
  to be opened, claimed, expire and be opened and claimed again. Two builders
  compete; a third would repeat what one of them does. The offsets 10 and 2 of
  the code become 2 or 3 and 1, so that too old, too new and in the window all
  happen. `MaxTries` is 1,
  or 2 where a retry matters: it starts from nothing, so more add no state.
* Blocks: three bids of five kinds (one old), two mempools with duplicates and
  another encoding, two balances, tight limits and none.
* Ring cache: two callers, two keys and capacity 1, so that every other key
  evicts and the head comes back to a position that is in use or was emptied.
  More callers and wider rings are left to the proof of `RingInv`.
* Cond cache: three callers give a failing caller, a successor and a
  bystander; three keys and a limit of 2 make the order of use matter.
* Registration: two requests and two connections, as many Registers as
  connections; two validators, of whom either may sign; one challenge, which both
  requests may name. More challenges are left to the proof of `RegInv`.
* Validator sets: three nodes, pages of 2 and keys by 3 for up to 4
  validators: below, at and above a page boundary. Proposers are predicted up to
  four heights ahead of two heights, from sets that stay, change, are out of
  Tendermint's window of priorities, or have a negative priority.
* Routing: two chains, one of them served from the start, two networks with an
  instance, one with a bad URI and one that nobody serves, two changes of the table and
  a crash. Listings may fail any number of times. Two changes can
  leave a map that is of no single listing, if anything of an older one stays.
* Process: both programs, with two requests, one of which can hold a connection
  while the other is turned away. Deadlock is not checked there: a process
  that has exited stops, as it should.

Symmetry is used for goroutines, validators, keys and items where no
definition tells them apart, and never in a run with a liveness property.

### Fairness

Weak fairness of a request's own steps: the scheduler runs every goroutine,
mutexes are handed on, and every call ends (`http.Client` has the timeout of
the chain, statements have `statement_timeout`). Registration needs strong
fairness, because a free connection may be taken by another request again and
again; the pool wakes the longest waiting request. Routing: a supervisor restarts a
process that ended, tickers tick, and the store does not fail for ever: strong fairness of
`ListChains`, since a process whose first listing failed is down in between. Process: a
`select` with both channels ready takes one of them at random, so that a loop
whose ticker ticks again and again still comes to `ctx.Done()`: strong fairness
of its return. Nothing is assumed there of handlers: `Shutdown` does not wait for
them for ever, only the statements they run end (`statement_timeout`). Nothing is
assumed of arrivals, of the chain or of failures.

## Findings

* A bid can be stored in a finished auction (`auction_late_bid`), `service.go:214`.
* Transactions that do not decode are in the block but not counted
  (`block_bytes`), `service.go:1120`.

More behaviours are visible in the models, and the properties make room for them:

* A mempool transaction is lost with the winning bid that holds it, when
  `selectTransactions` finds no room for that bid, though the transaction alone would
  fit (`service.go:1349`); `MempoolKept` says that nothing else loses one.
* A request that outlasts the second of `Shutdown` finds the store closed, or is cut
  off by the exit (`run_main.go:232`).
* The int64 gas total of a bundle can wrap around and pass the limit
  (`service.go:1138`); `CountedWithinLimits` speaks of sums that do not.
* Waiting callers of the cond cache get the error "deleted", because `Get` calls `del`
  before `item.set` (`cond_cache.go:46`), where the comment says that they are "un-blocked
  with the error" of the fill (`cond_cache.go:44`). They get the latter only if the
  item had left the map before. `ReadThrough` tells the two errors apart, and
  `CondCache` instantiates it with both. The service uses the ring cache.
* Two Registers that overlap can both use one challenge (`NoReplay` in `Registration`).
* Registers can exhaust the pool and wait on each other until their requests are
  cancelled (`Exhausted` in `Registration`).
* A validator set that fills its pages exactly cannot be fetched (`PageBoundary`
  in `ValidatorSet`), and neither can one from a node that has come to a height at which
  one of its validators has left staking (`LeftStaking`).

## Proofs

Proved with TLAPS for every value of the constants that satisfies the named
`ASSUME`s (types of the constants, non-zero bounds, `NULL` or `None` distinct from data).

* **Auctions** (`AuctionServiceProofs`): `IInv` is inductive. `OneClaimPerAuction`
  alone is not: it says nothing of the requests about to commit. `IInv` adds that
  a transaction past its checks holds an unfinished row or none (`CommitInv`), that a row is
  finished exactly when claimed once (`RowInv`), that a building request holds a
  claimed auction of its own validator, of the present or an earlier generation
  (`BuildInv`), and that no two requests and no block share a claim
  (`ExclusiveBuild`, `BlockInv`). From it follow `TypeOK`, `OneClaimPerAuction`,
  `OneBlockPerAuction`, `BlockByRecordedProposer` and `AuctionImmutable`.
* **Refinement** (second part of `AuctionServiceProofs`): each step of
  `AuctionService` is a step or a stutter of `AuctionLifecycle` under the mapping in
  `AuctionService`, by `IInv`.
* **Bids** (last part of `AuctionServiceProofs`): `BidInv` is inductive beside `IInv`. A bid that is
  not deleted has its auction, and pays what the first auction of its height
  wants (`PlacedInv`, from what `Bid` has read: `InsertInv`); a transaction lists bids
  of the row that it has seen (`SnapshotInv`), so that they are pending when the
  claim commits; the holder of the claim alone decides them (`DecideInv`), and
  they stay as they are in the block (`GivenInv`). That nobody else decides them
  rests on the exclusive claims of `IInv`, and on a bid being deleted with its
  auction. It gives `SettledAfterFinish`, `BlockBidsStored` and `BlockPaysAuction`.
* **Blocks** (`BlockBuilderProofs`, and `BlockBuilderOrder` for the last two; what single
  steps do is in `BlockBuilderSteps`): `BuilderInv` follows every transaction from
  the queue through `claimed` into one bundle and every bid into one place. It
  gives `BundlesDisjoint`, `TopBidFirst` and `EveryBidDecided`. The other
  invariants of `BlockBuilder` need lemmas about its recursive functions, see
  below:
  * `TypeOK`: payments, priorities, totals and balances are integers, whatever the
    lists they are summed over.
  * `UsedInv`: `totalBytes` and `totalGas` are the sizes of the block, since the sum of
    wrapped sums wraps to the same as the whole sum. It gives
    `CountedWithinLimits`.
  * `EvaluatedInv`, `AnnouncedInv`: the payment of a bid is that of its transactions
    after they were encoded again, and the announced payment grows with each
    bundle as the payments in the block do. They give `AnnouncedPaymentPaid`.
  * `OrderInv`, `GreedyInv`: the bids that were considered are ahead of those in the
    queue, the claims are the transactions of the winning bids, and a balance plus what
    the winning bids pay is what the chain reported. So what decides about the
    next bid is what `GreedyByPriority` says, and no later bid changes it, being
    behind.
  * `KeptInv`: what `computeOrder` has looked at is claimed, and what is claimed
    is in a winning bid, in `remaining`, in a bundle, or without room. It
    gives `MempoolKept` under a hypothesis, `SizesInRange`: no size of a mempool
    transaction overflows when added to a limit. Without it the total could
    wrap around to a value that has room again, for a transaction that was left out.
    `MCBlockBuilder` assumes it of its values, so TLC evaluates it.
* **Ring cache** (`InstanceProofs`): `RingInv` ties index, ring, items and the
  callers' locks together. It gives `IndexMatchesRing`, `FillsOnce`,
  `ErrorsLeave` and the refinement of `ReadThrough`.
* **Registration** (`ServerProofs`): `RegInv` says that a challenge is used
  only after it was issued and by requests whose signature was checked before the
  upsert, that a settled challenge is not in the table, and that a Register which
  arrived after that never gets to its upsert. It gives `RegistrationProved` and `NoReplay`.
* **Cond cache** (`ServerProofs`): `CondInv` adds to `CacheMatchesOrder` that
  an item serves one key (`OneKey`), that one in the map holds no error and one
  with an error is held only by excused callers (`ContentOK`), that one which is
  not set has a caller on its way to set it (`Promised`), and that the item of
  a failed fill has left the map before it is set (`FailingOK`). It gives
  `CacheMatchesOrder`, `NobodyForgotten` and the refinement of `ReadThrough`.
* **Validator sets** (`ValidatorSetProofs`): `FetchInv` says that the pages so far
  are the first ones of the target height, that the keys so far are those below the
  next key, and that a good node with the height was passed over only if the
  validators fill their pages exactly, or if it had come to a height at which one of
  them has left staking. It gives `SetWhole` and `NoNeedlessError`, for any
  number of nodes and validators and any sizes of pages.
* **Proposers** (`ValidatorSetProofs`): `PredictionHolds`, for any number of validators,
  any powers and priorities and any number of heights ahead. The
  prediction rescales and centres the priorities once and then rotates d times; the
  chain does all three at every block. Centring leaves priorities whose sum is
  in 0..n-1, for n validators (`Centred`, `ShiftFacts`): the sum modulo n. A rotation
  keeps the sum, as the powers that all gain are what the proposer pays
  (`RotateFacts`). So the average stays 0, and centring again changes nothing. That
  nothing is rescaled on the way is what `Steady` assumes, and it has to: with powers
  1, 2, 3 and priorities -7, 5, 4 the chain rescales after the first block, and the third
  proposer is another one than predicted. By induction on the heights the chain's set k blocks on is the
  prediction's after k rotations (`Increments`, `Rotations`, `Predicts`), and the set
  that it starts from is the chain's by `SetWhole`.
* **Routing** (`ServerProofs`): `RoutingInv` ties each map to one version of the
  table and each request to a row of its chain. It gives `OneGeneration` and
  `ServedAsConfigured`.
* **Process** (`InstanceProofs`): `ProcessInv` ties the phases of main to those of
  the pool (`StorePhases`) and of the actors (`GroupPhases`), and says that without
  an expired `Shutdown` no request is left when the store closes (`GraceInv`). It
  gives `StoreOutlivesUsers` and `RequestsGetGrace`, for any number of requests.

The library's induction theorems take the induction hypothesis as an operator, which the
provers cannot instantiate. `PaymentsProofs` and the first part of `ValidatorSetProofs` go
by sets instead: the naturals are well-founded (`WFMin`), so a set of them that
contains 0, and n + 1 with every n, contains them all (`Induct`), and a set that contains the empty list,
and `Append(s, e)` with every list s it contains, contains all lists
(`ListInduct`). In the same way every recursive function over `0..n` that
`Payments` and `Proposer` define exists and satisfies its equation (`Recursion`, `Takes`), and
extending its list by one element adds one step (`OneMore`). What `Sum`, `Flatten`,
`Relevant` and `ChargeAll` do to lists that grow at the end follows (`SumAppend`,
`FlattenAppend`, `FlattenRange`, `PaymentsConcat`, `Charging`); `Wraps` does the arithmetic
modulo 2^64. For `Proposer` it follows that sums add up (`SumPlus`, `SumConstant`,
`SumSingle`).

Only model-checked is liveness (`RequestsEnd`, `GetsEnd`, `FetchEnds`, `Converges`,
`ProcessEnds`): fairness and `ENABLED` are out of the prover's reach. Every invariant,
action property and refinement of the passing runs is proved.

## Not modelled

`memstore` (an instance without a database starts on it, but has no chains then:
services run on it in tests only), migrations, metrics, debug endpoints, the smoke
test command, hashing: code without state of its own, or state that nothing reads
back. Decoding and validation of HTTP requests and the ping fan-out of the proxy
change no state. In `AuctionService` any validator may be predicted, and in
`BlockBuilder` any balances may be reported.

## Plan

1. Compose `RingCache` with the service that asks for it: `ValidatorSet` as the
   fill, several chains.
2. Several instances over one store in `Process`, with rolling restarts.
