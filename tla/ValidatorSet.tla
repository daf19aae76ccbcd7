----------------------------- MODULE ValidatorSet -----------------------------
(***************************************************************************)
(* How a service learns the validator set of its chain (zcosmos/chain.go): *)
(* LatestHeight, then ValidatorSet of that height.  Each tries the nodes   *)
(* in order (rpc_clients.go).  ValidatorSet runs two queries of a node at  *)
(* once: the consensus validators of the height, by pages, and the staking *)
(* validators of whatever height the node has by then, by keys.  From the  *)
(* set the service predicts the proposers of the heights to come (module   *)
(* Proposer).                                                              *)
(***************************************************************************)
EXTENDS Proposer, FiniteSets

CONSTANTS
  NumNodes,      \* nodes 1..NumNodes, in the order of the configuration
  MaxHeight,     \* bound on the heights of the nodes
  Ahead,         \* how far ahead a proposer is predicted (code: 10)
  Validators,    \* numbers: the order of the keys of the staking module
  PerPage,       \* perPage (code: 100)
  StakingLimit,  \* Pagination.Limit (code: 1000)
  Histories      \* the possible histories of the chain

Nodes == 1..NumNodes
Heights == 1..MaxHeight
NoKey == 0

Member == [addr: Validators, power: Nat \ {0}, priority: Int]

\* By height: the consensus validators in order, also of the heights that the
\* nodes do not have yet, and the staking validators.
History == [consensus: [1..MaxHeight + Ahead -> Seq(Member)],
            staking: [Heights -> SUBSET Validators]]

ASSUME ValidatorSetAssumption ==
  /\ NumNodes \in Nat \ {0} /\ MaxHeight \in Nat \ {0} /\ Ahead \in Nat
  /\ PerPage \in Nat \ {0} /\ StakingLimit \in Nat \ {0}
  /\ Validators \subseteq Nat \ {NoKey}
  /\ Histories \subseteq History
  /\ \A x \in Histories, h \in Heights : x.consensus[h] # <<>>

VARIABLES
  chain,   \* the history of this chain
  height,  \* the latest height of each node
  good,    \* nodes that answer every request they can
  phase,   \* where the service is
  node,    \* the client that rpcClients.do tries
  target,  \* targetHeight
  tm,      \* the goroutine of getTendermintValidatorSet
  st,      \* the goroutine of getStakingValidatorSet
  result,  \* what the service was told
  able     \* history: good nodes that had the target height from the start

world == <<chain, good>>
fetchVars == <<chain, height, good, phase, node, target, tm, st, result, able>>

States == {"run", "ok", "failed"}
Tendermint == [state: States, page: Nat \ {0}, vals: Seq(Member)]
Staking == [state: States, key: Validators \cup {NoKey},
            valset: SUBSET Validators]
Result == [err: BOOLEAN, height: Heights \cup {0}, vals: Seq(Member)]

\* Types of the variables; the client that is tried is one of the list.
FetchTypeOK ==
  /\ chain \in Histories
  /\ height \in [Nodes -> Heights]
  /\ good \in SUBSET Nodes
  /\ phase \in {"idle", "status", "fetch", "done"}
  /\ node \in Nodes
  /\ target \in Heights \cup {0}
  /\ tm \in Tendermint
  /\ st \in Staking
  /\ result \in Result
  /\ able \in SUBSET Nodes

-----------------------------------------------------------------------------
NoResult == [err |-> FALSE, height |-> 0, vals |-> <<>>]
Error == [err |-> TRUE, height |-> 0, vals |-> <<>>]

FirstPage == [state |-> "run", page |-> 1, vals |-> <<>>]
FirstKey == [state |-> "run", key |-> NoKey, valset |-> {}]

FetchInit ==
  /\ chain \in Histories
  /\ height \in [Nodes -> Heights]
  /\ good \in SUBSET Nodes
  /\ phase = "idle" /\ node = 1 /\ target = 0
  /\ tm = FirstPage /\ st = FirstKey
  /\ result = NoResult
  /\ able = {}

\* A node commits another block.
Advance(n) ==
  /\ height[n] < MaxHeight
  /\ height' = [height EXCEPT ![n] = @ + 1]
  /\ UNCHANGED <<world, phase, node, target, tm, st, result, able>>

Ask ==
  /\ phase = "idle"
  /\ phase' = "status"
  /\ node' = 1
  /\ UNCHANGED <<world, height, target, tm, st, result, able>>

\* Mutant: the first client is the only one.
FirstOnly == FALSE

HasNext == node < NumNodes

\* Mutant: the pages of the node that failed stay.
LeftPages == [FirstPage EXCEPT !.vals = tm.vals]

\* vals := []*tm_types.Validator{} of each call.
StartPages == FirstPage

\* do: the next client, or the errors of all of them.
TryNext ==
  IF HasNext
  THEN /\ node' = node + 1
       /\ tm' = StartPages /\ st' = FirstKey
       /\ UNCHANGED <<phase, result>>
  ELSE /\ phase' = "done" /\ result' = Error
       /\ UNCHANGED <<node, tm, st>>

\* LatestHeight returns, and the service asks for the validator set.
StatusOK ==
  /\ phase = "status"
  /\ target' = height[node]
  /\ able' = {n \in good : height[n] >= height[node]}
  /\ phase' = "fetch"
  /\ node' = 1
  /\ tm' = FirstPage /\ st' = FirstKey
  /\ UNCHANGED <<world, height, result>>

\* The node does not answer, is catching up or appears stalled.
StatusFails ==
  /\ phase = "status"
  /\ node \notin good
  /\ TryNext
  /\ UNCHANGED <<world, height, target, able>>

-----------------------------------------------------------------------------
(* getTendermintValidatorSet                                               *)

\* What the nodes serve: the pages of the validators of a height.
Consensus == chain.consensus[target]
PageEnd(k) == IF k * PerPage < Len(Consensus) THEN k * PerPage ELSE Len(Consensus)
Page(k) == SubSeq(Consensus, (k - 1) * PerPage + 1, PageEnd(k))
HasPage(k) == target <= height[node] /\ (k - 1) * PerPage < Len(Consensus)

\* res.Count != perPage
LastPage(s) == Len(s) # PerPage

\* A node answers for the height it is asked for, so the pages of one node do
\* not disagree about it.
GetPage ==
  /\ phase = "fetch" /\ tm.state = "run"
  /\ HasPage(tm.page)
  /\ tm' = [state |-> IF LastPage(Page(tm.page)) THEN "ok" ELSE "run",
            page |-> tm.page + 1,
            vals |-> tm.vals \o Page(tm.page)]
  /\ UNCHANGED <<world, height, phase, node, target, st, result, able>>

\* The node fails, has no such height or page, or the context was cancelled
\* because the other goroutine failed.
PageFails ==
  /\ phase = "fetch" /\ tm.state = "run"
  /\ \/ node \notin good
     \/ ~HasPage(tm.page)
     \/ st.state = "failed"
  /\ tm' = [tm EXCEPT !.state = "failed"]
  /\ UNCHANGED <<world, height, phase, node, target, st, result, able>>

-----------------------------------------------------------------------------
(* getStakingValidatorSet                                                  *)

\* What the nodes serve: the staking validators from a key on, as they are now.
From(key) == {v \in chain.staking[height[node]] : v >= key}
Limited(s) == {v \in s : Cardinality({u \in s : u < v}) < StakingLimit}

\* Mutant: every request asks for the first page.
SameKey(s) == st.key

\* response.GetPagination().GetNextKey()
NextKey(s) ==
  CHOOSE v \in s \ Limited(s) : \A u \in s \ Limited(s) : v <= u

GetKeys ==
  /\ phase = "fetch" /\ st.state = "run"
  /\ LET s == From(st.key)
         more == s # Limited(s)
     IN  st' = [state |-> IF more THEN "run" ELSE "ok",
                key |-> IF more THEN NextKey(s) ELSE NoKey,
                valset |-> st.valset \cup Limited(s)]
  /\ UNCHANGED <<world, height, phase, node, target, tm, result, able>>

\* The node fails, or the context was cancelled.
KeysFail ==
  /\ phase = "fetch" /\ st.state = "run"
  /\ node \notin good \/ tm.state = "failed"
  /\ st' = [st EXCEPT !.state = "failed"]
  /\ UNCHANGED <<world, height, phase, node, target, tm, result, able>>

-----------------------------------------------------------------------------
\* g.Wait, and a staking validator for every consensus validator.
Addrs(vals) == {vals[i].addr : i \in DOMAIN vals}
Joined == tm.state = "ok" /\ st.state = "ok" /\ Addrs(tm.vals) \subseteq st.valset

Join ==
  /\ phase = "fetch" /\ tm.state # "run" /\ st.state # "run"
  /\ Joined
  /\ phase' = "done"
  /\ result' = [err |-> FALSE, height |-> target, vals |-> tm.vals]
  /\ UNCHANGED <<world, height, node, target, tm, st, able>>

JoinFails ==
  /\ phase = "fetch" /\ tm.state # "run" /\ st.state # "run"
  /\ ~Joined
  /\ TryNext
  /\ UNCHANGED <<world, height, target, able>>

FetchReturns ==
  /\ phase = "done"
  /\ phase' = "idle" /\ result' = NoResult
  /\ target' = 0 /\ able' = {}
  /\ tm' = FirstPage /\ st' = FirstKey
  /\ UNCHANGED <<world, height, node>>

FetchStep == \/ StatusOK \/ StatusFails
             \/ GetPage \/ PageFails \/ GetKeys \/ KeysFail
             \/ Join \/ JoinFails \/ FetchReturns

FetchNext == Ask \/ FetchStep \/ \E n \in Nodes : Advance(n)

FetchSpec == FetchInit /\ [][FetchNext]_fetchVars

\* The two goroutines run, and the timeout of the HTTP client ends a request
\* that a node does not answer.
FairFetchSpec ==
  /\ FetchSpec
  /\ WF_fetchVars(GetPage \/ PageFails) /\ WF_fetchVars(GetKeys \/ KeysFail)
  /\ WF_fetchVars(StatusOK \/ StatusFails \/ Join \/ JoinFails \/ FetchReturns)

-----------------------------------------------------------------------------
(* Properties.                                                             *)

\* The set that a service gets is the whole set of the height it asked for, in
\* the order that predicts the proposer: no page is lost or read twice, and
\* nothing of a node that failed halfway is left in it.
SetWhole ==
  phase = "done" /\ ~result.err =>
    /\ result.height = target
    /\ result.vals = chain.consensus[target]

\* What a good node cannot help with: the validators fill their pages exactly,
\* and the code asks for one page more; or the node has come to a height at
\* which staking lacks one of them.
PageBoundary == \E k \in 1..Len(Consensus) : Len(Consensus) = k * PerPage
LeftStaking ==
  {n \in Nodes : \E h \in target..height[n] :
                   ~(Addrs(Consensus) \subseteq chain.staking[h])}

\* The failures of other nodes are not the caller's: one node that answers and
\* had the height is enough, unless the validators fill their pages exactly or
\* one of them has left staking by the height that this node has come to.  An
\* error of LatestHeight means that no node answers.
NoNeedlessError ==
  phase = "done" /\ result.err =>
    \/ target = 0 /\ good = {}
    \/ target # 0 /\ (PageBoundary \/ able \subseteq LeftStaking)

Members(h) == chain.consensus[h]

\* The chain goes on from height h to h + d without a change of its validators,
\* and without priorities so far apart that it has to rescale them on the way.
Steady(h, d) ==
  \A k \in h..(h + d - 1) :
    /\ Members(k + 1) = IncrementProposerPriority(Members(k), 1).vals
    /\ k > h => ~OutOfWindow(Members(k))

\* The proposer that the chain itself comes to, block by block.
ProposerOf(h) == IncrementProposerPriority(Members(h - 1), 1).proposer

\* The proposer that the service predicts for a height, in one go from the set
\* it fetched, is the one that the chain comes to if its validators stay.
PredictionHolds ==
  phase = "done" /\ ~result.err =>
    \A d \in 1..Ahead : Steady(target, d) =>
      PredictProposer(result, target + d) = ProposerOf(target + d)

\* The service gets an answer: the pages, the keys and the nodes all run out.
FetchEnds == phase # "idle" ~> phase = "idle"

-----------------------------------------------------------------------------
(* The inductive invariant.                                                *)

\* The pages so far are the validators up to there.
PagesInv ==
  /\ tm.state = "run" => /\ (tm.page - 1) * PerPage <= Len(Consensus)
                         /\ tm.vals = SubSeq(Consensus, 1, (tm.page - 1) * PerPage)
  /\ tm.state = "ok" => tm.vals = Consensus

\* If nothing stands in the way of the node it has not failed, and its keys so
\* far are all up to there.
NodeInv ==
  PageBoundary \/ node \in LeftStaking \/
    /\ tm.state # "failed" /\ st.state # "failed"
    /\ \A v \in Addrs(Consensus) \ st.valset : st.state = "run" /\ v >= st.key

FetchInv ==
  /\ FetchTypeOK /\ SetWhole /\ NoNeedlessError
  /\ phase \in {"idle", "status"} => target = 0
  /\ phase = "status" => \A n \in Nodes : n < node => n \notin good
  /\ phase = "done" /\ ~result.err => target \in Heights
  /\ phase = "fetch" =>
       /\ target \in Heights /\ PagesInv
       /\ able \subseteq {n \in good : height[n] >= target}
       /\ \A n \in able : n < node => PageBoundary \/ n \in LeftStaking
       /\ node \in able => NodeInv
=============================================================================
