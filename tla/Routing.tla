------------------------------- MODULE Routing -------------------------------
(***************************************************************************)
(* How a request finds the service of its chain.  The proxy (api/proxy.go) *)
(* sends it to the API instance of the chain's network; the instance       *)
(* (block/service_manager.go) gives it to the service it manages for the   *)
(* chain.  Proxy and instances are processes of their own.  Each refreshes *)
(* its map from table chains at its own pace: it lists the chains, makes   *)
(* the next generation of the map, and swaps it in.                        *)
(***************************************************************************)
EXTENDS Integers

CONSTANTS
  Chains,      \* chain IDs
  Networks,    \* networks
  Instances,   \* those that an API instance runs for and the proxy has a URI of
  Configs,     \* the rest of a row: payment address, denom, timeout, node URIs
  BadConfigs,  \* those that convert refuses
  BadURIs,     \* those that the proxy has a URI of and cannot parse it
  Rows,        \* rows that an operator may store, by chain
  Tables,      \* what table chains may hold when the processes first start
  Proxy,       \* the proxy
  MaxChanges,  \* bound on the changes of table chains
  MaxCrashes,  \* bound on the crashes
  NoValue         \* no value

Servers == Instances \cup {Proxy}
Row == [network: Networks, config: Configs]
Table == [Chains -> Row \cup {NoValue}]

ASSUME RoutingAssumption ==
  /\ Rows \in [Chains -> SUBSET Row] /\ Tables \subseteq Table
  /\ Proxy \notin Networks
  /\ Instances \subseteq Networks /\ BadURIs \subseteq Networks
  /\ NoValue \notin Row \cup Configs \cup Networks \cup Table
  /\ MaxChanges \in Nat /\ MaxCrashes \in Nat

VARIABLES
  table,    \* table chains
  status,   \* of each process
  listing,  \* what the Refresh of each process got from ListChains
  managed,  \* managed of each instance, and byChainID of the proxy
  request,  \* a request on its way
  past,     \* history: the contents of table chains so far
  changes,
  crashes

routeVars == <<table, status, listing, managed, request, past, changes, crashes>>

Empty == [c \in Chains |-> NoValue]
NoRequest ==
  [at |-> "nowhere", chain |-> NoValue, network |-> NoValue, config |-> NoValue]

RouteTypeOK ==
  /\ table \in Table
  /\ status \in [Servers -> {"down", "starting", "up"}]
  /\ listing \in [Servers -> Table \cup {NoValue}]
  /\ managed \in [Servers -> [Chains -> Configs \cup Instances \cup {NoValue}]]
  /\ \A n \in Instances : managed[n] \in [Chains -> Configs \cup {NoValue}]
  /\ managed[Proxy] \in [Chains -> Instances \cup {NoValue}]
  /\ request \in [at: {"nowhere", "instance", "service"},
                  chain: Chains \cup {NoValue}, network: Instances \cup {NoValue},
                  config: Configs \cup {NoValue}]
  /\ past \in SUBSET Table
  /\ changes \in 0..MaxChanges /\ crashes \in 0..MaxCrashes

RouteInit ==
  /\ table \in Tables
  /\ status = [s \in Servers |-> "down"]
  /\ listing = [s \in Servers |-> NoValue]
  /\ managed = [s \in Servers |-> Empty]
  /\ request = NoRequest
  /\ past = {table}
  /\ changes = 0 /\ crashes = 0

-----------------------------------------------------------------------------
\* An operator adds a chain or changes one.
UpsertChain(c, row) ==
  /\ changes < MaxChanges
  /\ table[c] # row
  /\ table' = [table EXCEPT ![c] = row]
  /\ past' = past \cup {table'}
  /\ changes' = changes + 1
  /\ UNCHANGED <<status, listing, managed, request, crashes>>

\* Mutant: the instance takes the chains of every network.
AllowAny(s, t) ==
  {c \in Chains : /\ t[c] # NoValue
                  /\ s = Proxy => t[c].network \in Instances \cup BadURIs}

\* The chains of a listing that a process is for: the proxy ignores networks it
\* has no URI of, an instance allows its own network.
Allowed(s, t) ==
  {c \in Chains :
     /\ t[c] # NoValue
     /\ IF s = Proxy THEN t[c].network \in Instances \cup BadURIs
                     ELSE t[c].network = s}

\* Every one of them converts, or the whole refresh fails.
Convertible(s, t) ==
  \A c \in Allowed(s, t) :
    IF s = Proxy THEN t[c].network \notin BadURIs
                 ELSE t[c].config \notin BadConfigs

NextGen(s, t) ==
  [c \in Chains |->
    IF c \notin Allowed(s, t) THEN NoValue
    ELSE IF s = Proxy THEN t[c].network ELSE t[c].config]

\* Mutant: services that should be dropped stay.
KeepDropped(s, t) ==
  [c \in Chains |-> IF NextGen(s, t)[c] = NoValue THEN managed[s][c]
                                               ELSE NextGen(s, t)[c]]

\* Mutant: a service that is there already is not created again.
KeepExisting(s, t) ==
  [c \in Chains |-> IF NextGen(s, t)[c] # NoValue /\ managed[s][c] # NoValue
                    THEN managed[s][c] ELSE NextGen(s, t)[c]]

\* What the map of a process becomes.
Swapped(s, t) == NextGen(s, t)

Start(s) ==
  /\ status[s] = "down"
  /\ status' = [status EXCEPT ![s] = "starting"]
  /\ UNCHANGED <<table, listing, managed, request, past, changes, crashes>>

\* The first step of Refresh, at the start and at every tick.
ListChains(s) ==
  /\ status[s] # "down" /\ listing[s] = NoValue
  /\ listing' = [listing EXCEPT ![s] = table]
  /\ UNCHANGED <<table, status, managed, request, past, changes, crashes>>

\* ListChains fails: the next tick tries again, the start ends the process.
ListChainsFails(s) ==
  /\ status[s] # "down" /\ listing[s] = NoValue
  /\ status' = [status EXCEPT ![s] = IF @ = "up" THEN "up" ELSE "down"]
  /\ UNCHANGED <<table, listing, managed, request, past, changes, crashes>>

\* The rest of Refresh.  A process serves requests from its first refresh on.
Refresh(s) ==
  /\ listing[s] # NoValue
  /\ Convertible(s, listing[s])
  /\ managed' = [managed EXCEPT ![s] = Swapped(s, listing[s])]
  /\ listing' = [listing EXCEPT ![s] = NoValue]
  /\ status' = [status EXCEPT ![s] = "up"]
  /\ UNCHANGED <<table, request, past, changes, crashes>>

\* A refresh that fails leaves the map as it is; the initial one ends the
\* process.
RefreshFails(s) ==
  /\ listing[s] # NoValue
  /\ ~Convertible(s, listing[s])
  /\ listing' = [listing EXCEPT ![s] = NoValue]
  /\ status' = [status EXCEPT ![s] = IF @ = "up" THEN "up" ELSE "down"]
  /\ UNCHANGED <<table, managed, request, past, changes, crashes>>

Crash(s) ==
  /\ crashes < MaxCrashes
  /\ status[s] = "up"
  /\ status' = [status EXCEPT ![s] = "down"]
  /\ listing' = [listing EXCEPT ![s] = NoValue]
  /\ managed' = [managed EXCEPT ![s] = Empty]
  /\ request' = IF request.network = s THEN NoRequest ELSE request
  /\ crashes' = crashes + 1
  /\ UNCHANGED <<table, past, changes>>

-----------------------------------------------------------------------------
\* handleProxy: the request goes to the network of the chain it names.
Route(c) ==
  /\ status[Proxy] = "up"
  /\ request = NoRequest
  /\ managed[Proxy][c] # NoValue
  /\ request' = [NoRequest EXCEPT !.at = "instance", !.chain = c,
                                  !.network = managed[Proxy][c]]
  /\ UNCHANGED <<table, status, listing, managed, past, changes, crashes>>

\* A handler of the instance, GetService.
GetService ==
  /\ request.at = "instance"
  /\ status[request.network] = "up"
  /\ managed[request.network][request.chain] # NoValue
  /\ request' = [request EXCEPT
       !.at = "service", !.config = managed[request.network][request.chain]]
  /\ UNCHANGED <<table, status, listing, managed, past, changes, crashes>>

\* The instance does not answer, or does not know the chain.
Refuse ==
  /\ request.at = "instance"
  /\ \/ status[request.network] # "up"
     \/ managed[request.network][request.chain] = NoValue
  /\ request' = NoRequest
  /\ UNCHANGED <<table, status, listing, managed, past, changes, crashes>>

\* The service, which a refresh may have replaced by now, answers.
Respond ==
  /\ request.at = "service"
  /\ request' = NoRequest
  /\ UNCHANGED <<table, status, listing, managed, past, changes, crashes>>

RouteNext ==
  \/ \E c \in Chains : Route(c) \/ \E row \in Rows[c] : UpsertChain(c, row)
  \/ \E s \in Servers :
       \/ Start(s) \/ ListChains(s) \/ ListChainsFails(s)
       \/ Refresh(s) \/ RefreshFails(s) \/ Crash(s)
  \/ GetService \/ Refuse \/ Respond

RouteSpec == RouteInit /\ [][RouteNext]_routeVars

\* A supervisor starts a process that ended, and tickers tick.  ListChains may
\* fail any number of times, also at every start, but not for ever: strong
\* fairness, since the process is down in between.
RouteFairSpec ==
  /\ RouteSpec
  /\ \A s \in Servers : /\ WF_routeVars(Start(s) \/ Refresh(s) \/ RefreshFails(s))
                        /\ SF_routeVars(ListChains(s))

-----------------------------------------------------------------------------
(* Properties.                                                             *)

\* The map of a process is 1-to-1 with the chains of one listing, even while
\* the table changes and refreshes fail: nothing of an older generation stays
\* and nothing of two listings is mixed.
OneGeneration ==
  \A s \in Servers : status[s] = "up" => \E t \in past : managed[s] = NextGen(s, t)

\* A service answers for a chain with a row that the chain really had, in the
\* network it was routed to, although proxy and instance refreshed at different
\* times and either may be stale.
ServedAsConfigured ==
  request.at = "service" =>
    \E t \in past :
      t[request.chain] = [network |-> request.network, config |-> request.config]

\* The inductive invariant: what Refresh works on, and what a request carries,
\* come from listings of the table.
RoutingInv ==
  /\ RouteTypeOK
  /\ table \in past
  /\ \A s \in Servers : listing[s] # NoValue => listing[s] \in past
  /\ request.at # "nowhere" => request.chain \in Chains /\ request.network \in Instances
  /\ OneGeneration
  /\ ServedAsConfigured

\* A row that convert or the proxy refuses stands in the way of every other.
Blocked(s) ==
  \E c \in Chains :
    /\ table[c] # NoValue
    /\ IF s = Proxy THEN table[c].network \in BadURIs
       ELSE table[c].network = s /\ table[c].config \in BadConfigs

\* Once the table stays as it is, a process without a refused row comes to
\* serve the chains of the table as they are, crashes and failed listings or
\* not, and so the instance that the proxy names for a chain knows the chain.
Converges ==
  <>[](\A s \in Servers :
         \/ Blocked(s)
         \/ status[s] = "up" /\ managed[s] = NextGen(s, table))
=============================================================================
