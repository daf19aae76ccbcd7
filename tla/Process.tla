------------------------------- MODULE Process -------------------------------
(***************************************************************************)
(* A process from start to exit: an instance (RunMain of run_main.go) or   *)
(* the proxy (exe of cmd/zenith-proxy/main.go).  It opens the store, makes *)
(* a first refresh and runs a group of actors: HTTP servers, loops with a  *)
(* ticker and the signal handler.  The first actor to return ends the      *)
(* group: each actor is interrupted, in order, and all are awaited.  Then  *)
(* the deferred Close of the store runs.                                   *)
(*                                                                         *)
(* A request holds a connection of the store's pool while it is in a       *)
(* transaction or a statement.                                             *)
(***************************************************************************)
EXTENDS Integers, Sequences, Functions

CONSTANTS Requests

VARIABLES
  program,  \* the actors, in the order of g.Add
  phase,    \* where the goroutine of main is: start, run, interrupt, shutdown,
            \* close or exit
  pool,     \* the pool of the store: none, open, closing or closed
  next,     \* index of the actor to interrupt next
  told,     \* actors that were interrupted
  actor,    \* where the goroutine of an actor is: none, new, up, work, returned
  req,      \* where the handler of a request is: none, run or conn
  expired,  \* history: a Shutdown ended by its timeout
  failed    \* history: requests that failed for want of the store

procVars == <<program, phase, pool, next, told, actor, req, expired, failed>>

-----------------------------------------------------------------------------
\* g.Add of RunMain.
Instance ==
  <<"api", "debug", "store_cleanup", "store_metrics", "service_refresh", "signal">>

\* g.Add of zenith-proxy.
ReverseProxy == <<"proxy", "debug", "chain_refresh", "signal">>

HTTPServers == {"api", "proxy", "debug"}
Loops == {"store_cleanup", "store_metrics", "service_refresh", "chain_refresh"}

Actors == Range(program)

\* The server that the requests come to; those of debug do not use the store.
Public == program[1]

ProcInit ==
  /\ program \in {Instance, ReverseProxy}
  /\ phase = "start" /\ pool = "none" /\ next = 1
  /\ told = {}
  /\ actor = [a \in Actors |-> "none"]
  /\ req = [r \in Requests |-> "none"]
  /\ expired = FALSE /\ failed = {}

-----------------------------------------------------------------------------
(* main: until g.Run.                                                      *)

\* pgstore.NewStore.  When it fails the process exits: without a pool if it
\* cannot connect; with the pool still open if its metrics cannot be registered,
\* since the defer that closes it comes after; closed if it does not migrate.
OpenStore ==
  /\ phase = "start" /\ pool = "none"
  /\ \/ pool' = "open" /\ UNCHANGED phase
     \/ phase' = "exit" /\ pool' \in {"none", "open", "closed"}
  /\ UNCHANGED <<program, next, told, actor, req, expired, failed>>

\* ListChains, the flags and the initial refresh, or an error that returns.
Prepare ==
  /\ phase = "start" /\ pool = "open"
  /\ \/ phase' = "run" /\ actor' = [a \in Actors |-> "new"]
     \/ phase' = "close" /\ UNCHANGED actor
  /\ UNCHANGED <<program, pool, next, told, req, expired, failed>>

-----------------------------------------------------------------------------
(* The actors.                                                             *)

Go(a, where) ==
  /\ actor' = [actor EXCEPT ![a] = where]
  /\ UNCHANGED <<program, phase, pool, next, told, req, expired, failed>>

\* The goroutine starts, perhaps after its interrupt.  ListenAndServe returns
\* when the server was shut down before, or when it cannot listen.
BeginActor(a) ==
  /\ actor[a] = "new"
  /\ \/ (a \in HTTPServers => a \notin told) /\ Go(a, "up")
     \/ a \in HTTPServers /\ Go(a, "returned")

\* ListenAndServe ends: Shutdown was called, or the listener failed.
ServerReturns(a) == a \in HTTPServers /\ actor[a] = "up" /\ Go(a, "returned")

\* case <-ticker.C: Cleanup, UpdateMetrics or Refresh; an error is logged.
Tick(a) == a \in Loops /\ actor[a] = "up" /\ Go(a, "work")
Worked(a) == actor[a] = "work" /\ Go(a, "up")

\* Mutant: the loop never looks at its context.
Deaf(a) == FALSE

\* case <-ctx.Done()
Done(a) == a \in told

LoopReturns(a) == a \in Loops /\ actor[a] = "up" /\ Done(a) /\ Go(a, "returned")

\* run.SignalHandler: a signal, or the interrupt.
SignalReturns == actor["signal"] = "up" /\ "signal" \in told /\ Go("signal", "returned")
Signal == actor["signal"] = "up" /\ "signal" \notin told /\ Go("signal", "returned")

-----------------------------------------------------------------------------
(* Requests.                                                               *)

Handle(r, where) ==
  /\ req' = [req EXCEPT ![r] = where]
  /\ UNCHANGED <<program, phase, pool, next, told, actor, expired>>

Accept(r) ==
  /\ actor[Public] = "up" /\ Public \notin told
  /\ req[r] = "none"
  /\ Handle(r, "run")
  /\ UNCHANGED failed

\* A statement or transaction of the handler gets a connection, or an error
\* from a pool that is closed.  The handler of the proxy needs none.
Acquire(r) ==
  /\ Public = "api" /\ req[r] = "run" /\ phase # "exit"
  /\ IF pool = "open"
     THEN Handle(r, "conn") /\ UNCHANGED failed
     ELSE Handle(r, "none") /\ failed' = failed \cup {r}

Release(r) ==
  /\ req[r] = "conn" /\ phase # "exit"
  /\ Handle(r, "run")
  /\ UNCHANGED failed

HandlerReturns(r) ==
  /\ req[r] = "run" /\ phase # "exit"
  /\ Handle(r, "none")
  /\ UNCHANGED failed

-----------------------------------------------------------------------------
(* main: g.Run, and the deferred Close.                                    *)

\* The first actor returns.
GroupEnds ==
  /\ phase = "run"
  /\ \E a \in Actors : actor[a] = "returned"
  /\ phase' = "interrupt"
  /\ UNCHANGED <<program, pool, next, told, actor, req, expired, failed>>

\* The interrupt of an actor.  That of a server calls Shutdown and waits.
Interrupt ==
  /\ phase = "interrupt" /\ next <= Len(program)
  /\ told' = told \cup {program[next]}
  /\ IF program[next] \in HTTPServers
     THEN phase' = "shutdown" /\ UNCHANGED next
     ELSE next' = next + 1 /\ UNCHANGED phase
  /\ UNCHANGED <<program, pool, actor, req, expired, failed>>

\* The server has no active connection any more.
Quiet(a) == a = Public => \A r \in Requests : req[r] = "none"

\* Mutant: the interrupt calls Close of the server, which waits for nobody.
ServerClosed ==
  /\ phase = "shutdown"
  /\ phase' = "interrupt" /\ next' = next + 1
  /\ UNCHANGED <<program, pool, told, actor, req, expired, failed>>

\* Shutdown returns: there is nothing to wait for, or the second is over.
ShutdownReturns ==
  /\ phase = "shutdown"
  /\ \/ Quiet(program[next]) /\ UNCHANGED expired
     \/ ~Quiet(program[next]) /\ expired' = TRUE
  /\ phase' = "interrupt" /\ next' = next + 1
  /\ UNCHANGED <<program, pool, told, actor, req, failed>>

\* Wait for all actors to stop.
AllReturned == \A a \in Actors : actor[a] = "returned"

GroupReturns ==
  /\ phase = "interrupt" /\ next = Len(program) + 1
  /\ AllReturned
  /\ phase' = "close"
  /\ UNCHANGED <<program, pool, next, told, actor, req, expired, failed>>

\* Mutant: Close is not deferred.
CloseAtOnce ==
  /\ phase # "start" /\ pool = "open"
  /\ pool' = "closing"
  /\ UNCHANGED <<program, phase, next, told, actor, req, expired, failed>>

\* s.Close: the pool turns away whoever asks from now on, ...
Close ==
  /\ phase = "close" /\ pool = "open"
  /\ pool' = "closing"
  /\ UNCHANGED <<program, phase, next, told, actor, req, expired, failed>>

\* ... and waits for the connections that are out.
Closed ==
  /\ phase = "close" /\ pool = "closing"
  /\ \A r \in Requests : req[r] # "conn"
  /\ pool' = "closed" /\ phase' = "exit"
  /\ UNCHANGED <<program, next, told, actor, req, expired, failed>>

Main == OpenStore \/ Prepare \/ GroupEnds \/ Interrupt \/ ShutdownReturns
          \/ GroupReturns \/ Close \/ Closed

ActorStep(a) ==
  BeginActor(a) \/ ServerReturns(a) \/ Tick(a) \/ Worked(a) \/ LoopReturns(a)

ProcNext ==
  \/ Main
  \/ phase # "exit" /\ \E a \in Actors : ActorStep(a)
  \/ phase # "exit" /\ (Signal \/ SignalReturns)
  \/ \E r \in Requests : Accept(r) \/ Acquire(r) \/ Release(r) \/ HandlerReturns(r)

ProcSpec == ProcInit /\ [][ProcNext]_procVars

\* The steps of an actor that nothing but itself delays.
Runs(a) == \/ BeginActor(a) \/ Worked(a)
           \/ a \in told /\ ServerReturns(a)
           \/ a = "signal" /\ SignalReturns

\* Goroutines run; a second ends; statements time out.  A select that finds both
\* of its channels ready takes either at random, so a loop that comes back to
\* it does not miss the end of its context for ever.  Nothing makes a signal
\* come, a listener fail or a handler return.
ProcFairSpec ==
  /\ ProcSpec
  /\ WF_procVars(Main)
  /\ \A a \in HTTPServers \cup Loops \cup {"signal"} :
       WF_procVars(a \in Actors /\ Runs(a))
  /\ \A a \in Loops : SF_procVars(a \in Actors /\ LoopReturns(a))
  /\ \A r \in Requests : WF_procVars(Release(r))

-----------------------------------------------------------------------------
(* Properties.                                                             *)

\* The store outlives its users: no loop works on a store that Close has begun
\* to close, and whoever has a connection, perhaps in the middle of a
\* transaction, keeps it until it is given back.
StoreOutlivesUsers ==
  /\ \A a \in Actors : actor[a] = "work" => pool = "open"
  /\ \A r \in Requests : req[r] = "conn" => pool \in {"open", "closing"}

\* A request only fails for want of the store, or is cut off by the exit, if it
\* outlasted the second that Shutdown gives it.
RequestsGetGrace ==
  \/ expired
  \/ failed = {} /\ (phase = "exit" => \A r \in Requests : req[r] = "none")

\* Once an actor has returned the process ends: every other one hears of it,
\* also the ones that have not started or are at work, and the pool gets its
\* connections back.
ProcessEnds ==
  (phase = "close" \/ \E a \in Actors : actor[a] = "returned") ~> phase = "exit"

-----------------------------------------------------------------------------
(* The inductive invariant behind StoreOutlivesUsers and RequestsGetGrace. *)

Phases == {"start", "run", "interrupt", "shutdown", "close", "exit"}
NoRequests == \A r \in Requests : req[r] = "none"

ProcessShape ==
  /\ program \in {Instance, ReverseProxy}
  /\ phase \in Phases /\ pool \in {"none", "open", "closing", "closed"}
  /\ next \in 1..(Len(program) + 1)
  /\ actor \in [Actors -> {"none", "new", "up", "work", "returned"}]
  /\ req \in [Requests -> {"none", "run", "conn"}]
  /\ expired \in BOOLEAN

\* The pool is open while the group runs, and is closed only after it.
StorePhases ==
  /\ phase = "start" => pool \in {"none", "open"}
  /\ phase \in {"run", "interrupt", "shutdown"} => pool = "open"
  /\ phase = "close" => pool \in {"open", "closing"}
  /\ pool = "closed" => \A r \in Requests : req[r] # "conn"

\* No actor is at work outside of the group: it never ran, or it is over, with
\* every actor interrupted.
GroupPhases ==
  /\ phase = "start" \/ pool = "none" => \A a \in Actors : actor[a] = "none"
  /\ phase \in {"close", "exit"} =>
        \/ \A a \in Actors : actor[a] = "none"
        \/ AllReturned /\ next = Len(program) + 1

\* Requests come through the public server.  Once its Shutdown has returned
\* there are none, unless the second was over.
GraceInv ==
  /\ actor[Public] \in {"none", "new"} => NoRequests
  /\ phase = "shutdown" => next <= Len(program) /\ program[next] \in told
  /\ next > 1 => Public \in told /\ (expired \/ NoRequests)
  /\ failed # {} => expired

ProcessInv ==
  ProcessShape /\ StorePhases /\ GroupPhases /\ GraceInv
=============================================================================
