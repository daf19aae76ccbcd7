---------------------------- MODULE InstanceProofs ----------------------------
(***************************************************************************)
(* Proofs about what one server process holds, for any number of requests, *)
(* callers and keys and any capacity: its life from start to exit          *)
(* (Process), and the ring cache that its services ask for validator sets  *)
(* (RingCache).                                                            *)
(***************************************************************************)
EXTENDS Process, RingCache, TLAPS

\* The provers of a leaf that names none, in the order they are tried.
USE SMTT(60), Z3T(60), SMTT(90), Z3T(90)

-----------------------------------------------------------------------------
(* Process, for any set of requests.                                       *)

\* Both programs run a public server first, then other actors, and the signal
\* handler is among them.
LEMMA Programs ==
  ASSUME program \in {Instance, ReverseProxy}
  PROVE  /\ Len(program) \in Nat /\ Len(program) > 1
         /\ Public \in HTTPServers /\ Public \in Actors /\ "signal" \in Actors
  <1>1. CASE program = Instance
    <2>1. /\ Len(program) = 6 /\ DOMAIN program = 1..6
          /\ program[1] = "api" /\ program[6] = "signal"
      BY <1>1 DEF Instance
    <2> QED
      BY <2>1 DEF Public, HTTPServers, Actors, Range
  <1>2. CASE program = ReverseProxy
    <2>1. /\ Len(program) = 4 /\ DOMAIN program = 1..4
          /\ program[1] = "proxy" /\ program[4] = "signal"
      BY <1>2 DEF ReverseProxy
    <2> QED
      BY <2>1 DEF Public, HTTPServers, Actors, Range
  <1> QED
    BY <1>1, <1>2, ZenonT(60)

\* Nothing runs before main opens the store.
LEMMA InitProcess == ProcInit => ProcessInv
  <1> SUFFICES ASSUME ProcInit PROVE ProcessInv
    OBVIOUS
  <1>1. Len(program) \in Nat /\ Len(program) > 1 /\ Public \in Actors
    BY Programs, ZenonT(60) DEF ProcInit
  <1>2. ProcessShape
    <2>1. next \in 1..(Len(program) + 1)
      BY <1>1 DEF ProcInit
    <2>2. /\ actor \in [Actors -> {"none", "new", "up", "work", "returned"}]
          /\ req \in [Requests -> {"none", "run", "conn"}]
      BY DEF ProcInit
    <2>3. expired \in BOOLEAN
      BY ZenonT(60) DEF ProcInit
    <2> QED
      BY <2>1, <2>2, <2>3, ZenonT(60) DEF ProcInit, ProcessShape, Phases
  <1> QED
    BY <1>1, <1>2 DEF ProcInit, ProcessInv, StorePhases, GroupPhases, GraceInv,
       NoRequests

\* The steps of the goroutine of main.
LEMMA MainStep ==
  ASSUME ProcessInv, Main
  PROVE  ProcessInv'
  <1> USE DEF ProcessInv
  <1>1. /\ Len(program) \in Nat /\ Len(program) > 1
        /\ Public \in HTTPServers /\ Public \in Actors
    BY Programs, ZenonT(60) DEF ProcessShape
  <1>2. program' = program /\ Actors' = Actors /\ Public' = Public
    BY ZenonT(60) DEF Main, OpenStore, Prepare, GroupEnds, Interrupt, ShutdownReturns,
       GroupReturns, Close, Closed, Actors, Public
  <1>3. CASE OpenStore
    <2>1. /\ phase' \in {"start", "exit"} /\ pool' \in {"none", "open", "closed"}
          /\ phase' = "start" => pool' = "open"
          /\ UNCHANGED <<next, told, actor, req, expired, failed>>
      BY <1>3, ZenonT(60) DEF OpenStore
    <2>2. /\ \A a \in Actors : actor[a] = "none"
          /\ NoRequests
      BY <1>1, <1>3, ZenonT(60) DEF OpenStore, GroupPhases, GraceInv
    <2>3. ProcessShape'
      BY <1>2, <2>1, ZenonT(60) DEF ProcessShape, Phases
    <2>4. StorePhases'
      BY <2>1, <2>2, ZenonT(60) DEF StorePhases, NoRequests
    <2>5. GroupPhases'
      BY <1>2, <2>1, <2>2, ZenonT(60) DEF GroupPhases
    <2>6. GraceInv'
      BY <1>2, <2>1, <2>2, ZenonT(60) DEF GraceInv, NoRequests
    <2> QED
      BY <2>3, <2>4, <2>5, <2>6, ZenonT(60)
  <1>4. CASE Prepare
    <2>1. actor' \in [Actors -> {"none", "new", "up", "work", "returned"}]
      BY <1>4, ZenonT(60) DEF Prepare, ProcessShape
    <2>2. NoRequests
      BY <1>1, <1>4, ZenonT(60) DEF Prepare, GroupPhases, GraceInv
    <2> QED
      BY <1>1, <1>2, <1>4, <2>1, <2>2, ZenonT(60) DEF Prepare, ProcessShape, Phases,
         StorePhases, GroupPhases, GraceInv, NoRequests, AllReturned
  <1>5. CASE GroupEnds
    BY <1>2, <1>5, ZenonT(60) DEF GroupEnds, ProcessShape, Phases, StorePhases, GroupPhases,
       GraceInv, NoRequests, AllReturned
  <1>6. CASE Interrupt
    <2>1. next = 1 => program[next] \in HTTPServers
      BY <1>1, ZenonT(60) DEF Public
    <2>2. /\ ProcessShape'
          /\ phase' \in {"interrupt", "shutdown"} /\ pool' = "open"
      BY <1>1, <1>2, <1>6 DEF Interrupt, ProcessShape, Phases, StorePhases
    <2>3. GraceInv'
      BY <1>1, <1>2, <1>6, <2>1 DEF Interrupt, ProcessShape, GraceInv, NoRequests,
         Public
    <2> QED
      BY <2>2, <2>3, ZenonT(60) DEF StorePhases, GroupPhases
  <1>7. CASE ShutdownReturns
    <2>1. /\ next \in 1..Len(program) /\ program[next] \in told
          /\ phase' = "interrupt" /\ next' = next + 1
          /\ UNCHANGED <<pool, told, actor, req, failed>>
      BY <1>7 DEF ShutdownReturns, ProcessShape, GraceInv
    <2>2. /\ next = 1 => expired' \/ NoRequests
          /\ expired' = expired \/ expired' = TRUE
      BY <1>7, ZenonT(60) DEF ShutdownReturns, Quiet, NoRequests, Public
    <2>3. next = 1 => Public \in told
      BY <2>1 DEF Public
    <2>4. expired' \in BOOLEAN
      BY <2>2, ZenonT(60) DEF ProcessShape
    <2>5. next' \in 1..(Len(program) + 1)
      BY <1>1, <2>1
    <2>6. ProcessShape'
      BY <1>2, <2>1, <2>4, <2>5, ZenonT(60) DEF ProcessShape, Phases
    <2>7. StorePhases' /\ GroupPhases'
      BY <1>2, <1>7, <2>1, ZenonT(60) DEF ShutdownReturns, StorePhases, GroupPhases
    <2>8. Public \in told /\ (expired' \/ NoRequests)
      BY <2>1, <2>2, <2>3 DEF GraceInv
    <2>9. failed # {} => expired'
      BY <2>2 DEF GraceInv
    <2>10. GraceInv'
      BY <1>2, <2>1, <2>8, <2>9, ZenonT(60) DEF GraceInv, NoRequests
    <2> QED
      BY <2>6, <2>7, <2>10, ZenonT(60)
  <1>8. CASE GroupReturns
    BY <1>2, <1>8, ZenonT(60) DEF GroupReturns, ProcessShape, Phases, StorePhases, GroupPhases,
       GraceInv, NoRequests, AllReturned
  <1>9. CASE Close
    BY <1>2, <1>9, ZenonT(60) DEF Close, ProcessShape, Phases, StorePhases, GroupPhases,
       GraceInv, NoRequests, AllReturned
  <1>10. CASE Closed
    BY <1>2, <1>10, ZenonT(60) DEF Closed, ProcessShape, Phases, StorePhases, GroupPhases,
       GraceInv, NoRequests, AllReturned
  <1> QED
    BY <1>3, <1>4, <1>5, <1>6, <1>7, <1>8, <1>9, <1>10, ZenonT(60) DEF Main

\* An actor that moves is one of a group that runs.
LEMMA GoStep ==
  ASSUME ProcessInv, NEW a \in Actors, NEW where \in {"up", "work", "returned"},
         actor[a] \in {"new", "up", "work"}, phase # "exit",
         Go(a, where)
  PROVE  ProcessInv'
  <1> USE DEF ProcessInv
  <1>1. /\ UNCHANGED <<program, phase, pool, next, told, req, expired, failed>>
        /\ Actors' = Actors /\ Public' = Public
        /\ actor' = [actor EXCEPT ![a] = where]
    BY ZenonT(60) DEF Go, Actors, Public
  <1>2. actor' \in [Actors -> {"none", "new", "up", "work", "returned"}]
    BY <1>1, ZenonT(60) DEF ProcessShape
  <1>3. phase \notin {"start", "close", "exit"}
    BY ZenonT(60) DEF GroupPhases, AllReturned
  <1>4. \A b \in Actors : actor'[b] \in {"none", "new"} =>
                             actor[b] \in {"none", "new"}
    BY <1>1, <1>2, ZenonT(60) DEF ProcessShape
  <1>5. Public \in Actors
    BY Programs, ZenonT(60) DEF ProcessShape
  <1> QED
    BY <1>1, <1>2, <1>3, <1>4, <1>5, ZenonT(60) DEF ProcessShape, StorePhases, GroupPhases,
       GraceInv, NoRequests

\* A request comes, uses the store, or ends.
LEMMA RequestStep ==
  ASSUME ProcessInv, NEW r \in Requests,
         Accept(r) \/ Acquire(r) \/ Release(r) \/ HandlerReturns(r)
  PROVE  ProcessInv'
  <1> USE DEF ProcessInv
  <1>1. /\ UNCHANGED <<program, phase, pool, next, told, actor, expired>>
        /\ Actors' = Actors /\ Public' = Public
        /\ \E where \in {"none", "run", "conn"} : req' = [req EXCEPT ![r] = where]
    BY ZenonT(60) DEF Accept, Acquire, Release, HandlerReturns, Handle, Actors, Public
  <1>2. req' \in [Requests -> {"none", "run", "conn"}]
    BY <1>1, ZenonT(60) DEF ProcessShape
  <1>3. /\ Len(program) \in Nat /\ Len(program) > 1 /\ Public \in Actors
    BY Programs, ZenonT(60) DEF ProcessShape
  <1>4. /\ next > 1 /\ ~ expired => req'[r] = "none"
        /\ actor[Public] \in {"none", "new"} => req'[r] = "none"
    BY <1>1, ZenonT(60) DEF Accept, Acquire, Release, HandlerReturns, Handle, GraceInv, NoRequests,
       ProcessShape
  <1>5. /\ next > 1 /\ ~ expired => NoRequests'
        /\ actor[Public] \in {"none", "new"} => NoRequests'
    BY <1>1, <1>2, <1>4, ZenonT(60) DEF GraceInv, NoRequests, ProcessShape
  <1>6. pool = "closed" => req'[r] # "conn"
    BY <1>1, ZenonT(60) DEF Accept, Acquire, Release, HandlerReturns, Handle, StorePhases,
       ProcessShape
  <1>7. (pool = "closed" => \A s \in Requests : req[s] # "conn")'
    BY <1>1, <1>2, <1>6, ZenonT(60) DEF StorePhases, ProcessShape
  <1>8. failed' # {} => expired
    <2>1. CASE failed' = failed
      BY <2>1, ZenonT(60) DEF GraceInv
    <2>2. CASE failed' # failed
      <3>1. req[r] = "run" /\ phase # "exit" /\ pool # "open"
        BY <2>2, ZenonT(60) DEF Accept, Acquire, Release, HandlerReturns
      <3>2. actor[Public] \notin {"none", "new"}
        BY <3>1, ZenonT(60) DEF GraceInv, NoRequests
      <3>3. phase = "close"
        BY <1>3, <3>1, <3>2, ZenonT(60) DEF ProcessShape, Phases, StorePhases, GroupPhases
      <3>4. next > 1
        BY <1>3, <3>2, <3>3 DEF GroupPhases
      <3> QED
        BY <3>1, <3>4, ZenonT(60) DEF GraceInv, NoRequests
    <2> QED
      BY <2>1, <2>2, ZenonT(60)
  <1>9. ProcessShape' /\ StorePhases'
    BY <1>1, <1>2, <1>7, ZenonT(60) DEF ProcessShape, StorePhases
  <1>10. GroupPhases'
    BY <1>1 DEF GroupPhases, AllReturned
  <1>11. GraceInv'
    BY <1>1, <1>5, <1>8, ZenonT(60) DEF GraceInv
  <1> QED
    BY <1>9, <1>10, <1>11, ZenonT(60)

\* Every step keeps the invariant.
LEMMA NextProcess ==
  ASSUME ProcessInv, [ProcNext]_procVars
  PROVE  ProcessInv'
  <1>1. CASE Main
    BY <1>1, MainStep, ZenonT(60)
  <1>2. ASSUME NEW a \in Actors, phase # "exit", ActorStep(a)
        PROVE  ProcessInv'
    <2>1. PICK where \in {"up", "work", "returned"} :
             actor[a] \in {"new", "up", "work"} /\ Go(a, where)
      BY <1>2, ZenonT(60) DEF ActorStep, BeginActor, ServerReturns, Tick, Worked, LoopReturns
    <2> QED
      BY <1>2, <2>1, GoStep, ZenonT(60)
  <1>3. CASE phase # "exit" /\ (Signal \/ SignalReturns)
    <2>1. "signal" \in Actors
      BY Programs, ZenonT(60) DEF ProcessInv, ProcessShape
    <2>2. actor["signal"] = "up" /\ Go("signal", "returned")
      BY <1>3, ZenonT(60) DEF Signal, SignalReturns
    <2> QED
      BY <1>3, <2>1, <2>2, GoStep, ZenonT(60)
  <1>4. ASSUME NEW r \in Requests,
               Accept(r) \/ Acquire(r) \/ Release(r) \/ HandlerReturns(r)
        PROVE  ProcessInv'
    BY <1>4, RequestStep, ZenonT(60)
  <1>5. CASE UNCHANGED procVars
    BY <1>5, ZenonT(60) DEF procVars, ProcessInv, ProcessShape, StorePhases, GroupPhases,
       GraceInv, NoRequests, AllReturned, Actors, Public
  <1> QED
    BY <1>1, <1>2, <1>3, <1>4, <1>5, ZenonT(60) DEF ProcNext

\* The phases of main, of the pool and of the group go together, and requests
\* that are left behind had their second.
THEOREM ProcessInvariance == ProcSpec => []ProcessInv
  <1>1. ProcessInv /\ [ProcNext]_procVars => ProcessInv'
    BY NextProcess
  <1> QED
    BY InitProcess, <1>1, PTL DEF ProcSpec

\* No loop works on a pool that Close has begun to close, and no request keeps
\* a connection of a pool that is closed.
THEOREM StoreOutlives == ProcSpec => []StoreOutlivesUsers
  <1>1. ProcessInv => StoreOutlivesUsers
    <2> SUFFICES ASSUME ProcessInv PROVE StoreOutlivesUsers
      BY ZenonT(60)
    <2> USE DEF ProcessInv
    <2>1. Public \in Actors
      BY Programs, ZenonT(60) DEF ProcessShape
    <2>2. ASSUME NEW a \in Actors, actor[a] = "work" PROVE pool = "open"
      BY <2>2, ZenonT(60) DEF ProcessShape, Phases, StorePhases, GroupPhases, AllReturned
    <2>3. ASSUME NEW r \in Requests, req[r] = "conn"
          PROVE  pool \in {"open", "closing"}
      <3>1. pool # "closed"
        BY <2>3, ZenonT(60) DEF StorePhases
      <3>2. actor[Public] # "none"
        BY <2>3, ZenonT(60) DEF GraceInv, NoRequests
      <3> QED
        BY <2>1, <3>1, <3>2, ZenonT(60) DEF ProcessShape, Phases, StorePhases, GroupPhases
    <2> QED
      BY <2>2, <2>3, ZenonT(60) DEF StoreOutlivesUsers
  <1> QED
    BY ProcessInvariance, <1>1, PTL

\* A request fails for want of the store, or is cut off by the exit, only if a
\* Shutdown ended by its timeout.
THEOREM RequestsGrace == ProcSpec => []RequestsGetGrace
  <1>1. ProcessInv => RequestsGetGrace
    <2> SUFFICES ASSUME ProcessInv, ~ expired PROVE RequestsGetGrace
      BY ZenonT(60) DEF RequestsGetGrace
    <2> USE DEF ProcessInv
    <2>1. Len(program) \in Nat /\ Len(program) > 1 /\ Public \in Actors
      BY Programs, ZenonT(60) DEF ProcessShape
    <2>2. failed = {}
      BY ZenonT(60) DEF GraceInv
    <2>3. phase = "exit" => NoRequests
      BY <2>1 DEF GroupPhases, GraceInv
    <2> QED
      BY <2>2, <2>3, ZenonT(60) DEF RequestsGetGrace, NoRequests
  <1> QED
    BY ProcessInvariance, <1>1, PTL

-----------------------------------------------------------------------------
(* The ring cache keeps its index and its ring in step, fills every item   *)
(* once, keeps no error, and implements ReadThrough.                       *)

USE RingAssumption

\* A value is not the failure, and neither is NULL.
LEMMA AnswerFacts ==
  /\ Failed \in Answer /\ Failed # NULL
  /\ \A k \in Keys : Found(k) \in Answer /\ Found(k) # Failed /\ Found(k) # NULL
  <1>1. Failed \in Answer /\ \A k \in Keys : Found(k) \in Answer
    BY ZenonT(60) DEF Failed, Found, Answer
  <1>2. \A k \in Keys : Found(k) # Failed
    BY ZenonT(60) DEF Failed, Found
  <1> QED
    BY <1>1, <1>2, RingAssumption, ZenonT(60)

\* A new item has no answer and no writer.
LEMMA ItemFacts ==
  ASSUME NEW k \in Keys \cup {NULL}
  PROVE  /\ NewItem(k) \in Item
         /\ NewItem(k).key = k /\ NewItem(k).answer = NULL
         /\ ~ NewItem(k).ok /\ NewItem(k).writer = NULL
  BY DEF NewItem, Item

\* A new cache satisfies the invariant: its ring holds no key.
LEMMA InitRing == Init => RingInv
  <1> SUFFICES ASSUME Init
               PROVE  RingInv
    OBVIOUS
  <1>1. TypeOK
    BY ItemFacts DEF Init, TypeOK, Positions
  <1>2. IndexMatchesRing /\ ErrorsLeave
    BY DEF Init, IndexMatchesRing, ErrorsLeave
  <1>3. CallerInv /\ ExcusedInv
    BY DEF Init, CallerInv, CallerOK, ExcusedInv, Failing
  <1>4. ItemInv
    BY ItemFacts DEF Init, ItemInv
  <1> QED
    BY <1>1, <1>2, <1>3, <1>4 DEF RingInv

\* Get meets the item of its key.
LEMMA FindStep ==
  ASSUME RingInv, NEW p \in Callers, NEW k \in Keys, pc[p] = "idle",
         FindItem(p, k), UNCHANGED answer, Goto(p, "read"),
         key' = [key EXCEPT ![p] = k],
         excused' = IF \E q \in Failing : key[q] = k
                    THEN excused \cup {p} ELSE excused
  PROVE  RingInv'
  <1> DEFINE i == ring[index[k]]
  <1>1. /\ index[k] \in Positions /\ i \in Items /\ items[i].key = k
        /\ item' = [item EXCEPT ![p] = i]
        /\ pc' = [pc EXCEPT ![p] = "read"]
        /\ UNCHANGED <<index, ring, head, items, answer>>
    BY DEF RingInv, TypeOK, IndexMatchesRing, FindItem, Goto
  <1> HIDE DEF i
  <1>2. TypeOK'
    BY <1>1 DEF RingInv, TypeOK
  <1>3. \A q \in Callers : q # p =>
           /\ pc'[q] = pc[q] /\ key'[q] = key[q] /\ item'[q] = item[q]
           /\ It(q)' = It(q)
    BY <1>1 DEF RingInv, TypeOK, It
  <1>4. pc'[p] = "read" /\ key'[p] = k /\ item'[p] = i /\ It(p)' = items[i]
    BY <1>1 DEF RingInv, TypeOK, It
  <1>5. Failing' = Failing /\ \A q \in Failing : q # p /\ key'[q] = key[q]
    BY <1>3, <1>4, ZenonT(60) DEF Failing
  <1>6. IndexMatchesRing' /\ ItemInv'
    BY <1>1, ZenonT(60) DEF RingInv, IndexMatchesRing, ItemInv
  <1>7. CallerInv'
    BY <1>1, <1>3, <1>4 DEF RingInv, CallerInv, CallerOK
  <1>8. ErrorsLeave'
    BY <1>1, <1>5 DEF RingInv, ErrorsLeave
  <1>9. ExcusedInv'
    <2>1. \A q \in Callers : q # p =>
             /\ \A r \in Failing' : key'[q] = key'[r] => q \in excused'
             /\ pc'[q] # "idle" /\ It(q)'.answer = Failed => q \in excused'
      BY <1>3, <1>5 DEF RingInv, ExcusedInv
    <2>2. \A r \in Failing' : key'[p] = key'[r] => p \in excused'
      BY <1>4, <1>5, ZenonT(60)
    <2>3. It(p)'.answer = Failed => p \in excused'
      BY <1>1, <1>4, <2>2, <1>5 DEF RingInv, ErrorsLeave, i
    <2> QED
      BY <2>1, <2>2, <2>3 DEF ExcusedInv
  <1> QED
    BY <1>2, <1>6, <1>7, <1>8, <1>9 DEF RingInv

\* Get adds an item, in place of the one at the head.
LEMMA AddStep ==
  ASSUME RingInv, NEW p \in Callers, NEW k \in Keys, NEW i \in Items,
         pc[p] = "idle", AddItem(p, k, i), UNCHANGED answer, Goto(p, "read"),
         key' = [key EXCEPT ![p] = k],
         excused' = IF \E q \in Failing : key[q] = k
                    THEN excused \cup {p} ELSE excused
  PROVE  RingInv'
  <1>1. /\ index[k] = NULL /\ Free(i)
        /\ index' = IndexWith(k)
        /\ ring' = [ring EXCEPT ![head] = i]
        /\ items' = [items EXCEPT ![i] = NewItem(k)]
        /\ item' = [item EXCEPT ![p] = i]
        /\ pc' = [pc EXCEPT ![p] = "read"]
        /\ UNCHANGED answer
    BY DEF AddItem, Goto
  <1>2. head' \in Positions
    BY DEF RingInv, TypeOK, AddItem, NextHead, Positions
  <1>3. TypeOK'
    BY <1>1, <1>2, ItemFacts DEF RingInv, TypeOK, IndexWith
  <1>4. /\ items'[i] = NewItem(k)
        /\ \A j \in Items : j # i => items'[j] = items[j]
        /\ ring'[head] = i
        /\ \A n \in Positions : n # head => ring'[n] = ring[n] /\ ring[n] # i
    BY <1>1, ZenonT(60) DEF RingInv, TypeOK, Free
  <1>5. \A q \in Callers : q # p =>
           /\ pc'[q] = pc[q] /\ key'[q] = key[q] /\ item'[q] = item[q]
           /\ pc[q] # "idle" => item[q] \in Items /\ It(q)' = It(q)
    BY <1>1, <1>4 DEF RingInv, TypeOK, It, Free, CallerInv, CallerOK
  <1>6. pc'[p] = "read" /\ key'[p] = k /\ item'[p] = i /\ It(p)' = NewItem(k)
    BY <1>1, <1>4, ZenonT(60) DEF RingInv, TypeOK, It
  <1>7. Failing' = Failing /\ \A q \in Failing : q # p /\ key'[q] = key[q]
    BY <1>5, <1>6 DEF Failing
  <1>8. IndexMatchesRing'
    <2>1. \A l \in Keys : index'[l] =
             IF l = k THEN head
             ELSE IF ring[head] # NULL /\ l = items[ring[head]].key THEN NULL
             ELSE index[l]
      BY <1>1, ZenonT(60) DEF IndexWith
    <2>2. \A l \in Keys : index'[l] # NULL =>
             ring'[index'[l]] # NULL /\ items'[ring'[index'[l]]].key = l
      <3> SUFFICES ASSUME NEW l \in Keys, index'[l] # NULL
                   PROVE  ring'[index'[l]] # NULL /\ items'[ring'[index'[l]]].key = l
        OBVIOUS
      <3>1. CASE l = k
        BY <1>4, <2>1, <3>1, ItemFacts
      <3>2. CASE l # k
        <4>1. index'[l] = index[l] /\ index[l] \in Positions
              /\ ring[index[l]] \in Items /\ items[ring[index[l]]].key = l
          BY <2>1, <3>2 DEF RingInv, TypeOK, IndexMatchesRing
        <4>2. index[l] # head
          <5> SUFFICES ASSUME index[l] = head
                       PROVE  index'[l] = NULL
            OBVIOUS
          <5>1. ring[head] # NULL /\ items[ring[head]].key = l
            BY <4>1, ZenonT(60)
          <5> QED
            BY <2>1, <3>2, <5>1
        <4> QED
          BY <1>4, <4>1, <4>2, ZenonT(60)
      <3> QED
        BY <3>1, <3>2
    <2>3. \A n \in Positions : ring'[n] # NULL =>
             items'[ring'[n]].key \in Keys /\ index'[items'[ring'[n]].key] = n
      <3> SUFFICES ASSUME NEW n \in Positions, ring'[n] # NULL
                   PROVE  /\ items'[ring'[n]].key \in Keys
                          /\ index'[items'[ring'[n]].key] = n
        BY ZenonT(60)
      <3>1. CASE n = head
        BY <1>4, <2>1, <3>1, ItemFacts
      <3>2. CASE n # head
        <4>1. /\ ring'[n] = ring[n] /\ ring[n] \in Items
              /\ items'[ring[n]] = items[ring[n]]
              /\ items[ring[n]].key \in Keys /\ index[items[ring[n]].key] = n
          BY <1>4, <3>2 DEF RingInv, TypeOK, IndexMatchesRing
        <4>2. items[ring[n]].key # k
          BY <1>1, <4>1
        <4>3. ring[head] # NULL => items[ring[head]].key # items[ring[n]].key
          BY <3>2, <4>1, ZenonT(60) DEF RingInv, TypeOK, IndexMatchesRing
        <4> QED
          BY <2>1, <4>1, <4>2, <4>3, ZenonT(60)
      <3> QED
        BY <3>1, <3>2
    <2> QED
      BY <2>2, <2>3 DEF IndexMatchesRing
  <1>9. CallerInv'
    <2>1. CallerOK(p)'
      <3>1. answer[p] = NULL /\ answer' = answer
        BY <1>1, ZenonT(60) DEF RingInv, CallerInv, CallerOK
      <3>2. It(p)'.key = k
        BY <1>6, ItemFacts, ZenonT(60)
      <3> QED
        BY <1>6, <3>1, <3>2, ZenonT(60) DEF CallerOK
    <2>2. ASSUME NEW q \in Callers, q # p
          PROVE  CallerOK(q)'
      <3>1. CallerOK(q)
        BY ZenonT(60) DEF RingInv, CallerInv
      <3> QED
        BY <1>1, <1>5, <2>2, <3>1, ZenonT(60) DEF CallerOK
    <2> QED
      BY <2>1, <2>2, ZenonT(60) DEF CallerInv
  <1>10. ItemInv'
    <2> SUFFICES ASSUME NEW j \in Items
                 PROVE  /\ items'[j].ok => items'[j].answer \in {Found(items'[j].key), Failed}
                        /\ ~ items'[j].ok => items'[j].answer = NULL
      BY ZenonT(60) DEF ItemInv
    <2>1. CASE j = i
      <3>1. ~ items'[i].ok /\ items'[i].answer = NULL
        BY <1>4, ItemFacts, ZenonT(60)
      <3> QED
        BY <2>1, <3>1, ZenonT(60)
    <2>2. CASE j # i
      BY <1>4, <2>2, ZenonT(60) DEF RingInv, ItemInv
    <2> QED
      BY <2>1, <2>2, ZenonT(60)
  <1>11. ErrorsLeave'
    <2> SUFFICES ASSUME NEW n \in Positions, ring'[n] # NULL,
                        items'[ring'[n]].answer = Failed
                 PROVE  \E q \in Failing' : key'[q] = items'[ring'[n]].key
      BY ZenonT(60) DEF ErrorsLeave
    <2>1. n # head
      <3>1. items'[ring'[head]].answer = NULL
        BY <1>4, ItemFacts, ZenonT(60)
      <3> QED
        BY <3>1, AnswerFacts, ZenonT(60)
    <2>2. ring'[n] = ring[n] /\ items'[ring[n]] = items[ring[n]]
      BY <1>4, <2>1 DEF RingInv, TypeOK
    <2> QED
      BY <1>7, <2>2, ZenonT(60) DEF RingInv, ErrorsLeave
  <1>12. ExcusedInv'
    <2>1. \A q \in Callers : q # p =>
             /\ \A r \in Failing' : key'[q] = key'[r] => q \in excused'
             /\ pc'[q] # "idle" /\ It(q)'.answer = Failed => q \in excused'
      BY <1>5, <1>7, ZenonT(60) DEF RingInv, ExcusedInv
    <2>2. \A r \in Failing' : key'[p] = key'[r] => p \in excused'
      BY <1>6, <1>7, ZenonT(60)
    <2>3. It(p)'.answer # Failed
      BY <1>6, ItemFacts, AnswerFacts, ZenonT(60)
    <2> QED
      BY <2>1, <2>2, <2>3, ZenonT(60) DEF ExcusedInv
  <1> QED
    BY <1>3, <1>8, <1>9, <1>10, <1>11, <1>12 DEF RingInv

-----------------------------------------------------------------------------
\* A step that leaves index and ring alone: p goes from one place inside Get to
\* another with answer a, and its item becomes x.
Inside(p, where, x, a) ==
  /\ pc[p] # "idle"
  /\ where \in {"lock", "fill", "del", "return"}
  /\ x \in Item /\ a \in Answer \cup {NULL}
  /\ Goto(p, where)
  /\ items' = [items EXCEPT ![item[p]] = x]
  /\ answer' = [answer EXCEPT ![p] = a]
  /\ UNCHANGED <<index, ring, head, key, item>>

\* x and a are what the place that p goes to, and whoever fills the item, need.
Fits(p, where, x, a) ==
  /\ x.key = key[p]
  /\ where = "fill" => x.writer = p /\ ~ x.ok
  /\ where \in {"lock", "fill"} => a = NULL
  /\ where = "del" => a = Failed
  /\ where = "return" => a \in {Found(key[p]), Failed}
  /\ x.ok => x.answer \in {Found(key[p]), Failed}
  /\ ~ x.ok => x.answer = NULL
  /\ \A q \in Callers \ {p} : pc[q] = "fill" /\ item[q] = item[p] =>
        x.writer = q /\ ~ x.ok

\* Such a step keeps the invariant.
LEMMA InsideStep ==
  ASSUME RingInv, NEW p \in Callers, NEW where, NEW x, NEW a,
         Inside(p, where, x, a), Fits(p, where, x, a),
         excused' \subseteq Callers, ErrorsLeave', ExcusedInv'
  PROVE  RingInv'
  <1> USE DEF Inside, Fits
  <1>1. item[p] \in Items /\ It(p).key = key[p] /\ key[p] \in Keys
    BY ZenonT(60) DEF RingInv, CallerInv, CallerOK
  <1>2. /\ pc' = [pc EXCEPT ![p] = where]
        /\ items'[item[p]] = x
        /\ \A i \in Items : i # item[p] => items'[i] = items[i]
        /\ \A i \in Items : items'[i].key = items[i].key
    BY <1>1 DEF RingInv, TypeOK, Goto, It
  <1>3. TypeOK'
    BY <1>1, <1>2, ZenonT(60) DEF RingInv, TypeOK
  <1>4. IndexMatchesRing'
    <2>1. /\ index \in [Keys -> Positions \cup {NULL}]
          /\ ring \in [Positions -> Items \cup {NULL}]
          /\ index' = index /\ ring' = ring
      BY ZenonT(60) DEF RingInv, TypeOK
    <2>2. \A n \in Positions :
             ring[n] # NULL => items'[ring[n]].key = items[ring[n]].key
      <3> SUFFICES ASSUME NEW n \in Positions, ring[n] # NULL
                   PROVE  items'[ring[n]].key = items[ring[n]].key
        BY ZenonT(60)
      <3>1. ring[n] \in Items
        BY <2>1, ZenonT(60)
      <3> QED
        BY <1>2, <3>1, ZenonT(60)
    <2>3. ASSUME NEW k \in Keys, index[k] # NULL
          PROVE  ring[index[k]] # NULL /\ items'[ring[index[k]]].key = k
      <3>1. index[k] \in Positions
        BY <2>1, <2>3, ZenonT(60)
      <3>2. ring[index[k]] # NULL /\ items[ring[index[k]]].key = k
        BY <2>3, ZenonT(60) DEF RingInv, IndexMatchesRing
      <3> QED
        BY <2>2, <3>1, <3>2, ZenonT(60)
    <2>4. ASSUME NEW n \in Positions, ring[n] # NULL
          PROVE  items'[ring[n]].key \in Keys /\ index[items'[ring[n]].key] = n
      BY <2>2, <2>4, ZenonT(60) DEF RingInv, IndexMatchesRing
    <2> QED
      BY <2>1, <2>3, <2>4, ZenonT(60) DEF IndexMatchesRing
  <1>5. ItemInv'
    <2> SUFFICES ASSUME NEW i \in Items
                 PROVE  /\ items'[i].ok => items'[i].answer \in {Found(items'[i].key), Failed}
                        /\ ~ items'[i].ok => items'[i].answer = NULL
      BY ZenonT(60) DEF ItemInv
    <2>1. CASE i = item[p]
      <3>1. items'[i] = x
        BY <1>2, <2>1, ZenonT(60)
      <3> QED
        BY <3>1, ZenonT(60)
    <2>2. CASE i # item[p]
      <3>1. items'[i] = items[i]
        BY <1>2, <2>2, ZenonT(60)
      <3> QED
        BY <3>1, ZenonT(60) DEF RingInv, ItemInv
    <2> QED
      BY <2>1, <2>2, ZenonT(60)
  <1>6. CallerInv'
    <2>1. pc'[p] = where /\ answer'[p] = a /\ It(p)' = x
      BY <1>1, <1>2, ZenonT(60) DEF RingInv, TypeOK, It
    <2>2. \A q \in Callers : q # p =>
             /\ pc'[q] = pc[q] /\ answer'[q] = answer[q]
             /\ It(q)' = IF item[q] = item[p] THEN x ELSE items'[item[q]]
      <3>1. item' = item
        BY ZenonT(60)
      <3>2. \A q \in Callers : q # p => pc'[q] = pc[q] /\ answer'[q] = answer[q]
        BY <1>2, ZenonT(60) DEF RingInv, TypeOK
      <3> QED
        <4> SUFFICES ASSUME NEW q \in Callers, q # p
                     PROVE  It(q)' = IF item[q] = item[p] THEN x ELSE items'[item[q]]
          BY <3>2, ZenonT(60)
        <4>1. It(q)' = items'[item[q]]
          BY <3>1, ZenonT(60) DEF It
        <4> QED
          BY <1>2, <4>1, ZenonT(60)
    <2>3. \A q \in Callers : q # p /\ pc[q] # "idle" =>
             /\ item[q] \in Items /\ It(q)'.key = It(q).key
             /\ item[q] # item[p] => It(q)' = It(q)
      <3> SUFFICES ASSUME NEW q \in Callers, q # p, pc[q] # "idle"
                   PROVE  /\ item[q] \in Items /\ It(q)'.key = It(q).key
                          /\ item[q] # item[p] => It(q)' = It(q)
        BY ZenonT(60)
      <3>1. item[q] \in Items /\ item' = item
        BY ZenonT(60) DEF RingInv, CallerInv, CallerOK
      <3> QED
        BY <1>2, <3>1, ZenonT(60) DEF It
    <2> QED
      <3>1. CallerOK(p)'
        BY <1>1, <2>1, ZenonT(60) DEF CallerOK
      <3>2. ASSUME NEW q \in Callers, q # p
            PROVE  CallerOK(q)'
        <4>1. CallerOK(q)
          BY ZenonT(60) DEF RingInv, CallerInv
        <4> QED
          <5>1. /\ pc'[q] = pc[q] /\ key' = key /\ item' = item /\ answer'[q] = answer[q]
                /\ pc[q] # "idle" => It(q)'.key = It(q).key
            BY <2>2, <2>3, <3>2, ZenonT(60)
          <5>2. ASSUME pc[q] = "fill" PROVE It(q)'.writer = q /\ ~ It(q)'.ok
            <6>1. CASE item[q] = item[p]
              BY <2>2, <3>2, <5>2, <6>1, ZenonT(60)
            <6>2. CASE item[q] # item[p]
              BY <2>3, <3>2, <4>1, <5>2, <6>2, ZenonT(60) DEF CallerOK
            <6> QED
              BY <6>1, <6>2, ZenonT(60)
          <5> QED
            BY <4>1, <5>1, <5>2, ZenonT(60) DEF CallerOK
      <3> QED
        BY <3>1, <3>2 DEF CallerInv
  <1> QED
    BY <1>3, <1>4, <1>5, <1>6, ZenonT(60) DEF RingInv

\* What p relies on inside Get.
LEMMA InsideFacts ==
  ASSUME RingInv, NEW p \in Callers, pc[p] # "idle"
  PROVE  /\ item[p] \in Items /\ key[p] \in Keys /\ It(p) \in Item
         /\ It(p).key = key[p]
         /\ It(p).ok => It(p).answer \in {Found(key[p]), Failed}
         /\ ~ It(p).ok => It(p).answer = NULL
         /\ It(p).answer \in Answer \cup {NULL}
         /\ items = [items EXCEPT ![item[p]] = It(p)]
         /\ answer = [answer EXCEPT ![p] = answer[p]]
         /\ It(p).answer = Failed => p \in excused
         /\ \A q \in Callers \ {p} : pc[q] = "fill" /\ item[q] = item[p] =>
              It(p).writer = q /\ ~ It(p).ok
  <1>1. item[p] \in Items /\ key[p] \in Keys /\ It(p).key = key[p]
    BY DEF RingInv, CallerInv, CallerOK
  <1>2. It(p) \in Item /\ items = [items EXCEPT ![item[p]] = It(p)]
    BY <1>1 DEF RingInv, TypeOK, It
  <1>3. answer = [answer EXCEPT ![p] = answer[p]]
    BY ZenonT(60) DEF RingInv, TypeOK
  <1>4. /\ It(p).ok => It(p).answer \in {Found(key[p]), Failed}
        /\ ~ It(p).ok => It(p).answer = NULL
        /\ It(p).answer \in Answer \cup {NULL}
    BY <1>1, <1>2, ZenonT(60) DEF RingInv, ItemInv, It, Item
  <1>5. It(p).answer = Failed => p \in excused
    BY ZenonT(60) DEF RingInv, ExcusedInv
  <1>6. \A q \in Callers \ {p} : pc[q] = "fill" /\ item[q] = item[p] =>
              It(p).writer = q /\ ~ It(p).ok
    BY ZenonT(60) DEF RingInv, CallerInv, CallerOK, It
  <1> QED
    BY <1>1, <1>2, <1>3, <1>4, <1>5, <1>6, ZenonT(60)

\* Nothing about errors changes where no fill fails and no item is changed but
\* for one that gets a value.
LEMMA QuietErrors ==
  ASSUME RingInv, NEW p \in Callers, pc[p] \notin {"idle", "del"},
         NEW where, where \notin {"del", "idle"}, Goto(p, where),
         UNCHANGED <<index, ring, key, item, excused>>,
         NEW x \in Item, items' = [items EXCEPT ![item[p]] = x],
         x.key = key[p], x.answer = Failed => It(p).answer = Failed
  PROVE  ErrorsLeave' /\ ExcusedInv'
  <1>1. item[p] \in Items /\ It(p).key = key[p]
    BY InsideFacts, ZenonT(60)
  <1>2. /\ Failing' = Failing
        /\ \A q \in Callers : pc'[q] # "idle" <=> pc[q] # "idle"
    BY ZenonT(60) DEF Failing, Goto, RingInv, TypeOK
  <1>3. \A i \in Items : /\ items'[i].key = items[i].key
                         /\ items'[i].answer = Failed => items[i].answer = Failed
    BY <1>1, ZenonT(60) DEF RingInv, TypeOK, It
  <1>4. ErrorsLeave'
    <2> SUFFICES ASSUME NEW n \in Positions, ring[n] # NULL,
                        items'[ring[n]].answer = Failed
                 PROVE  \E q \in Failing : key[q] = items'[ring[n]].key
      BY <1>2, ZenonT(60) DEF ErrorsLeave
    <2>1. ring[n] \in Items
      BY ZenonT(60) DEF RingInv, TypeOK
    <2>2. items[ring[n]].answer = Failed /\ items'[ring[n]].key = items[ring[n]].key
      BY <1>3, <2>1, ZenonT(60)
    <2> QED
      BY <2>2, ZenonT(60) DEF RingInv, ErrorsLeave
  <1>5. \A q \in Callers : pc[q] # "idle" /\ It(q)'.answer = Failed =>
           It(q).answer = Failed
    <2> SUFFICES ASSUME NEW q \in Callers, pc[q] # "idle", It(q)'.answer = Failed
                 PROVE  It(q).answer = Failed
      BY ZenonT(60)
    <2>1. item[q] \in Items
      BY ZenonT(60) DEF RingInv, CallerInv, CallerOK
    <2> QED
      BY <1>3, <2>1, ZenonT(60) DEF It
  <1>6. ExcusedInv'
    BY <1>2, <1>5, ZenonT(60) DEF RingInv, ExcusedInv
  <1> QED
    BY <1>4, <1>6, ZenonT(60)

\* A step of a caller that changes no item: p goes on to lock, or takes the
\* answer of its item.
LEMMA StayStep ==
  ASSUME RingInv, NEW p \in Callers, pc[p] \notin {"idle", "del"},
         NEW where \in {"lock", "return"}, NEW a,
         Goto(p, where), answer' = [answer EXCEPT ![p] = a],
         UNCHANGED <<index, ring, head, items, key, item, excused>>,
         where = "lock" => a = NULL,
         where = "return" => It(p).ok /\ a = It(p).answer
  PROVE  RingInv'
  <1>1. PICK x \in Item : x = It(p)
    BY InsideFacts, ZenonT(60)
  <1>2. /\ items' = [items EXCEPT ![item[p]] = x] /\ x.key = key[p]
        /\ x.ok => x.answer \in {Found(key[p]), Failed}
        /\ ~ x.ok => x.answer = NULL
        /\ x.answer \in Answer \cup {NULL}
        /\ \A q \in Callers \ {p} : pc[q] = "fill" /\ item[q] = item[p] =>
              x.writer = q /\ ~ x.ok
    BY <1>1, InsideFacts, ZenonT(60)
  <1>3. /\ a \in Answer \cup {NULL}
        /\ where = "return" => a \in {Found(key[p]), Failed}
    BY <1>1, <1>2, ZenonT(60)
  <1>4. where # "fill" /\ where # "del" /\ where # "idle"
    OBVIOUS
  <1>5. ErrorsLeave' /\ ExcusedInv'
    BY <1>1, <1>2, <1>4, QuietErrors, ZenonT(60)
  <1>6. excused' \subseteq Callers
    BY DEF RingInv, TypeOK
  <1>7. Inside(p, where, x, a)
    BY <1>2, <1>3, ZenonT(60) DEF Inside
  <1>8. Fits(p, where, x, a)
    BY <1>2, <1>3, <1>4 DEF Fits
  <1> QED
    BY <1>5, <1>6, <1>7, <1>8, InsideStep, ZenonT(60)

\* A reader finds its item filled, or goes on to lock it.
LEMMA ReadStep ==
  ASSUME RingInv, NEW p \in Callers, Read(p)
  PROVE  RingInv'
  <1>1. /\ pc[p] = "read" /\ answer[p] = NULL
        /\ UNCHANGED <<index, ring, head, items, key, item, excused>>
    BY DEF Read, RingInv, CallerInv, CallerOK
  <1>2. CASE It(p).ok
    <2>1. Goto(p, "return") /\ answer' = [answer EXCEPT ![p] = It(p).answer]
      BY <1>2 DEF Read, GiveAnswer
    <2> QED
      BY <1>1, <1>2, <2>1, StayStep, ZenonT(60)
  <1>3. CASE ~ It(p).ok
    <2>1. Goto(p, "lock") /\ answer' = [answer EXCEPT ![p] = NULL]
      BY <1>1, <1>3, InsideFacts DEF Read
    <2> QED
      BY <1>1, <2>1, StayStep, ZenonT(60)
  <1> QED
    BY <1>2, <1>3, ZenonT(60)

\* A caller with the lock of its item finds the answer, or fills.
LEMMA LockStep ==
  ASSUME RingInv, NEW p \in Callers, Lock(p)
  PROVE  RingInv'
  <1>1. /\ pc[p] = "lock" /\ answer[p] = NULL /\ It(p).writer = NULL
        /\ UNCHANGED <<index, ring, head, key, item, excused>>
    BY ZenonT(60) DEF Lock, RingInv, CallerInv, CallerOK
  <1>2. excused' \subseteq Callers
    BY <1>1 DEF RingInv, TypeOK
  <1>3. CASE LockBeaten(p)
    <2>1. /\ Goto(p, "return") /\ answer' = [answer EXCEPT ![p] = It(p).answer]
          /\ It(p).ok /\ UNCHANGED items
      BY <1>3, ZenonT(60) DEF LockBeaten, Beaten, GiveAnswer
    <2> QED
      BY <1>1, <2>1, StayStep, ZenonT(60)
  <1>4. CASE ~ LockBeaten(p)
    <2> DEFINE x == [It(p) EXCEPT !.writer = p]
    <2>1. /\ Goto(p, "fill") /\ answer' = [answer EXCEPT ![p] = NULL]
          /\ ~ It(p).ok
          /\ items' = [items EXCEPT ![item[p]] = x]
      BY <1>1, <1>4, InsideFacts DEF Lock, Beaten, It
    <2>2. /\ x \in Item /\ x.key = It(p).key /\ x.answer = It(p).answer
          /\ x.ok = It(p).ok /\ x.writer = p
      BY InsideFacts, <1>1 DEF Item
    <2>3. \A q \in Callers \ {p} : ~ (pc[q] = "fill" /\ item[q] = item[p])
      BY <1>1, InsideFacts, ZenonT(60)
    <2> HIDE DEF x
    <2>4. x.key = key[p] /\ (~ x.ok /\ x.answer = NULL)
      BY <1>1, <2>1, <2>2, InsideFacts
    <2>5. ErrorsLeave' /\ ExcusedInv'
      BY <1>1, <2>1, <2>2, <2>4, AnswerFacts, QuietErrors, ZenonT(60)
    <2>6. PICK y \in Item : y = x
      BY <2>2, ZenonT(60)
    <2>7. /\ items' = [items EXCEPT ![item[p]] = y]
          /\ y.key = key[p] /\ y.writer = p /\ y.ok = FALSE /\ y.answer = NULL
      BY <2>1, <2>2, <2>4, <2>6
    <2>8. Inside(p, "fill", y, NULL)
      BY <1>1, <2>1, <2>6, <2>7, ZenonT(60) DEF Inside
    <2>9. Fits(p, "fill", y, NULL)
      BY <2>3, <2>7, ZenonT(60) DEF Fits
    <2> QED
      BY <1>2, <2>5, <2>8, <2>9, InsideStep, ZenonT(60)
  <1> QED
    BY <1>3, <1>4

\* The item of p with the result of its fill.
LEMMA FilledFacts ==
  ASSUME RingInv, NEW p \in Callers, pc[p] = "fill",
         NEW a \in {Found(key[p]), Failed}
  PROVE  \E x \in Item :
            /\ x = Filled(p, a)
            /\ x.key = key[p] /\ x.ok = TRUE /\ x.answer = a /\ x.writer = NULL
  <1>1. a \in Answer
    BY InsideFacts, AnswerFacts
  <1>2. Filled(p, a) \in Item
    <2>1. It(p) \in Item
      BY InsideFacts
    <2> QED
      BY <1>1, <2>1, ZenonT(60) DEF Filled, Item
  <1>3. /\ Filled(p, a).key = key[p] /\ Filled(p, a).ok = TRUE
        /\ Filled(p, a).answer = a /\ Filled(p, a).writer = NULL
    BY <1>1, InsideFacts DEF Filled, Item
  <1> QED
    BY <1>2, <1>3, ZenonT(60)

\* Nobody else fills the item of p.
LEMMA FillAlone ==
  ASSUME RingInv, NEW p \in Callers, pc[p] = "fill"
  PROVE  /\ ~ It(p).ok
         /\ \A q \in Callers \ {p} : ~ (pc[q] = "fill" /\ item[q] = item[p])
  BY DEF RingInv, CallerInv, CallerOK, It

\* A fill that succeeds sets the item that its caller holds.
LEMMA FillSucceedsStep ==
  ASSUME RingInv, NEW p \in Callers, FillSucceeds(p)
  PROVE  RingInv'
  <1>1. /\ pc[p] = "fill" /\ Goto(p, "return")
        /\ answer' = [answer EXCEPT ![p] = Found(key[p])]
        /\ UNCHANGED <<index, ring, head, key, item, excused>>
    BY ZenonT(60) DEF FillSucceeds
  <1>2. excused' \subseteq Callers
    BY <1>1 DEF RingInv, TypeOK
  <1>3. PICK x \in Item :
           /\ x = Filled(p, Found(key[p]))
           /\ x.key = key[p] /\ x.ok = TRUE /\ x.answer = Found(key[p])
           /\ x.writer = NULL
    BY <1>1, FilledFacts, ZenonT(60)
  <1>4. items' = [items EXCEPT ![item[p]] = x]
    BY <1>3, ZenonT(60) DEF FillSucceeds
  <1>5. Found(key[p]) \in Answer /\ Found(key[p]) # Failed
    BY <1>1, InsideFacts, AnswerFacts
  <1>6. ErrorsLeave' /\ ExcusedInv'
    BY <1>1, <1>3, <1>4, <1>5, QuietErrors, ZenonT(60)
  <1>7. Inside(p, "return", x, Found(key[p]))
    BY <1>1, <1>3, <1>4, <1>5, ZenonT(60) DEF Inside
  <1>8. Fits(p, "return", x, Found(key[p]))
    BY <1>1, <1>3, FillAlone, ZenonT(60) DEF Fits
  <1> QED
    BY <1>2, <1>6, <1>7, <1>8, InsideStep, ZenonT(60)

\* A fill that fails leaves its error in the item, and excuses whoever asked for the key.
LEMMA FillFailsStep ==
  ASSUME RingInv, NEW p \in Callers, FillFails(p)
  PROVE  RingInv'
  <1>1. /\ pc[p] = "fill" /\ Goto(p, "del")
        /\ answer' = [answer EXCEPT ![p] = Failed]
        /\ excused' = excused \cup {q \in Callers : key[q] = key[p]}
        /\ UNCHANGED <<index, ring, head, key, item>>
    BY ZenonT(60) DEF FillFails
  <1>2. excused' \subseteq Callers
    BY <1>1 DEF RingInv, TypeOK
  <1>3. PICK x \in Item :
           /\ x = Filled(p, Failed)
           /\ x.key = key[p] /\ x.ok = TRUE /\ x.answer = Failed /\ x.writer = NULL
    BY <1>1, FilledFacts, ZenonT(60)
  <1>4. items' = [items EXCEPT ![item[p]] = x]
    BY <1>3, ZenonT(60) DEF FillFails
  <1>5. /\ item[p] \in Items /\ It(p).key = key[p]
        /\ items'[item[p]] = x
        /\ \A i \in Items : i # item[p] => items'[i] = items[i]
    <2>1. item[p] \in Items /\ It(p).key = key[p]
      BY <1>1, InsideFacts, ZenonT(60)
    <2>2. items \in [Items -> Item]
      BY ZenonT(60) DEF RingInv, TypeOK
    <2> QED
      BY <1>4, <2>1, <2>2, ZenonT(60)
  <1>6. /\ Failing' = Failing \cup {p}
        /\ \A q \in Callers : pc'[q] # "idle" <=> pc[q] # "idle"
    BY <1>1 DEF Failing, Goto, RingInv, TypeOK
  <1>7. ErrorsLeave'
    <2> SUFFICES ASSUME NEW n \in Positions, ring[n] # NULL,
                        items'[ring[n]].answer = Failed
                 PROVE  \E q \in Failing' : key[q] = items'[ring[n]].key
      BY <1>1, ZenonT(60) DEF ErrorsLeave
    <2>1. ring[n] \in Items
      BY ZenonT(60) DEF RingInv, TypeOK
    <2>2. CASE ring[n] = item[p]
      BY <1>3, <1>5, <1>6, <2>2, ZenonT(60)
    <2>3. CASE ring[n] # item[p]
      BY <1>5, <1>6, <2>1, <2>3, ZenonT(60) DEF RingInv, ErrorsLeave
    <2> QED
      BY <2>2, <2>3, ZenonT(60)
  <1>8. ExcusedInv'
    <2> SUFFICES ASSUME NEW q \in Callers
                 PROVE  /\ \A r \in Failing' : key[q] = key[r] => q \in excused'
                        /\ pc[q] # "idle" /\ It(q)'.answer = Failed => q \in excused'
      BY <1>1, <1>6, ZenonT(60) DEF ExcusedInv
    <2>1. \A r \in Failing' : key[q] = key[r] => q \in excused'
      BY <1>1, <1>6, ZenonT(60) DEF RingInv, ExcusedInv
    <2>2. ASSUME pc[q] # "idle", It(q)'.answer = Failed
          PROVE  q \in excused'
      <3>1. item[q] \in Items /\ It(q).key = key[q]
        BY <2>2, InsideFacts, ZenonT(60)
      <3>2. CASE item[q] = item[p]
        BY <1>1, <1>5, <3>1, <3>2, ZenonT(60) DEF It
      <3>3. CASE item[q] # item[p]
        BY <1>1, <1>5, <2>2, <3>1, <3>3, ZenonT(60) DEF RingInv, ExcusedInv, It
      <3> QED
        BY <3>2, <3>3, ZenonT(60)
    <2> QED
      BY <2>1, <2>2, ZenonT(60)
  <1>9. Inside(p, "del", x, Failed)
    BY <1>1, <1>3, <1>4, AnswerFacts, ZenonT(60) DEF Inside
  <1>10. Fits(p, "del", x, Failed)
    BY <1>1, <1>3, FillAlone, ZenonT(60) DEF Fits
  <1> QED
    BY <1>2, <1>7, <1>8, <1>9, <1>10, InsideStep, ZenonT(60)

\* c.del(k) removes the item of key k, if there is one.
LEMMA DelFacts ==
  ASSUME RingInv, NEW k \in Keys, Del(k)
  PROVE  /\ index' \in [Keys -> Positions \cup {NULL}]
         /\ ring' \in [Positions -> Items \cup {NULL}]
         /\ index'[k] = NULL
         /\ \A l \in Keys : l # k => index'[l] = index[l]
         /\ \A n \in Positions : ring'[n] # NULL =>
               ring'[n] = ring[n] /\ items[ring[n]].key # k
         /\ \A n \in Positions : ring[n] # NULL /\ items[ring[n]].key # k =>
               ring'[n] = ring[n]
  <1>1. CASE index[k] = NULL
    <2>1. UNCHANGED <<index, ring>>
      BY <1>1, ZenonT(60) DEF Del
    <2> QED
      BY <1>1, <2>1 DEF RingInv, TypeOK, IndexMatchesRing
  <1>2. CASE index[k] # NULL
    <2>1. /\ ring' = [ring EXCEPT ![index[k]] = NULL]
          /\ index' = [index EXCEPT ![k] = NULL]
          /\ index[k] \in Positions
          /\ ring[index[k]] # NULL /\ items[ring[index[k]]].key = k
      BY <1>2 DEF Del, RingInv, TypeOK, IndexMatchesRing
    <2> QED
      BY <2>1, ZenonT(60) DEF RingInv, TypeOK, IndexMatchesRing
  <1> QED
    BY <1>1, <1>2, ZenonT(60)

\* Whatever item has the key of a failed fill leaves the ring.
LEMMA DelFailedStep ==
  ASSUME RingInv, NEW p \in Callers, DelFailed(p)
  PROVE  RingInv'
  <1>1. /\ pc[p] = "del" /\ Del(key[p]) /\ key[p] \in Keys
        /\ answer[p] = Failed
        /\ pc' = [pc EXCEPT ![p] = "return"]
        /\ UNCHANGED <<head, items, key, item, answer, excused>>
    BY ZenonT(60) DEF DelFailed, Goto, RingInv, CallerInv, CallerOK
  <1>2. TypeOK'
    BY <1>1, DelFacts, ZenonT(60) DEF RingInv, TypeOK
  <1>3. IndexMatchesRing'
    <2>1. \A l \in Keys : index'[l] # NULL =>
             ring'[index'[l]] # NULL /\ items[ring'[index'[l]]].key = l
      <3> SUFFICES ASSUME NEW l \in Keys, index'[l] # NULL
                   PROVE  ring'[index'[l]] # NULL /\ items[ring'[index'[l]]].key = l
        BY ZenonT(60)
      <3>1. l # key[p] /\ index'[l] = index[l]
        BY <1>1, DelFacts, ZenonT(60)
      <3>2. /\ index[l] \in Positions
            /\ ring[index[l]] # NULL /\ items[ring[index[l]]].key = l
        BY <3>1 DEF RingInv, TypeOK, IndexMatchesRing
      <3> QED
        BY <1>1, <3>1, <3>2, DelFacts, ZenonT(60)
    <2>2. \A n \in Positions : ring'[n] # NULL =>
             items[ring'[n]].key \in Keys /\ index'[items[ring'[n]].key] = n
      <3> SUFFICES ASSUME NEW n \in Positions, ring'[n] # NULL
                   PROVE  /\ items[ring'[n]].key \in Keys
                          /\ index'[items[ring'[n]].key] = n
        BY ZenonT(60)
      <3>1. ring'[n] = ring[n] /\ items[ring[n]].key # key[p]
        BY <1>1, DelFacts, ZenonT(60)
      <3>2. items[ring[n]].key \in Keys /\ index[items[ring[n]].key] = n
        BY <3>1, ZenonT(60) DEF RingInv, IndexMatchesRing
      <3>3. index'[items[ring[n]].key] = index[items[ring[n]].key]
        BY <1>1, <3>1, <3>2, DelFacts, ZenonT(60)
      <3> QED
        BY <3>1, <3>2, <3>3, ZenonT(60)
    <2> QED
      BY <1>1, <2>1, <2>2, ZenonT(60) DEF IndexMatchesRing
  <1>4. \A q \in Callers : /\ q # p => pc'[q] = pc[q]
                           /\ pc'[q] # "idle" <=> pc[q] # "idle"
                           /\ It(q)' = It(q)
    BY <1>1, ZenonT(60) DEF RingInv, TypeOK, It
  <1>5. pc'[p] = "return" /\ Failing' = Failing \ {p}
    BY <1>1 DEF RingInv, TypeOK, Failing
  <1>6. CallerInv'
    <2>1. CallerOK(p)'
      <3>1. CallerOK(p)
        BY ZenonT(60) DEF RingInv, CallerInv
      <3> QED
        <4>1. /\ pc'[p] = "return" /\ key' = key /\ item' = item /\ answer' = answer
              /\ It(p)' = It(p) /\ answer[p] = Failed
          BY <1>1, <1>4, <1>5, ZenonT(60)
        <4> QED
          BY <1>1, <3>1, <4>1, ZenonT(60) DEF CallerOK
    <2>2. ASSUME NEW q \in Callers, q # p
          PROVE  CallerOK(q)'
      <3>1. CallerOK(q)
        BY ZenonT(60) DEF RingInv, CallerInv
      <3> QED
        <4>1. /\ pc'[q] = pc[q] /\ key' = key /\ item' = item /\ answer' = answer
              /\ It(q)' = It(q)
          BY <1>1, <1>4, <2>2, ZenonT(60)
        <4> QED
          BY <3>1, <4>1, ZenonT(60) DEF CallerOK
    <2> QED
      BY <2>1, <2>2, ZenonT(60) DEF CallerInv
  <1>7. ItemInv'
    BY <1>1, ZenonT(60) DEF RingInv, ItemInv
  <1>8. ErrorsLeave'
    <2> SUFFICES ASSUME NEW n \in Positions, ring'[n] # NULL,
                        items[ring'[n]].answer = Failed
                 PROVE  \E q \in Failing' : key[q] = items[ring'[n]].key
      BY <1>1, ZenonT(60) DEF ErrorsLeave
    <2>1. ring'[n] = ring[n] /\ items[ring[n]].key # key[p]
      BY <1>1, DelFacts
    <2>2. PICK q \in Failing : key[q] = items[ring[n]].key
      BY <2>1, ZenonT(60) DEF RingInv, ErrorsLeave
    <2> QED
      BY <1>5, <2>1, <2>2
  <1>9. ExcusedInv'
    BY <1>1, <1>4, <1>5, ZenonT(60) DEF RingInv, ExcusedInv
  <1> QED
    BY <1>2, <1>3, <1>6, <1>7, <1>8, <1>9, ZenonT(60) DEF RingInv

\* A caller leaves Get and lets its item go.
LEMMA ReturnStep ==
  ASSUME RingInv, NEW p \in Callers, Return(p)
  PROVE  RingInv'
  <1>1. /\ pc[p] = "return"
        /\ pc' = [pc EXCEPT ![p] = "idle"]
        /\ key' = [key EXCEPT ![p] = NULL]
        /\ item' = [item EXCEPT ![p] = NULL]
        /\ answer' = [answer EXCEPT ![p] = NULL]
        /\ excused' = excused \ {p}
        /\ UNCHANGED <<index, ring, head, items>>
    BY ZenonT(60) DEF Return, Goto
  <1>2. TypeOK'
    BY <1>1, ZenonT(60) DEF RingInv, TypeOK
  <1>3. \A q \in Callers : q # p =>
           /\ pc'[q] = pc[q] /\ key'[q] = key[q] /\ item'[q] = item[q]
           /\ answer'[q] = answer[q] /\ It(q)' = It(q)
    BY <1>1, ZenonT(60) DEF RingInv, TypeOK, It
  <1>4. /\ pc'[p] = "idle" /\ key'[p] = NULL /\ item'[p] = NULL
        /\ answer'[p] = NULL
    BY <1>1, ZenonT(60) DEF RingInv, TypeOK
  <1>5. Failing' = Failing /\ \A q \in Failing : q # p /\ key'[q] = key[q]
    BY <1>1, <1>3, <1>4, ZenonT(60) DEF Failing
  <1>6. IndexMatchesRing' /\ ItemInv'
    BY <1>1 DEF RingInv, IndexMatchesRing, ItemInv
  <1>7. CallerInv'
    <2>1. CallerOK(p)'
      BY <1>4, ZenonT(60) DEF CallerOK
    <2>2. ASSUME NEW q \in Callers, q # p
          PROVE  CallerOK(q)'
      <3>1. CallerOK(q)
        BY DEF RingInv, CallerInv
      <3> QED
        BY <1>3, <2>2, <3>1, ZenonT(60) DEF CallerOK
    <2> QED
      BY <2>1, <2>2, ZenonT(60) DEF CallerInv
  <1>8. ErrorsLeave'
    BY <1>1, <1>5, ZenonT(60) DEF RingInv, ErrorsLeave
  <1>9. ExcusedInv'
    <2>1. \A q \in Failing : key[q] \in Keys
      BY ZenonT(60) DEF Failing, RingInv, CallerInv, CallerOK
    <2> QED
      BY <1>1, <1>3, <1>4, <1>5, <2>1 DEF RingInv, ExcusedInv
  <1> QED
    BY <1>2, <1>6, <1>7, <1>8, <1>9, ZenonT(60) DEF RingInv

\* Every step preserves the invariant.
LEMMA NextRing ==
  ASSUME RingInv, [Next]_vars
  PROVE  RingInv'
  <1>1. ASSUME NEW p \in Callers, NEW k \in Keys, Get(p, k)
        PROVE  RingInv'
    BY <1>1, FindStep, AddStep, ZenonT(60) DEF Get
  <1>2. ASSUME NEW p \in Callers, Step(p)
        PROVE  RingInv'
    BY <1>2, ReadStep, LockStep, FillSucceedsStep, FillFailsStep, DelFailedStep,
       ReturnStep, ZenonT(60) DEF Step
  <1>3. CASE UNCHANGED vars
    <2>1. Failing' = Failing /\ \A p \in Callers : It(p)' = It(p)
      BY <1>3, ZenonT(60) DEF vars, Failing, It
    <2>2. TypeOK' /\ IndexMatchesRing' /\ ItemInv'
      BY <1>3, ZenonT(60) DEF vars, RingInv, TypeOK, IndexMatchesRing, ItemInv
    <2>3. CallerInv' /\ ErrorsLeave' /\ ExcusedInv'
      <3>1. CallerInv'
        <4> SUFFICES ASSUME NEW q \in Callers PROVE CallerOK(q)'
          BY ZenonT(60) DEF CallerInv
        <4>1. CallerOK(q)
          BY ZenonT(60) DEF RingInv, CallerInv
        <4> QED
          BY <1>3, <2>1, <4>1, ZenonT(60) DEF vars, CallerOK
      <3>2. ErrorsLeave' /\ ExcusedInv'
        BY <1>3, <2>1, ZenonT(60) DEF vars, RingInv, ErrorsLeave, ExcusedInv
      <3> QED
        BY <3>1, <3>2
    <2> QED
      BY <2>2, <2>3 DEF RingInv
  <1> QED
    BY <1>1, <1>2, <1>3 DEF Next

-----------------------------------------------------------------------------
\* Every step of Get keeps RingInv.
THEOREM RingInvariance == Spec => []RingInv
  BY InitRing, NextRing, PTL DEF Spec

\* The index of the ring leads to the item of the key, and nowhere else.
THEOREM RingConsistent == Spec => []IndexMatchesRing
  <1>1. RingInv => IndexMatchesRing
    BY DEF RingInv
  <1> QED
    BY <1>1, RingInvariance, PTL

\* An item is filled by one caller at a time, and not again once it is filled.
THEOREM ItemFilledOnce == Spec => []FillsOnce
  <1>1. ASSUME RingInv
        PROVE  FillsOnce
    BY <1>1, FillAlone DEF FillsOnce
  <1> QED
    BY <1>1, RingInvariance, PTL

\* A failed item stays in the ring only until a caller that failed deletes it.
THEOREM NoErrorKept == Spec => []ErrorsLeave
  <1>1. RingInv => ErrorsLeave
    BY ZenonT(60) DEF RingInv
  <1> QED
    BY <1>1, RingInvariance, PTL

-----------------------------------------------------------------------------
(* The ring cache implements ReadThrough.                                  *)

\* A new cache maps to the initial state of the promise.
LEMMA InitPromise == Init => Promise!Init
  BY ZenonT(60) DEF Init, Promise!Init, Failing, Given

\* A step inside Get that gives p the answer a, or none yet.
LEMMA GivenStep ==
  ASSUME RingInv, NEW p \in Callers, pc[p] \notin {"idle", "return"},
         NEW where \in {"lock", "fill", "del", "return"}, Goto(p, where),
         NEW a, answer' = [answer EXCEPT ![p] = a]
  PROVE  /\ Given[p] = NULL
         /\ where # "return" => Given' = Given
         /\ where = "return" => Given' = [Given EXCEPT ![p] = a]
         /\ where # "del" => Failing' = Failing \ {p}
         /\ where = "del" => Failing' = Failing \cup {p}
  <1>1. Given[p] = NULL
    BY DEF Given
  <1>2. /\ pc'[p] = where /\ answer'[p] = a
        /\ \A q \in Callers \ {p} : pc'[q] = pc[q] /\ answer'[q] = answer[q]
    BY ZenonT(60) DEF RingInv, TypeOK, Goto
  <1>3. where # "return" => Given' = Given
    BY <1>2 DEF Given
  <1>4. where = "return" => Given' = [Given EXCEPT ![p] = a]
    BY <1>2, ZenonT(60) DEF Given
  <1>5. /\ where # "del" => Failing' = Failing \ {p}
        /\ where = "del" => Failing' = Failing \cup {p}
    BY <1>2, ZenonT(60) DEF Failing
  <1> QED
    BY <1>1, <1>3, <1>4, <1>5, ZenonT(60)

\* What It(p).answer or Found(key[p]) means to the caller.
LEMMA AnswerMaps ==
  ASSUME RingInv, NEW p \in Callers, pc[p] \notin {"idle", "return"},
         NEW a, answer' = [answer EXCEPT ![p] = a], Goto(p, "return"),
         \/ a = Found(key[p]) /\ pc[p] # "del"
         \/ a = Failed /\ p \in excused,
         UNCHANGED <<key, excused>>
  PROVE  Promise!Next
  <1>1. /\ key[p] # NULL /\ Given[p] = NULL
        /\ Given' = [Given EXCEPT ![p] = a] /\ Failing' = Failing \ {p}
    <2>1. key[p] # NULL
      BY ZenonT(60) DEF RingInv, CallerInv, CallerOK
    <2> QED
      BY <2>1, GivenStep, ZenonT(60)
  <1>2. CASE a = Found(key[p]) /\ pc[p] # "del"
    <2>1. p \notin Failing /\ Failing' = Failing
      BY <1>1, <1>2, ZenonT(60) DEF Failing
    <2>2. Promise!GiveValue(p)
      BY <1>1, <1>2, <2>1, ZenonT(60) DEF Promise!GiveValue, Promise!Value, Found
    <2> QED
      BY <2>2, ZenonT(60) DEF Promise!Next
  <1>3. CASE a = Failed /\ p \in excused
    <2>1. a = Promise!Error("fill")
      BY <1>3, ZenonT(60) DEF Failed, Promise!Error
    <2>2. CASE p \in Failing
      <3>1. Promise!GiveOwnError(p)
        BY <1>1, <2>1, <2>2, ZenonT(60) DEF Promise!GiveOwnError
      <3> QED
        BY <3>1, ZenonT(60) DEF Promise!Next
    <2>3. CASE p \notin Failing
      <3>1. Failing' = Failing
        BY <1>1, <2>3, ZenonT(60)
      <3>2. Promise!GiveError(p, "fill")
        BY <1>1, <1>3, <2>1, <2>3, <3>1, ZenonT(60) DEF Promise!GiveError
      <3> QED
        BY <3>2, ZenonT(60) DEF Promise!Next
    <2> QED
      BY <2>2, <2>3, ZenonT(60)
  <1> QED
    BY <1>2, <1>3, ZenonT(60)

\* Get maps to a question of the promise.
LEMMA GetMaps ==
  ASSUME RingInv, NEW p \in Callers, NEW k \in Keys, Get(p, k)
  PROVE  Promise!Ask(p, k)
  <1>1. /\ pc[p] = "idle" /\ key[p] = NULL
        /\ pc' = [pc EXCEPT ![p] = "read"] /\ UNCHANGED answer
    BY ZenonT(60) DEF Get, Goto, RingInv, CallerInv, CallerOK
  <1>2. Failing' = Failing /\ Given' = Given
    BY <1>1 DEF Failing, Given, RingInv, TypeOK
  <1> QED
    BY <1>1, <1>2, ZenonT(60) DEF Get, Promise!Ask

\* A step inside Get maps to a step of the promise, or changes nothing of it.
LEMMA StepMaps ==
  ASSUME RingInv, NEW p \in Callers, Step(p)
  PROVE  Promise!Next \/ UNCHANGED Promise!vars
  <1>1. CASE Read(p)
    <2>1. pc[p] = "read" /\ answer[p] = NULL /\ UNCHANGED <<key, excused>>
      BY <1>1, ZenonT(60) DEF Read, RingInv, CallerInv, CallerOK
    <2>2. CASE It(p).ok
      <3>1. Goto(p, "return") /\ answer' = [answer EXCEPT ![p] = It(p).answer]
        BY <1>1, <2>2, ZenonT(60) DEF Read, GiveAnswer
      <3>2. \/ It(p).answer = Found(key[p]) /\ pc[p] # "del"
            \/ It(p).answer = Failed /\ p \in excused
        BY <2>1, <2>2, InsideFacts
      <3> QED
        BY <2>1, <3>1, <3>2, AnswerMaps, ZenonT(60)
    <2>3. CASE ~ It(p).ok
      <3>1. Goto(p, "lock") /\ answer' = [answer EXCEPT ![p] = answer[p]]
        BY <1>1, <2>1, <2>3, InsideFacts DEF Read
      <3>2. Given' = Given /\ Failing' = Failing
        BY <2>1, <3>1, GivenStep, ZenonT(60) DEF Failing
      <3> QED
        BY <2>1, <3>2, ZenonT(60) DEF Promise!vars
    <2> QED
      BY <2>2, <2>3, ZenonT(60)
  <1>2. CASE Lock(p)
    <2>1. pc[p] = "lock" /\ answer[p] = NULL /\ UNCHANGED <<key, excused>>
      BY <1>2, ZenonT(60) DEF Lock, RingInv, CallerInv, CallerOK
    <2>2. CASE LockBeaten(p)
      <3>1. /\ Goto(p, "return") /\ answer' = [answer EXCEPT ![p] = It(p).answer]
            /\ It(p).ok
        BY <2>2, ZenonT(60) DEF LockBeaten, Beaten, GiveAnswer
      <3>2. \/ It(p).answer = Found(key[p]) /\ pc[p] # "del"
            \/ It(p).answer = Failed /\ p \in excused
        BY <2>1, <3>1, InsideFacts
      <3> QED
        BY <2>1, <3>1, <3>2, AnswerMaps, ZenonT(60)
    <2>3. CASE ~ LockBeaten(p)
      <3>1. Goto(p, "fill") /\ answer' = [answer EXCEPT ![p] = answer[p]]
        BY <1>2, <2>1, <2>3, InsideFacts DEF Lock
      <3>2. Given' = Given /\ Failing' = Failing
        BY <2>1, <3>1, GivenStep, ZenonT(60) DEF Failing
      <3> QED
        BY <2>1, <3>2 DEF Promise!vars
    <2> QED
      BY <2>2, <2>3, ZenonT(60)
  <1>3. CASE FillSucceeds(p)
    <2>1. /\ pc[p] = "fill" /\ Goto(p, "return")
          /\ answer' = [answer EXCEPT ![p] = Found(key[p])]
          /\ UNCHANGED <<key, excused>>
      BY <1>3, ZenonT(60) DEF FillSucceeds
    <2> QED
      BY <2>1, AnswerMaps, ZenonT(60)
  <1>4. CASE FillFails(p)
    <2>1. /\ pc[p] = "fill" /\ Goto(p, "del")
          /\ answer' = [answer EXCEPT ![p] = Failed]
          /\ excused' = excused \cup {q \in Callers : key[q] = key[p]}
          /\ UNCHANGED key
      BY <1>4, ZenonT(60) DEF FillFails
    <2>2. /\ key[p] # NULL /\ Given[p] = NULL /\ Given' = Given
          /\ Failing' = Failing \cup {p}
      <3>1. key[p] # NULL
        BY <2>1, ZenonT(60) DEF RingInv, CallerInv, CallerOK
      <3> QED
        BY <2>1, <3>1, GivenStep, ZenonT(60)
    <2>3. Promise!FillFails(p)
      BY <2>1, <2>2, ZenonT(60) DEF Promise!FillFails
    <2> QED
      BY <2>3, ZenonT(60) DEF Promise!Next
  <1>5. CASE DelFailed(p)
    <2>1. /\ pc[p] = "del" /\ Goto(p, "return") /\ answer[p] = Failed
          /\ UNCHANGED <<key, excused>>
      BY <1>5, ZenonT(60) DEF DelFailed, RingInv, CallerInv, CallerOK
    <2>2. answer' = [answer EXCEPT ![p] = Failed]
      BY <1>5, <2>1, InsideFacts, ZenonT(60) DEF DelFailed
    <2>3. p \in excused
      BY <2>1 DEF RingInv, ExcusedInv, Failing
    <2> QED
      BY <2>1, <2>2, <2>3, AnswerMaps, ZenonT(60)
  <1>6. CASE Return(p)
    <2>1. /\ pc[p] = "return" /\ pc' = [pc EXCEPT ![p] = "idle"]
          /\ key' = [key EXCEPT ![p] = NULL]
          /\ answer' = [answer EXCEPT ![p] = NULL]
          /\ excused' = excused \ {p}
      BY <1>6, ZenonT(60) DEF Return, Goto
    <2>2. Given[p] # NULL
      BY <2>1, InsideFacts, AnswerFacts DEF Given, RingInv, CallerInv, CallerOK
    <2>3. Failing' = Failing /\ Given' = [Given EXCEPT ![p] = NULL]
      BY <2>1, ZenonT(60) DEF Failing, Given, RingInv, TypeOK
    <2>4. Promise!Take(p)
      BY <2>1, <2>2, <2>3 DEF Promise!Take
    <2> QED
      BY <2>4 DEF Promise!Next
  <1> QED
    BY <1>1, <1>2, <1>3, <1>4, <1>5, <1>6 DEF Step

\* Get(k) of the ring cache returns the value of k, or the error of a fill of k,
\* its own or another caller's, that failed while it ran.
THEOREM RingRefinement == Spec => ImplementsReadThrough
  <1>1. ASSUME RingInv, [Next]_vars
        PROVE  [Promise!Next]_(Promise!vars)
    <2>1. ASSUME NEW p \in Callers, NEW k \in Keys, Get(p, k)
          PROVE  Promise!Next
      BY <1>1, <2>1, GetMaps DEF Promise!Next
    <2>2. CASE UNCHANGED vars
      <3>1. UNCHANGED <<key, Failing, excused, Given>>
        BY <2>2 DEF vars, Failing, Given
      <3> QED
        BY <3>1, ZenonT(60) DEF Promise!vars
    <2> QED
      BY <1>1, <2>1, <2>2, StepMaps, ZenonT(60) DEF Next
  <1> QED
    BY <1>1, InitPromise, RingInvariance, PTL
       DEF Spec, ImplementsReadThrough, Promise!Spec

=============================================================================
