------------------------------ MODULE RingCache ------------------------------
(***************************************************************************)
(* chain/ring_cache.go: the cache of validator sets, a ring of items that  *)
(* are filled by the first caller of Get and waited for by the others.     *)
(* Callers are goroutines; every step is one critical section of c.mu or   *)
(* it.mu, or the fill that runs while it.mu is held.                       *)
(*                                                                         *)
(* Items are heap objects: one that neither the ring nor a caller refers   *)
(* to is free and can be allocated again.                                  *)
(***************************************************************************)
EXTENDS Integers

CONSTANTS Callers, Keys, Items, Capacity, NULL

VARIABLES
  index,   \* key -> position in the ring, or NULL
  ring,    \* position -> item, or NULL
  head,    \* where the next item goes
  items,   \* the items
  pc,      \* where a caller is in Get
  key,     \* the parameter k of Get
  item,    \* the local variable it of Get
  answer,  \* the local variables v and err of Get
  excused  \* history: callers who share their time with a Get of their key
           \* whose fill failed

vars == <<index, ring, head, items, pc, key, item, answer, excused>>

Positions == 0..(Capacity - 1)

\* The value that fill finds for a key stands for itself.
Answer == [value: Keys \cup {NULL}, err: {"", "fill"}]
Found(k) == [value |-> k, err |-> ""]
Failed == [value |-> NULL, err |-> "fill"]

ASSUME RingAssumption ==
  /\ Capacity \in Nat \ {0}
  /\ NULL \notin Callers /\ NULL \notin Keys /\ NULL \notin Items
  /\ NULL \notin Answer /\ NULL \notin Positions

\* ringItem; the answer is meaningful once ok; writer holds it.mu.
Item == [key: Keys \cup {NULL}, answer: Answer \cup {NULL}, ok: BOOLEAN,
         writer: Callers \cup {NULL}]
NewItem(k) == [key |-> k, answer |-> NULL, ok |-> FALSE, writer |-> NULL]

TypeOK ==
  /\ index \in [Keys -> Positions \cup {NULL}]
  /\ ring \in [Positions -> Items \cup {NULL}]
  /\ head \in Positions
  /\ items \in [Items -> Item]
  /\ pc \in [Callers -> {"idle", "read", "lock", "fill", "del", "return"}]
  /\ key \in [Callers -> Keys \cup {NULL}]
  /\ item \in [Callers -> Items \cup {NULL}]
  /\ answer \in [Callers -> Answer \cup {NULL}]
  /\ excused \subseteq Callers

Init ==
  /\ index = [k \in Keys |-> NULL]
  /\ ring = [n \in Positions |-> NULL]
  /\ head = 0
  /\ items = [i \in Items |-> NewItem(NULL)]
  /\ pc = [p \in Callers |-> "idle"]
  /\ key = [p \in Callers |-> NULL]
  /\ item = [p \in Callers |-> NULL]
  /\ answer = [p \in Callers |-> NULL]
  /\ excused = {}

-----------------------------------------------------------------------------
Goto(p, where) == pc' = [pc EXCEPT ![p] = where]

\* Callers whose own fill failed.
Failing == {p \in Callers : pc[p] = "del"}

\* Nobody refers to the item any more.
Free(i) ==
  /\ \A n \in Positions : ring[n] # i
  /\ \A p \in Callers : item[p] # i

\* Mutant: the key of the item that is overwritten stays in the index.
KeepKey(k) == [index EXCEPT ![k] = head]

\* The index once the item at the head has made room for key k.
IndexWith(k) ==
  [l \in Keys |->
     IF l = k THEN head
     ELSE IF ring[head] # NULL /\ l = items[ring[head]].key THEN NULL
     ELSE index[l]]

NextHead == (head + 1) % Capacity

\* c.item(k): a new item at the head of the ring.
AddItem(p, k, i) ==
  /\ index[k] = NULL
  /\ Free(i)
  /\ index' = IndexWith(k)
  /\ ring' = [ring EXCEPT ![head] = i]
  /\ head' = NextHead
  /\ items' = [items EXCEPT ![i] = NewItem(k)]
  /\ item' = [item EXCEPT ![p] = i]

\* c.item(k): the item is there.
FindItem(p, k) ==
  /\ index[k] # NULL
  /\ item' = [item EXCEPT ![p] = ring[index[k]]]
  /\ UNCHANGED <<index, ring, head, items>>

Get(p, k) ==
  /\ pc[p] = "idle"
  /\ FindItem(p, k) \/ \E i \in Items : AddItem(p, k, i)
  /\ key' = [key EXCEPT ![p] = k]
  /\ excused' = IF \E q \in Failing : key[q] = k THEN excused \cup {p} ELSE excused
  /\ Goto(p, "read")
  /\ UNCHANGED answer

It(p) == items[item[p]]

\* Return from Get with what the item holds.
GiveAnswer(p) ==
  /\ answer' = [answer EXCEPT ![p] = It(p).answer]
  /\ Goto(p, "return")

\* it.mu.RLock ... it.mu.RUnlock
Read(p) ==
  /\ pc[p] = "read"
  /\ It(p).writer = NULL
  /\ IF It(p).ok THEN GiveAnswer(p) ELSE Goto(p, "lock") /\ UNCHANGED answer
  /\ UNCHANGED <<index, ring, head, items, key, item, excused>>

\* Mutant: no second look once the lock is held.
NeverBeaten(p) == FALSE

\* Someone beat us to the punch.
Beaten(p) == It(p).ok

LockBeaten(p) == Beaten(p) /\ GiveAnswer(p) /\ UNCHANGED items

\* it.mu.Lock, and the unlock when there is nothing to fill.
Lock(p) ==
  /\ pc[p] = "lock"
  /\ It(p).writer = NULL
  /\ \/ LockBeaten(p)
     \/ /\ ~ Beaten(p)
        /\ items' = [items EXCEPT ![item[p]].writer = p]
        /\ Goto(p, "fill")
        /\ UNCHANGED answer
  /\ UNCHANGED <<index, ring, head, key, item, excused>>

\* The item gets what fill returned, and it.mu is released.
Filled(p, a) == [It(p) EXCEPT !.answer = a, !.ok = TRUE, !.writer = NULL]

FillSucceeds(p) ==
  /\ pc[p] = "fill"
  /\ items' = [items EXCEPT ![item[p]] = Filled(p, Found(key[p]))]
  /\ answer' = [answer EXCEPT ![p] = Found(key[p])]
  /\ Goto(p, "return")
  /\ UNCHANGED <<index, ring, head, key, item, excused>>

\* Any error: the node, or the end of this caller's context.
FillFails(p) ==
  /\ pc[p] = "fill"
  /\ items' = [items EXCEPT ![item[p]] = Filled(p, Failed)]
  /\ answer' = [answer EXCEPT ![p] = Failed]
  /\ excused' = excused \cup {q \in Callers : key[q] = key[p]}
  /\ Goto(p, "del")
  /\ UNCHANGED <<index, ring, head, key, item>>

\* Mutant: the failed item stays.
KeepItem(k) == UNCHANGED <<index, ring>>

\* c.del(k): whatever item has the key by now.
Del(k) ==
  \/ index[k] = NULL /\ UNCHANGED <<index, ring>>
  \/ /\ index[k] # NULL
     /\ ring' = [ring EXCEPT ![index[k]] = NULL]
     /\ index' = [index EXCEPT ![k] = NULL]

\* Mutant: Get fills again until it succeeds.
FillAgain(p) ==
  /\ pc[p] = "del"
  /\ Goto(p, "lock")
  /\ items' = [items EXCEPT ![item[p]].ok = FALSE]
  /\ UNCHANGED <<index, ring, head, key, item, answer, excused>>

DelFailed(p) ==
  /\ pc[p] = "del"
  /\ Del(key[p])
  /\ Goto(p, "return")
  /\ UNCHANGED <<head, items, key, item, answer, excused>>

Return(p) ==
  /\ pc[p] = "return"
  /\ Goto(p, "idle")
  /\ key' = [key EXCEPT ![p] = NULL]
  /\ item' = [item EXCEPT ![p] = NULL]
  /\ answer' = [answer EXCEPT ![p] = NULL]
  /\ excused' = excused \ {p}
  /\ UNCHANGED <<index, ring, head, items>>

Step(p) ==
  \/ Read(p)
  \/ Lock(p)
  \/ FillSucceeds(p)
  \/ FillFails(p)
  \/ DelFailed(p)
  \/ Return(p)

Next == \E p \in Callers : (\E k \in Keys : Get(p, k)) \/ Step(p)

Spec == Init /\ [][Next]_vars

\* The scheduler runs every goroutine, it.mu is handed on, and fill ends: the
\* HTTP client of the chain has a timeout.
FairSpec == Spec /\ \A p \in Callers : WF_vars(Step(p))

-----------------------------------------------------------------------------
(* Properties.                                                             *)

\* The index and the ring agree: a key in the index leads to the item of that
\* key, and an item in the ring is found under its key.  Otherwise Get would
\* return the value of another key, or follow a nil item.
IndexMatchesRing ==
  /\ \A k \in Keys : index[k] # NULL =>
        ring[index[k]] # NULL /\ items[ring[index[k]]].key = k
  /\ \A n \in Positions : ring[n] # NULL =>
        items[ring[n]].key \in Keys /\ index[items[ring[n]].key] = n

\* An item is filled once, by one caller at a time: the second look under the
\* lock keeps the callers that waited for the first from filling it again.
FillsOnce ==
  \A p \in Callers : pc[p] = "fill" =>
     /\ ~ It(p).ok
     /\ \A q \in Callers \ {p} : pc[q] = "fill" => item[q] # item[p]

\* A failed item is in the ring only while a Get that failed on its key is
\* about to delete it, so that the next caller fills it again.
ErrorsLeave ==
  \A n \in Positions : ring[n] # NULL /\ items[ring[n]].answer = Failed =>
     \E p \in Failing : key[p] = items[ring[n]].key

\* Get returns whatever other callers do.
GetsEnd == \A p \in Callers : pc[p] # "idle" ~> pc[p] = "idle"

Given == [p \in Callers |-> IF pc[p] = "return" THEN answer[p] ELSE NULL]

Promise == INSTANCE ReadThrough
             WITH asked <- key, failing <- Failing, answer <- Given,
                  Told <- {"fill"}

\* Get(k) returns the value of k, or the error of a fill of k, its own or that
\* of another caller, that failed while it ran: an error is not kept for later
\* callers.
ImplementsReadThrough == Promise!Spec

-----------------------------------------------------------------------------
(* The inductive invariant.                                                *)

\* A caller inside Get holds an item of its key, with the lock while filling.
CallerOK(p) ==
  /\ pc[p] = "idle" => key[p] = NULL /\ item[p] = NULL /\ answer[p] = NULL
  /\ pc[p] # "idle" => key[p] \in Keys /\ item[p] \in Items /\ It(p).key = key[p]
  /\ pc[p] = "fill" => It(p).writer = p /\ ~ It(p).ok
  /\ pc[p] \in {"read", "lock", "fill"} => answer[p] = NULL
  /\ pc[p] = "del" => answer[p] = Failed
  /\ pc[p] = "return" => answer[p] \in {Found(key[p]), Failed}

CallerInv == \A p \in Callers : CallerOK(p)

\* An item holds nothing, the value of its key, or an error.
ItemInv ==
  \A i \in Items :
     /\ items[i].ok => items[i].answer \in {Found(items[i].key), Failed}
     /\ ~ items[i].ok => items[i].answer = NULL

\* Whoever can meet an error shares its time with a Get that failed.
ExcusedInv ==
  \A p \in Callers :
     /\ \A q \in Failing : key[p] = key[q] => p \in excused
     /\ pc[p] # "idle" /\ It(p).answer = Failed => p \in excused

\* What every step of the ring cache keeps.
RingInv ==
  /\ TypeOK
  /\ IndexMatchesRing
  /\ CallerInv
  /\ ItemInv
  /\ ErrorsLeave
  /\ ExcusedInv
=============================================================================
