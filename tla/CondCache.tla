------------------------------ MODULE CondCache ------------------------------
(***************************************************************************)
(* chain/cond_cache.go: the other cache of validator sets, a map with an   *)
(* order of use.  The caller that creates an item fills it, without any    *)
(* lock; the others wait on the item's condition variable.  Every step is  *)
(* one critical section, or the fill.                                      *)
(*                                                                         *)
(* Items are heap objects: one that neither the map nor a caller refers to *)
(* is free and can be allocated again.                                     *)
(***************************************************************************)
EXTENDS Integers, Sequences, Functions

CONSTANTS Callers, Keys, Items, Limit, NULL

\* The value that fill finds for a key stands for itself.
Answer == [value: Keys \cup {NULL}, err: {"", "fill", "deleted"}]
Found(k) == [value |-> k, err |-> ""]
Error(e) == [value |-> NULL, err |-> e]

ASSUME CondAssumption ==
  /\ Limit \in Nat \ {0}
  /\ NULL \notin Keys \cup Items \cup Answer

VARIABLES
  cache,   \* key -> item, or NULL
  order,   \* the keys, least recently used first
  items,   \* what set has put into an item: NULL until it is ready
  pc,      \* where a caller is in Get
  key,     \* the parameter key of Get
  item,    \* the local variable item of Get
  answer,  \* the local variables val and err of Get
  excused  \* history: callers who share their time with a Get of their key
           \* whose fill failed

vars == <<cache, order, items, pc, key, item, answer, excused>>

TypeOK ==
  /\ cache \in [Keys -> Items \cup {NULL}]
  /\ order \in Seq(Keys)
  /\ items \in [Items -> Answer \cup {NULL}]
  /\ pc \in [Callers -> {"idle", "wait", "fill", "del", "set", "return"}]
  /\ key \in [Callers -> Keys \cup {NULL}]
  /\ item \in [Callers -> Items \cup {NULL}]
  /\ answer \in [Callers -> Answer \cup {NULL}]
  /\ excused \subseteq Callers

Init ==
  /\ cache = [k \in Keys |-> NULL]
  /\ order = <<>>
  /\ items = [i \in Items |-> NULL]
  /\ pc = [p \in Callers |-> "idle"]
  /\ key = [p \in Callers |-> NULL]
  /\ item = [p \in Callers |-> NULL]
  /\ answer = [p \in Callers |-> NULL]
  /\ excused = {}

-----------------------------------------------------------------------------
Goto(p, where) == pc' = [pc EXCEPT ![p] = where]

\* Callers whose own fill failed.
Failing ==
  {p \in Callers : pc[p] \in {"del", "set"} /\ answer[p] = Error("fill")}

\* Nobody refers to the item any more.
Free(i) == /\ \A k \in Keys : cache[k] # i
           /\ \A p \in Callers : item[p] # i

\* The contents of the items become c; those of a free item are forgotten.
Contents(c) == items' = [i \in Items |-> IF Free(i)' THEN NULL ELSE c[i]]

\* The keys that fall off the line s.
Overdue(s) == SubSeq(s, 1, Len(s) - Limit)

CutOut(s, i) == SubSeq(s, 1, i - 1) \o SubSeq(s, i + 1, Len(s))

\* The line without a key, which is in it at most once.
Drop(k) ==
  IF k \in Range(order)
  THEN CutOut(order, CHOOSE i \in DOMAIN order : order[i] = k)
  ELSE order

Poked(k) == Append(Drop(k), k)

\* The deferred half of get: poke(key), and the cache c without the keys that
\* fell off.
Poke(k, c) ==
  LET remove == Overdue(Poked(k))
  IN /\ order' = SubSeq(Poked(k), Len(remove) + 1, Len(Poked(k)))
     /\ cache' = [l \in Keys |-> IF l \in Range(remove) THEN NULL ELSE c[l]]

\* c.get(key): the item is there.
FindItem(p, k) ==
  /\ cache[k] # NULL
  /\ item' = [item EXCEPT ![p] = cache[k]]
  /\ Poke(k, cache)
  /\ Contents(items)
  /\ Goto(p, "wait")

\* c.get(key): a fresh item.
AddItem(p, k, i) ==
  /\ cache[k] = NULL
  /\ Free(i)
  /\ item' = [item EXCEPT ![p] = i]
  /\ Poke(k, [cache EXCEPT ![k] = i])
  /\ Contents(items)
  /\ Goto(p, "fill")

Get(p, k) ==
  /\ pc[p] = "idle"
  /\ FindItem(p, k) \/ \E i \in Items : AddItem(p, k, i)
  /\ key' = [key EXCEPT ![p] = k]
  /\ excused' = IF \E q \in Failing : key[q] = k THEN excused \cup {p} ELSE excused
  /\ UNCHANGED answer

\* item.get()
Wait(p) ==
  /\ pc[p] = "wait"
  /\ items[item[p]] # NULL
  /\ answer' = [answer EXCEPT ![p] = items[item[p]]]
  /\ Goto(p, "return")
  /\ UNCHANGED <<cache, order, items, key, item, excused>>

FillSucceeds(p) ==
  /\ pc[p] = "fill"
  /\ answer' = [answer EXCEPT ![p] = Found(key[p])]
  /\ Goto(p, "set")
  /\ UNCHANGED <<cache, order, items, key, item, excused>>

\* Any error: the node, or the end of this caller's context.
FillFails(p) ==
  /\ pc[p] = "fill"
  /\ answer' = [answer EXCEPT ![p] = Error("fill")]
  /\ excused' = excused \cup {q \in Callers : key[q] = key[p]}
  /\ Goto(p, "del")
  /\ UNCHANGED <<cache, order, items, key, item>>

\* Mutant: set only wakes the waiting callers when there is a value.
SetValue(i, a) ==
  IF items[i] = NULL /\ a.err = "" THEN [items EXCEPT ![i] = a] ELSE items

\* item.set(val, err): the first call counts.
Set(i, a) == IF items[i] = NULL THEN [items EXCEPT ![i] = a] ELSE items

\* Mutant: the order keeps the key.
DelCached(k) ==
  /\ cache' = [cache EXCEPT ![k] = NULL]
  /\ UNCHANGED order

\* Mutant: the item stays in the cache.
KeepCached(k) == UNCHANGED <<cache, order>>

Forget(k) ==
  /\ cache' = [cache EXCEPT ![k] = NULL]
  /\ order' = Drop(k)

\* c.del(key): whatever item has the key by now is set, and goes.
Del(p) ==
  /\ pc[p] = "del"
  /\ Forget(key[p])
  /\ UNCHANGED item
  /\ \/ cache[key[p]] = NULL /\ UNCHANGED items
     \/ cache[key[p]] # NULL /\ Contents(Set(cache[key[p]], Error("deleted")))
  /\ Goto(p, "set")
  /\ UNCHANGED <<key, answer, excused>>

SetResult(p) ==
  /\ pc[p] = "set"
  /\ items' = Set(item[p], answer[p])
  /\ Goto(p, "return")
  /\ UNCHANGED <<cache, order, key, item, answer, excused>>

Return(p) ==
  /\ pc[p] = "return"
  /\ Goto(p, "idle")
  /\ key' = [key EXCEPT ![p] = NULL]
  /\ item' = [item EXCEPT ![p] = NULL]
  /\ answer' = [answer EXCEPT ![p] = NULL]
  /\ excused' = excused \ {p}
  /\ UNCHANGED <<cache, order>>
  /\ Contents(items)

Step(p) ==
  \/ Wait(p)
  \/ FillSucceeds(p)
  \/ FillFails(p)
  \/ Del(p)
  \/ SetResult(p)
  \/ Return(p)

Next == \E p \in Callers : (\E k \in Keys : Get(p, k)) \/ Step(p)

Spec == Init /\ [][Next]_vars

-----------------------------------------------------------------------------
(* Properties.                                                             *)

\* The map holds exactly the keys of the order, each once, and the order is
\* within the limit: whatever deletions and evictions interleave, get evicts
\* what it counts, and the cache is no bigger than the limit.
CacheMatchesOrder ==
  /\ {k \in Keys : cache[k] # NULL} = Range(order)
  /\ IsInjective(order)
  /\ Len(order) <= Limit

\* A caller that waits on an item nobody has set has a caller that will set it:
\* the one that created the item is still on its way to item.set, even if the
\* item was evicted or deleted by someone else, or its own fill failed.
NobodyForgotten ==
  \A p \in Callers :
     pc[p] = "wait" /\ items[item[p]] = NULL =>
       \E q \in Callers \ {p} : item[q] = item[p] /\ pc[q] \in {"fill", "del", "set"}

Given == [p \in Callers |-> IF pc[p] = "return" THEN answer[p] ELSE NULL]

Promise == INSTANCE ReadThrough
             WITH asked <- key, failing <- Failing, answer <- Given,
                  Told <- {"fill", "deleted"}

\* Get(k) returns the value of k; the error of its own fill of k; or, when the
\* fill of k of another caller failed while it ran, an error: no error is kept
\* for later callers.  The comment in Get says that the callers who wait are
\* un-blocked "with the error" of the fill.  They are not: c.del comes first
\* and sets the item to "deleted".  They get the error of the fill only if the
\* item had left the map before, and del may set a newer item of the key to
\* "deleted" while the fill of that one goes on.
ImplementsReadThrough == Promise!Spec

-----------------------------------------------------------------------------
(* The inductive invariant.                                                *)

Errors == {Error("fill"), Error("deleted")}

\* The locals of a caller, by where it is.
CallerOK(p) ==
  /\ pc[p] = "idle" => key[p] = NULL /\ item[p] = NULL /\ answer[p] = NULL
  /\ pc[p] # "idle" => key[p] \in Keys /\ item[p] \in Items
  /\ pc[p] \in {"wait", "fill"} => answer[p] = NULL
  /\ pc[p] = "del" => answer[p] = Error("fill")
  /\ pc[p] = "set" => answer[p] \in {Found(key[p]), Error("fill")}
  /\ pc[p] = "return" => answer[p] \in {Found(key[p])} \cup Errors

\* An item serves one key.
OneKey ==
  /\ \A p, q \in Callers : item[p] # NULL /\ item[p] = item[q] => key[p] = key[q]
  /\ \A p \in Callers, k \in Keys : item[p] # NULL /\ item[p] = cache[k] => key[p] = k
  /\ \A k, l \in Keys : cache[k] # NULL /\ cache[k] = cache[l] => k = l

\* An item in the cache holds no error; whoever has one that does is excused.
ContentOK ==
  /\ \A i \in Items : Free(i) => items[i] = NULL
  /\ \A k \in Keys : cache[k] # NULL => items[cache[k]] \in {NULL, Found(k)}
  /\ \A p \in Callers : item[p] # NULL =>
        \/ items[item[p]] \in {NULL, Found(key[p])}
        \/ items[item[p]] \in Errors /\ p \in excused

\* An item that is not set has somebody who will set it.
Promised ==
  \A i \in Items : items[i] = NULL =>
     \/ Free(i)
     \/ \E q \in Callers : item[q] = i /\ pc[q] \in {"fill", "del", "set"}

\* A fill that failed excuses everybody who asks for its key, and its item has
\* left the cache before it is set.
FailingOK ==
  \A p \in Failing :
     /\ \A q \in Callers : key[q] = key[p] => q \in excused
     /\ pc[p] = "set" => \A k \in Keys : cache[k] # item[p]

CondInv ==
  /\ TypeOK /\ CacheMatchesOrder
  /\ \A p \in Callers : CallerOK(p)
  /\ OneKey /\ ContentOK /\ Promised /\ FailingOK
=============================================================================
