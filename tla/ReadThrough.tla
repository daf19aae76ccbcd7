----------------------------- MODULE ReadThrough -----------------------------
(***************************************************************************)
(* What the caches of package chain promise to the callers of Get: the     *)
(* value of the key asked for, or an error.  A caller whose own fill       *)
(* failed gets the error of that fill.  Anybody else gets an error only    *)
(* when it shares its time with a Get of the same key whose fill failed:   *)
(* errors are passed to those who waited, never kept.  Which errors they   *)
(* are told differs from cache to cache.                                   *)
(***************************************************************************)
CONSTANTS
  Callers, Keys, NULL,
  Told      \* the errors that a caller can be told whose own fill did not fail

VARIABLES
  asked,    \* the key a caller is waiting for, or NULL
  failing,  \* callers whose own fill failed, until they have their answer
  excused,  \* callers who share their time with such a Get of their key
  answer    \* what a caller was given, until the caller takes it

vars == <<asked, failing, excused, answer>>

\* The value of a key stands for itself.
Value(k) == [value |-> k, err |-> ""]
Error(e) == [value |-> NULL, err |-> e]

Init ==
  /\ asked = [p \in Callers |-> NULL]
  /\ failing = {}
  /\ excused = {}
  /\ answer = [p \in Callers |-> NULL]

Ask(p, k) ==
  /\ asked[p] = NULL
  /\ asked' = [asked EXCEPT ![p] = k]
  /\ excused' = IF \E q \in failing : asked[q] = k THEN excused \cup {p} ELSE excused
  /\ UNCHANGED <<failing, answer>>

\* The fill of one caller fails, for everyone who waits for the key.
FillFails(p) ==
  /\ asked[p] # NULL
  /\ answer[p] = NULL
  /\ failing' = failing \cup {p}
  /\ excused' = excused \cup {q \in Callers : asked[q] = asked[p]}
  /\ UNCHANGED <<asked, answer>>

GiveValue(p) ==
  /\ asked[p] # NULL
  /\ answer[p] = NULL
  /\ p \notin failing
  /\ answer' = [answer EXCEPT ![p] = Value(asked[p])]
  /\ UNCHANGED <<asked, failing, excused>>

\* The error of the caller's own fill.
GiveOwnError(p) ==
  /\ p \in failing
  /\ answer[p] = NULL
  /\ answer' = [answer EXCEPT ![p] = Error("fill")]
  /\ failing' = failing \ {p}
  /\ UNCHANGED <<asked, excused>>

\* An error because of the fill of another caller.
GiveError(p, e) ==
  /\ asked[p] # NULL
  /\ answer[p] = NULL
  /\ p \in excused \ failing
  /\ answer' = [answer EXCEPT ![p] = Error(e)]
  /\ UNCHANGED <<asked, failing, excused>>

Take(p) ==
  /\ answer[p] # NULL
  /\ asked' = [asked EXCEPT ![p] = NULL]
  /\ answer' = [answer EXCEPT ![p] = NULL]
  /\ excused' = excused \ {p}
  /\ UNCHANGED failing

Next ==
  \E p \in Callers :
     \/ \E k \in Keys : Ask(p, k)
     \/ FillFails(p)
     \/ GiveValue(p)
     \/ GiveOwnError(p)
     \/ \E e \in Told : GiveError(p, e)
     \/ Take(p)

Spec == Init /\ [][Next]_vars
=============================================================================
