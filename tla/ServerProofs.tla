----------------------------- MODULE ServerProofs -----------------------------
(***************************************************************************)
(* Proofs about what the requests of a server share, for every value of the *)
(* constants: the cache with a condition variable per item (CondCache), the *)
(* table of challenges (Registration), and the maps by which the proxy and *)
(* the instances find the service of a request (Routing).                  *)
(***************************************************************************)
EXTENDS CondCache, Routing, Registration, TLAPS

\* The provers of a leaf that names none, in the order they are tried.
USE SMTT(60), Z3T(60), SMTT(90), Z3T(90)

-----------------------------------------------------------------------------
(* The cache with a condition variable per item keeps its map and its      *)
(* order of use in step, leaves nobody waiting for an item that will not   *)
(* be set, and implements ReadThrough.                                     *)

\* What the steps need of the constants.
LEMMA ConstantFacts ==
  /\ Limit \in Nat \ {0}
  /\ NULL \notin Keys /\ NULL \notin Items /\ NULL \notin Answer
  BY CondAssumption

USE ConstantFacts

\* A value is not an error, and neither is NULL.
LEMMA AnswerFacts ==
  /\ Errors \subseteq Answer /\ NULL \notin Errors
  /\ Error("fill") \in Errors /\ Error("deleted") \in Errors
  /\ \A k \in Keys : Found(k) \in Answer /\ Found(k) \notin Errors /\ Found(k) # NULL
  <1>1. Error("fill") \in Answer /\ Error("deleted") \in Answer
    BY ZenonT(60) DEF Error, Answer
  <1>2. \A k \in Keys : Found(k) \in Answer
    BY ZenonT(60) DEF Found, Answer
  <1>3. \A k \in Keys : Found(k) # Error("fill") /\ Found(k) # Error("deleted")
    BY ZenonT(60) DEF Found, Error
  <1> QED
    BY <1>1, <1>2, <1>3 DEF Errors

-----------------------------------------------------------------------------
(* Sequences without repetition.                                           *)

\* What is left of such a sequence without one element.
LEMMA CutOutFacts ==
  ASSUME NEW S, NEW s \in Seq(S), IsInjective(s), NEW j \in 1 .. Len(s)
  PROVE  /\ CutOut(s, j) \in Seq(S)
         /\ IsInjective(CutOut(s, j))
         /\ Range(CutOut(s, j)) = Range(s) \ {s[j]}
         /\ Len(CutOut(s, j)) = Len(s) - 1
  <1> DEFINE t == CutOut(s, j)
             At(i) == IF i < j THEN i ELSE i + 1
             a == SubSeq(s, 1, j - 1)
             b == SubSeq(s, j + 1, Len(s))
  <1>a. a \in Seq(S) /\ Len(a) = j - 1 /\ \A i \in 1 .. j - 1 : a[i] = s[i]
    OBVIOUS
  <1>b. /\ b \in Seq(S) /\ Len(b) = Len(s) - j
        /\ \A i \in 1 .. Len(s) - j : b[i] = s[j + i]
    OBVIOUS
  <1>c. t = a \o b /\ Len(s) \in Nat
    BY DEF CutOut
  <1> HIDE DEF t, a, b
  <1>1. t \in Seq(S) /\ Len(t) = Len(s) - 1
    BY <1>a, <1>b, <1>c
  <1>2. \A i \in 1 .. Len(t) : At(i) \in 1 .. Len(s) /\ At(i) # j /\ t[i] = s[At(i)]
    <2> SUFFICES ASSUME NEW i \in 1 .. Len(t)
                 PROVE  At(i) \in 1 .. Len(s) /\ At(i) # j /\ t[i] = s[At(i)]
      BY ZenonT(60)
    <2>1. CASE i < j
      BY <2>1, <1>1, <1>a, <1>b, <1>c
    <2>2. CASE i >= j
      <3>1. i - (j - 1) \in 1 .. Len(s) - j /\ j + (i - (j - 1)) = i + 1
        BY <2>2, <1>1, <1>c
      <3>2. t[i] = b[i - (j - 1)]
        BY <2>2, <1>1, <1>a, <1>b, <1>c
      <3> QED
        BY <3>1, <3>2, <2>2, <1>1, <1>b, <1>c
    <2> QED
      BY <2>1, <2>2, <1>1, <1>c
  <1>3. \A i \in 1 .. Len(s) : i # j => \E h \in 1 .. Len(t) : t[h] = s[i]
    <2> SUFFICES ASSUME NEW i \in 1 .. Len(s), i # j
                 PROVE  \E h \in 1 .. Len(t) : t[h] = s[i]
      OBVIOUS
    <2>1. CASE i < j
      <3>1. i \in 1 .. Len(t) /\ At(i) = i
        BY <2>1, <1>1, <1>c
      <3> QED
        BY <3>1, <1>2
    <2>2. CASE i > j
      <3>1. i - 1 \in 1 .. Len(t) /\ At(i - 1) = i
        BY <2>2, <1>1, <1>c
      <3> QED
        BY <3>1, <1>2, ZenonT(60)
    <2> QED
      BY <2>1, <2>2
  <1>4. DOMAIN s = 1 .. Len(s) /\ DOMAIN t = 1 .. Len(t)
    BY <1>1
  <1>5. \A i, h \in 1 .. Len(s) : s[i] = s[h] => i = h
    BY <1>4 DEF IsInjective
  <1>6. \A i, h \in 1 .. Len(t) : At(i) = At(h) => i = h
    BY <1>1, <1>c
  <1> HIDE DEF At
  <1>7. IsInjective(t)
    BY <1>2, <1>4, <1>5, <1>6 DEF IsInjective
  <1>8. Range(t) = Range(s) \ {s[j]}
    <2>1. ASSUME NEW e \in Range(t) PROVE e \in Range(s) \ {s[j]}
      BY <1>2, <1>4, <1>5 DEF Range
    <2>2. ASSUME NEW e \in Range(s) \ {s[j]} PROVE e \in Range(t)
      BY <1>3, <1>4 DEF Range
    <2> QED
      BY <2>1, <2>2
  <1> QED
    BY <1>1, <1>7, <1>8 DEF t

\* A new element at the end.
LEMMA AppendFacts ==
  ASSUME NEW S, NEW s \in Seq(S), IsInjective(s), NEW e \in S, e \notin Range(s)
  PROVE  /\ Append(s, e) \in Seq(S)
         /\ IsInjective(Append(s, e))
         /\ Range(Append(s, e)) = Range(s) \cup {e}
         /\ Len(Append(s, e)) = Len(s) + 1
  <1> DEFINE t == Append(s, e)
  <1>1. t \in Seq(S) /\ Len(t) = Len(s) + 1 /\ t[Len(s) + 1] = e
    OBVIOUS
  <1>2. \A i \in 1 .. Len(s) : t[i] = s[i]
    OBVIOUS
  <1>3. DOMAIN s = 1 .. Len(s) /\ DOMAIN t = 1 .. Len(s) + 1
    BY <1>1
  <1>4. Len(s) \in Nat
    OBVIOUS
  <1> HIDE DEF t
  <1>5. \A i \in DOMAIN s : s[i] # e
    BY DEF Range
  <1>6. IsInjective(t)
    BY <1>1, <1>2, <1>3, <1>4, <1>5 DEF IsInjective
  <1>7. Range(t) = Range(s) \cup {e}
    BY <1>1, <1>2, <1>3, <1>4 DEF Range
  <1> QED
    BY <1>1, <1>6, <1>7 DEF t

\* A sequence cut in two.
LEMMA CutFacts ==
  ASSUME NEW S, NEW s \in Seq(S), IsInjective(s), NEW n \in 0 .. Len(s)
  PROVE  LET front == SubSeq(s, 1, n)
             rest  == SubSeq(s, n + 1, Len(s))
         IN /\ front \in Seq(S) /\ Len(front) = n
            /\ rest \in Seq(S) /\ Len(rest) = Len(s) - n
            /\ IsInjective(rest)
            /\ Range(rest) = Range(s) \ Range(front)
  <1> DEFINE front == SubSeq(s, 1, n)
             rest  == SubSeq(s, n + 1, Len(s))
  <1>1. /\ front \in Seq(S) /\ Len(front) = n
        /\ rest \in Seq(S) /\ Len(rest) = Len(s) - n
    OBVIOUS
  <1>2. /\ \A i \in 1 .. n : front[i] = s[i]
        /\ \A i \in 1 .. Len(s) - n : rest[i] = s[n + i]
    OBVIOUS
  <1>3. /\ DOMAIN s = 1 .. Len(s) /\ DOMAIN front = 1 .. n
        /\ DOMAIN rest = 1 .. Len(s) - n /\ Len(s) \in Nat
    BY <1>1
  <1> HIDE DEF front, rest
  <1>4. \A i, h \in 1 .. Len(s) : s[i] = s[h] => i = h
    BY <1>3, ZenonT(60) DEF IsInjective
  <1>5. IsInjective(rest)
    BY <1>2, <1>3, <1>4 DEF IsInjective
  <1>6. ASSUME NEW e \in Range(rest)
        PROVE  e \in Range(s) \ Range(front)
    <2>1. PICK i \in 1 .. Len(s) - n : e = s[n + i]
      BY <1>2, <1>3, <1>6, ZenonT(60) DEF Range
    <2>2. n + i \in 1 .. Len(s) /\ \A h \in 1 .. n : h # n + i
      BY <1>3
    <2> QED
      BY <2>1, <2>2, <1>2, <1>3, <1>4 DEF Range
  <1>7. ASSUME NEW e \in Range(s), e \notin Range(front)
        PROVE  e \in Range(rest)
    <2>1. PICK i \in 1 .. Len(s) : e = s[i]
      BY <1>3 DEF Range
    <2>2. i \notin 1 .. n
      BY <2>1, <1>2, <1>3, <1>7, ZenonT(60) DEF Range
    <2>3. i - n \in 1 .. Len(s) - n /\ rest[i - n] = s[i]
      BY <2>2, <1>2, <1>3
    <2> QED
      BY <2>1, <2>3, <1>3, ZenonT(60) DEF Range
  <1> QED
    BY <1>1, <1>5, <1>6, <1>7 DEF front, rest

\* The line without a key.
LEMMA DropFacts ==
  ASSUME order \in Seq(Keys), IsInjective(order), NEW k \in Keys
  PROVE  /\ Drop(k) \in Seq(Keys) /\ IsInjective(Drop(k))
         /\ Range(Drop(k)) = Range(order) \ {k}
         /\ Len(Drop(k)) <= Len(order)
  <1>1. CASE k \in Range(order)
    <2> DEFINE j == CHOOSE i \in DOMAIN order : order[i] = k
    <2>1. \E i \in DOMAIN order : order[i] = k
      BY <1>1 DEF Range
    <2>2. j \in DOMAIN order /\ order[j] = k
      BY <2>1
    <2>3. j \in 1 .. Len(order)
      BY <2>2
    <2>4. Drop(k) = CutOut(order, j)
      BY <1>1 DEF Drop
    <2> HIDE DEF j
    <2>5. /\ CutOut(order, j) \in Seq(Keys)
          /\ IsInjective(CutOut(order, j))
          /\ Range(CutOut(order, j)) = Range(order) \ {order[j]}
          /\ Len(CutOut(order, j)) = Len(order) - 1
      BY <2>3, CutOutFacts
    <2> QED
      BY <2>2, <2>4, <2>5
  <1>2. CASE k \notin Range(order)
    BY <1>2 DEF Drop
  <1> QED
    BY <1>1, <1>2

\* poke leaves a cache that matches its order, and an item of the cache is one
\* that was there.
LEMMA PokeStep ==
  ASSUME TypeOK, CacheMatchesOrder, NEW k \in Keys,
         NEW c \in [Keys -> Items \cup {NULL}],
         c[k] # NULL, \A l \in Keys : l # k => c[l] = cache[l],
         Poke(k, c)
  PROVE  /\ CacheMatchesOrder' /\ order' \in Seq(Keys)
         /\ cache' \in [Keys -> Items \cup {NULL}]
         /\ \A l \in Keys : cache'[l] # NULL => cache'[l] = c[l]
  <1> DEFINE s == Poked(k)
             n == Len(Overdue(s))
  <1>1. /\ Drop(k) \in Seq(Keys) /\ IsInjective(Drop(k))
        /\ Range(Drop(k)) = Range(order) \ {k}
    BY DropFacts, ZenonT(60) DEF TypeOK, CacheMatchesOrder
  <1>2. s \in Seq(Keys) /\ IsInjective(s) /\ Range(s) = Range(order) \cup {k}
    BY <1>1, AppendFacts DEF Poked
  <1>3. Range(s) = {l \in Keys : c[l] # NULL}
    BY <1>2 DEF CacheMatchesOrder
  <1> HIDE DEF s
  <1>4. n \in 0 .. Len(s) /\ Overdue(s) = SubSeq(s, 1, n) /\ Len(s) - n <= Limit
    <2>1. CASE Len(s) <= Limit
      <3>1. Overdue(s) = <<>> /\ SubSeq(s, 1, 0) = <<>>
        BY <2>1, <1>2 DEF Overdue
      <3> QED
        BY <3>1, <2>1, <1>2
    <2>2. CASE Len(s) > Limit
      BY <2>2, <1>2 DEF Overdue
    <2> QED
      BY <2>1, <2>2, <1>2
  <1> HIDE DEF n
  <1>5. /\ SubSeq(s, n + 1, Len(s)) \in Seq(Keys)
        /\ Len(SubSeq(s, n + 1, Len(s))) = Len(s) - n
        /\ IsInjective(SubSeq(s, n + 1, Len(s)))
        /\ Range(SubSeq(s, n + 1, Len(s))) = Range(s) \ Range(SubSeq(s, 1, n))
    BY <1>2, <1>4, CutFacts
  <1>6. /\ order' = SubSeq(s, n + 1, Len(s))
        /\ cache' = [l \in Keys |-> IF l \in Range(SubSeq(s, 1, n)) THEN NULL ELSE c[l]]
    BY <1>4, ZenonT(60) DEF Poke, s, n
  <1>7. {l \in Keys : cache'[l] # NULL} = Range(order')
    BY <1>3, <1>5, <1>6
  <1> QED
    BY <1>4, <1>5, <1>6, <1>7, ZenonT(60) DEF CacheMatchesOrder

-----------------------------------------------------------------------------
(* The steps.                                                              *)

\* A new cache satisfies the invariant: it is empty and nobody uses it.
LEMMA InitCond == Init => CondInv
  <1> SUFFICES ASSUME Init
               PROVE  CondInv
    OBVIOUS
  <1>1. TypeOK
    BY DEF Init, TypeOK
  <1>2. CacheMatchesOrder
    BY DEF Init, CacheMatchesOrder, Range, IsInjective
  <1>3. \A p \in Callers : CallerOK(p)
    BY ZenonT(60) DEF Init, CallerOK
  <1>4. OneKey /\ ContentOK /\ FailingOK
    BY DEF Init, OneKey, ContentOK, FailingOK, Failing
  <1>5. Promised
    BY ZenonT(60) DEF Init, Promised, Free
  <1> QED
    BY <1>1, <1>2, <1>3, <1>4, <1>5 DEF CondInv

\* The caller p of Get(k) is given the item i, and goes on at w.
Enters(p, k, i, w) ==
  /\ pc[p] = "idle" /\ w \in {"wait", "fill"}
  /\ pc' = [pc EXCEPT ![p] = w]
  /\ key' = [key EXCEPT ![p] = k]
  /\ item' = [item EXCEPT ![p] = i]
  /\ excused' = IF \E q \in Failing : key[q] = k THEN excused \cup {p} ELSE excused
  /\ answer' = answer
  /\ items' = [j \in Items |-> IF Free(j)' THEN NULL ELSE items[j]]

\* It is an item for k, which nobody is about to set to an error; there is
\* somebody to set it.
Suits(k, i, w) ==
  /\ items[i] \in {NULL, Found(k)}
  /\ \A q \in Callers : item[q] = i => key[q] = k
  /\ \A l \in Keys : cache[l] = i => l = k
  /\ \A q \in Failing : pc[q] = "set" => item[q] # i
  /\ items[i] = NULL =>
       w = "fill" \/ \E q \in Callers : item[q] = i /\ pc[q] \in {"fill", "del", "set"}

\* What poke leaves in the cache.
Poking(k, i) ==
  /\ CacheMatchesOrder' /\ order' \in Seq(Keys)
  /\ cache' \in [Keys -> Items \cup {NULL}]
  /\ \A l \in Keys : cache'[l] # NULL => cache'[l] = cache[l] \/ (l = k /\ cache'[l] = i)

\* Get with such an item keeps the invariant.
LEMMA EnterStep ==
  ASSUME CondInv, NEW p \in Callers, NEW k \in Keys, NEW i \in Items, NEW w,
         Enters(p, k, i, w), Suits(k, i, w), Poking(k, i)
  PROVE  CondInv'
  <1>1. TypeOK'
    BY ZenonT(60) DEF CondInv, TypeOK, Enters, Poking
  <1>2. /\ pc'[p] = w /\ key'[p] = k /\ item'[p] = i /\ answer'[p] = NULL
        /\ key[p] = NULL /\ item[p] = NULL
        /\ \A q \in Callers : q # p =>
             /\ pc'[q] = pc[q] /\ key'[q] = key[q] /\ item'[q] = item[q]
             /\ answer'[q] = answer[q]
    BY ZenonT(60) DEF CondInv, TypeOK, CallerOK, Enters
  <1>3. \A q \in Callers : CallerOK(q)'
    <2>1. w \in {"wait", "fill"} /\ answer' = answer
      BY ZenonT(60) DEF Enters
    <2>2. CallerOK(p)'
      BY <1>2, <2>1, ZenonT(60) DEF CallerOK
    <2>3. ASSUME NEW q \in Callers, q # p
          PROVE  CallerOK(q)'
      <3>1. CallerOK(q)
        BY ZenonT(60) DEF CondInv
      <3> QED
        BY <1>2, <2>3, <3>1, ZenonT(60) DEF CallerOK
    <2> QED
      BY <2>2, <2>3, ZenonT(60)
  <1>4. OneKey'
    <2>1. \A q \in Callers : item'[q] = i => key'[q] = k
      BY <1>2, ZenonT(60) DEF Suits
    <2>2. \A l \in Keys : cache'[l] = i => l = k
      BY ZenonT(60) DEF Suits, Poking
    <2>3. ASSUME NEW q \in Callers, NEW r \in Callers, item'[q] # NULL, item'[q] = item'[r]
          PROVE  key'[q] = key'[r]
      <3>1. CASE item'[q] = i
        BY <2>1, <2>3, <3>1, ZenonT(60)
      <3>2. CASE item'[q] # i
        <4>1. /\ item'[q] = item[q] /\ key'[q] = key[q]
              /\ item'[r] = item[r] /\ key'[r] = key[r]
          BY <1>2, <2>3, <3>2, ZenonT(60)
        <4> QED
          BY <2>3, <4>1, ZenonT(60) DEF CondInv, OneKey
      <3> QED
        BY <3>1, <3>2, ZenonT(60)
    <2>4. ASSUME NEW q \in Callers, NEW l \in Keys, item'[q] # NULL, item'[q] = cache'[l]
          PROVE  key'[q] = l
      <3>1. CASE item'[q] = i
        BY <2>1, <2>2, <2>4, <3>1, ZenonT(60)
      <3>2. CASE item'[q] # i
        <4>1. item'[q] = item[q] /\ key'[q] = key[q] /\ cache'[l] = cache[l]
          BY <1>2, <2>4, <3>2, ZenonT(60) DEF Poking
        <4> QED
          BY <2>4, <4>1, ZenonT(60) DEF CondInv, OneKey
      <3> QED
        BY <3>1, <3>2, ZenonT(60)
    <2>5. ASSUME NEW l \in Keys, NEW m \in Keys, cache'[l] # NULL, cache'[l] = cache'[m]
          PROVE  l = m
      <3>1. CASE cache'[l] = i
        BY <2>2, <2>5, <3>1, ZenonT(60)
      <3>2. CASE cache'[l] # i
        <4>1. cache'[l] = cache[l] /\ cache'[m] = cache[m]
          BY <2>5, <3>2, ZenonT(60) DEF Poking
        <4> QED
          BY <2>5, <4>1, ZenonT(60) DEF CondInv, OneKey
      <3> QED
        BY <3>1, <3>2, ZenonT(60)
    <2> QED
      BY <2>3, <2>4, <2>5, ZenonT(60) DEF OneKey
  <1>5. \A j \in Items : ~ Free(j)' => items'[j] = items[j] /\ (j = i \/ ~ Free(j))
    <2> SUFFICES ASSUME NEW j \in Items, ~ Free(j)'
                 PROVE  items'[j] = items[j] /\ (j = i \/ ~ Free(j))
      BY ZenonT(60)
    <2>1. items'[j] = items[j]
      BY ZenonT(60) DEF Enters
    <2>2. CASE \E l \in Keys : cache'[l] = j
      <3>1. j # NULL
        BY ZenonT(60)
      <3> QED
        BY <2>1, <2>2, <3>1, ZenonT(60) DEF Free, Poking
    <2>3. CASE \E q \in Callers : item'[q] = j
      BY <1>2, <2>1, <2>3, ZenonT(60) DEF Free
    <2> QED
      BY <2>2, <2>3, ZenonT(60) DEF Free
  <1>6. \A j \in Items : Free(j)' => items'[j] = NULL
    BY ZenonT(60) DEF Enters
  <1>a. \A j \in Items :
           (\E l \in Keys : cache'[l] = j) \/ (\E q \in Callers : item'[q] = j)
             => items'[j] = items[j]
    BY <1>5, ZenonT(60) DEF Free
  <1>7. ContentOK'
    <2>1. \A l \in Keys : cache'[l] # NULL => items'[cache'[l]] \in {NULL, Found(l)}
      <3> SUFFICES ASSUME NEW l \in Keys, cache'[l] # NULL
                   PROVE  items'[cache'[l]] \in {NULL, Found(l)}
        BY ZenonT(60)
      <3>1. items'[cache'[l]] = items[cache'[l]]
        BY <1>1, <1>a, ZenonT(60) DEF TypeOK
      <3> QED
        BY <3>1, ZenonT(60) DEF CondInv, ContentOK, Suits, Poking
    <2>2. \A q \in Callers : item'[q] # NULL =>
             \/ items'[item'[q]] \in {NULL, Found(key'[q])}
             \/ items'[item'[q]] \in Errors /\ q \in excused'
      <3> SUFFICES ASSUME NEW q \in Callers, item'[q] # NULL
                   PROVE  \/ items'[item'[q]] \in {NULL, Found(key'[q])}
                          \/ items'[item'[q]] \in Errors /\ q \in excused'
        BY ZenonT(60)
      <3>2. excused \subseteq excused'
        BY ZenonT(60) DEF Enters
      <3>3. items'[item'[q]] = items[item'[q]]
        BY <1>1, <1>a, ZenonT(60) DEF TypeOK
      <3>4. CASE q = p
        BY <3>3, <3>4, <1>2, ZenonT(60) DEF Suits
      <3>5. CASE q # p
        BY <3>2, <3>3, <3>5, <1>2, ZenonT(60) DEF CondInv, ContentOK
      <3> QED
        BY <3>4, <3>5, ZenonT(60)
    <2> QED
      BY <2>1, <2>2, <1>6, ZenonT(60) DEF ContentOK
  <1>8. Promised'
    <2> SUFFICES ASSUME NEW j \in Items, items'[j] = NULL, ~ Free(j)'
                 PROVE  \E q \in Callers : item'[q] = j /\ pc'[q] \in {"fill", "del", "set"}
      BY ZenonT(60) DEF Promised
    <2>1. items[j] = NULL /\ (j = i \/ ~ Free(j))
      BY <1>5, ZenonT(60)
    <2>2. \A q \in Callers : pc[q] \in {"fill", "del", "set"} => q # p
      BY ZenonT(60) DEF Enters
    <2>3. CASE j = i
      BY <2>1, <2>2, <2>3, <1>2, ZenonT(60) DEF Suits
    <2>4. CASE j # i
      BY <2>1, <2>2, <2>4, <1>2, ZenonT(60) DEF CondInv, Promised
    <2> QED
      BY <2>3, <2>4, ZenonT(60)
  <1>9. FailingOK'
    <2>1. Failing' = Failing /\ p \notin Failing
      BY <1>2, ZenonT(60) DEF Failing, Enters
    <2>2. \A q \in Failing : q \in Callers /\ key[q] \in Keys /\ item[q] \in Items
      BY ZenonT(60) DEF Failing, CondInv, CallerOK
    <2>3. ASSUME NEW q \in Failing, NEW r \in Callers, key'[r] = key'[q]
          PROVE  r \in excused'
      <3>1. q \in Callers /\ q # p /\ key'[q] = key[q] /\ key[q] \in Keys
        BY <2>1, <2>2, <1>2, ZenonT(60)
      <3>2. CASE r = p
        <4>1. key[q] = k
          BY <2>3, <3>1, <3>2, <1>2, ZenonT(60)
        <4> QED
          BY <3>2, <4>1, ZenonT(60) DEF Enters
      <3>3. CASE r # p
        <4>1. key[r] = key[q]
          BY <2>3, <3>1, <3>3, <1>2, ZenonT(60)
        <4>2. r \in excused
          BY <4>1, ZenonT(60) DEF CondInv, FailingOK
        <4> QED
          BY <4>2, ZenonT(60) DEF Enters
      <3> QED
        BY <3>2, <3>3, ZenonT(60)
    <2>4. ASSUME NEW q \in Failing, pc'[q] = "set", NEW l \in Keys
          PROVE  cache'[l] # item'[q]
      <3>1. /\ q # p /\ pc[q] = "set" /\ item'[q] = item[q] /\ item[q] # i
            /\ item[q] \in Items /\ cache[l] # item[q]
        BY <2>1, <2>2, <2>4, <1>2, ZenonT(60) DEF CondInv, FailingOK, Suits
      <3>2. item[q] # NULL
        BY <3>1, ZenonT(60)
      <3> QED
        BY <3>1, <3>2, ZenonT(60) DEF Poking
    <2> QED
      BY <2>1, <2>3, <2>4, ZenonT(60) DEF FailingOK
  <1> QED
    BY <1>1, <1>3, <1>4, <1>7, <1>8, <1>9, ZenonT(60) DEF CondInv, Poking

\* Get finds the item of its key, or adds a fresh one.
LEMMA GetStep ==
  ASSUME CondInv, NEW p \in Callers, NEW k \in Keys, Get(p, k)
  PROVE  CondInv'
  <1>1. ASSUME FindItem(p, k)
        PROVE  CondInv'
    <2> DEFINE i == cache[k]
    <2>1. i \in Items /\ cache \in [Keys -> Items \cup {NULL}]
      BY <1>1, ZenonT(60) DEF CondInv, TypeOK, FindItem
    <2>2. Enters(p, k, i, "wait")
      BY <1>1, ZenonT(60) DEF Enters, Get, FindItem, Goto, Contents
    <2>3. Suits(k, i, "wait")
      <3>1. /\ items[i] \in {NULL, Found(k)}
            /\ \A q \in Callers : item[q] = i => key[q] = k
            /\ \A l \in Keys : cache[l] = i => l = k
        BY <2>1, ZenonT(60) DEF CondInv, ContentOK, OneKey
      <3>2. \A q \in Failing : pc[q] = "set" => item[q] # i
        BY ZenonT(60) DEF CondInv, FailingOK
      <3>3. ~ Free(i)
        BY DEF Free
      <3> QED
        BY <3>1, <3>2, <3>3, <2>1, ZenonT(60) DEF Suits, CondInv, Promised
    <2>4. Poke(k, cache) /\ cache[k] # NULL
      BY <1>1 DEF FindItem
    <2>5. TypeOK /\ CacheMatchesOrder
      BY ZenonT(60) DEF CondInv
    <2>6. /\ CacheMatchesOrder' /\ order' \in Seq(Keys)
          /\ cache' \in [Keys -> Items \cup {NULL}]
          /\ \A l \in Keys : cache'[l] # NULL => cache'[l] = cache[l]
      BY <2>1, <2>4, <2>5, PokeStep, ZenonT(60)
    <2>7. Poking(k, i)
      BY <2>6, ZenonT(60) DEF Poking
    <2> QED
      BY <2>1, <2>2, <2>3, <2>7, EnterStep, ZenonT(60)
  <1>2. ASSUME NEW i \in Items, AddItem(p, k, i)
        PROVE  CondInv'
    <2>1. Enters(p, k, i, "fill")
      BY <1>2, ZenonT(60) DEF Enters, Get, AddItem, Goto, Contents
    <2>2. Suits(k, i, "fill")
      <3>1. Free(i) /\ items[i] = NULL
        BY <1>2, ZenonT(60) DEF AddItem, CondInv, ContentOK
      <3> QED
        BY <3>1, ZenonT(60) DEF Suits, Free, Failing
    <2> DEFINE c == [cache EXCEPT ![k] = i]
    <2>3. /\ c \in [Keys -> Items \cup {NULL}] /\ c[k] = i /\ i # NULL
          /\ \A l \in Keys : l # k => c[l] = cache[l]
      BY DEF CondInv, TypeOK
    <2>4. Poke(k, c)
      BY <1>2 DEF AddItem
    <2> HIDE DEF c
    <2>5. TypeOK /\ CacheMatchesOrder
      BY ZenonT(60) DEF CondInv
    <2>6. /\ CacheMatchesOrder' /\ order' \in Seq(Keys)
          /\ cache' \in [Keys -> Items \cup {NULL}]
          /\ \A l \in Keys : cache'[l] # NULL => cache'[l] = c[l]
      BY <2>3, <2>4, <2>5, PokeStep, ZenonT(60)
    <2>7. Poking(k, i)
      BY <2>3, <2>6, ZenonT(60) DEF Poking
    <2> QED
      BY <2>1, <2>2, <2>7, EnterStep, ZenonT(60)
  <1> QED
    BY <1>1, <1>2, ZenonT(60) DEF Get

\* A caller inside Get moves from one place to another, with the answer a, and
\* leaves v in its item.
Moves(p, w, a, v) ==
  /\ pc[p] # "idle" /\ w # "idle"
  /\ pc' = [pc EXCEPT ![p] = w]
  /\ answer' = [answer EXCEPT ![p] = a]
  /\ items' = [items EXCEPT ![item[p]] = v]
  /\ excused \subseteq excused' /\ excused' \subseteq Callers
  /\ cache' = cache /\ order' = order /\ key' = key /\ item' = item

\* The place and the answer go together; the item is set once, with an error only
\* if it has left the cache and whoever has it is excused; a failed fill excuses
\* whoever asks for its key.
Keeps(p, w, a, v) ==
  /\ w \in {"del", "set", "return"} /\ a \in Answer
  /\ w = "del" => a = Error("fill")
  /\ w = "set" => a = Found(key[p])
  /\ w = "return" => a \in {Found(key[p])} \cup Errors /\ v # NULL
  /\ \/ v = items[item[p]]
     \/ v = Found(key[p])
     \/ /\ v \in Errors
        /\ \A k \in Keys : cache[k] # item[p]
        /\ \A q \in Callers : key[q] = key[p] => q \in excused
  /\ w = "del" => \A q \in Callers : key[q] = key[p] => q \in excused'

\* Such a step keeps the invariant.
LEMMA MoveStep ==
  ASSUME CondInv, NEW p \in Callers, NEW w, NEW a, NEW v \in Answer \cup {NULL},
         Moves(p, w, a, v), Keeps(p, w, a, v)
  PROVE  CondInv'
  <1>1. TypeOK'
    BY ZenonT(60) DEF CondInv, TypeOK, Moves, Keeps
  <1>2. /\ pc'[p] = w /\ answer'[p] = a
        /\ item[p] \in Items /\ key[p] \in Keys
        /\ \A q \in Callers : q # p => pc'[q] = pc[q] /\ answer'[q] = answer[q]
    BY DEF CondInv, TypeOK, CallerOK, Moves
  <1>3. /\ items'[item[p]] = v
        /\ \A j \in Items : j # item[p] => items'[j] = items[j]
    BY <1>2, ZenonT(60) DEF CondInv, TypeOK, Moves
  <1>4. \A q \in Callers : CallerOK(q)'
    <2>1. key' = key /\ item' = item
      BY ZenonT(60) DEF Moves
    <2>2. CallerOK(p)'
      <3>1. \A k \in Keys : Found(k) # NULL
        BY AnswerFacts, ZenonT(60)
      <3>2. w # "idle"
        BY ZenonT(60) DEF Moves
      <3> QED
        BY <1>2, <2>1, <3>1, <3>2, ZenonT(60) DEF CallerOK, Keeps
    <2>3. ASSUME NEW q \in Callers, q # p
          PROVE  CallerOK(q)'
      <3>1. CallerOK(q)
        BY ZenonT(60) DEF CondInv
      <3> QED
        BY <1>2, <2>1, <2>3, <3>1, ZenonT(60) DEF CallerOK
    <2> QED
      BY <2>2, <2>3, ZenonT(60)
  <1>5. OneKey' /\ CacheMatchesOrder'
    BY ZenonT(60) DEF CondInv, OneKey, CacheMatchesOrder, Moves
  <1>6. \A j \in Items : Free(j)' = Free(j)
    BY ZenonT(60) DEF Free, Moves
  <1>7. ContentOK'
    <2>1. \A j \in Items : Free(j) => items'[j] = NULL
      BY <1>3, ZenonT(60) DEF CondInv, ContentOK, Free
    <2>2. \A l \in Keys : cache[l] # NULL => items'[cache[l]] \in {NULL, Found(l)}
      <3> SUFFICES ASSUME NEW l \in Keys, cache[l] # NULL
                   PROVE  items'[cache[l]] \in {NULL, Found(l)}
        BY ZenonT(60)
      <3>1. cache[l] \in Items /\ items[cache[l]] \in {NULL, Found(l)}
        BY ZenonT(60) DEF CondInv, TypeOK, ContentOK
      <3>2. CASE cache[l] = item[p]
        <4>1. key[p] = l
          BY <3>2, <1>2, ZenonT(60) DEF CondInv, OneKey
        <4> QED
          BY <4>1, <3>1, <3>2, <1>3, ZenonT(60) DEF Keeps
      <3>3. CASE cache[l] # item[p]
        BY <3>1, <3>3, <1>3, ZenonT(60)
      <3> QED
        BY <3>2, <3>3, ZenonT(60)
    <2>3. \A q \in Callers : item[q] # NULL =>
             \/ items'[item[q]] \in {NULL, Found(key[q])}
             \/ items'[item[q]] \in Errors /\ q \in excused'
      <3> SUFFICES ASSUME NEW q \in Callers, item[q] # NULL
                   PROVE  \/ items'[item[q]] \in {NULL, Found(key[q])}
                          \/ items'[item[q]] \in Errors /\ q \in excused'
        BY ZenonT(60)
      <3>1. /\ item[q] \in Items
            /\ \/ items[item[q]] \in {NULL, Found(key[q])}
               \/ items[item[q]] \in Errors /\ q \in excused
        BY ZenonT(60) DEF CondInv, TypeOK, ContentOK
      <3>2. excused \subseteq excused'
        BY ZenonT(60) DEF Moves
      <3>3. CASE item[q] = item[p]
        <4>1. key[q] = key[p]
          BY <3>3, <1>2, ZenonT(60) DEF CondInv, OneKey
        <4> QED
          BY <4>1, <3>1, <3>2, <3>3, <1>3, ZenonT(60) DEF Keeps
      <3>4. CASE item[q] # item[p]
        BY <3>1, <3>2, <3>4, <1>3, ZenonT(60)
      <3> QED
        BY <3>3, <3>4, ZenonT(60)
    <2>4. cache' = cache /\ item' = item /\ key' = key
      BY ZenonT(60) DEF Moves
    <2> QED
      BY <2>1, <2>2, <2>3, <2>4, <1>6, ZenonT(60) DEF ContentOK
  <1>8. Promised'
    <2> SUFFICES ASSUME NEW j \in Items, items'[j] = NULL, ~ Free(j)
                 PROVE  \E q \in Callers : item[q] = j /\ pc'[q] \in {"fill", "del", "set"}
      <3>1. item' = item
        BY ZenonT(60) DEF Moves
      <3> QED
        BY <1>6, <3>1, ZenonT(60) DEF Promised
    <2>1. CASE j = item[p]
      BY <2>1, <1>2, <1>3, ZenonT(60) DEF Keeps
    <2>2. CASE j # item[p]
      BY <2>2, <1>2, <1>3, ZenonT(60) DEF CondInv, Promised
    <2> QED
      BY <2>1, <2>2, ZenonT(60)
  <1>9. FailingOK'
    <2>1. \A q \in Failing' : (q \in Failing /\ q # p) \/ (q = p /\ w = "del")
      <3>1. Found(key[p]) # Error("fill")
        BY <1>2, AnswerFacts, ZenonT(60)
      <3>2. p \in Failing' => w = "del"
        BY <3>1, <1>2, ZenonT(60) DEF Failing, Keeps
      <3>3. \A q \in Failing' : q # p => q \in Failing
        BY <1>2, ZenonT(60) DEF Failing
      <3> QED
        BY <3>2, <3>3, ZenonT(60)
    <2>2. ASSUME NEW q \in Failing', NEW r \in Callers, key[r] = key[q]
          PROVE  r \in excused'
      <3>1. CASE q \in Failing
        <4>1. r \in excused
          BY <2>2, <3>1, ZenonT(60) DEF CondInv, FailingOK
        <4> QED
          BY <4>1, ZenonT(60) DEF Moves
      <3>2. CASE q = p /\ w = "del"
        BY <2>2, <3>2, ZenonT(60) DEF Keeps
      <3> QED
        BY <2>1, <2>2, <3>1, <3>2, ZenonT(60)
    <2>3. ASSUME NEW q \in Failing', pc'[q] = "set", NEW l \in Keys
          PROVE  cache[l] # item[q]
      <3>1. q \in Failing /\ pc[q] = "set"
        BY <2>1, <2>3, <1>2, ZenonT(60) DEF Failing
      <3> QED
        BY <3>1, ZenonT(60) DEF CondInv, FailingOK
    <2> QED
      BY <2>2, <2>3, ZenonT(60) DEF FailingOK, Moves
  <1> QED
    BY <1>1, <1>4, <1>5, <1>7, <1>8, <1>9 DEF CondInv

\* item.get, the fill and item.set are such steps.
LEMMA InnerStep ==
  ASSUME CondInv, NEW p \in Callers,
         Wait(p) \/ FillSucceeds(p) \/ FillFails(p) \/ SetResult(p)
  PROVE  CondInv'
  <1> DEFINE i == item[p]
             old == items[i]
  <1>1. pc[p] # "idle" => /\ i \in Items /\ i # NULL /\ key[p] \in Keys
                          /\ old \in Answer \cup {NULL}
    BY ZenonT(60) DEF CondInv, TypeOK, CallerOK
  <1>2. answer \in [Callers -> Answer \cup {NULL}] /\ items \in [Items -> Answer \cup {NULL}]
    BY ZenonT(60) DEF CondInv, TypeOK
  <1>3. answer = [answer EXCEPT ![p] = answer[p]]
    BY <1>2, ZenonT(60)
  <1>4. i \in Items => items = [items EXCEPT ![i] = old]
    BY <1>2, ZenonT(60)
  <1>5. CASE Wait(p)
    <2>1. pc[p] = "wait" /\ old # NULL
      BY <1>5, ZenonT(60) DEF Wait
    <2>2. old \in {Found(key[p])} \cup Errors
      BY <1>1, <2>1, ZenonT(60) DEF CondInv, ContentOK
    <2>3. Moves(p, "return", old, old)
      BY <1>1, <1>4, <1>5, <2>1, ZenonT(60) DEF Moves, Wait, Goto, CondInv, TypeOK
    <2>4. Keeps(p, "return", old, old)
      BY <1>1, <2>1, <2>2, ZenonT(60) DEF Keeps
    <2> QED
      BY <1>1, <2>1, <2>3, <2>4, MoveStep, ZenonT(60)
  <1>6. CASE FillSucceeds(p)
    <2>1. pc[p] = "fill"
      BY <1>6, ZenonT(60) DEF FillSucceeds
    <2>2. Moves(p, "set", Found(key[p]), old)
      BY <1>1, <1>4, <1>6, <2>1, ZenonT(60) DEF Moves, FillSucceeds, Goto, CondInv, TypeOK
    <2>3. Keeps(p, "set", Found(key[p]), old)
      BY <1>1, <2>1, AnswerFacts, ZenonT(60) DEF Keeps
    <2> QED
      BY <1>1, <2>1, <2>2, <2>3, MoveStep, ZenonT(60)
  <1>7. CASE FillFails(p)
    <2>1. pc[p] = "fill"
      BY <1>7, ZenonT(60) DEF FillFails
    <2>2. Moves(p, "del", Error("fill"), old)
      BY <1>1, <1>4, <1>7, <2>1, ZenonT(60) DEF Moves, FillFails, Goto, CondInv, TypeOK
    <2>3. Keeps(p, "del", Error("fill"), old)
      BY <1>1, <1>7, <2>1, AnswerFacts, ZenonT(60) DEF Keeps, FillFails
    <2> QED
      BY <1>1, <2>1, <2>2, <2>3, MoveStep, ZenonT(60)
  <1>8. CASE SetResult(p)
    <2> DEFINE a == answer[p]
               v == IF old = NULL THEN a ELSE old
    <2>1. pc[p] = "set" /\ a \in {Found(key[p]), Error("fill")} /\ a \in Answer
      BY <1>1, <1>8, AnswerFacts, ZenonT(60) DEF SetResult, CondInv, CallerOK
    <2>2. v # NULL /\ v \in Answer
      BY <1>1, <2>1, ZenonT(60)
    <2>3. items' = [items EXCEPT ![i] = v]
      BY <1>1, <1>4, <1>8, <2>1, ZenonT(60) DEF SetResult, Set
    <2>4. Moves(p, "return", a, v)
      BY <1>3, <1>8, <2>1, <2>3, ZenonT(60) DEF Moves, SetResult, Goto, CondInv, TypeOK
    <2>5. a = Error("fill") => /\ \A k \in Keys : cache[k] # i
                               /\ \A q \in Callers : key[q] = key[p] => q \in excused
      BY <2>1, ZenonT(60) DEF CondInv, FailingOK, Failing
    <2>6. Keeps(p, "return", a, v)
      BY <2>1, <2>2, <2>5, AnswerFacts, ZenonT(60) DEF Keeps
    <2> QED
      BY <2>2, <2>4, <2>6, MoveStep, ZenonT(60)
  <1> QED
    BY <1>5, <1>6, <1>7, <1>8, ZenonT(60)

\* c.del takes the item out of the map and the order; whoever has the item is
\* excused by the fill that failed.
LEMMA DelStep ==
  ASSUME CondInv, NEW p \in Callers, Del(p)
  PROVE  CondInv'
  <1> DEFINE k == key[p]
             i == cache[k]
             c == IF i = NULL THEN items ELSE Set(i, Error("deleted"))
  <1>1. /\ pc[p] = "del" /\ k \in Keys /\ item[p] \in Items /\ p \in Failing
        /\ answer[p] = Error("fill")
        /\ pc' = [pc EXCEPT ![p] = "set"]
        /\ cache' = [cache EXCEPT ![k] = NULL] /\ order' = Drop(k)
        /\ key' = key /\ item' = item /\ answer' = answer /\ excused' = excused
    BY ZenonT(60) DEF CondInv, CallerOK, Del, Forget, Goto, Failing
  <1>2. /\ cache' \in [Keys -> Items \cup {NULL}] /\ cache'[k] = NULL
        /\ \A l \in Keys : l # k => cache'[l] = cache[l]
    BY <1>1, ZenonT(60) DEF CondInv, TypeOK
  <1>3. /\ order' \in Seq(Keys) /\ IsInjective(order')
        /\ Range(order') = Range(order) \ {k} /\ Len(order') <= Limit
    <2>1. order \in Seq(Keys) /\ IsInjective(order) /\ Len(order) <= Limit
      BY ZenonT(60) DEF CondInv, TypeOK, CacheMatchesOrder
    <2>2. /\ Drop(k) \in Seq(Keys) /\ IsInjective(Drop(k))
          /\ Range(Drop(k)) = Range(order) \ {k} /\ Len(Drop(k)) <= Len(order)
      BY <1>1, <2>1, DropFacts, ZenonT(60)
    <2>3. Len(Drop(k)) \in Nat /\ Len(order) \in Nat
      BY <2>1, <2>2
    <2> QED
      <3>1. order' = Drop(k)
        BY <1>1, ZenonT(60)
      <3>2. Limit \in Nat /\ Len(Drop(k)) <= Limit
        BY <2>1, <2>2, <2>3
      <3> QED
        BY <2>2, <3>1, <3>2, ZenonT(60)
  <1>4. CacheMatchesOrder'
    BY <1>1, <1>2, <1>3, ZenonT(60) DEF CondInv, CacheMatchesOrder
  <1>5. \A j \in Items : (j # i => c[j] = items[j])
                       /\ (j = i => c[j] = IF items[j] = NULL THEN Error("deleted")
                                           ELSE items[j])
    BY DEF Set, CondInv, TypeOK
  <1>6. c \in [Items -> Answer \cup {NULL}]
    BY AnswerFacts, ZenonT(60) DEF Set, CondInv, TypeOK
  <1> HIDE DEF c
  <1>7. \A j \in Items : (Free(j) => Free(j)') /\ (Free(j)' /\ ~ Free(j) => j = i)
    BY <1>1, <1>2, ZenonT(60) DEF Free
  <1>8. \A j \in Items : items'[j] = IF Free(j)' THEN NULL ELSE c[j]
    <2>1. CASE i = NULL
      <3>1. items' = items /\ c = items
        BY <2>1, ZenonT(60) DEF Del, c
      <3>2. \A j \in Items : Free(j)' => Free(j)
        BY <2>1, <1>7, ZenonT(60)
      <3> QED
        BY <3>1, <3>2, ZenonT(60) DEF CondInv, ContentOK
    <2>2. CASE i # NULL
      BY <2>2, ZenonT(60) DEF Del, Contents, c
    <2> QED
      BY <2>1, <2>2, ZenonT(60)
  <1>9. TypeOK'
    <2>1. items' = [j \in Items |-> items'[j]]
      BY ZenonT(60) DEF Del, Contents, CondInv, TypeOK
    <2>2. items' \in [Items -> Answer \cup {NULL}]
      BY <2>1, <1>6, <1>8, ZenonT(60)
    <2> QED
      BY <2>2, <1>1, <1>2, <1>3, ZenonT(60) DEF CondInv, TypeOK
  <1>10. \A q \in Callers : CallerOK(q)'
    BY <1>1, ZenonT(60) DEF CondInv, TypeOK, CallerOK
  <1>11. OneKey'
    <2>1. key' = key /\ item' = item /\ OneKey
      BY <1>1, ZenonT(60) DEF CondInv
    <2>2. \A l \in Keys : cache'[l] # NULL => cache'[l] = cache[l]
      BY <1>2, ZenonT(60)
    <2> QED
      BY <2>1, <2>2, ZenonT(60) DEF OneKey
  <1>12. \A q \in Callers : item[q] # NULL => item[q] \in Items /\ items'[item[q]] = c[item[q]]
    <2>1. \A j \in Items : (\E q \in Callers : item[q] = j) => items'[j] = c[j]
      BY <1>1, <1>8, ZenonT(60) DEF Free
    <2> QED
      <3> SUFFICES ASSUME NEW q \in Callers, item[q] # NULL
                   PROVE  item[q] \in Items /\ items'[item[q]] = c[item[q]]
        BY ZenonT(60)
      <3>1. item[q] \in Items
        BY ZenonT(60) DEF CondInv, TypeOK
      <3> QED
        BY <2>1, <3>1, ZenonT(60)
  <1>13. ContentOK'
    <2>1. \A j \in Items : Free(j)' => items'[j] = NULL
      BY <1>8, ZenonT(60)
    <2>2. \A l \in Keys : cache'[l] # NULL => items'[cache'[l]] \in {NULL, Found(l)}
      <3> SUFFICES ASSUME NEW l \in Keys, cache'[l] # NULL
                   PROVE  items'[cache'[l]] \in {NULL, Found(l)}
        BY ZenonT(60)
      <3>1. l # k /\ cache'[l] = cache[l] /\ cache[l] \in Items /\ cache[l] # i
        BY <1>1, <1>2, ZenonT(60) DEF CondInv, TypeOK, OneKey
      <3>2. \A j \in Items : j = cache'[l] => ~ Free(j)'
        BY ZenonT(60) DEF Free
      <3>3. items'[cache[l]] = items[cache[l]]
        BY <3>1, <3>2, <1>5, <1>8, ZenonT(60)
      <3> QED
        <4>1. items[cache[l]] \in {NULL, Found(l)}
          BY <3>1, ZenonT(60) DEF CondInv, ContentOK
        <4> QED
          BY <3>1, <3>3, <4>1, ZenonT(60)
    <2>3. \A q \in Callers : item[q] # NULL =>
             \/ items'[item[q]] \in {NULL, Found(key[q])}
             \/ items'[item[q]] \in Errors /\ q \in excused
      <3> SUFFICES ASSUME NEW q \in Callers, item[q] # NULL
                   PROVE  \/ items'[item[q]] \in {NULL, Found(key[q])}
                          \/ items'[item[q]] \in Errors /\ q \in excused
        BY ZenonT(60)
      <3>1. \/ items[item[q]] \in {NULL, Found(key[q])}
            \/ items[item[q]] \in Errors /\ q \in excused
        BY ZenonT(60) DEF CondInv, ContentOK
      <3>2. CASE item[q] = i
        <4>1. key[q] = k
          BY <3>2, <1>1, ZenonT(60) DEF CondInv, OneKey
        <4>2. q \in excused
          BY <4>1, <1>1, ZenonT(60) DEF CondInv, FailingOK
        <4> QED
          BY <4>2, <3>1, <3>2, <1>5, <1>12, AnswerFacts, ZenonT(60)
      <3>3. CASE item[q] # i
        BY <3>1, <3>3, <1>5, <1>12, ZenonT(60)
      <3> QED
        BY <3>2, <3>3, ZenonT(60)
    <2> QED
      BY <2>1, <2>2, <2>3, <1>1, ZenonT(60) DEF ContentOK
  <1>14. Promised'
    <2> SUFFICES ASSUME NEW j \in Items, items'[j] = NULL, ~ Free(j)'
                 PROVE  \E q \in Callers : item[q] = j /\ pc'[q] \in {"fill", "del", "set"}
      BY <1>1, ZenonT(60) DEF Promised
    <2>1. items[j] = NULL /\ ~ Free(j)
      BY <1>5, <1>7, <1>8, AnswerFacts, ZenonT(60)
    <2>2. PICK q \in Callers : item[q] = j /\ pc[q] \in {"fill", "del", "set"}
      BY <2>1, ZenonT(60) DEF CondInv, Promised
    <2> QED
      BY <2>2, <1>1, ZenonT(60) DEF CondInv, TypeOK
  <1>15. FailingOK'
    <2>1. Failing' = Failing
      BY <1>1 DEF Failing, CondInv, TypeOK
    <2>2. ASSUME NEW q \in Failing, pc'[q] = "set", NEW l \in Keys
          PROVE  cache'[l] # item[q]
      <3>1. q \in Callers /\ item[q] # NULL /\ item[q] \in Items
        BY DEF Failing, CondInv, CallerOK
      <3>2. CASE l = k
        BY <3>1, <3>2, <1>2, ZenonT(60)
      <3>3. CASE l # k /\ q = p
        BY <3>1, <3>3, <1>1, <1>2, ZenonT(60) DEF CondInv, OneKey
      <3>4. CASE l # k /\ q # p
        BY <2>2, <3>1, <3>4, <1>1, <1>2, ZenonT(60) DEF CondInv, TypeOK, FailingOK
      <3> QED
        BY <3>2, <3>3, <3>4, ZenonT(60)
    <2> QED
      BY <2>1, <2>2, <1>1, ZenonT(60) DEF CondInv, FailingOK
  <1> QED
    BY <1>4, <1>9, <1>10, <1>11, <1>13, <1>14, <1>15, ZenonT(60) DEF CondInv

\* A caller leaves Get, and its item may have become free.
LEMMA ReturnStep ==
  ASSUME CondInv, NEW p \in Callers, Return(p)
  PROVE  CondInv'
  <1>1. /\ pc[p] = "return"
        /\ cache' = cache /\ order' = order
        /\ pc' = [pc EXCEPT ![p] = "idle"] /\ key' = [key EXCEPT ![p] = NULL]
        /\ item' = [item EXCEPT ![p] = NULL] /\ answer' = [answer EXCEPT ![p] = NULL]
        /\ excused' = excused \ {p}
        /\ items' = [j \in Items |-> IF Free(j)' THEN NULL ELSE items[j]]
    BY ZenonT(60) DEF Return, Goto, Contents
  <1>2. TypeOK'
    BY <1>1 DEF CondInv, TypeOK
  <1>3. /\ pc'[p] = "idle" /\ key'[p] = NULL /\ item'[p] = NULL /\ answer'[p] = NULL
        /\ \A q \in Callers : q # p =>
             /\ pc'[q] = pc[q] /\ key'[q] = key[q] /\ item'[q] = item[q]
             /\ answer'[q] = answer[q]
    BY <1>1, ZenonT(60) DEF CondInv, TypeOK
  <1>4. CacheMatchesOrder'
    BY <1>1, ZenonT(60) DEF CondInv, CacheMatchesOrder
  <1>5. \A q \in Callers : CallerOK(q)'
    BY <1>3, ZenonT(60) DEF CondInv, CallerOK
  <1>b. OneKey'
    <2>1. cache' = cache /\ OneKey
      BY <1>1, ZenonT(60) DEF CondInv
    <2>2. \A q \in Callers : item'[q] # NULL => item'[q] = item[q] /\ key'[q] = key[q]
      BY <1>3, ZenonT(60)
    <2>3. ASSUME NEW q \in Callers, NEW r \in Callers, item'[q] # NULL, item'[q] = item'[r]
          PROVE  key'[q] = key'[r]
      <3>1. item[q] = item[r] /\ item[q] # NULL /\ key'[q] = key[q] /\ key'[r] = key[r]
        BY <2>2, <2>3, ZenonT(60)
      <3> QED
        BY <3>1, <2>1, ZenonT(60) DEF OneKey
    <2>4. ASSUME NEW q \in Callers, NEW l \in Keys, item'[q] # NULL, item'[q] = cache[l]
          PROVE  key'[q] = l
      BY <2>1, <2>2, <2>4, ZenonT(60) DEF OneKey
    <2> QED
      BY <2>1, <2>3, <2>4, ZenonT(60) DEF OneKey
  <1>6. \A j \in Items : ~ Free(j)' => items'[j] = items[j] /\ ~ Free(j)
    <2> SUFFICES ASSUME NEW j \in Items, ~ Free(j)'
                 PROVE  items'[j] = items[j] /\ ~ Free(j)
      BY ZenonT(60)
    <2>1. items'[j] = items[j]
      BY <1>1, ZenonT(60)
    <2>2. \A q \in Callers : item'[q] = j => item[q] = j
      BY <1>3, ZenonT(60)
    <2>3. cache' = cache
      BY <1>1
    <2> QED
      BY <2>1, <2>2, <2>3, ZenonT(60) DEF Free
  <1>7. \A j \in Items :
           (\E l \in Keys : cache[l] = j) \/ (\E q \in Callers : item'[q] = j)
             => items'[j] = items[j]
    BY <1>1, <1>6, ZenonT(60) DEF Free
  <1>8. ContentOK'
    <2>1. \A j \in Items : Free(j)' => items'[j] = NULL
      BY <1>1, ZenonT(60)
    <2>2. \A l \in Keys : cache[l] # NULL => items'[cache[l]] \in {NULL, Found(l)}
      BY <1>7, ZenonT(60) DEF CondInv, TypeOK, ContentOK
    <2>3. \A q \in Callers : item'[q] # NULL =>
             \/ items'[item'[q]] \in {NULL, Found(key'[q])}
             \/ items'[item'[q]] \in Errors /\ q \in excused'
      <3> SUFFICES ASSUME NEW q \in Callers, item'[q] # NULL
                   PROVE  \/ items'[item'[q]] \in {NULL, Found(key'[q])}
                          \/ items'[item'[q]] \in Errors /\ q \in excused'
        BY ZenonT(60)
      <3>1. q # p /\ item'[q] = item[q] /\ key'[q] = key[q]
        BY <1>3, ZenonT(60)
      <3>2. item[q] \in Items
        BY <3>1 DEF CondInv, TypeOK
      <3>3. items'[item'[q]] = items[item[q]]
        BY <1>7, <3>1, <3>2, ZenonT(60)
      <3>4. \/ items[item[q]] \in {NULL, Found(key[q])}
            \/ items[item[q]] \in Errors /\ q \in excused
        BY <3>1, ZenonT(60) DEF CondInv, ContentOK
      <3> QED
        BY <1>1, <3>1, <3>3, <3>4
    <2> QED
      BY <2>1, <2>2, <2>3, <1>1, ZenonT(60) DEF ContentOK
  <1>9. Promised'
    <2> SUFFICES ASSUME NEW j \in Items, items'[j] = NULL, ~ Free(j)'
                 PROVE  \E q \in Callers : item'[q] = j /\ pc'[q] \in {"fill", "del", "set"}
      BY ZenonT(60) DEF Promised
    <2>1. PICK q \in Callers : item[q] = j /\ pc[q] \in {"fill", "del", "set"}
      BY <1>6 DEF CondInv, Promised
    <2> QED
      BY <2>1, <1>1, <1>3, ZenonT(60)
  <1>10. FailingOK'
    <2>1. Failing' = Failing /\ p \notin Failing
      BY <1>1, <1>3, ZenonT(60) DEF Failing
    <2>2. \A q \in Failing : q \in Callers /\ key[q] \in Keys /\ q # p
      BY <2>1, ZenonT(60) DEF Failing, CondInv, CallerOK
    <2>3. ASSUME NEW q \in Failing
          PROVE  /\ \A r \in Callers : key'[r] = key'[q] => r \in excused'
                 /\ pc'[q] = "set" => \A l \in Keys : cache'[l] # item'[q]
      <3>1. pc'[q] = pc[q] /\ key'[q] = key[q] /\ item'[q] = item[q] /\ key[q] # NULL
        BY <2>2, <1>3, ZenonT(60)
      <3>2. /\ \A r \in Callers : key[r] = key[q] => r \in excused
            /\ pc[q] = "set" => \A l \in Keys : cache[l] # item[q]
        BY ZenonT(60) DEF CondInv, FailingOK
      <3>3. \A r \in Callers : key'[r] = key'[q] => r # p /\ key[r] = key[q]
        BY <1>3, <3>1, ZenonT(60)
      <3> QED
        BY <1>1, <3>1, <3>2, <3>3
    <2> QED
      BY <2>1, <2>3, ZenonT(60) DEF FailingOK
  <1> QED
    BY <1>2, <1>4, <1>5, <1>b, <1>8, <1>9, <1>10, ZenonT(60) DEF CondInv

\* One step per action.
LEMMA NextCond ==
  ASSUME CondInv, [Next]_vars
  PROVE  CondInv'
  <1>1. ASSUME NEW p \in Callers, Step(p)
        PROVE  CondInv'
    BY <1>1, InnerStep, DelStep, ReturnStep DEF Step
  <1>2. CASE UNCHANGED vars
    <2>1. TypeOK' /\ CacheMatchesOrder'
      BY <1>2, ZenonT(60) DEF vars, CondInv, TypeOK, CacheMatchesOrder
    <2>2. (\A p \in Callers : CallerOK(p)') /\ OneKey'
      BY <1>2, ZenonT(60) DEF vars, CondInv, CallerOK, OneKey
    <2>3. Failing' = Failing /\ \A i \in Items : Free(i)' = Free(i)
      BY <1>2, ZenonT(60) DEF vars, Failing, Free
    <2>4. ContentOK'
      BY <1>2, <2>3, ZenonT(60) DEF vars, CondInv, ContentOK
    <2>5. Promised'
      BY <1>2, <2>3, ZenonT(60) DEF vars, CondInv, Promised
    <2>6. FailingOK'
      BY <1>2, <2>3 DEF vars, CondInv, FailingOK
    <2> QED
      BY <2>1, <2>2, <2>4, <2>5, <2>6, ZenonT(60) DEF CondInv
  <1> QED
    BY <1>1, <1>2, GetStep, ZenonT(60) DEF Next

\* The inductive invariant of the cache: what a caller holds, what an item may
\* contain, who will set it, and whom a failed fill excuses.
THEOREM CondInvariance == Spec => []CondInv
  BY InitCond, NextCond, PTL DEF Spec

\* The map and the order of use hold the same keys, within the limit.
THEOREM CondConsistent == Spec => []CacheMatchesOrder
  <1>1. CondInv => CacheMatchesOrder
    BY DEF CondInv
  <1> QED
    BY <1>1, CondInvariance, PTL

\* A caller that waits for an item has another caller on its way to set it.
THEOREM NobodyLeftWaiting == Spec => []NobodyForgotten
  <1>1. ASSUME CondInv
        PROVE  NobodyForgotten
    <2> SUFFICES ASSUME NEW p \in Callers, pc[p] = "wait", items[item[p]] = NULL
                 PROVE  \E q \in Callers \ {p} :
                           item[q] = item[p] /\ pc[q] \in {"fill", "del", "set"}
      BY ZenonT(60) DEF NobodyForgotten
    <2>1. item[p] \in Items /\ ~ Free(item[p])
      BY <1>1, ZenonT(60) DEF CondInv, CallerOK, Free
    <2> QED
      BY <1>1, <2>1, ZenonT(60) DEF CondInv, Promised
  <1> QED
    BY <1>1, CondInvariance, PTL

-----------------------------------------------------------------------------
(* The cache implements ReadThrough.                                       *)

\* A new cache maps to the initial state of the promise.
LEMMA InitPromise == Init => Promise!Init
  BY DEF Init, Promise!Init, Failing, Given

\* A step inside Get changes what p is given, and whether its fill failed.
LEMMA GivenStep ==
  ASSUME CondInv, NEW p \in Callers, pc[p] \notin {"idle", "return"},
         NEW where \in {"del", "set", "return"}, Goto(p, where),
         NEW a, answer' = [answer EXCEPT ![p] = a]
  PROVE  /\ Given[p] = NULL /\ key[p] # NULL
         /\ where # "return" => Given' = Given
         /\ where = "return" => Given' = [Given EXCEPT ![p] = a]
         /\ where = "return" \/ a # Error("fill") => Failing' = Failing \ {p}
         /\ where # "return" /\ a = Error("fill") => Failing' = Failing \cup {p}
  <1>1. Given[p] = NULL /\ key[p] # NULL
    BY ZenonT(60) DEF Given, CondInv, CallerOK
  <1>2. /\ pc'[p] = where /\ answer'[p] = a
        /\ \A q \in Callers \ {p} : pc'[q] = pc[q] /\ answer'[q] = answer[q]
    BY DEF CondInv, TypeOK, Goto
  <1>3. where # "return" => Given' = Given
    BY <1>2, ZenonT(60) DEF Given
  <1>4. where = "return" => Given' = [Given EXCEPT ![p] = a]
    BY <1>2, ZenonT(60) DEF Given
  <1>5. /\ where = "return" \/ a # Error("fill") => Failing' = Failing \ {p}
        /\ where # "return" /\ a = Error("fill") => Failing' = Failing \cup {p}
    BY <1>2 DEF Failing
  <1> QED
    BY <1>1, <1>3, <1>4, <1>5, ZenonT(60)

\* The answer of item.get or of the caller's own fill, handed to the caller.
LEMMA AnswerMaps ==
  ASSUME CondInv, NEW p \in Callers, pc[p] \notin {"idle", "return"},
         NEW a, answer' = [answer EXCEPT ![p] = a], Goto(p, "return"),
         \/ a = Found(key[p]) /\ p \notin Failing
         \/ a = Error("fill") /\ p \in Failing
         \/ a \in Errors /\ p \in excused \ Failing,
         UNCHANGED <<key, excused>>
  PROVE  Promise!Next
  <1>1. /\ key[p] # NULL /\ Given[p] = NULL
        /\ Given' = [Given EXCEPT ![p] = a] /\ Failing' = Failing \ {p}
    BY GivenStep, ZenonT(60)
  <1>2. CASE a = Found(key[p]) /\ p \notin Failing
    <2>1. a = Promise!Value(key[p]) /\ Failing' = Failing
      BY <1>1, <1>2, ZenonT(60) DEF Found, Promise!Value
    <2>2. Promise!GiveValue(p)
      BY <1>1, <1>2, <2>1, ZenonT(60) DEF Promise!GiveValue
    <2> QED
      BY <2>2, ZenonT(60) DEF Promise!Next
  <1>3. CASE a = Error("fill") /\ p \in Failing
    <2>1. a = Promise!Error("fill")
      BY <1>3, ZenonT(60) DEF Error, Promise!Error
    <2>2. Promise!GiveOwnError(p)
      BY <1>1, <1>3, <2>1, ZenonT(60) DEF Promise!GiveOwnError
    <2> QED
      BY <2>2, ZenonT(60) DEF Promise!Next
  <1>4. CASE a \in Errors /\ p \in excused \ Failing
    <2>1. PICK e \in {"fill", "deleted"} : a = Error(e)
      BY <1>4, ZenonT(60) DEF Errors
    <2>2. a = Promise!Error(e) /\ Failing' = Failing
      BY <1>1, <1>4, <2>1, ZenonT(60) DEF Error, Promise!Error
    <2>3. Promise!GiveError(p, e)
      BY <1>1, <1>4, <2>2, ZenonT(60) DEF Promise!GiveError
    <2> QED
      BY <2>3, ZenonT(60) DEF Promise!Next
  <1> QED
    BY <1>2, <1>3, <1>4, ZenonT(60)

\* Get maps to a question of the promise.
LEMMA GetMaps ==
  ASSUME CondInv, NEW p \in Callers, NEW k \in Keys, Get(p, k)
  PROVE  Promise!Next
  <1>1. /\ pc[p] = "idle" /\ key[p] = NULL /\ UNCHANGED answer
        /\ pc' = [pc EXCEPT ![p] = "wait"] \/ pc' = [pc EXCEPT ![p] = "fill"]
    BY ZenonT(60) DEF Get, FindItem, AddItem, Goto, CondInv, CallerOK
  <1>2. Failing' = Failing /\ Given' = Given
    BY <1>1, ZenonT(60) DEF Failing, Given, CondInv, TypeOK
  <1>3. Promise!Ask(p, k)
    BY <1>1, <1>2 DEF Get, Promise!Ask
  <1> QED
    BY <1>3 DEF Promise!Next

\* A step inside Get maps to a step of the promise, or changes nothing of it.
LEMMA StepMaps ==
  ASSUME CondInv, NEW p \in Callers, Step(p)
  PROVE  Promise!Next \/ UNCHANGED Promise!vars
  <1>1. CASE Wait(p)
    <2> DEFINE a == items[item[p]]
    <2>1. /\ pc[p] = "wait" /\ a # NULL /\ Goto(p, "return")
          /\ answer' = [answer EXCEPT ![p] = a] /\ UNCHANGED <<key, excused>>
      BY <1>1, ZenonT(60) DEF Wait
    <2>2. item[p] \in Items /\ p \notin Failing
      BY <2>1, ZenonT(60) DEF CondInv, CallerOK, Failing
    <2>3. a = Found(key[p]) \/ (a \in Errors /\ p \in excused)
      BY <2>1, <2>2, ZenonT(60) DEF CondInv, ContentOK
    <2> HIDE DEF a
    <2> QED
      BY <2>1, <2>2, <2>3, AnswerMaps, ZenonT(60)
  <1>2. CASE FillSucceeds(p)
    <2>1. /\ pc[p] = "fill" /\ Goto(p, "set") /\ key[p] \in Keys
          /\ answer' = [answer EXCEPT ![p] = Found(key[p])] /\ UNCHANGED <<key, excused>>
      BY <1>2, ZenonT(60) DEF FillSucceeds, CondInv, CallerOK
    <2>2. Found(key[p]) # Error("fill") /\ p \notin Failing
      BY <2>1, AnswerFacts DEF Failing
    <2>3. Given' = Given /\ Failing' = Failing \ {p}
      BY <2>1, <2>2, GivenStep, ZenonT(60)
    <2> QED
      BY <2>1, <2>2, <2>3, ZenonT(60) DEF Promise!vars
  <1>3. CASE FillFails(p)
    <2>1. /\ pc[p] = "fill" /\ Goto(p, "del")
          /\ answer' = [answer EXCEPT ![p] = Error("fill")]
          /\ excused' = excused \cup {q \in Callers : key[q] = key[p]}
          /\ UNCHANGED key
      BY <1>3, ZenonT(60) DEF FillFails
    <2>2. /\ key[p] # NULL /\ Given[p] = NULL /\ Given' = Given
          /\ Failing' = Failing \cup {p}
      BY <2>1, GivenStep, ZenonT(60)
    <2>3. Promise!FillFails(p)
      BY <2>1, <2>2 DEF Promise!FillFails
    <2> QED
      BY <2>3, ZenonT(60) DEF Promise!Next
  <1>4. CASE Del(p)
    <2>1. /\ pc[p] = "del" /\ pc' = [pc EXCEPT ![p] = "set"]
          /\ UNCHANGED <<key, answer, excused>>
      BY <1>4, ZenonT(60) DEF Del, Goto
    <2>2. Given' = Given /\ Failing' = Failing
      BY <2>1, ZenonT(60) DEF Given, Failing, CondInv, TypeOK
    <2> QED
      BY <2>1, <2>2, ZenonT(60) DEF Promise!vars
  <1>5. CASE SetResult(p)
    <2>1. /\ pc[p] = "set" /\ Goto(p, "return") /\ UNCHANGED <<key, answer, excused>>
          /\ answer[p] \in {Found(key[p]), Error("fill")} /\ key[p] \in Keys
      BY <1>5, ZenonT(60) DEF SetResult, CondInv, CallerOK
    <2>2. answer' = [answer EXCEPT ![p] = answer[p]]
      BY <2>1 DEF CondInv, TypeOK
    <2>3. CASE answer[p] = Found(key[p])
      <3>1. p \notin Failing
        BY <2>1, <2>3, AnswerFacts DEF Failing
      <3> QED
        BY <2>1, <2>2, <2>3, <3>1, AnswerMaps, ZenonT(60)
    <2>4. CASE answer[p] = Error("fill")
      <3>1. p \in Failing
        BY <2>1, <2>4, ZenonT(60) DEF Failing
      <3> QED
        BY <2>1, <2>2, <2>4, <3>1, AnswerMaps, ZenonT(60)
    <2> QED
      BY <2>1, <2>3, <2>4, ZenonT(60)
  <1>6. CASE Return(p)
    <2>1. /\ pc[p] = "return" /\ pc' = [pc EXCEPT ![p] = "idle"]
          /\ key' = [key EXCEPT ![p] = NULL]
          /\ answer' = [answer EXCEPT ![p] = NULL]
          /\ excused' = excused \ {p}
      BY <1>6, ZenonT(60) DEF Return, Goto
    <2>2. answer[p] \in Answer
      BY <2>1, AnswerFacts, ZenonT(60) DEF CondInv, CallerOK
    <2>3. Given[p] = answer[p]
      BY <2>1, ZenonT(60) DEF Given
    <2>4. Failing' = Failing /\ Given' = [Given EXCEPT ![p] = NULL]
      BY <2>1, ZenonT(60) DEF Failing, Given, CondInv, TypeOK
    <2>5. Promise!Take(p)
      <3>1. Given[p] # NULL
        BY <2>2, <2>3, ConstantFacts, ZenonT(60)
      <3> QED
        BY <2>1, <2>4, <3>1, ZenonT(60) DEF Promise!Take
    <2> QED
      BY <2>5, ZenonT(60) DEF Promise!Next
  <1> QED
    BY <1>1, <1>2, <1>3, <1>4, <1>5, <1>6, ZenonT(60) DEF Step

\* Get(k) returns the value of k, the error of its own fill, or "fill" or
\* "deleted" because of a fill of k of another caller that failed while it ran,
\* whoever evicts or deletes the item meanwhile.
THEOREM CondRefinement == Spec => ImplementsReadThrough
  <1>1. ASSUME CondInv, [Next]_vars
        PROVE  [Promise!Next]_(Promise!vars)
    <2>1. CASE UNCHANGED vars
      <3>1. UNCHANGED <<key, Failing, excused, Given>>
        BY <2>1 DEF vars, Failing, Given
      <3> QED
        BY <3>1, ZenonT(60) DEF Promise!vars
    <2> QED
      BY <1>1, <2>1, GetMaps, StepMaps, ZenonT(60) DEF Next
  <1> QED
    BY <1>1, InitPromise, CondInvariance, PTL
       DEF Spec, ImplementsReadThrough, Promise!Spec

HIDE ConstantFacts

-----------------------------------------------------------------------------
(* Registration.                                                           *)

\* RegInit: nothing is issued, stored or under way.
LEMMA InitRegInv == RegInit => RegInv
  <1> SUFFICES ASSUME RegInit PROVE RegInv
    BY ZenonT(60)
  <1> USE RegistrationAssumption
  <1>1. RegTypeOK
    BY ZenonT(60) DEF RegInit, RegTypeOK, Stages, Local, NoLocal
  <1>2. \A p \in Procs : RequestInv(p)
    BY DEF RegInit, RequestInv, NoLocal
  <1>3. StoreInv /\ RegistrationProved
    BY ZenonT(60) DEF RegInit, StoreInv, RegistrationProved
  <1> QED
    BY <1>1, <1>2, <1>3, ZenonT(60) DEF RegInv

\* A request that has been answered claims nothing.
LEMMA Answered ==
  ASSUME NEW p \in Procs, stage'[p] = "idle", call'[p] = None, loc'[p] = NoLocal
  PROVE  RequestInv(p)'
  <1>1. ~ loc'[p].gone /\ ~ loc'[p].late
    BY DEF NoLocal
  <1>2. /\ stage'[p] # "issue" /\ stage'[p] # "upsert"
        /\ stage'[p] \notin Stages \ {"idle", "chain", "issue"}
    BY ZenonT(60)
  <1> QED
    BY <1>1, <1>2, ZenonT(60) DEF RequestInv

\* A step of request p does not touch the other requests.
OthersSame(p) ==
  \A q \in Procs \ {p} : /\ stage'[q] = stage[q]
                          /\ call'[q] = call[q]
                          /\ loc'[q] = loc[q]

\* The other requests keep their invariant while request p issues, answers
\* and deletes challenges, if p takes only its own challenge into use.
LEMMA OthersKeep ==
  ASSUME RegInv, RegTypeOK', NEW p \in Procs, OthersSame(p),
         \A c \in Challenges : issued[c] # None => issued'[c] = issued[c],
         \A c \in Challenges : issued'[c] # issued[c] =>
            call[p] # None /\ call[p].op = "apply" /\ c = call[p].challenge,
         \A c \in challenges' \ challenges : issued[c] = None,
         answers \subseteq answers', settled \subseteq settled',
         \/ call'[p] \in {call[p], None}
         \/ Unused(call'[p].challenge)
         \/ issued[call'[p].challenge] # None
  PROVE  \A q \in Procs \ {p} : RequestInv(q)'
  <1> SUFFICES ASSUME NEW q \in Procs \ {p} PROVE RequestInv(q)'
    BY ZenonT(60)
  <1>0. stage'[q] = stage[q] /\ call'[q] = call[q] /\ loc'[q] = loc[q]
    BY ZenonT(60) DEF OthersSame
  <1>1. RequestInv(q) /\ RequestInv(p) /\ RegTypeOK
    BY ZenonT(60) DEF RegInv
  <1>2. call[q] # None => call[q] \in Apply \cup Register
                           /\ call[q].challenge \in Challenges
    <2>1. call[q] \in Apply \cup Register \cup {None}
      BY <1>1, ZenonT(60) DEF RegTypeOK
    <2>2. \A c \in Apply \cup Register : c.challenge \in Challenges
      BY ZenonT(60) DEF Apply, Register
    <2> QED
      BY <2>1, <2>2, ZenonT(60)
  <1>3. /\ stage'[q] = "idle" <=> call'[q] = None
        /\ stage'[q] = "issue" => call'[q].op = "apply"
        /\ stage'[q] \in Stages \ {"idle", "chain", "issue"} => call'[q].op = "register"
    BY <1>0, <1>1, ZenonT(60) DEF RequestInv
  <1>4. call[q] # None /\ call[q].op = "apply" =>
           /\ issued'[call[q].challenge] = None
           /\ \A r \in Procs \ {q} : call'[r] # None =>
                 call'[r].challenge # call[q].challenge
    <2> SUFFICES ASSUME call[q] # None, call[q].op = "apply"
                 PROVE  /\ issued'[call[q].challenge] = None
                        /\ \A r \in Procs \ {q} : call'[r] # None =>
                              call'[r].challenge # call[q].challenge
      BY ZenonT(60)
    <2>1. issued'[call[q].challenge] = None
      BY <1>1, <1>2, ZenonT(60) DEF RequestInv
    <2>2. call'[p] # None => call'[p].challenge # call[q].challenge
      BY <1>1, <1>2, <2>1, ZenonT(60) DEF RequestInv, Unused
    <2>3. \A r \in Procs \ {p, q} : call'[r] # None =>
             call'[r].challenge # call[q].challenge
      <3>1. \A r \in Procs \ {q} : call[r] # None =>
               call[r].challenge # call[q].challenge
        BY <1>1, ZenonT(60) DEF RequestInv
      <3>2. \A r \in Procs \ {p, q} : call'[r] = call[r] /\ r \in Procs \ {q}
        BY ZenonT(60) DEF OthersSame
      <3> QED
        BY <3>1, <3>2, ZenonT(60)
    <2> QED
      BY <2>1, <2>2, <2>3, ZenonT(60)
  <1>5. call[q] # None /\ call[q].op = "register" =>
           /\ issued'[call[q].challenge] # None
           /\ [challenge |-> call[q].challenge, signer |-> call[q].signer]
                 \in answers'
    BY <1>1, <1>2, ZenonT(60) DEF RequestInv
  <1>6. stage[q] = "upsert" => VerifySignature(q)'
    <2> SUFFICES ASSUME stage[q] = "upsert"
                 PROVE  VerifySignature(q)'
      BY ZenonT(60)
    <2>1. stage[q] \in Stages \ {"idle", "chain", "issue"} /\ stage[q] # "idle"
      BY ZenonT(60) DEF Stages
    <2>2. call[q] # None /\ call[q].op = "register" /\ VerifySignature(q)
      BY <1>1, <2>1, ZenonT(60) DEF RequestInv
    <2>3. issued[call[q].challenge] # None
      BY <1>1, <2>2, ZenonT(60) DEF RequestInv
    <2>4. issued'[call[q].challenge] = issued[call[q].challenge]
      BY <1>2, <2>2, <2>3, ZenonT(60)
    <2> QED
      BY <1>0, <2>2, <2>4, ZenonT(60) DEF VerifySignature
  <1>7. loc[q].gone => stage[q] = "commit" /\ call[q].challenge \notin challenges'
    BY <1>0, <1>1, <1>2, <1>3, ZenonT(60) DEF RequestInv, Stages
  <1>8. loc[q].late => /\ stage[q] \in {"lookup", "chain", "begin", "select"}
                       /\ call[q].challenge \in settled'
    BY <1>1, ZenonT(60) DEF RequestInv
  <1> QED
    BY <1>0, <1>3, <1>4, <1>5, <1>6, <1>7, <1>8, ZenonT(60) DEF RequestInv

\* A step of a request that leaves the tables alone.
LEMMA RequestMoves ==
  ASSUME RegInv, NEW p \in Procs, UNCHANGED <<valset, issued, store, history>>,
         \/ Finish(p)
         \/ \E to \in Stages : /\ Proceed(p, to)
                               /\ ~ loc[p].gone
                               /\ to # "idle" /\ call[p] # None
                               /\ to = "issue" => call[p].op = "apply"
                               /\ to \in Stages \ {"idle", "chain", "issue"} =>
                                     call[p].op = "register"
                               /\ to = "upsert" => VerifySignature(p)
                               /\ loc[p].late => to \in {"lookup", "chain", "begin", "select"}
  PROVE  RegInv'
  <1> USE DEF store, history
  <1>1. RegTypeOK /\ RequestInv(p)
    BY ZenonT(60) DEF RegInv
  <1>2. RegTypeOK'
    <2>1. NoLocal \in Local /\ "idle" \in Stages
      BY ZenonT(60) DEF NoLocal, Local, Stages
    <2>2. CASE Finish(p)
      BY <1>1, <2>1, <2>2, ZenonT(60) DEF RegTypeOK, Finish
    <2>3. CASE \E to \in Stages : Proceed(p, to)
      BY <1>1, <2>3, ZenonT(60) DEF RegTypeOK, Proceed
    <2> QED
      BY <2>2, <2>3, ZenonT(60)
  <1>3. OthersSame(p) /\ call'[p] \in {call[p], None}
    BY <1>1, ZenonT(60) DEF RegTypeOK, Finish, Proceed, OthersSame
  <1>4. \A q \in Procs \ {p} : RequestInv(q)'
    BY <1>2, <1>3, OthersKeep, ZenonT(60)
  <1>5. RequestInv(p)'
    <2>1. CASE Finish(p)
      <3>1. stage'[p] = "idle" /\ call'[p] = None /\ loc'[p] = NoLocal
        BY <1>1, <2>1, ZenonT(60) DEF Finish, RegTypeOK
      <3> QED
        BY <3>1, Answered, ZenonT(60)
    <2>2. ASSUME NEW to \in Stages, Proceed(p, to), ~ loc[p].gone, to # "idle",
                 call[p] # None,
                 to = "issue" => call[p].op = "apply",
                 to \in Stages \ {"idle", "chain", "issue"} =>
                    call[p].op = "register",
                 to = "upsert" => VerifySignature(p),
                 loc[p].late => to \in {"lookup", "chain", "begin", "select"}
          PROVE  RequestInv(p)'
      <3>1. stage'[p] = to /\ call'[p] = call[p] /\ loc'[p] = loc[p]
        BY <1>1, <2>2, ZenonT(60) DEF Proceed, RegTypeOK
      <3>2. \A q \in Procs : call'[q] = call[q]
        BY <2>2, ZenonT(60) DEF Proceed
      <3>3. to = "upsert" => VerifySignature(p)'
        BY <2>2, <3>1, ZenonT(60) DEF VerifySignature
      <3> QED
        BY <1>1, <2>2, <3>1, <3>2, <3>3, ZenonT(60) DEF RequestInv
    <2> QED
      BY <2>1, <2>2, ZenonT(60)
  <1>6. StoreInv' /\ RegistrationProved'
    BY ZenonT(60) DEF RegInv, StoreInv, RegistrationProved
  <1> QED
    BY <1>2, <1>4, <1>5, <1>6, ZenonT(60) DEF RegInv

\* Requests that arrive.
LEMMA ArriveStep ==
  ASSUME RegInv, NEW p \in Procs, Arrive(p)
  PROVE  RegInv'
  <1> USE DEF store, history
  <1>1. RegTypeOK /\ RequestInv(p)
    BY ZenonT(60) DEF RegInv
  <1>2. ASSUME NEW c \in Challenges, NEW a \in Application, ReceiveApply(p, c, a)
        PROVE  RegInv'
    <2> DEFINE new == [op |-> "apply", challenge |-> c, for |-> a]
    <2>1. new \in Apply /\ new # None /\ new.op = "apply" /\ new.challenge = c
      BY CallAssumption DEF Apply
    <2>2. /\ stage' = [stage EXCEPT ![p] = "chain"]
          /\ call' = [call EXCEPT ![p] = new]
          /\ stage[p] = "idle" /\ Unused(c)
          /\ UNCHANGED <<valset, issued, store, loc, history>>
      BY <1>2, ZenonT(60) DEF ReceiveApply
    <2> HIDE DEF new
    <2>3. RegTypeOK'
      BY <1>1, <2>1, <2>2, ZenonT(60) DEF RegTypeOK, Stages
    <2>4. /\ OthersSame(p) /\ stage'[p] = "chain" /\ call'[p] = new
          /\ loc'[p] = loc[p] /\ ~ loc[p].gone /\ ~ loc[p].late
      BY <1>1, <2>2, ZenonT(60) DEF RegTypeOK, OthersSame, RequestInv
    <2>5. \A q \in Procs \ {p} : RequestInv(q)'
      BY <2>1, <2>2, <2>3, <2>4, OthersKeep, ZenonT(60)
    <2>6. RequestInv(p)'
      BY <2>1, <2>2, <2>4, ZenonT(60) DEF RequestInv, OthersSame, Unused, Stages
    <2>7. StoreInv' /\ RegistrationProved'
      BY <2>2, ZenonT(60) DEF RegInv, StoreInv, RegistrationProved
    <2> QED
      BY <2>3, <2>5, <2>6, <2>7, ZenonT(60) DEF RegInv
  <1>3. ASSUME NEW c \in Challenges, NEW v \in Validators, ReceiveRegister(p, c, v)
        PROVE  RegInv'
    <2> DEFINE new == [op |-> "register", challenge |-> c, signer |-> v]
               ans == [challenge |-> c, signer |-> v]
    <2>1. /\ new \in Register /\ new # None /\ new.op = "register"
          /\ new.challenge = c /\ new.signer = v /\ ans \in SignedChallenge
      BY CallAssumption DEF Register, SignedChallenge
    <2>2. /\ \E to \in {"lookup", "chain"} : stage' = [stage EXCEPT ![p] = to]
          /\ call' = [call EXCEPT ![p] = new]
          /\ answers' = answers \cup {ans}
          /\ stage[p] = "idle" /\ issued[c] # None
          /\ loc' = [loc EXCEPT ![p].late = c \in settled]
          /\ UNCHANGED <<valset, issued, store, settled>>
      BY <1>3, ZenonT(60) DEF ReceiveRegister
    <2> HIDE DEF new, ans
    <2>8. loc[p] \in Local /\ ~ loc[p].gone
      BY <1>1, <2>2, ZenonT(60) DEF RegTypeOK, RequestInv
    <2>9. /\ loc'[p] \in Local /\ ~ loc'[p].gone /\ loc'[p].late = (c \in settled)
          /\ loc' \in [Procs -> Local]
      <3>1. [loc[p] EXCEPT !.late = c \in settled] \in Local
        <4>1. \A b \in BOOLEAN : [loc[p] EXCEPT !.late = b] \in Local
          BY <2>8 DEF Local
        <4>2. (c \in settled) \in BOOLEAN
          OBVIOUS
        <4> QED
          BY <4>1, <4>2, ZenonT(60)
      <3>2. loc'[p] = [loc[p] EXCEPT !.late = c \in settled]
        BY <1>1, <2>2, ZenonT(60) DEF RegTypeOK
      <3> QED
        BY <1>1, <2>2, <2>8, <3>1, <3>2, ZenonT(60) DEF RegTypeOK, Local
    <2>3. RegTypeOK'
      BY <1>1, <2>1, <2>2, <2>9, ZenonT(60) DEF RegTypeOK, Stages
    <2>4. OthersSame(p) /\ stage'[p] \in {"lookup", "chain"} /\ call'[p] = new
      BY <1>1, <2>2, ZenonT(60) DEF RegTypeOK, OthersSame
    <2>5. \A q \in Procs \ {p} : RequestInv(q)'
      BY <2>1, <2>2, <2>3, <2>4, OthersKeep, ZenonT(60)
    <2>6. RequestInv(p)'
      <3>1. stage'[p] \notin {"idle", "issue", "upsert"}
        BY <2>4, ZenonT(60)
      <3>2. issued'[call'[p].challenge] # None
        BY <2>1, <2>2, <2>4, ZenonT(60)
      <3>3. [challenge |-> call'[p].challenge, signer |-> call'[p].signer] \in answers'
        <4>1. call'[p].challenge = c /\ call'[p].signer = v
          BY <2>1, <2>4, ZenonT(60)
        <4> QED
          BY <2>2, <4>1 DEF ans
      <3>4. call'[p] # None /\ call'[p].op = "register" /\ ~ loc'[p].gone
        BY <2>1, <2>4, <2>9, ZenonT(60)
      <3>5. loc'[p].late => /\ stage'[p] \in {"lookup", "chain", "begin", "select"}
                            /\ call'[p].challenge \in settled'
        BY <2>1, <2>2, <2>4, <2>9, ZenonT(60)
      <3> QED
        BY <3>1, <3>2, <3>3, <3>4, <3>5, ZenonT(60) DEF RequestInv
    <2>7. StoreInv' /\ RegistrationProved'
      BY <2>2, ZenonT(60) DEF RegInv, StoreInv, RegistrationProved
    <2> QED
      BY <2>3, <2>5, <2>6, <2>7, ZenonT(60) DEF RegInv
  <1> QED
    BY <1>2, <1>3, ZenonT(60) DEF Arrive

\* A challenge is issued: it was unused.
LEMMA InsertStep ==
  ASSUME RegInv, NEW p \in Procs, InsertChallenge(p)
  PROVE  RegInv'
  <1> USE DEF store, history
  <1> DEFINE c == call[p].challenge
  <1>1. RegTypeOK /\ RequestInv(p) /\ stage[p] = "issue" /\ Finish(p)
    BY ZenonT(60) DEF RegInv, InsertChallenge
  <1>2. /\ call[p] \in Apply /\ call[p] # None /\ call[p].op = "apply"
        /\ c \in Challenges /\ call[p].for \in Application
    BY <1>1, RegistrationAssumption, ZenonT(60) DEF RegTypeOK, RequestInv, Apply, Register
  <1>3. /\ issued[c] = None
        /\ issued' = [issued EXCEPT ![c] = call[p].for]
        /\ challenges' = challenges \cup {c}
        /\ UNCHANGED <<valset, validators, answers, settled>>
    BY <1>1, <1>2, ZenonT(60) DEF RequestInv, InsertChallenge
  <1>4. call[p].for # None
    BY <1>2, RegistrationAssumption, ZenonT(60)
  <1>5. RegTypeOK'
    <2>1. NoLocal \in Local /\ "idle" \in Stages
      BY ZenonT(60) DEF NoLocal, Local, Stages
    <2> QED
      BY <1>1, <1>2, <1>3, <2>1, ZenonT(60) DEF RegTypeOK, Finish
  <1>6. OthersSame(p) /\ call'[p] = None /\ stage'[p] = "idle" /\ loc'[p] = NoLocal
    BY <1>1, ZenonT(60) DEF RegTypeOK, Finish, OthersSame
  <1> HIDE DEF c
  <1>7. \A q \in Procs \ {p} : RequestInv(q)'
    BY <1>1, <1>2, <1>3, <1>5, <1>6, OthersKeep, ZenonT(60) DEF RegTypeOK, c
  <1>8. RequestInv(p)'
    BY <1>6, Answered, ZenonT(60)
  <1>9. StoreInv'
    BY <1>1, <1>2, <1>3, <1>4, ZenonT(60) DEF RegInv, StoreInv, RegTypeOK
  <1>10. RegistrationProved'
    <2> SUFFICES ASSUME NEW v \in Validators, validators[v] # None
                 PROVE  \E d \in Challenges :
                          /\ issued'[d] = [validator |-> v, payTo |-> validators[v]]
                          /\ [challenge |-> d, signer |-> v] \in answers
      BY <1>3, ZenonT(60) DEF RegistrationProved
    <2>1. PICK d \in Challenges :
             /\ issued[d] = [validator |-> v, payTo |-> validators[v]]
             /\ [challenge |-> d, signer |-> v] \in answers
      BY ZenonT(60) DEF RegInv, RegistrationProved
    <2>2. issued[d] # None
      <3>1. issued[d] \in Application
        <4>1. v \in Validators /\ validators[v] \in PayAddrs
          BY <1>1, ZenonT(60) DEF RegTypeOK
        <4> QED
          BY <2>1, <4>1 DEF Application
      <3> QED
        BY <3>1, RegistrationAssumption, ZenonT(60)
    <2>3. issued'[d] = issued[d]
      BY <1>1, <1>3, <2>2, ZenonT(60) DEF RegTypeOK
    <2> QED
      BY <2>1, <2>3, ZenonT(60)
  <1> QED
    BY <1>5, <1>7, <1>8, <1>9, <1>10, ZenonT(60) DEF RegInv

\* The signer of the challenge is registered with the address applied for.
LEMMA UpsertStep ==
  ASSUME RegInv, NEW p \in Procs, UpsertValidator(p)
  PROVE  RegInv'
  <1> USE DEF store, history
  <1> DEFINE c == call[p].challenge
             for == issued[c]
  <1>1. RegTypeOK /\ RequestInv(p) /\ stage[p] = "upsert" /\ Proceed(p, "delete")
    BY ZenonT(60) DEF RegInv, UpsertValidator
  <1>2. call[p] \in Register /\ call[p] # None /\ call[p].op = "register"
    BY <1>1, ZenonT(60) DEF RegTypeOK, RequestInv, Stages, Apply, Register
  <1>3. /\ c \in Challenges /\ for \in Application
        /\ call[p].signer = for.validator
        /\ [challenge |-> c, signer |-> for.validator] \in answers
        /\ for.validator \in Validators /\ for.payTo \in PayAddrs
        /\ for = [validator |-> for.validator, payTo |-> for.payTo]
    BY <1>1, <1>2, ZenonT(60) DEF RegTypeOK, RequestInv, Register, Application, VerifySignature
  <1>4. /\ validators' = [validators EXCEPT ![for.validator] = for.payTo]
        /\ UNCHANGED <<valset, issued, challenges, answers, settled>>
    BY ZenonT(60) DEF UpsertValidator
  <1>5. /\ OthersSame(p) /\ \A q \in Procs : call'[q] = call[q]
        /\ stage'[p] = "delete" /\ loc'[p] = loc[p] /\ ~ loc[p].gone /\ ~ loc[p].late
    BY <1>1, ZenonT(60) DEF RegTypeOK, Proceed, OthersSame, RequestInv
  <1>6. RegTypeOK'
    BY <1>1, <1>3, <1>4, ZenonT(60) DEF RegTypeOK, Proceed, Stages
  <1>7. \A q \in Procs \ {p} : RequestInv(q)'
    BY <1>4, <1>5, <1>6, OthersKeep, ZenonT(60)
  <1>8. RequestInv(p)'
    BY <1>1, <1>2, <1>4, <1>5, ZenonT(60) DEF RequestInv
  <1>9. StoreInv'
    BY <1>4, ZenonT(60) DEF RegInv, StoreInv
  <1>10. RegistrationProved'
    <2> SUFFICES ASSUME NEW v \in Validators, validators'[v] # None
                 PROVE  \E d \in Challenges :
                          /\ issued[d] = [validator |-> v, payTo |-> validators'[v]]
                          /\ [challenge |-> d, signer |-> v] \in answers
      BY <1>4, ZenonT(60) DEF RegistrationProved
    <2>1. CASE v = for.validator
      <3>1. validators'[v] = for.payTo
        BY <1>1, <1>4, <2>1, ZenonT(60) DEF RegTypeOK
      <3> QED
        BY <1>3, <2>1, <3>1, ZenonT(60)
    <2>2. CASE v # for.validator
      <3>1. validators'[v] = validators[v]
        BY <1>1, <1>4, <2>2, ZenonT(60) DEF RegTypeOK
      <3> QED
        BY <3>1, ZenonT(60) DEF RegInv, RegistrationProved
    <2> QED
      BY <2>1, <2>2, ZenonT(60)
  <1> QED
    BY <1>6, <1>7, <1>8, <1>9, <1>10, ZenonT(60) DEF RegInv

\* A challenge is deleted, whatever became of the transaction.
LEMMA DeleteStep ==
  ASSUME RegInv, NEW p \in Procs, DeleteChallenge(p)
  PROVE  RegInv'
  <1> USE DEF store, history
  <1>1. RegTypeOK /\ RequestInv(p) /\ stage[p] = "delete"
    BY ZenonT(60) DEF RegInv, DeleteChallenge
  <1>2. call[p] # None /\ call[p].op = "register"
    BY <1>1, ZenonT(60) DEF RequestInv, Stages
  <1>3. /\ challenges' = challenges \ {call[p].challenge}
        /\ stage' = [stage EXCEPT ![p] = "commit"]
        /\ loc' = [loc EXCEPT ![p].gone = TRUE]
        /\ UNCHANGED <<valset, issued, validators, call, answers, settled>>
    BY DEF DeleteChallenge, Deleted
  <1>4. RegTypeOK'
    BY <1>1, <1>3, ZenonT(60) DEF RegTypeOK, Stages, Local
  <1>5. OthersSame(p) /\ stage'[p] = "commit"
    BY <1>1, <1>3 DEF RegTypeOK, OthersSame
  <1>6. \A q \in Procs \ {p} : RequestInv(q)'
    BY <1>3, <1>4, <1>5, OthersKeep
  <1>7. RequestInv(p)'
    <2>1. ~ loc'[p].late
      BY <1>1, <1>3, ZenonT(60) DEF RequestInv, RegTypeOK, Local
    <2> QED
      BY <1>1, <1>2, <1>3, <1>5, <2>1, ZenonT(60) DEF RequestInv
  <1>8. StoreInv' /\ RegistrationProved'
    BY <1>3, ZenonT(60) DEF RegInv, StoreInv, RegistrationProved
  <1> QED
    BY <1>4, <1>6, <1>7, <1>8, ZenonT(60) DEF RegInv

\* Register returns: what it deleted is settled.
LEMMA EndStep ==
  ASSUME RegInv, NEW p \in Procs, EndTransaction(p)
  PROVE  RegInv'
  <1> USE DEF store, history
  <1>1. RegTypeOK /\ RequestInv(p) /\ stage[p] = "commit" /\ Finish(p)
    BY ZenonT(60) DEF RegInv, EndTransaction
  <1>2. /\ call[p] # None /\ call[p].op = "register"
        /\ call[p].challenge \in Challenges
        /\ issued[call[p].challenge] # None
    BY <1>1, ZenonT(60) DEF RegTypeOK, RequestInv, Stages, Apply, Register
  <1>3. /\ settled' = IF loc[p].gone THEN settled \cup {call[p].challenge}
                                      ELSE settled
        /\ UNCHANGED <<valset, issued, challenges, validators, answers>>
    BY ZenonT(60) DEF EndTransaction
  <1>4. RegTypeOK'
    <2>1. NoLocal \in Local /\ "idle" \in Stages
      BY ZenonT(60) DEF NoLocal, Local, Stages
    <2> QED
      BY <1>1, <1>2, <1>3, <2>1, ZenonT(60) DEF RegTypeOK, Finish
  <1>5. OthersSame(p) /\ call'[p] = None /\ stage'[p] = "idle" /\ loc'[p] = NoLocal
    BY <1>1, ZenonT(60) DEF RegTypeOK, Finish, OthersSame
  <1>6. \A q \in Procs \ {p} : RequestInv(q)'
    BY <1>3, <1>4, <1>5, OthersKeep, ZenonT(60)
  <1>7. RequestInv(p)'
    BY <1>5, Answered, ZenonT(60)
  <1>8. StoreInv' /\ RegistrationProved'
    BY <1>1, <1>2, <1>3, ZenonT(60)
       DEF RegInv, StoreInv, RegistrationProved, RequestInv
  <1> QED
    BY <1>4, <1>6, <1>7, <1>8, ZenonT(60) DEF RegInv

\* The other steps of a request only move it, or end it.
LEMMA QuietStep ==
  ASSUME RegInv, NEW p \in Procs,
         \/ LookUp(p)
         \/ AskChain(p)
         \/ Begin(p)
         \/ SelectChallenge(p)
         \/ Verify(p)
         \/ UpsertFails(p)
         \/ DeleteFails(p)
         \/ Fail(p)
  PROVE  RegInv'
  <1>1. RegTypeOK /\ RequestInv(p)
    BY ZenonT(60) DEF RegInv
  <1>2. UNCHANGED <<valset, issued, store, history>>
    BY DEF LookUp, AskChain, Begin, SelectChallenge, Verify, UpsertFails,
           DeleteFails, Fail
  <1>3. CASE Finish(p)
    BY <1>2, <1>3, RequestMoves, ZenonT(60)
  <1>4. CASE ~ Finish(p) /\ ~ (AskChain(p) /\ call[p].op = "register")
    <2>1. PICK to \in Stages :
             /\ Proceed(p, to) /\ to # "idle" /\ ~ loc[p].gone
             /\ stage[p] # "idle"
             /\ to = "issue" => call[p].op = "apply"
             /\ to = "chain" \/ to = "issue" \/ stage[p] # "chain"
             /\ stage[p] # "issue"
             /\ to = "upsert" => VerifySignature(p)
             /\ to = "verify" => call[p].challenge \in challenges
             /\ stage[p] \in {"lookup", "chain", "begin", "select"} =>
                   to \in {"chain", "issue", "begin", "select", "verify"}
      BY <1>1, <1>4 DEF LookUp, AskChain, Begin, SelectChallenge, Verify,
         UpsertFails, DeleteFails, Fail, Stages, RequestInv
    <2>2. call[p] # None
      BY <1>1, <2>1, ZenonT(60) DEF RequestInv
    <2>3. to \in Stages /\ (to \in Stages \ {"idle", "chain", "issue"} =>
                            call[p].op = "register")
      BY <1>1, <2>1, ZenonT(60) DEF RequestInv, RegTypeOK, Stages
    <2>4. loc[p].late => to \in {"lookup", "chain", "begin", "select"}
      <3> SUFFICES ASSUME loc[p].late
                   PROVE  to \in {"lookup", "chain", "begin", "select"}
        BY ZenonT(60)
      <3>1. /\ call[p].challenge \in settled
            /\ stage[p] \in {"lookup", "chain", "begin", "select"}
        BY <1>1, ZenonT(60) DEF RequestInv
      <3>2. call[p].challenge \notin challenges /\ issued[call[p].challenge] # None
        BY <3>1, ZenonT(60) DEF RegInv, StoreInv
      <3>3. to # "verify" /\ to # "issue"
        BY <1>1, <2>1, <2>2, <3>2, ZenonT(60) DEF RequestInv
      <3> QED
        BY <2>1, <3>1, <3>3, ZenonT(60)
    <2> QED
      BY <1>2, <2>1, <2>2, <2>3, <2>4, RequestMoves, ZenonT(60)
  <1>5. CASE ~ Finish(p) /\ AskChain(p) /\ call[p].op = "register"
    <2> USE DEF store, history
    <2>1. /\ stage[p] = "chain"
          /\ stage' = [stage EXCEPT ![p] = "begin"]
          /\ loc' = [loc EXCEPT ![p].valset = valset]
          /\ UNCHANGED call
      BY <1>5, ZenonT(60) DEF AskChain
    <2>2. RegTypeOK'
      BY <1>1, <1>2, <2>1, ZenonT(60) DEF RegTypeOK, Stages, Local
    <2>3. /\ OthersSame(p) /\ stage'[p] = "begin" /\ ~ loc'[p].gone
          /\ loc'[p].late = loc[p].late
      BY <1>1, <2>1, ZenonT(60) DEF RegTypeOK, OthersSame, RequestInv, Local
    <2>4. \A q \in Procs \ {p} : RequestInv(q)'
      BY <1>2, <2>1, <2>2, <2>3, OthersKeep, ZenonT(60)
    <2>5. RequestInv(p)'
      BY <1>1, <1>2, <1>5, <2>1, <2>3, ZenonT(60) DEF RequestInv
    <2>6. StoreInv' /\ RegistrationProved'
      BY <1>2, ZenonT(60) DEF RegInv, StoreInv, RegistrationProved
    <2> QED
      BY <2>2, <2>4, <2>5, <2>6, ZenonT(60) DEF RegInv
  <1> QED
    BY <1>3, <1>4, <1>5, ZenonT(60)

\* The validator set, and the clean-up of old challenges.
LEMMA EnvironmentStep ==
  ASSUME RegInv, ChangeValset \/ \E cs \in SUBSET challenges : Cleanup(cs)
  PROVE  RegInv'
  <1> USE DEF store, history
  <1>1. /\ challenges' \subseteq challenges
        /\ valset' \in SUBSET Validators
        /\ UNCHANGED <<issued, validators, stage, call, loc, answers, settled>>
    BY ZenonT(60) DEF ChangeValset, Cleanup, RegInv, RegTypeOK
  <1>2. RegTypeOK'
    BY <1>1, ZenonT(60) DEF RegInv, RegTypeOK
  <1>3. \A p \in Procs : RequestInv(p)'
    BY <1>1, ZenonT(60) DEF RegInv, RequestInv, VerifySignature
  <1>4. StoreInv' /\ RegistrationProved'
    BY <1>1, ZenonT(60) DEF RegInv, StoreInv, RegistrationProved
  <1> QED
    BY <1>2, <1>3, <1>4, ZenonT(60) DEF RegInv

\* Whatever the interleaving of Applies, Registers and clean-ups.
THEOREM RegistrationInvariance == RegSpec => []RegInv
  <1>1. RegInv /\ [RegNext]_regVars => RegInv'
    <2> SUFFICES ASSUME RegInv, [RegNext]_regVars PROVE RegInv'
      BY ZenonT(60)
    <2>1. CASE UNCHANGED regVars
      BY <2>1, ZenonT(60) DEF regVars, RegInv, RegTypeOK, RequestInv, VerifySignature, StoreInv,
         RegistrationProved
    <2>2. ASSUME NEW p \in Procs, Arrive(p) \/ Serve(p) \/ Fail(p) PROVE RegInv'
      BY <2>2, ArriveStep, InsertStep, UpsertStep, DeleteStep, EndStep, QuietStep, ZenonT(60)
         DEF Serve
    <2>3. CASE ChangeValset \/ \E cs \in SUBSET challenges : Cleanup(cs)
      BY <2>3, EnvironmentStep
    <2> QED
      BY <2>1, <2>2, <2>3, ZenonT(60) DEF RegNext
  <1> QED
    BY <1>1, InitRegInv, PTL DEF RegSpec

\* A registered address was applied for and signed for by its validator,
\* although the transaction of Register isolates nothing.
THEOREM ProofOfPossession == RegSpec => []RegistrationProved
  <1>1. RegInv => RegistrationProved
    BY DEF RegInv
  <1> QED
    BY <1>1, RegistrationInvariance, PTL

\* No answer that comes after its challenge was settled changes an address: a
\* settled challenge is not in the table, so such a Register ends where it
\* looks the challenge up.
THEOREM AnswersNotReplayed == RegSpec => NoReplay
  <1> DEFINE Registered(v) ==
               \E p \in Procs : /\ stage[p] = "upsert" /\ ~ loc[p].late
                                /\ issued[call[p].challenge].validator = v
  <1>1. ASSUME RegInv, [RegNext]_regVars, NEW v \in Validators,
               validators'[v] # validators[v]
        PROVE  Registered(v)
    <2> USE DEF store, history
    <2>1. PICK p \in Procs : UpsertValidator(p)
      BY <1>1, ZenonT(60) DEF regVars, RegNext, Arrive, ReceiveApply, ReceiveRegister,
         Serve, LookUp, AskChain, InsertChallenge, Begin, SelectChallenge, Verify,
         UpsertFails, DeleteChallenge, DeleteFails, EndTransaction, Fail, ChangeValset,
         Cleanup
    <2>2. /\ stage[p] = "upsert"
          /\ validators' = [validators EXCEPT ![issued[call[p].challenge].validator] =
                                                issued[call[p].challenge].payTo]
      BY <2>1, ZenonT(60) DEF UpsertValidator
    <2>3. ~ loc[p].late
      BY <1>1, <2>2, ZenonT(60) DEF RegInv, RequestInv
    <2>4. issued[call[p].challenge].validator = v
      BY <1>1, <2>2, ZenonT(60) DEF RegInv, RegTypeOK
    <2> QED
      BY <2>2, <2>3, <2>4, ZenonT(60)
  <1>2. RegInv /\ [RegNext]_regVars =>
          [\A v \in Validators : validators'[v] # validators[v] => Registered(v)]_regVars
    BY <1>1, ZenonT(60)
  <1> QED
    BY <1>2, RegistrationInvariance, PTL DEF RegSpec, NoReplay

-----------------------------------------------------------------------------
(* Routing, for every set of chains, networks, instances and rows and any  *)
(* number of changes and crashes: the map of a process is always that of   *)
(* one listing, and a request is served by a row that its chain had.       *)

\* The network of a chain, or its configuration, fits the map of a process.
LEMMA NextGenType ==
  ASSUME NEW s \in Servers, NEW t \in Table, Convertible(s, t)
  PROVE  /\ NextGen(s, t) \in [Chains -> Configs \cup Instances \cup {NoValue}]
         /\ s \in Instances => NextGen(s, t) \in [Chains -> Configs \cup {NoValue}]
         /\ s = Proxy => NextGen(s, t) \in [Chains -> Instances \cup {NoValue}]
  <1>1. \A c \in Allowed(s, t) : /\ c \in Chains /\ t[c] \in Row
                                 /\ s = Proxy => t[c].network \in Instances
    BY ZenonT(60) DEF Allowed, Convertible, Table
  <1>2. s \in Instances => s # Proxy
    BY RoutingAssumption, ZenonT(60)
  <1> QED
    BY <1>1, <1>2, ZenonT(60) DEF NextGen, Row, Servers

\* What an instance manages for a chain is the configuration of a row of its
\* own network.
LEMMA NextGenRow ==
  ASSUME NEW n \in Instances, NEW t \in Table, NEW c \in Chains,
         NextGen(n, t)[c] # NoValue
  PROVE  t[c] = [network |-> n, config |-> NextGen(n, t)[c]]
  <1>1. n # Proxy
    BY RoutingAssumption, ZenonT(60)
  <1>2. c \in Allowed(n, t) /\ NextGen(n, t)[c] = t[c].config
    BY <1>1, ZenonT(60) DEF NextGen
  <1>3. t[c] # NoValue /\ t[c].network = n
    BY <1>1, <1>2, ZenonT(60) DEF Allowed
  <1>4. t[c] \in Row
    BY <1>3, ZenonT(60) DEF Table
  <1> QED
    BY <1>2, <1>3, <1>4, ZenonT(60) DEF Row

\* A step that leaves the maps alone, or makes the map of one process that of a
\* listing, keeps the generations, as history only grows.
LEMMA GenerationsKept ==
  ASSUME RoutingInv, past \subseteq past',
         \A s \in Servers :
            \/ status'[s] # "up"
            \/ status[s] = "up" /\ managed'[s] = managed[s]
            \/ \E t \in past : managed'[s] = NextGen(s, t)
  PROVE  OneGeneration'
  BY ZenonT(60) DEF RoutingInv, OneGeneration

\* A request that is where it was is served as it was.
LEMMA ServedKept ==
  ASSUME RoutingInv, past \subseteq past', request' = request
  PROVE  /\ ServedAsConfigured'
         /\ request'.at # "nowhere" =>
               request'.chain \in Chains /\ request'.network \in Instances
  BY ZenonT(60) DEF RoutingInv, ServedAsConfigured

\* A request that is no more is no concern.
LEMMA NoRequestServed ==
  ASSUME request' = NoRequest
  PROVE  /\ ServedAsConfigured'
         /\ request'.at # "nowhere" =>
               request'.chain \in Chains /\ request'.network \in Instances
  BY ZenonT(60) DEF ServedAsConfigured, NoRequest

\* At first every process is down, and no request is under way.
LEMMA RoutingInit == RouteInit => RoutingInv
  <1> SUFFICES ASSUME RouteInit PROVE RoutingInv
    OBVIOUS
  <1>1. Empty \in [Chains -> Configs \cup {NoValue}]
        /\ Empty \in [Chains -> Instances \cup {NoValue}]
        /\ Empty \in [Chains -> Configs \cup Instances \cup {NoValue}]
    BY ZenonT(60) DEF Empty
  <1>2. table \in Table /\ past = {table}
    BY RoutingAssumption, ZenonT(60) DEF RouteInit
  <1>3. RouteTypeOK
    BY <1>1, <1>2, RoutingAssumption DEF RouteInit, RouteTypeOK, NoRequest, Servers
  <1> QED
    BY <1>2, <1>3, ZenonT(60) DEF RouteInit, RoutingInv, OneGeneration, ServedAsConfigured, NoRequest

-----------------------------------------------------------------------------
(* The steps.                                                              *)

\* A changed row makes a new version of the table.
LEMMA UpsertChainStep ==
  ASSUME RoutingInv, NEW c \in Chains, NEW row \in Rows[c], UpsertChain(c, row)
  PROVE  RoutingInv'
  <1>1. /\ table' \in Table /\ past' = past \cup {table'}
        /\ changes' \in 0..MaxChanges
        /\ UNCHANGED <<status, listing, managed, request, crashes>>
    <2>1. row \in Row
      BY RoutingAssumption, ZenonT(60)
    <2>2. changes' \in 0..MaxChanges
      BY RoutingAssumption DEF UpsertChain, RoutingInv, RouteTypeOK
    <2> QED
      BY <2>1, <2>2, ZenonT(60) DEF UpsertChain, RoutingInv, RouteTypeOK, Table
  <1>2. RouteTypeOK'
    BY <1>1, ZenonT(60) DEF RoutingInv, RouteTypeOK
  <1>3. OneGeneration'
    BY <1>1, GenerationsKept, ZenonT(60)
  <1>4. /\ ServedAsConfigured'
        /\ request'.at # "nowhere" =>
              request'.chain \in Chains /\ request'.network \in Instances
    BY <1>1, ServedKept, ZenonT(60)
  <1> QED
    BY <1>1, <1>2, <1>3, <1>4, ZenonT(60) DEF RoutingInv

\* The steps of a refresh.
LEMMA StartStep ==
  ASSUME RoutingInv, NEW s \in Servers, Start(s)
  PROVE  RoutingInv'
  <1>1. /\ status' = [status EXCEPT ![s] = "starting"]
        /\ UNCHANGED <<table, listing, managed, request, past, changes, crashes>>
    BY ZenonT(60) DEF Start
  <1>2. RouteTypeOK'
    BY <1>1, ZenonT(60) DEF RoutingInv, RouteTypeOK
  <1>3. OneGeneration'
    BY <1>1, GenerationsKept, ZenonT(60) DEF RoutingInv, RouteTypeOK
  <1>4. /\ ServedAsConfigured'
        /\ request'.at # "nowhere" =>
              request'.chain \in Chains /\ request'.network \in Instances
    BY <1>1, ServedKept, ZenonT(60)
  <1> QED
    BY <1>1, <1>2, <1>3, <1>4, ZenonT(60) DEF RoutingInv

\* A refresh works on the present version of the table.
LEMMA ListChainsStep ==
  ASSUME RoutingInv, NEW s \in Servers, ListChains(s)
  PROVE  RoutingInv'
  <1>1. /\ listing' = [listing EXCEPT ![s] = table]
        /\ UNCHANGED <<table, status, managed, request, past, changes, crashes>>
    BY ZenonT(60) DEF ListChains
  <1>2. RouteTypeOK'
    BY <1>1, ZenonT(60) DEF RoutingInv, RouteTypeOK
  <1>3. \A r \in Servers : listing'[r] # NoValue => listing'[r] \in past'
    BY <1>1, ZenonT(60) DEF RoutingInv, RouteTypeOK
  <1>4. OneGeneration'
    BY <1>1, GenerationsKept, ZenonT(60) DEF RoutingInv
  <1>5. /\ ServedAsConfigured'
        /\ request'.at # "nowhere" =>
              request'.chain \in Chains /\ request'.network \in Instances
    BY <1>1, ServedKept, ZenonT(60)
  <1> QED
    BY <1>1, <1>2, <1>3, <1>4, <1>5, ZenonT(60) DEF RoutingInv

\* The map that is swapped in is that of the listing.
LEMMA RefreshStep ==
  ASSUME RoutingInv, NEW s \in Servers, Refresh(s)
  PROVE  RoutingInv'
  <1> DEFINE m == NextGen(s, listing[s])
  <1>1. /\ listing[s] \in Table /\ listing[s] \in past
        /\ Convertible(s, listing[s])
        /\ managed' = [managed EXCEPT ![s] = m]
        /\ listing' = [listing EXCEPT ![s] = NoValue]
        /\ status' = [status EXCEPT ![s] = "up"]
        /\ UNCHANGED <<table, request, past, changes, crashes>>
    BY ZenonT(60) DEF Refresh, Swapped, RoutingInv, RouteTypeOK
  <1>2. /\ m \in [Chains -> Configs \cup Instances \cup {NoValue}]
        /\ s \in Instances => m \in [Chains -> Configs \cup {NoValue}]
        /\ s = Proxy => m \in [Chains -> Instances \cup {NoValue}]
    BY <1>1, NextGenType, ZenonT(60)
  <1>3. \A r \in Servers : managed'[r] = IF r = s THEN m ELSE managed[r]
    BY <1>1, ZenonT(60) DEF RoutingInv, RouteTypeOK
  <1> HIDE DEF m
  <1>4. RouteTypeOK'
    BY <1>1, <1>2, <1>3, ZenonT(60) DEF RoutingInv, RouteTypeOK, Servers
  <1>5. \A r \in Servers : listing'[r] # NoValue => listing'[r] \in past'
    BY <1>1, ZenonT(60) DEF RoutingInv, RouteTypeOK
  <1>6. OneGeneration'
    <2>1. ASSUME NEW r \in Servers, status'[r] = "up"
          PROVE  \E t \in past : managed'[r] = NextGen(r, t)
      <3>1. CASE r = s
        BY <1>1, <1>3, <3>1, ZenonT(60) DEF m
      <3>2. CASE r # s
        BY <1>1, <1>3, <2>1, <3>2, ZenonT(60) DEF RoutingInv, RouteTypeOK, OneGeneration
      <3> QED
        BY <3>1, <3>2, ZenonT(60)
    <2> QED
      BY <1>1, <2>1, ZenonT(60) DEF OneGeneration
  <1>7. /\ ServedAsConfigured'
        /\ request'.at # "nowhere" =>
              request'.chain \in Chains /\ request'.network \in Instances
    BY <1>1, ServedKept, ZenonT(60)
  <1> QED
    BY <1>1, <1>4, <1>5, <1>6, <1>7, ZenonT(60) DEF RoutingInv

\* A refresh that fails, at ListChains or later, leaves the map alone.
LEMMA RefreshFailsStep ==
  ASSUME RoutingInv, NEW s \in Servers, ListChainsFails(s) \/ RefreshFails(s)
  PROVE  RoutingInv'
  <1>1. /\ listing' \in {listing, [listing EXCEPT ![s] = NoValue]}
        /\ status' = [status EXCEPT ![s] = IF @ = "up" THEN "up" ELSE "down"]
        /\ UNCHANGED <<table, managed, request, past, changes, crashes>>
    BY ZenonT(60) DEF ListChainsFails, RefreshFails
  <1>2. RouteTypeOK'
    BY <1>1, ZenonT(60) DEF RoutingInv, RouteTypeOK
  <1>3. \A r \in Servers : /\ listing'[r] # NoValue => listing'[r] \in past'
                           /\ status'[r] = "up" => status[r] = "up"
    BY <1>1, ZenonT(60) DEF RoutingInv, RouteTypeOK
  <1>4. OneGeneration'
    BY <1>1, <1>3, GenerationsKept, ZenonT(60)
  <1>5. /\ ServedAsConfigured'
        /\ request'.at # "nowhere" =>
              request'.chain \in Chains /\ request'.network \in Instances
    BY <1>1, ServedKept, ZenonT(60)
  <1> QED
    BY <1>1, <1>2, <1>3, <1>4, <1>5, ZenonT(60) DEF RoutingInv

\* A crash loses the map and what the process was at.
LEMMA CrashStep ==
  ASSUME RoutingInv, NEW s \in Servers, Crash(s)
  PROVE  RoutingInv'
  <1>1. /\ status' = [status EXCEPT ![s] = "down"]
        /\ listing' = [listing EXCEPT ![s] = NoValue]
        /\ managed' = [managed EXCEPT ![s] = Empty]
        /\ request' \in {request, NoRequest}
        /\ crashes' \in 0..MaxCrashes
        /\ UNCHANGED <<table, past, changes>>
    BY RoutingAssumption DEF Crash, RoutingInv, RouteTypeOK
  <1>2. \A r \in Servers : /\ listing'[r] # NoValue => listing'[r] \in past'
                           /\ managed'[r] = IF r = s THEN Empty ELSE managed[r]
                           /\ status'[r] = IF r = s THEN "down" ELSE status[r]
    BY <1>1, ZenonT(60) DEF RoutingInv, RouteTypeOK
  <1>3. RouteTypeOK'
    <2>1. /\ Empty \in [Chains -> Configs \cup {NoValue}]
          /\ Empty \in [Chains -> Instances \cup {NoValue}]
          /\ Empty \in [Chains -> Configs \cup Instances \cup {NoValue}]
      BY ZenonT(60) DEF Empty
    <2>2. request' \in [at: {"nowhere", "instance", "service"},
                        chain: Chains \cup {NoValue}, network: Instances \cup {NoValue},
                        config: Configs \cup {NoValue}]
      <3>1. NoRequest \in [at: {"nowhere", "instance", "service"},
                           chain: Chains \cup {NoValue},
                           network: Instances \cup {NoValue},
                           config: Configs \cup {NoValue}]
        BY ZenonT(60) DEF NoRequest
      <3> QED
        BY <1>1, <3>1, ZenonT(60) DEF RoutingInv, RouteTypeOK
    <2> QED
      BY <1>1, <1>2, <2>1, <2>2, ZenonT(60) DEF RoutingInv, RouteTypeOK, Servers
  <1>4. OneGeneration'
    BY <1>1, <1>2, GenerationsKept
  <1>5. /\ ServedAsConfigured'
        /\ request'.at # "nowhere" =>
              request'.chain \in Chains /\ request'.network \in Instances
    BY <1>1, ServedKept, NoRequestServed, ZenonT(60)
  <1> QED
    BY <1>1, <1>2, <1>3, <1>4, <1>5, ZenonT(60) DEF RoutingInv

\* The steps of a request.
LEMMA RouteStep ==
  ASSUME RoutingInv, NEW c \in Chains, Route(c)
  PROVE  RoutingInv'
  <1>1. /\ managed[Proxy][c] \in Instances
        /\ request' = [at |-> "instance", chain |-> c,
                       network |-> managed[Proxy][c], config |-> NoValue]
        /\ UNCHANGED <<table, status, listing, managed, past, changes, crashes>>
    BY ZenonT(60) DEF Route, RoutingInv, RouteTypeOK, NoRequest
  <1>2. RouteTypeOK'
    BY <1>1, ZenonT(60) DEF RoutingInv, RouteTypeOK
  <1>3. OneGeneration'
    BY <1>1, GenerationsKept, ZenonT(60) DEF RoutingInv
  <1> QED
    BY <1>1, <1>2, <1>3, ZenonT(60) DEF RoutingInv, ServedAsConfigured

\* The service that is found is one of a row of the chain.
LEMMA GetServiceStep ==
  ASSUME RoutingInv, GetService
  PROVE  RoutingInv'
  <1> DEFINE n == request.network
             c == request.chain
  <1>1. /\ n \in Instances /\ c \in Chains
        /\ status[n] = "up" /\ managed[n][c] \in Configs
        /\ request' = [at |-> "service", chain |-> c, network |-> n,
                       config |-> managed[n][c]]
        /\ UNCHANGED <<table, status, listing, managed, past, changes, crashes>>
    <2>1. n \in Instances /\ c \in Chains
      BY DEF GetService, RoutingInv
    <2>2. status[n] = "up" /\ managed[n][c] # NoValue
      BY ZenonT(60) DEF GetService
    <2>3. managed[n] \in [Chains -> Configs \cup {NoValue}]
      BY <2>1, ZenonT(60) DEF RoutingInv, RouteTypeOK
    <2>4. request' = [request EXCEPT !.at = "service", !.config = managed[n][c]]
      BY ZenonT(60) DEF GetService
    <2>5. request' = [at |-> "service", chain |-> c, network |-> n,
                      config |-> managed[n][c]]
      BY <2>4, ZenonT(60) DEF RoutingInv, RouteTypeOK
    <2> QED
      BY <2>1, <2>2, <2>3, <2>5, ZenonT(60) DEF GetService
  <1>2. RouteTypeOK'
    BY <1>1, ZenonT(60) DEF RoutingInv, RouteTypeOK
  <1>3. OneGeneration'
    BY <1>1, GenerationsKept, ZenonT(60) DEF RoutingInv
  <1>4. PICK t \in past : managed[n] = NextGen(n, t)
    BY <1>1, ZenonT(60) DEF RoutingInv, OneGeneration, Servers
  <1>5. t \in Table /\ managed[n][c] # NoValue
    BY <1>1, RoutingAssumption, ZenonT(60) DEF RoutingInv, RouteTypeOK
  <1>6. t[c] = [network |-> n, config |-> managed[n][c]]
    BY <1>1, <1>4, <1>5, NextGenRow, ZenonT(60)
  <1>7. ServedAsConfigured'
    BY <1>1, <1>6, ZenonT(60) DEF ServedAsConfigured
  <1> QED
    BY <1>1, <1>2, <1>3, <1>7, ZenonT(60) DEF RoutingInv

\* A request that ended carries nothing.
LEMMA RouteEndStep ==
  ASSUME RoutingInv, Refuse \/ Respond
  PROVE  RoutingInv'
  <1>1. /\ request' = NoRequest
        /\ UNCHANGED <<table, status, listing, managed, past, changes, crashes>>
    BY ZenonT(60) DEF Refuse, Respond
  <1>2. RouteTypeOK'
    BY <1>1, ZenonT(60) DEF RoutingInv, RouteTypeOK, NoRequest
  <1>3. OneGeneration'
    BY <1>1, GenerationsKept, ZenonT(60) DEF RoutingInv
  <1> QED
    BY <1>1, <1>2, <1>3, NoRequestServed, ZenonT(60) DEF RoutingInv

-----------------------------------------------------------------------------
(* The theorems.                                                           *)

\* RoutingInv holds always: refreshes, failures, crashes and requests in any
\* order keep it.
THEOREM RoutingInvariance == RouteSpec => []RoutingInv
  <1>1. RoutingInv /\ [RouteNext]_routeVars => RoutingInv'
    <2> SUFFICES ASSUME RoutingInv, [RouteNext]_routeVars PROVE RoutingInv'
      OBVIOUS
    <2>1. CASE UNCHANGED routeVars
      <3>1. UNCHANGED <<table, status, listing, managed, request, past, changes,
                        crashes>>
        BY <2>1, ZenonT(60) DEF routeVars
      <3> QED
        BY <3>1, ZenonT(60) DEF RoutingInv, RouteTypeOK, OneGeneration, ServedAsConfigured
    <2>2. CASE RouteNext
      BY <2>2, UpsertChainStep, StartStep, ListChainsStep, RefreshStep,
         RefreshFailsStep, CrashStep, RouteStep, GetServiceStep, RouteEndStep, ZenonT(60) DEF RouteNext
    <2> QED
      BY <2>1, <2>2, ZenonT(60)
  <1> QED
    BY <1>1, RoutingInit, PTL DEF RouteSpec

\* The map of a process is that of one listing, for any number of processes.
THEOREM GenerationsWhole == RouteSpec => []OneGeneration
  <1>1. RoutingInv => OneGeneration
    BY ZenonT(60) DEF RoutingInv
  <1> QED
    BY <1>1, RoutingInvariance, PTL

\* A service answers for a chain with a row that the chain had, in the network
\* it was routed to, however stale proxy and instance are.
THEOREM RequestsServedAsConfigured == RouteSpec => []ServedAsConfigured
  <1>1. RoutingInv => ServedAsConfigured
    BY ZenonT(60) DEF RoutingInv
  <1> QED
    BY <1>1, RoutingInvariance, PTL

===============================================================================
