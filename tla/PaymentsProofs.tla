--------------------------- MODULE PaymentsProofs ---------------------------
(***************************************************************************)
(* Lemmas about the operators of module Payments, which run over lists of  *)
(* transactions, payments and bundles: sums, sizes, payments, charges.     *)
(***************************************************************************)
EXTENDS Payments, Functions, WellFoundedInduction, TLAPS

\* The provers of a leaf that names none, in the order they are tried.
USE SMTT(60), Z3T(60), SMTT(90), Z3T(90)

\* The shape of a list.
LEMMA ListShape ==
  ASSUME NEW S, NEW s \in Seq(S)
  PROVE  Len(s) \in Nat /\ s \in [1..Len(s) -> S] /\ DOMAIN s = 1..Len(s)
  OBVIOUS

\* The empty list, and the others.
LEMMA EmptyList ==
  ASSUME NEW S
  PROVE  /\ <<>> \in Seq(S) /\ Len(<<>>) = 0
         /\ \A s \in Seq(S) : s # <<>> => Len(s) \in Nat \ {0}
  OBVIOUS

\* A list is a function on the numbers up to its length.
LEMMA ListIsFunction == \A S : Seq(S) = UNION {[1..n -> S] : n \in Nat}
  OBVIOUS

\* What Append returns.
LEMMA AppendShape ==
  ASSUME NEW S, NEW s \in Seq(S), NEW e \in S
  PROVE  /\ Append(s, e) \in Seq(S) /\ Append(s, e) # <<>>
         /\ Len(Append(s, e)) = Len(s) + 1
         /\ \A i \in 1..Len(s) : Append(s, e)[i] = s[i]
         /\ Append(s, e)[Len(s) + 1] = e
  OBVIOUS

\* What a concatenation is.
LEMMA ConcatShape ==
  ASSUME NEW S, NEW s \in Seq(S), NEW t \in Seq(S)
  PROVE  /\ s \o t \in Seq(S) /\ Len(s \o t) = Len(s) + Len(t)
         /\ \A i \in 1..(Len(s) + Len(t)) :
              (s \o t)[i] = IF i <= Len(s) THEN s[i] ELSE t[i - Len(s)]
  OBVIOUS

\* The empty list is neutral, and the order of concatenations does not matter.
LEMMA ConcatEmpty ==
  ASSUME NEW S, NEW s \in Seq(S)
  PROVE  s \o <<>> = s /\ <<>> \o s = s
  OBVIOUS

\* Concatenation is associative.
LEMMA ConcatAssoc ==
  ASSUME NEW S, NEW s \in Seq(S), NEW t \in Seq(S), NEW u \in Seq(S)
  PROVE  (s \o t) \o u = s \o (t \o u)
  OBVIOUS

\* The members of a concatenation.
LEMMA ConcatRange ==
  ASSUME NEW S, NEW s \in Seq(S), NEW t \in Seq(S)
  PROVE  Range(s \o t) = Range(s) \cup Range(t)
  <1>1. ASSUME NEW i \in DOMAIN (s \o t)
        PROVE  \/ i \in DOMAIN s /\ (s \o t)[i] = s[i]
               \/ i - Len(s) \in DOMAIN t /\ (s \o t)[i] = t[i - Len(s)]
    BY ConcatShape, ListShape
  <1>2. ASSUME NEW i \in DOMAIN s
        PROVE  i \in DOMAIN (s \o t) /\ (s \o t)[i] = s[i]
    BY ConcatShape, ListShape
  <1>3. ASSUME NEW i \in DOMAIN t
        PROVE  Len(s) + i \in DOMAIN (s \o t) /\ (s \o t)[Len(s) + i] = t[i]
    BY ConcatShape, ListShape
  <1>4. ASSUME NEW x \in Range(s \o t) PROVE x \in Range(s) \cup Range(t)
    <2>1. PICK i \in DOMAIN (s \o t) : x = (s \o t)[i]
      BY DEF Range
    <2> QED
      BY <1>1, <2>1 DEF Range
  <1>5. ASSUME NEW x \in Range(s) PROVE x \in Range(s \o t)
    BY <1>2 DEF Range
  <1>6. ASSUME NEW x \in Range(t) PROVE x \in Range(s \o t)
    <2>1. PICK i \in DOMAIN t : x = t[i]
      BY DEF Range
    <2>2. PICK k : k = Len(s) + i
      OBVIOUS
    <2> QED
      BY <1>3, <2>1, <2>2, ZenonT(60) DEF Range
  <1> QED
    BY <1>4, <1>5, <1>6

-----------------------------------------------------------------------------
(* Recursion over lists.  The induction is the one over the natural        *)
(* numbers, by the least element of a set of them.                         *)

\* The order of the natural numbers is well-founded.
LEMMA NatOrder ==
  \E R : IsWellFoundedOn(R, Nat) /\ \A x, y \in Nat : <<y, x>> \in R <=> y < x
  <1>1. \A x, y \in Nat : <<y, x>> \in OpToRel(<, Nat) <=> y < x
    BY DEF OpToRel
  <1> QED
    BY NatLessThanWellFounded, <1>1, ZenonT(60)

\* A set of natural numbers has a least element.
LEMMA Least ==
  ASSUME NEW T \in SUBSET Nat, T # {}
  PROVE  \E m \in T : \A k \in T : m <= k
  <1>1. PICK R : /\ IsWellFoundedOn(R, Nat)
                 /\ \A x, y \in Nat : <<y, x>> \in R <=> y < x
    BY NatOrder
  <1>2. PICK m \in T : \A k \in T : ~ (<<k, m>> \in R)
    BY <1>1, WFMin, ZenonT(60)
  <1>3. \A k \in T : k \in Nat /\ m \in Nat
    OBVIOUS
  <1>4. \A k \in T : ~ (k < m)
    BY <1>1, <1>2, <1>3, ZenonT(60)
  <1> QED
    BY <1>3, <1>4

\* Induction: a set with 0 and the successor of each member is all of Nat.
LEMMA Induct ==
  ASSUME NEW T \in SUBSET Nat, 0 \in T, \A n \in Nat : n \in T => n + 1 \in T
  PROVE  \A n \in Nat : n \in T
  <1> SUFFICES ASSUME Nat \ T # {} PROVE FALSE
    OBVIOUS
  <1>1. PICK m \in Nat \ T : \A k \in Nat \ T : m <= k
    BY Least, Nat \ T \in SUBSET Nat, ZenonT(60)
  <1>2. m - 1 \in Nat
    OBVIOUS
  <1>3. m - 1 \in T
    BY <1>1, <1>2
  <1>4. (m - 1) + 1 \in T
    BY <1>2, <1>3
  <1> QED
    BY <1>1, <1>4

\* f takes N steps from b.
Computes(f, V, b, N, step) ==
  /\ f \in [0..N -> V] /\ f[0] = b
  /\ \A n \in 1..N : f[n] = step[n][f[n - 1]]

\* The values of a recursive definition exist: each step has a result.
LEMMA Recursion ==
  ASSUME NEW V, NEW b \in V, NEW N \in Nat, NEW step \in [1..N -> [V -> V]]
  PROVE  \E f : Computes(f, V, b, N, step)
  <1> DEFINE Good(f, k) == f[0] = b /\ \A n \in 1..k : f[n] = step[n][f[n - 1]]
             T == {k \in Nat : k <= N => \E f \in [0..N -> V] : Good(f, k)}
  <1>1. 0 \in T
    <2>1. /\ [n \in 0..N |-> b] \in [0..N -> V]
          /\ Good([n \in 0..N |-> b], 0)
      OBVIOUS
    <2> QED
      BY <2>1, ZenonT(60)
  <1>2. ASSUME NEW k \in Nat, k \in T
        PROVE  k + 1 \in T
    <2> SUFFICES ASSUME k + 1 <= N
                 PROVE  \E f \in [0..N -> V] : Good(f, k + 1)
      OBVIOUS
    <2>1. PICK f \in [0..N -> V] : Good(f, k)
      BY <1>2
    <2> DEFINE g == [f EXCEPT ![k + 1] = step[k + 1][f[k]]]
    <2>2. step[k + 1][f[k]] \in V
      OBVIOUS
    <2>3. g \in [0..N -> V]
      BY <2>2
    <2>4. (\A n \in 0..k : g[n] = f[n]) /\ g[k + 1] = step[k + 1][f[k]]
      OBVIOUS
    <2>5. Good(g, k + 1)
      <3>1. g[0] = b
        BY <2>1, <2>4
      <3>2. ASSUME NEW n \in 1..(k + 1) PROVE g[n] = step[n][g[n - 1]]
        <4>1. CASE n = k + 1
          BY <2>4, <4>1
        <4>2. CASE n \in 1..k
          BY <2>1, <2>4, <4>2
        <4> QED
          BY <4>1, <4>2
      <3> HIDE DEF g
      <3> QED
        BY <3>1, <3>2
    <2> QED
      BY <2>3, <2>5, ZenonT(60)
  <1> HIDE DEF T
  <1>3. \A n \in Nat : n \in T
    BY <1>1, <1>2, Induct, ZenonT(60) DEF T
  <1> QED
    BY <1>3 DEF T, Computes

\* A function that is defined by these steps takes them.
LEMMA Takes ==
  ASSUME NEW V, NEW b \in V, NEW N \in Nat, NEW step \in [1..N -> [V -> V]],
         NEW f, f = [n \in 0..N |-> f[n]], f[0] = b,
         \A n \in 1..N : f[n - 1] \in V => f[n] = step[n][f[n - 1]]
  PROVE  Computes(f, V, b, N, step)
  <1> DEFINE T == {n \in Nat : n <= N => f[n] \in V}
  <1>1. 0 \in T
    OBVIOUS
  <1>2. ASSUME NEW n \in Nat, n \in T
        PROVE  n + 1 \in T
    <2> SUFFICES ASSUME n + 1 <= N PROVE f[n + 1] \in V
      OBVIOUS
    <2>1. n + 1 \in 1..N /\ (n + 1) - 1 = n /\ f[n] \in V
      BY <1>2
    <2>2. f[n + 1] = step[n + 1][f[n]]
      BY <2>1, ZenonT(60)
    <2>3. step[n + 1] \in [V -> V]
      BY <2>1
    <2> QED
      BY <2>1, <2>2, <2>3
  <1> HIDE DEF T
  <1>3. \A n \in Nat : n \in T
    BY <1>1, <1>2, Induct, ZenonT(60) DEF T
  <1>4. \A n \in 0..N : f[n] \in V
    BY <1>3 DEF T
  <1>5. f \in [0..N -> V]
    BY <1>4
  <1>6. \A n \in 1..N : n - 1 \in 0..N
    OBVIOUS
  <1> QED
    BY <1>4, <1>5, <1>6, ZenonT(60) DEF Computes

\* Two computations whose first M steps are the same.
Agree(step, step2, V, M) == \A n \in 1..M, v \in V : step[n][v] = step2[n][v]

\* The computation with one more step goes on from the result of the other.
LEMMA OneMore ==
  ASSUME NEW V, NEW b, NEW M \in Nat, NEW step, NEW step2, NEW f, NEW g,
         Computes(f, V, b, M, step), Computes(g, V, b, M + 1, step2),
         Agree(step, step2, V, M)
  PROVE  f[M] \in V /\ g[M + 1] = step2[M + 1][f[M]]
  <1> DEFINE T == {n \in Nat : n <= M => f[n] = g[n]}
  <1>1. 0 \in T
    BY DEF Computes
  <1>2. ASSUME NEW n \in Nat, n \in T
        PROVE  n + 1 \in T
    <2> SUFFICES ASSUME n + 1 <= M PROVE f[n + 1] = g[n + 1]
      OBVIOUS
    <2>1. n + 1 \in 1..M /\ n + 1 \in 1..(M + 1) /\ n \in 0..M /\ (n + 1) - 1 = n
      OBVIOUS
    <2>2. f[n] = g[n] /\ f[n] \in V
      BY <1>2, <2>1 DEF Computes
    <2>3. f[n + 1] = step[n + 1][f[n]] /\ g[n + 1] = step2[n + 1][g[n]]
      BY <2>1 DEF Computes
    <2> QED
      BY <2>1, <2>2, <2>3 DEF Agree
  <1> HIDE DEF T
  <1>3. \A n \in Nat : n \in T
    BY <1>1, <1>2, Induct, ZenonT(60) DEF T
  <1>4. f[M] = g[M]
    BY <1>3 DEF T
  <1>5. M + 1 \in 1..(M + 1) /\ (M + 1) - 1 = M /\ M \in 0..M
    OBVIOUS
  <1> QED
    BY <1>4, <1>5 DEF Computes

\* Induction over lists, from the front to the end.
LEMMA ListInduct ==
  ASSUME NEW S, NEW T \in SUBSET Seq(S), <<>> \in T,
         \A s \in Seq(S), e \in S : s \in T => Append(s, e) \in T
  PROVE  \A s \in Seq(S) : s \in T
  <1> DEFINE U == {n \in Nat : \A s \in Seq(S) : Len(s) = n => s \in T}
  <1>1. 0 \in U
    BY EmptyList
  <1>2. ASSUME NEW n \in Nat, n \in U
        PROVE  n + 1 \in U
    <2> SUFFICES ASSUME NEW s \in Seq(S), Len(s) = n + 1 PROVE s \in T
      OBVIOUS
    <2> DEFINE r == [i \in 1..n |-> s[i]]
    <2>1. s \in [1..(n + 1) -> S]
      BY ListShape
    <2>2. r \in Seq(S) /\ Len(r) = n /\ s[n + 1] \in S
      <3>1. r \in [1..n -> S] /\ s[n + 1] \in S
        BY <2>1
      <3>2. r \in Seq(S)
        BY <3>1, ListIsFunction
      <3> QED
        BY <3>1, <3>2
    <2>3. s = Append(r, s[n + 1])
      <3>1. \A i \in 1..n : r[i] = s[i]
        OBVIOUS
      <3> HIDE DEF r
      <3> DEFINE a == Append(r, s[n + 1])
      <3>2. a \in Seq(S) /\ Len(a) = n + 1 /\ a[n + 1] = s[n + 1]
            /\ \A i \in 1..n : a[i] = r[i]
        BY <2>2, AppendShape
      <3> HIDE DEF a
      <3>3. a \in [1..(n + 1) -> S]
        BY <3>2, ListShape
      <3>4. \A i \in 1..(n + 1) : a[i] = s[i]
        <4> SUFFICES ASSUME NEW i \in 1..(n + 1) PROVE a[i] = s[i]
          BY ZenonT(60)
        <4>1. i = n + 1 \/ i \in 1..n
          OBVIOUS
        <4> QED
          BY <3>1, <3>2, <4>1, ZenonT(60)
      <3>5. a = s
        BY <2>1, <3>3, <3>4
      <3> QED
        BY <3>5 DEF a
    <2>4. r \in T
      BY <1>2, <2>2
    <2> HIDE DEF r
    <2> QED
      BY <2>2, <2>3, <2>4, ZenonT(60)
  <1> HIDE DEF U
  <1>3. \A n \in Nat : n \in U
    BY <1>1, <1>2, Induct, ZenonT(60) DEF U
  <1> QED
    BY <1>3, ListShape DEF U

\* A function of the first natural numbers is a list.
LEMMA ListOf ==
  ASSUME NEW S, NEW n \in Nat, NEW f \in [1..n -> S]
  PROVE  f \in Seq(S) /\ Len(f) = n
  <1>1. f \in Seq(S)
    BY ListIsFunction
  <1> QED
    BY <1>1, ListShape

\* m is the list s and then e.
Continues(m, s, e) ==
  /\ m = [n \in 1..(Len(s) + 1) |-> m[n]]
  /\ \A n \in 1..Len(s) : m[n] = s[n]
  /\ m[Len(s) + 1] = e

\* A list that continues another one by an element is Append's result.
LEMMA IsAppend ==
  ASSUME NEW S, NEW s \in Seq(S), NEW e \in S, NEW m, Continues(m, s, e)
  PROVE  m = Append(s, e)
  <1> DEFINE a == Append(s, e)
  <1>1. a \in Seq(S) /\ Len(a) = Len(s) + 1 /\ Len(s) \in Nat
        /\ a[Len(s) + 1] = e /\ \A i \in 1..Len(s) : a[i] = s[i]
    BY AppendShape, ListShape
  <1> HIDE DEF a
  <1>2. a = [n \in 1..(Len(s) + 1) |-> a[n]]
    BY <1>1, ListShape
  <1>3. \A n \in 1..(Len(s) + 1) : a[n] = m[n]
    <2> SUFFICES ASSUME NEW n \in 1..(Len(s) + 1) PROVE a[n] = m[n]
      OBVIOUS
    <2>1. n = Len(s) + 1 \/ n \in 1..Len(s)
      BY <1>1
    <2> QED
      BY <1>1, <2>1, ZenonT(60) DEF Continues
  <1>4. a = m
    BY <1>2, <1>3 DEF Continues
  <1> QED
    BY <1>4 DEF a

\* m has a value in V for each element of s, k also has v for e.
Grows(V, m, k, s, e, v) ==
  /\ m = [n \in DOMAIN s |-> m[n]] /\ k = [n \in DOMAIN Append(s, e) |-> k[n]]
  /\ \A n \in DOMAIN s : m[n] \in V /\ k[n] = m[n]
  /\ v \in V /\ k[Len(s) + 1] = v

\* What is computed from each element of a list is a list, too.
LEMMA Mapped ==
  ASSUME NEW S, NEW V, NEW s \in Seq(S), NEW e \in S, NEW m, NEW k, NEW v,
         Grows(V, m, k, s, e, v)
  PROVE  m \in Seq(V) /\ v \in V /\ k = Append(m, v)
  <1>1. /\ Len(s) \in Nat /\ DOMAIN s = 1..Len(s)
        /\ DOMAIN Append(s, e) = 1..(Len(s) + 1)
    BY ListShape, AppendShape
  <1>2. m \in [1..Len(s) -> V]
    BY <1>1, ZenonT(60) DEF Grows
  <1>3. m \in Seq(V) /\ Len(m) = Len(s)
    BY <1>1, <1>2, ListOf
  <1>4. Continues(k, m, v)
    BY <1>1, <1>3, ZenonT(60) DEF Continues, Grows
  <1>5. v \in V /\ k = Append(m, v)
    BY <1>3, <1>4, IsAppend, ZenonT(60) DEF Grows
  <1> QED
    BY <1>3, <1>5

-----------------------------------------------------------------------------
(* Sums.                                                                   *)

SumStep(s) == [n \in 1..Len(s) |-> [v \in Int |-> v + s[n]]]

\* Sum adds the elements one after the other.
LEMMA SumDef ==
  ASSUME NEW s \in Seq(Int)
  PROVE  \E f : Computes(f, Int, 0, Len(s), SumStep(s)) /\ Sum(s) = f[Len(s)]
  <1> DEFINE N == Len(s)
             Def(g) == [n \in 0..N |-> IF n = 0 THEN 0 ELSE g[n - 1] + s[n]]
             f == CHOOSE g : g = Def(g)
  <1>1. N \in Nat /\ 0 \in Int /\ \A n \in 1..N : s[n] \in Int
    OBVIOUS
  <1>2. /\ SumStep(s) \in [1..N -> [Int -> Int]]
        /\ \A n \in 1..N, v \in Int : SumStep(s)[n][v] = v + s[n]
    BY <1>1 DEF SumStep
  <1>3. PICK g : Computes(g, Int, 0, N, SumStep(s))
    BY <1>1, <1>2, Recursion, ZenonT(60)
  <1>4. g = Def(g)
    <2>1. /\ g \in [0..N -> Int] /\ g[0] = 0
          /\ \A n \in 1..N : g[n] = SumStep(s)[n][g[n - 1]]
      BY <1>3 DEF Computes
    <2>2. \A n \in 0..N : n # 0 => n \in 1..N /\ n - 1 \in 0..N
      BY <1>1
    <2>3. \A n \in 0..N : g[n] = IF n = 0 THEN 0 ELSE g[n - 1] + s[n]
      BY <1>2, <2>1, <2>2, ZenonT(60)
    <2> QED
      BY <2>1, <2>3
  <1>5. f = Def(f)
    BY <1>4, ZenonT(60)
  <1>6. Sum(s) = f[N]
    BY DEF Sum
  <1> HIDE DEF f
  <1>7. f = [n \in 0..N |-> f[n]] /\ f[0] = 0
    BY <1>1, <1>5
  <1>8. \A n \in 1..N : f[n - 1] \in Int => f[n] = SumStep(s)[n][f[n - 1]]
    <2>1. \A n \in 1..N : n \in 0..N /\ n # 0
      BY <1>1
    <2>2. \A n \in 1..N : f[n] = f[n - 1] + s[n]
      BY <1>5, <2>1, ZenonT(60)
    <2> QED
      BY <1>2, <2>2, ZenonT(60)
  <1>9. Computes(f, Int, 0, N, SumStep(s))
    BY <1>1, <1>2, <1>7, <1>8, Takes, ZenonT(60)
  <1> QED
    BY <1>6, <1>9

\* The empty sum, and one more element.
LEMMA SumAppend ==
  /\ Sum(<<>>) = 0
  /\ \A s \in Seq(Int) : Sum(s) \in Int
  /\ \A s \in Seq(Int), e \in Int : Sum(Append(s, e)) = Sum(s) + e
  <1>1. Sum(<<>>) = 0
    <2>1. <<>> \in Seq(Int) /\ Len(<<>>) = 0
      OBVIOUS
    <2>2. PICK f : Computes(f, Int, 0, 0, SumStep(<<>>)) /\ Sum(<<>>) = f[0]
      BY <2>1, SumDef, ZenonT(60)
    <2> QED
      BY <2>2 DEF Computes
  <1>2. ASSUME NEW s \in Seq(Int)
        PROVE  Sum(s) \in Int
    <2>1. PICK f : Computes(f, Int, 0, Len(s), SumStep(s)) /\ Sum(s) = f[Len(s)]
      BY SumDef
    <2>2. Len(s) \in 0..Len(s)
      OBVIOUS
    <2> QED
      BY <2>1, <2>2, ZenonT(60) DEF Computes
  <1>3. ASSUME NEW s \in Seq(Int), NEW e \in Int
        PROVE  Sum(Append(s, e)) = Sum(s) + e
    <2> DEFINE t == Append(s, e)
               M == Len(s)
    <2>1. /\ t \in Seq(Int) /\ M \in Nat /\ Len(t) = M + 1
          /\ t[M + 1] = e /\ \A n \in 1..M : t[n] = s[n] /\ s[n] \in Int
      BY AppendShape, ListShape
    <2> HIDE DEF t
    <2>2. PICK f : Computes(f, Int, 0, M, SumStep(s)) /\ Sum(s) = f[M]
      BY SumDef
    <2>3. PICK g : Computes(g, Int, 0, M + 1, SumStep(t)) /\ Sum(t) = g[M + 1]
      BY <2>1, SumDef, ZenonT(60)
    <2>4. /\ Agree(SumStep(s), SumStep(t), Int, M)
          /\ \A v \in Int : SumStep(t)[M + 1][v] = v + e
      <3>1. \A n \in 1..M : n \in 1..Len(s) /\ n \in 1..Len(t)
        BY <2>1
      <3>2. M + 1 \in 1..Len(t)
        BY <2>1
      <3> QED
        BY <2>1, <3>1, <3>2, ZenonT(60) DEF Agree, SumStep
    <2>5. f[M] \in Int /\ g[M + 1] = SumStep(t)[M + 1][f[M]]
      BY <2>1, <2>2, <2>3, <2>4, OneMore
    <2> QED
      BY <2>2, <2>3, <2>4, <2>5, ZenonT(60) DEF t
  <1> QED
    BY <1>1, <1>2, <1>3

\* An element goes to the end of a list also when the list ends another one.
LEMMA ConcatAppend ==
  ASSUME NEW S, NEW s \in Seq(S), NEW t \in Seq(S), NEW e \in S
  PROVE  /\ s \o t \in Seq(S) /\ s \o Append(t, e) = Append(s \o t, e)
         /\ s \o <<>> = s
  <1> DEFINE c == s \o t
             m == s \o Append(t, e)
  <1>1. /\ c \in Seq(S) /\ Len(c) = Len(s) + Len(t)
        /\ Len(s) \in Nat /\ Len(t) \in Nat
        /\ \A i \in 1..Len(c) : c[i] = IF i <= Len(s) THEN s[i] ELSE t[i - Len(s)]
    BY ConcatShape, ListShape
  <1>2. /\ Append(t, e) \in Seq(S) /\ Len(Append(t, e)) = Len(t) + 1
        /\ Append(t, e)[Len(t) + 1] = e
        /\ \A i \in 1..Len(t) : Append(t, e)[i] = t[i]
    BY AppendShape
  <1>3. /\ m \in Seq(S) /\ Len(m) = Len(s) + (Len(t) + 1)
        /\ \A i \in 1..Len(m) :
             m[i] = IF i <= Len(s) THEN s[i] ELSE Append(t, e)[i - Len(s)]
    BY <1>2, ConcatShape
  <1>4. s \o <<>> = s
    BY ConcatEmpty
  <1> HIDE DEF m, c
  <1>5. m = [n \in 1..(Len(c) + 1) |-> m[n]]
    <2>1. Len(m) = Len(c) + 1
      BY <1>1, <1>3
    <2> QED
      BY <1>3, <2>1, ListShape, ZenonT(60)
  <1>6. m[Len(c) + 1] = e
    <2>1. /\ Len(c) + 1 \in 1..Len(m) /\ ~ (Len(c) + 1 <= Len(s))
          /\ Len(c) + 1 - Len(s) = Len(t) + 1
      BY <1>1, <1>3
    <2> QED
      BY <1>2, <1>3, <2>1
  <1>7. ASSUME NEW n \in 1..Len(c) PROVE m[n] = c[n]
    <2>1. n \in 1..Len(m) /\ (~ (n <= Len(s)) => n - Len(s) \in 1..Len(t))
      BY <1>1, <1>3
    <2> QED
      BY <1>1, <1>2, <1>3, <2>1, ZenonT(60)
  <1>8. m = Append(c, e)
    <2>1. Continues(m, c, e)
      BY <1>5, <1>6, <1>7, ZenonT(60) DEF Continues
    <2> QED
      BY <1>1, <2>1, IsAppend, ZenonT(60)
  <1> QED
    BY <1>1, <1>4, <1>8 DEF m, c

-----------------------------------------------------------------------------
(* Flattening.                                                             *)

FlatStep(ss, S) == [n \in 1..Len(ss) |-> [v \in Seq(S) |-> v \o ss[n]]]

\* Flatten puts the lists one after the other.
LEMMA FlattenDef ==
  ASSUME NEW S, NEW ss \in Seq(Seq(S))
  PROVE  \E f : /\ Computes(f, Seq(S), <<>>, Len(ss), FlatStep(ss, S))
                /\ Flatten(ss) = f[Len(ss)]
  <1> DEFINE N == Len(ss)
             Def(g) == [n \in 0..N |-> IF n = 0 THEN <<>> ELSE g[n - 1] \o ss[n]]
             f == CHOOSE g : g = Def(g)
  <1>1. N \in Nat /\ <<>> \in Seq(S) /\ \A n \in 1..N : ss[n] \in Seq(S)
    OBVIOUS
  <1>2. /\ FlatStep(ss, S) \in [1..N -> [Seq(S) -> Seq(S)]]
        /\ \A n \in 1..N, v \in Seq(S) : FlatStep(ss, S)[n][v] = v \o ss[n]
    <2>1. \A n \in 1..N, v \in Seq(S) : v \o ss[n] \in Seq(S)
      BY <1>1, ConcatShape
    <2> QED
      BY <1>1, <2>1, ZenonT(60) DEF FlatStep
  <1>3. PICK g : Computes(g, Seq(S), <<>>, N, FlatStep(ss, S))
    BY <1>1, <1>2, Recursion, ZenonT(60)
  <1>4. g = Def(g)
    <2>1. /\ g \in [0..N -> Seq(S)] /\ g[0] = <<>>
          /\ \A n \in 1..N : g[n] = FlatStep(ss, S)[n][g[n - 1]]
      BY <1>3 DEF Computes
    <2>2. \A n \in 0..N : n # 0 => n \in 1..N /\ n - 1 \in 0..N
      BY <1>1
    <2>3. \A n \in 0..N : g[n] = IF n = 0 THEN <<>> ELSE g[n - 1] \o ss[n]
      BY <1>2, <2>1, <2>2, ZenonT(60)
    <2> QED
      BY <2>1, <2>3, ZenonT(60)
  <1>5. f = Def(f)
    BY <1>4, ZenonT(60)
  <1>6. Flatten(ss) = f[N]
    BY DEF Flatten
  <1> HIDE DEF f
  <1>7. f = [n \in 0..N |-> f[n]] /\ f[0] = <<>>
    BY <1>1, <1>5
  <1>8. \A n \in 1..N : f[n - 1] \in Seq(S) => f[n] = FlatStep(ss, S)[n][f[n - 1]]
    <2>1. \A n \in 1..N : n \in 0..N /\ n # 0
      BY <1>1
    <2>2. \A n \in 1..N : f[n] = f[n - 1] \o ss[n]
      BY <1>5, <2>1, ZenonT(60)
    <2> QED
      BY <1>2, <2>2, ZenonT(60)
  <1>9. Computes(f, Seq(S), <<>>, N, FlatStep(ss, S))
    BY <1>1, <1>2, <1>7, <1>8, Takes, ZenonT(60)
  <1> QED
    BY <1>6, <1>9

\* No list, and one more list.
LEMMA FlattenAppend ==
  ASSUME NEW S
  PROVE  /\ Flatten(<<>>) = <<>>
         /\ \A ss \in Seq(Seq(S)) : Flatten(ss) \in Seq(S)
         /\ \A ss \in Seq(Seq(S)), e \in Seq(S) :
              Flatten(Append(ss, e)) = Flatten(ss) \o e
  <1>1. Flatten(<<>>) = <<>>
    <2>1. <<>> \in Seq(Seq(S)) /\ Len(<<>>) = 0
      OBVIOUS
    <2>2. PICK f : /\ Computes(f, Seq(S), <<>>, 0, FlatStep(<<>>, S))
                   /\ Flatten(<<>>) = f[0]
      BY <2>1, FlattenDef, ZenonT(60)
    <2> QED
      BY <2>2 DEF Computes
  <1>2. ASSUME NEW ss \in Seq(Seq(S))
        PROVE  Flatten(ss) \in Seq(S)
    <2>1. PICK f : /\ Computes(f, Seq(S), <<>>, Len(ss), FlatStep(ss, S))
                   /\ Flatten(ss) = f[Len(ss)]
      BY FlattenDef
    <2>2. Len(ss) \in 0..Len(ss)
      OBVIOUS
    <2> QED
      BY <2>1, <2>2, ZenonT(60) DEF Computes
  <1>3. ASSUME NEW ss \in Seq(Seq(S)), NEW e \in Seq(S)
        PROVE  Flatten(Append(ss, e)) = Flatten(ss) \o e
    <2> DEFINE t == Append(ss, e)
               M == Len(ss)
    <2>1. /\ t \in Seq(Seq(S)) /\ M \in Nat /\ Len(t) = M + 1
          /\ t[M + 1] = e /\ \A n \in 1..M : t[n] = ss[n]
      BY AppendShape, ListShape
    <2> HIDE DEF t
    <2>2. PICK f : /\ Computes(f, Seq(S), <<>>, M, FlatStep(ss, S))
                   /\ Flatten(ss) = f[M]
      BY FlattenDef
    <2>3. PICK g : /\ Computes(g, Seq(S), <<>>, M + 1, FlatStep(t, S))
                   /\ Flatten(t) = g[M + 1]
      BY <2>1, FlattenDef, ZenonT(60)
    <2>4. /\ Agree(FlatStep(ss, S), FlatStep(t, S), Seq(S), M)
          /\ \A v \in Seq(S) : FlatStep(t, S)[M + 1][v] = v \o e
      <3>1. \A n \in 1..M : n \in 1..Len(ss) /\ n \in 1..Len(t)
        BY <2>1
      <3>2. M + 1 \in 1..Len(t)
        BY <2>1
      <3> QED
        BY <2>1, <3>1, <3>2, ZenonT(60) DEF Agree, FlatStep
    <2>5. f[M] \in Seq(S) /\ g[M + 1] = FlatStep(t, S)[M + 1][f[M]]
      BY <2>1, <2>2, <2>3, <2>4, OneMore
    <2> QED
      BY <2>2, <2>3, <2>4, <2>5, ZenonT(60) DEF t
  <1> QED
    BY <1>1, <1>2, <1>3, ZenonT(60)

\* A flattened list has the elements of its lists.
LEMMA FlattenRange ==
  ASSUME NEW S
  PROVE  \A ss \in Seq(Seq(S)) :
           Range(Flatten(ss)) = UNION {Range(ss[n]) : n \in DOMAIN ss}
  <1> DEFINE All(ss) == UNION {Range(ss[n]) : n \in DOMAIN ss}
             T == {ss \in Seq(Seq(S)) : Range(Flatten(ss)) = All(ss)}
  <1>1. <<>> \in T
    BY FlattenAppend DEF Range
  <1>2. ASSUME NEW ss \in Seq(Seq(S)), NEW e \in Seq(S), ss \in T
        PROVE  Append(ss, e) \in T
    <2>1. Append(ss, e) \in Seq(Seq(S))
      OBVIOUS
    <2>2. Flatten(ss) \in Seq(S) /\ Flatten(Append(ss, e)) = Flatten(ss) \o e
      BY FlattenAppend, ZenonT(60)
    <2>3. Range(Flatten(ss) \o e) = Range(Flatten(ss)) \cup Range(e)
      BY <2>2, ConcatRange
    <2>4. All(Append(ss, e)) = All(ss) \cup Range(e)
      <3>1. /\ DOMAIN Append(ss, e) = DOMAIN ss \cup {Len(ss) + 1}
            /\ \A i \in DOMAIN ss : Append(ss, e)[i] = ss[i]
            /\ Append(ss, e)[Len(ss) + 1] = e
        BY AppendShape, ListShape
      <3> QED
        BY <3>1, ZenonT(60)
    <2> QED
      BY <1>2, <2>1, <2>2, <2>3, <2>4, ZenonT(60)
  <1>3. T \in SUBSET Seq(Seq(S))
    OBVIOUS
  <1> HIDE DEF T
  <1>4. \A ss \in Seq(Seq(S)) : ss \in T
    BY <1>1, <1>2, <1>3, ListInduct, ZenonT(60)
  <1> QED
    BY <1>4, ZenonT(60) DEF T

-----------------------------------------------------------------------------
(* Integers that wrap.                                                     *)

\* Quotient and remainder.
LEMMA Division ==
  ASSUME NEW x \in Int, NEW w \in Nat, w > 0
  PROVE  x % w \in 0..(w - 1) /\ x = w * (x \div w) + (x % w) /\ x \div w \in Int
  <1>1. x % w \in 0..(w - 1)
    OBVIOUS
  <1>2. x \div w \in Int
    OBVIOUS
  <1>3. x = w * (x \div w) + (x % w)
    OBVIOUS
  <1> QED
    BY <1>1, <1>2, <1>3, ZenonT(60)

\* Wrap yields an integer of the width, itself where it fits; an addition that
\* wraps loses nothing when its result is wrapped again.
LEMMA Wraps ==
  /\ \A n \in Int : Wrap(n) \in Int /\ -(MaxInt + 1) <= Wrap(n) /\ Wrap(n) <= MaxInt
  /\ \A n \in Int : n <= MaxInt => n <= Wrap(n)
  /\ \A n \in Int : -(MaxInt + 1) <= n /\ n <= MaxInt => Wrap(n) = n
  /\ \A m, n \in Int : Add(m, n) \in Int
  /\ \A m, n \in Int : Add(Wrap(m), n) = Wrap(m + n)
  /\ \A m, n \in Int : Add(Wrap(m), Wrap(n)) = Wrap(m + n)
  <1> DEFINE H == MaxInt + 1
             W == 2 * H
  <1>1. MaxInt \in Nat /\ H \in Nat /\ H > 0 /\ W \in Nat /\ W > 0 /\ W = H + H
    BY PaymentsAssumption
  <1>2. ASSUME NEW n \in Int
        PROVE  /\ Wrap(n) \in Int /\ -H <= Wrap(n) /\ Wrap(n) < H
               /\ \E k \in Int : n = Wrap(n) + W * k
    <2> DEFINE x == n + MaxInt + 1
    <2>1. x \in Int /\ x = n + H
      BY <1>1
    <2> HIDE DEF x
    <2>2. x % W \in 0..(W - 1) /\ x = W * (x \div W) + (x % W) /\ x \div W \in Int
      BY <1>1, <2>1, Division, ZenonT(60)
    <2>3. Wrap(n) = (x % W) - H
      BY ZenonT(60) DEF Wrap, x
    <2>4. Wrap(n) \in Int /\ -H <= Wrap(n) /\ Wrap(n) < H
      BY <1>1, <2>2, <2>3
    <2>5. n = Wrap(n) + W * (x \div W)
      <3> DEFINE y == W * (x \div W)
      <3>1. y \in Int
        BY <1>1, <2>2
      <3> HIDE DEF y, H, W
      <3> QED
        BY <1>1, <2>1, <2>2, <2>3, <3>1 DEF y
    <2> QED
      BY <2>2, <2>4, <2>5, ZenonT(60)
  <1> HIDE DEF H, W
  <1>3. ASSUME NEW m \in Int, NEW n \in Int, NEW k \in Int, m = n + W * k
        PROVE  Wrap(m) = Wrap(n)
    <2>1. PICK i \in Int : m = Wrap(m) + W * i
      BY <1>2, ZenonT(60)
    <2>2. PICK j \in Int : n = Wrap(n) + W * j
      BY <1>2, ZenonT(60)
    <2> DEFINE d == j + k - i
    <2>3. /\ Wrap(m) \in Int /\ Wrap(n) \in Int
          /\ -H <= Wrap(m) /\ Wrap(m) < H /\ -H <= Wrap(n) /\ Wrap(n) < H
      BY <1>2, ZenonT(60)
    <2>4. d \in Int /\ W * d = W * j + W * k - W * i
      BY <1>1
    <2>5. Wrap(m) - Wrap(n) = W * d
      <3>1. W * i \in Int /\ W * j \in Int /\ W * k \in Int
        BY <1>1
      <3> HIDE DEF d
      <3> QED
        BY <1>3, <2>1, <2>2, <2>3, <2>4, <3>1
    <2>6. -W < W * d /\ W * d < W
      <3> HIDE DEF d
      <3> QED
        BY <1>1, <2>3, <2>5
    <2>7. d = 0
      <3> HIDE DEF d
      <3>1. CASE d >= 1
        <4>1. W * d >= W
          BY <1>1, <2>4, <3>1
        <4> QED
          BY <1>1, <2>4, <2>6, <4>1
      <3>2. CASE d <= -1
        <4>1. W * d <= -W
          BY <1>1, <2>4, <3>2
        <4> QED
          BY <1>1, <2>4, <2>6, <4>1
      <3> QED
        BY <2>4, <3>1, <3>2
    <2> QED
      BY <1>1, <2>3, <2>5, <2>7
  <1>4. ASSUME NEW n \in Int
        PROVE  Wrap(n) \in Int /\ -(MaxInt + 1) <= Wrap(n) /\ Wrap(n) <= MaxInt
    BY <1>1, <1>2 DEF H
  <1>5. ASSUME NEW n \in Int, -(MaxInt + 1) <= n, n <= MaxInt
        PROVE  Wrap(n) = n
    <2>1. PICK k \in Int : n = Wrap(n) + W * k
      BY <1>2
    <2>2. Wrap(n) \in Int /\ -H <= Wrap(n) /\ Wrap(n) < H /\ -H <= n /\ n < H
      BY <1>1, <1>2, <1>5 DEF H
    <2>3. k = 0
      <3>1. W * k \in Int /\ -W < W * k /\ W * k < W
        BY <1>1, <2>1, <2>2
      <3>2. CASE k >= 1
        <4>1. W * k >= W
          BY <1>1, <3>2
        <4> QED
          BY <1>1, <3>1, <4>1
      <3>3. CASE k <= -1
        <4>1. W * k <= -W
          BY <1>1, <3>3
        <4> QED
          BY <1>1, <3>1, <4>1
      <3> QED
        BY <3>2, <3>3
    <2> QED
      BY <1>1, <2>1, <2>2, <2>3
  <1>6. ASSUME NEW n \in Int, n <= MaxInt PROVE n <= Wrap(n)
    <2>1. CASE -(MaxInt + 1) <= n
      BY <1>5, <1>6, <2>1
    <2>2. CASE ~ (-(MaxInt + 1) <= n)
      BY <1>1, <1>2, <2>2 DEF H
    <2> QED
      BY <2>1, <2>2
  <1>7. ASSUME NEW m \in Int, NEW n \in Int
        PROVE  Add(Wrap(m), n) = Wrap(m + n)
    <2>1. PICK k \in Int : m = Wrap(m) + W * k
      BY <1>2
    <2>2. Wrap(m) \in Int /\ W * k \in Int
      BY <1>1, <1>2
    <2>3. m + n = (Wrap(m) + n) + W * k /\ m + n \in Int /\ Wrap(m) + n \in Int
      BY <2>1, <2>2
    <2> QED
      BY <1>3, <2>3, ZenonT(60) DEF Add
  <1>8. ASSUME NEW m \in Int, NEW n \in Int
        PROVE  Add(Wrap(m), Wrap(n)) = Wrap(m + n)
    <2>1. Wrap(n) \in Int
      BY <1>2
    <2>2. Add(Wrap(m), Wrap(n)) = Wrap(m + Wrap(n))
      BY <1>7, <2>1, ZenonT(60)
    <2>3. m + Wrap(n) = Wrap(n) + m
      BY <2>1
    <2>4. Add(Wrap(n), m) = Wrap(n + m) /\ n + m = m + n
      BY <1>7
    <2> QED
      BY <2>2, <2>3, <2>4, ZenonT(60) DEF Add
  <1>9. ASSUME NEW m \in Int, NEW n \in Int PROVE Add(m, n) \in Int
    <2>1. m + n \in Int
      OBVIOUS
    <2> QED
      BY <1>4, <2>1 DEF Add
  <1> QED
    BY <1>4, <1>5, <1>6, <1>7, <1>8, <1>9, ZenonT(60)

-----------------------------------------------------------------------------
(* Payments.                                                               *)

KeepStep(ps) ==
  [n \in 1..Len(ps) |-> [v \in Seq(Payment) |->
     IF ps[n].to = "other" THEN v ELSE Append(v, ps[n])]]

\* The relevant payments are payments.
LEMMA RelevantType ==
  ASSUME NEW ps \in Seq(Payment)
  PROVE  Relevant(ps) \in Seq(Payment)
  <1> DEFINE N == Len(ps)
             Def(g) == [n \in 0..N |->
                          IF n = 0 THEN <<>>
                          ELSE IF ps[n].to = "other" THEN g[n - 1]
                          ELSE Append(g[n - 1], ps[n])]
             f == CHOOSE g : g = Def(g)
  <1>1. /\ N \in Nat /\ <<>> \in Seq(Payment)
        /\ \A n \in 1..N : ps[n] \in Payment
    OBVIOUS
  <1>2. /\ KeepStep(ps) \in [1..N -> [Seq(Payment) -> Seq(Payment)]]
        /\ \A n \in 1..N, v \in Seq(Payment) :
             KeepStep(ps)[n][v] = IF ps[n].to = "other" THEN v
                                  ELSE Append(v, ps[n])
    BY <1>1, AppendShape DEF KeepStep
  <1>3. PICK g : Computes(g, Seq(Payment), <<>>, N, KeepStep(ps))
    BY <1>1, <1>2, Recursion, ZenonT(60)
  <1>4. g = Def(g)
    <2>1. /\ g \in [0..N -> Seq(Payment)] /\ g[0] = <<>>
          /\ \A n \in 1..N : g[n] = KeepStep(ps)[n][g[n - 1]]
      BY <1>3 DEF Computes
    <2>2. \A n \in 0..N : n # 0 => n \in 1..N /\ n - 1 \in 0..N
      BY <1>1
    <2>3. \A n \in 0..N : g[n] = IF n = 0 THEN <<>>
                                 ELSE IF ps[n].to = "other" THEN g[n - 1]
                                 ELSE Append(g[n - 1], ps[n])
      BY <1>2, <2>1, <2>2, ZenonT(60)
    <2> QED
      BY <2>1, <2>3, ZenonT(60)
  <1>5. f = Def(f)
    BY <1>4, ZenonT(60)
  <1>6. Relevant(ps) = f[N]
    BY DEF Relevant
  <1> HIDE DEF f
  <1>7. f = [n \in 0..N |-> f[n]] /\ f[0] = <<>>
    BY <1>1, <1>5
  <1>8. \A n \in 1..N :
           f[n - 1] \in Seq(Payment) => f[n] = KeepStep(ps)[n][f[n - 1]]
    <2>1. \A n \in 1..N : n \in 0..N /\ n # 0
      BY <1>1
    <2>2. \A n \in 1..N : f[n] = IF ps[n].to = "other" THEN f[n - 1]
                                 ELSE Append(f[n - 1], ps[n])
      BY <1>5, <2>1, ZenonT(60)
    <2> QED
      BY <1>2, <2>2
  <1>9. Computes(f, Seq(Payment), <<>>, N, KeepStep(ps))
    BY <1>1, <1>2, <1>7, <1>8, Takes, ZenonT(60)
  <1>10. N \in 0..N
    BY <1>1
  <1> QED
    BY <1>6, <1>9, <1>10, ZenonT(60) DEF Computes

\* The relevant payments in one transaction.
PaymentsIn(t) == IF Readable(t) THEN Relevant(Pays[t]) ELSE <<>>

\* Those of a list, one transaction after the other.
LEMMA PaymentsAppend ==
  /\ PaymentsOf(<<>>) = <<>>
  /\ \A t \in Txs : PaymentsIn(t) \in Seq(Payment)
  /\ \A s \in Seq(Txs) : PaymentsOf(s) \in Seq(Payment)
  /\ \A s \in Seq(Txs), t \in Txs :
       PaymentsOf(Append(s, t)) = PaymentsOf(s) \o PaymentsIn(t)
  <1> DEFINE Lists(s) == [i \in DOMAIN s |-> PaymentsIn(s[i])]
  <1>1. \A t \in Txs : PaymentsIn(t) \in Seq(Payment)
    BY RelevantType, PaymentsAssumption DEF PaymentsIn, Readable
  <1>2. \A s : PaymentsOf(s) = Flatten(Lists(s))
    BY DEF PaymentsOf, PaymentsIn
  <1>3. \A s \in Seq(Txs) : Lists(s) \in Seq(Seq(Payment))
                            /\ Len(Lists(s)) = Len(s)
    <2> SUFFICES ASSUME NEW s \in Seq(Txs)
                 PROVE  Lists(s) \in Seq(Seq(Payment)) /\ Len(Lists(s)) = Len(s)
      BY ZenonT(60)
    <2>1. Len(s) \in Nat /\ DOMAIN s = 1..Len(s) /\ \A i \in 1..Len(s) : s[i] \in Txs
      BY ListShape
    <2>2. Lists(s) \in [1..Len(s) -> Seq(Payment)]
      BY <1>1, <2>1, ZenonT(60)
    <2>3. Lists(s) \in Seq(Seq(Payment))
      BY <2>1, <2>2, ListOf, ZenonT(60)
    <2> QED
      BY <2>1, <2>2, <2>3, ListShape
  <1>4. PaymentsOf(<<>>) = <<>>
    <2>1. Lists(<<>>) = <<>>
      BY EmptyList
    <2> QED
      BY <1>2, <2>1, FlattenAppend, ZenonT(60)
  <1>5. ASSUME NEW s \in Seq(Txs), NEW t \in Txs
        PROVE  PaymentsOf(Append(s, t)) = PaymentsOf(s) \o PaymentsIn(t)
    <2> DEFINE a == Append(s, t)
    <2>1. /\ a \in Seq(Txs) /\ Len(s) \in Nat /\ DOMAIN s = 1..Len(s)
          /\ DOMAIN a = 1..(Len(s) + 1)
          /\ \A i \in 1..Len(s) : a[i] = s[i] /\ i \in 1..(Len(s) + 1)
          /\ a[Len(s) + 1] = t /\ Len(s) + 1 \in 1..(Len(s) + 1)
      BY AppendShape, ListShape
    <2> HIDE DEF a
    <2>2. Continues(Lists(a), Lists(s), PaymentsIn(t))
      <3>1. Len(Lists(s)) = Len(s)
        BY <1>3, ZenonT(60)
      <3> QED
        BY <2>1, <3>1, ZenonT(60) DEF Continues
    <2>3. Lists(a) = Append(Lists(s), PaymentsIn(t))
      <3> HIDE DEF Lists
      <3>1. Lists(s) \in Seq(Seq(Payment)) /\ PaymentsIn(t) \in Seq(Payment)
        BY <1>1, <1>3, ZenonT(60)
      <3> QED
        BY <2>2, <3>1, IsAppend, ZenonT(60)
    <2> HIDE DEF Lists
    <2>4. Flatten(Append(Lists(s), PaymentsIn(t))) = Flatten(Lists(s)) \o PaymentsIn(t)
      BY <1>1, <1>3, FlattenAppend, ZenonT(60)
    <2> QED
      BY <1>2, <2>3, <2>4, ZenonT(60) DEF a
  <1> HIDE DEF Lists
  <1>6. \A s \in Seq(Txs) : PaymentsOf(s) \in Seq(Payment)
    BY <1>2, <1>3, FlattenAppend, ZenonT(60)
  <1> QED
    BY <1>1, <1>4, <1>5, <1>6, ZenonT(60)

\* The payments in two lists are those of the one, then those of the other.
LEMMA PaymentsConcat ==
  ASSUME NEW s \in Seq(Txs)
  PROVE  \A t \in Seq(Txs) : PaymentsOf(s \o t) = PaymentsOf(s) \o PaymentsOf(t)
  <1> DEFINE T == {t \in Seq(Txs) :
                     PaymentsOf(s \o t) = PaymentsOf(s) \o PaymentsOf(t)}
  <1>1. <<>> \in T
    BY PaymentsAppend, ConcatEmpty
  <1>2. ASSUME NEW t \in Seq(Txs), NEW e \in Txs, t \in T
        PROVE  Append(t, e) \in T
    <2>1. Append(t, e) \in Seq(Txs)
      OBVIOUS
    <2>2. s \o t \in Seq(Txs) /\ s \o Append(t, e) = Append(s \o t, e)
      BY ConcatAppend
    <2>3. PaymentsOf(s \o Append(t, e))
            = (PaymentsOf(s) \o PaymentsOf(t)) \o PaymentsIn(e)
      BY <1>2, <2>2, PaymentsAppend, ZenonT(60)
    <2>4. /\ PaymentsOf(s) \in Seq(Payment) /\ PaymentsOf(t) \in Seq(Payment)
          /\ PaymentsIn(e) \in Seq(Payment)
          /\ PaymentsOf(Append(t, e)) = PaymentsOf(t) \o PaymentsIn(e)
      BY PaymentsAppend, ZenonT(60)
    <2>5. (PaymentsOf(s) \o PaymentsOf(t)) \o PaymentsIn(e)
            = PaymentsOf(s) \o (PaymentsOf(t) \o PaymentsIn(e))
      BY <2>4, ConcatAssoc
    <2> QED
      BY <2>1, <2>3, <2>4, <2>5, ZenonT(60)
  <1>3. T \in SUBSET Seq(Txs)
    OBVIOUS
  <1> HIDE DEF T
  <1>4. \A t \in Seq(Txs) : t \in T
    BY <1>1, <1>2, <1>3, ListInduct, ZenonT(60)
  <1> QED
    BY <1>4, ZenonT(60) DEF T

\* Encoding the transactions of a bid again leaves its payments as they are.
LEMMA PaymentsNormalized ==
  ASSUME NEW txs \in Seq(Txs)
  PROVE  PaymentsOf(Normalize(txs)) = PaymentsOf(txs)
  <1>1. /\ DOMAIN Normalize(txs) = DOMAIN txs
        /\ \A i \in DOMAIN txs : txs[i] \in Txs
    BY ListShape DEF Normalize
  <1>2. ASSUME NEW i \in DOMAIN txs
        PROVE  PaymentsIn(Normalize(txs)[i]) = PaymentsIn(txs[i])
    <2>1. CASE Readable(txs[i])
      <3>1. Normalize(txs)[i] = Normal[txs[i]]
        BY <2>1 DEF Normalize
      <3>2. /\ Normal[txs[i]] \in Decodes /\ Normal[Normal[txs[i]]] # NULL
            /\ Pays[Normal[txs[i]]] = Pays[txs[i]]
        BY <2>1, NormalAssumption DEF Readable
      <3> QED
        BY <2>1, <3>1, <3>2 DEF PaymentsIn, Readable
    <2>2. CASE ~ Readable(txs[i])
      BY <2>2, ZenonT(60) DEF Normalize
    <2> QED
      BY <2>1, <2>2
  <1>3. [i \in DOMAIN Normalize(txs) |-> PaymentsIn(Normalize(txs)[i])]
          = [i \in DOMAIN txs |-> PaymentsIn(txs[i])]
    BY <1>1, <1>2, ZenonT(60)
  <1> QED
    BY <1>3, ZenonT(60) DEF PaymentsOf, PaymentsIn

\* The amounts that go to one side, those that a sender pays.
AmountTo(p, to) == IF p.to = to THEN p.amount ELSE 0
AmountBy(p, a) == IF p.from = a THEN p.amount ELSE 0
SumTo(ps, to) == Sum([i \in DOMAIN ps |-> AmountTo(ps[i], to)])

\* The sum then grows by v.
LEMMA SumMore ==
  ASSUME NEW S, NEW s \in Seq(S), NEW e \in S, NEW m, NEW k, NEW v,
         Grows(Int, m, k, s, e, v)
  PROVE  Sum(m) \in Int /\ Sum(k) = Sum(m) + v
  <1>1. m \in Seq(Int) /\ v \in Int /\ k = Append(m, v)
    BY Mapped
  <1> QED
    BY <1>1, SumAppend, ZenonT(60)

\* What a list of payments brings to one side, payment by payment.
LEMMA SumToAppend ==
  ASSUME NEW to
  PROVE  /\ SumTo(<<>>, to) = 0
         /\ \A ps \in Seq(Payment) : SumTo(ps, to) \in Int
         /\ \A ps \in Seq(Payment), p \in Payment :
              SumTo(Append(ps, p), to) = SumTo(ps, to) + AmountTo(p, to)
  <1>1. SumTo(<<>>, to) = 0
    <2>1. [i \in DOMAIN <<>> |-> AmountTo(<<>>[i], to)] = <<>>
      BY EmptyList
    <2> QED
      BY <2>1, SumAppend DEF SumTo
  <1>2. \A p \in Payment : AmountTo(p, to) \in Int
    BY DEF AmountTo, Payment
  <1>3. ASSUME NEW ps \in Seq(Payment)
        PROVE  SumTo(ps, to) \in Int
    <2> DEFINE m == [i \in DOMAIN ps |-> AmountTo(ps[i], to)]
    <2>1. m \in Seq(Int)
      <3>1. Len(ps) \in Nat /\ DOMAIN ps = 1..Len(ps)
            /\ \A i \in 1..Len(ps) : ps[i] \in Payment
        BY ListShape
      <3>2. m \in [1..Len(ps) -> Int]
        BY <1>2, <3>1
      <3> QED
        BY <3>1, <3>2, ListOf
    <2> QED
      BY <2>1, SumAppend, ZenonT(60) DEF SumTo
  <1>4. ASSUME NEW ps \in Seq(Payment), NEW p \in Payment
        PROVE  SumTo(Append(ps, p), to) = SumTo(ps, to) + AmountTo(p, to)
    <2> DEFINE q == Append(ps, p)
               m == [i \in DOMAIN ps |-> AmountTo(ps[i], to)]
               k == [i \in DOMAIN q |-> AmountTo(q[i], to)]
    <2>1. /\ DOMAIN q = DOMAIN ps \cup {Len(ps) + 1}
          /\ \A i \in DOMAIN ps : q[i] = ps[i] /\ ps[i] \in Payment
          /\ q[Len(ps) + 1] = p
      BY AppendShape, ListShape
    <2>2. \A n \in DOMAIN ps : m[n] \in Int /\ k[n] = m[n]
      BY <1>2, <2>1, ZenonT(60)
    <2>3. k[Len(ps) + 1] = AmountTo(p, to) /\ AmountTo(p, to) \in Int
      BY <1>2, <2>1, ZenonT(60)
    <2>4. m = [n \in DOMAIN ps |-> m[n]] /\ k = [n \in DOMAIN q |-> k[n]]
      OBVIOUS
    <2>5. SumTo(ps, to) = Sum(m) /\ SumTo(q, to) = Sum(k)
      BY DEF SumTo
    <2> HIDE DEF m, k
    <2>6. Grows(Int, m, k, ps, p, AmountTo(p, to))
      BY <2>2, <2>3, <2>4, ZenonT(60) DEF Grows
    <2>7. Sum(k) = Sum(m) + AmountTo(p, to)
      BY <2>6, SumMore
    <2> QED
      BY <2>5, <2>7, ZenonT(60)
  <1> QED
    BY <1>1, <1>3, <1>4, ZenonT(60)

\* Two lists of payments bring the sum of what each brings.
LEMMA SumToConcat ==
  ASSUME NEW to, NEW s \in Seq(Payment)
  PROVE  \A t \in Seq(Payment) : SumTo(s \o t, to) = SumTo(s, to) + SumTo(t, to)
  <1> DEFINE T == {t \in Seq(Payment) :
                     SumTo(s \o t, to) = SumTo(s, to) + SumTo(t, to)}
  <1>1. <<>> \in T
    BY SumToAppend, ConcatEmpty
  <1>2. ASSUME NEW t \in Seq(Payment), NEW e \in Payment, t \in T
        PROVE  Append(t, e) \in T
    <2>1. Append(t, e) \in Seq(Payment)
      OBVIOUS
    <2>2. s \o t \in Seq(Payment) /\ s \o Append(t, e) = Append(s \o t, e)
      BY ConcatAppend
    <2>3. /\ SumTo(s \o Append(t, e), to) = SumTo(s \o t, to) + AmountTo(e, to)
          /\ SumTo(Append(t, e), to) = SumTo(t, to) + AmountTo(e, to)
          /\ SumTo(s, to) \in Int /\ SumTo(t, to) \in Int
      BY <2>2, SumToAppend, ZenonT(60)
    <2>4. AmountTo(e, to) \in Int
      BY DEF AmountTo, Payment
    <2> QED
      BY <1>2, <2>1, <2>3, <2>4
  <1>3. T \in SUBSET Seq(Payment)
    OBVIOUS
  <1> HIDE DEF T
  <1>4. \A t \in Seq(Payment) : t \in T
    BY <1>1, <1>2, <1>3, ListInduct, ZenonT(60)
  <1> QED
    BY <1>4 DEF T

\* PaidTo is that sum, wrapped.
LEMMA PaidToSum ==
  ASSUME NEW to, NEW ps \in Seq(Payment)
  PROVE  PaidTo(ps, to) = Wrap(SumTo(ps, to)) /\ PaidTo(ps, to) \in Int
  <1>1. PaidTo(ps, to) = Wrap(SumTo(ps, to))
    BY DEF PaidTo, SumTo, AmountTo, Total
  <1>2. SumTo(ps, to) \in Int
    BY SumToAppend, ZenonT(60)
  <1>3. Wrap(SumTo(ps, to)) \in Int
    BY <1>2, Wraps, ZenonT(60)
  <1> QED
    BY <1>1, <1>3, ZenonT(60)

\* What a sender pays, payment by payment.
LEMMA PaidByAppend ==
  ASSUME NEW a
  PROVE  /\ PaidBy(a, <<>>) = 0
         /\ \A ps \in Seq(Payment) : PaidBy(a, ps) \in Int
         /\ \A ps \in Seq(Payment), p \in Payment :
              PaidBy(a, Append(ps, p)) = PaidBy(a, ps) + AmountBy(p, a)
  <1>1. PaidBy(a, <<>>) = 0
    <2>1. [i \in DOMAIN <<>> |->
             IF <<>>[i].from = a THEN <<>>[i].amount ELSE 0] = <<>>
      BY EmptyList
    <2> QED
      BY <2>1, SumAppend, ZenonT(60) DEF PaidBy
  <1>2. \A p \in Payment : AmountBy(p, a) \in Int
    BY DEF AmountBy, Payment
  <1>3. ASSUME NEW ps \in Seq(Payment)
        PROVE  PaidBy(a, ps) \in Int
    <2> DEFINE m == [i \in DOMAIN ps |-> AmountBy(ps[i], a)]
    <2>1. m \in Seq(Int)
      <3>1. Len(ps) \in Nat /\ DOMAIN ps = 1..Len(ps)
            /\ \A i \in 1..Len(ps) : ps[i] \in Payment
        BY ListShape
      <3>2. m \in [1..Len(ps) -> Int]
        BY <1>2, <3>1
      <3> QED
        BY <3>1, <3>2, ListOf
    <2>2. PaidBy(a, ps) = Sum(m)
      BY DEF PaidBy, AmountBy
    <2> QED
      BY <2>1, <2>2, SumAppend, ZenonT(60)
  <1>4. ASSUME NEW ps \in Seq(Payment), NEW p \in Payment
        PROVE  PaidBy(a, Append(ps, p)) = PaidBy(a, ps) + AmountBy(p, a)
    <2> DEFINE q == Append(ps, p)
               m == [i \in DOMAIN ps |-> AmountBy(ps[i], a)]
               k == [i \in DOMAIN q |-> AmountBy(q[i], a)]
    <2>1. /\ DOMAIN q = DOMAIN ps \cup {Len(ps) + 1}
          /\ \A i \in DOMAIN ps : q[i] = ps[i] /\ ps[i] \in Payment
          /\ q[Len(ps) + 1] = p
      BY AppendShape, ListShape
    <2>2. \A n \in DOMAIN ps : m[n] \in Int /\ k[n] = m[n]
      BY <1>2, <2>1
    <2>3. k[Len(ps) + 1] = AmountBy(p, a) /\ AmountBy(p, a) \in Int
      BY <1>2, <2>1
    <2>4. m = [n \in DOMAIN ps |-> m[n]] /\ k = [n \in DOMAIN q |-> k[n]]
      OBVIOUS
    <2>5. PaidBy(a, ps) = Sum(m) /\ PaidBy(a, q) = Sum(k)
      BY ZenonT(60) DEF PaidBy, AmountBy
    <2> HIDE DEF m, k
    <2>6. Grows(Int, m, k, ps, p, AmountBy(p, a))
      BY <2>2, <2>3, <2>4, ZenonT(60) DEF Grows
    <2>7. Sum(k) = Sum(m) + AmountBy(p, a)
      BY <2>6, SumMore
    <2> QED
      BY <2>5, <2>7, ZenonT(60)
  <1> QED
    BY <1>1, <1>3, <1>4, ZenonT(60)

-----------------------------------------------------------------------------
(* What transactions take.                                                 *)

\* The sizes of two lists of transactions add up.
LEMMA CountedConcat ==
  ASSUME NEW measure \in [Txs -> Int]
  PROVE  /\ Sum(Counted(measure, <<>>)) = 0
         /\ \A s \in Seq(Txs) : Sum(Counted(measure, s)) \in Int
         /\ \A s, t \in Seq(Txs) :
              Sum(Counted(measure, s \o t))
                = Sum(Counted(measure, s)) + Sum(Counted(measure, t))
  <1> DEFINE One(t) == IF t \in Decodes THEN measure[t] ELSE 0
  <1>1. Sum(Counted(measure, <<>>)) = 0
    <2>1. Counted(measure, <<>>) = <<>>
      BY EmptyList DEF Counted
    <2> QED
      BY <2>1, SumAppend
  <1>2. \A t \in Txs : One(t) \in Int
    BY PaymentsAssumption
  <1>3. ASSUME NEW s \in Seq(Txs)
        PROVE  Sum(Counted(measure, s)) \in Int
    <2>1. Len(s) \in Nat /\ DOMAIN s = 1..Len(s) /\ \A i \in 1..Len(s) : s[i] \in Txs
      BY ListShape
    <2>2. Counted(measure, s) \in [1..Len(s) -> Int]
      BY <1>2, <2>1 DEF Counted
    <2>3. Counted(measure, s) \in Seq(Int)
      BY <2>1, <2>2, ListOf, ZenonT(60)
    <2> QED
      BY <2>3, SumAppend
  <1>4. ASSUME NEW s \in Seq(Txs), NEW t \in Txs
        PROVE  Sum(Counted(measure, Append(s, t)))
                 = Sum(Counted(measure, s)) + One(t)
    <2> DEFINE q == Append(s, t)
               m == Counted(measure, s)
               k == Counted(measure, q)
    <2>1. /\ DOMAIN q = DOMAIN s \cup {Len(s) + 1}
          /\ \A i \in DOMAIN s : q[i] = s[i] /\ s[i] \in Txs
          /\ q[Len(s) + 1] = t
      BY AppendShape, ListShape
    <2>2. \A n \in DOMAIN s : m[n] \in Int /\ k[n] = m[n]
      BY <1>2, <2>1, ZenonT(60) DEF Counted
    <2>3. k[Len(s) + 1] = One(t) /\ One(t) \in Int
      BY <1>2, <2>1, ZenonT(60) DEF Counted
    <2>4. m = [n \in DOMAIN s |-> m[n]] /\ k = [n \in DOMAIN q |-> k[n]]
      BY ZenonT(60) DEF Counted
    <2> HIDE DEF m, k, One
    <2>5. Grows(Int, m, k, s, t, One(t))
      BY <2>2, <2>3, <2>4, ZenonT(60) DEF Grows
    <2>6. Sum(k) = Sum(m) + One(t)
      BY <2>5, SumMore
    <2> QED
      BY <2>6, ZenonT(60) DEF m, k
  <1> HIDE DEF One
  <1>5. ASSUME NEW s \in Seq(Txs)
        PROVE  \A t \in Seq(Txs) :
                 Sum(Counted(measure, s \o t))
                   = Sum(Counted(measure, s)) + Sum(Counted(measure, t))
    <2> DEFINE T == {t \in Seq(Txs) :
                       Sum(Counted(measure, s \o t))
                         = Sum(Counted(measure, s)) + Sum(Counted(measure, t))}
    <2>1. <<>> \in T
      BY <1>1, <1>3, ConcatEmpty
    <2>2. ASSUME NEW t \in Seq(Txs), NEW e \in Txs, t \in T
          PROVE  Append(t, e) \in T
      <3>1. Append(t, e) \in Seq(Txs)
        OBVIOUS
      <3>2. s \o t \in Seq(Txs) /\ s \o Append(t, e) = Append(s \o t, e)
        BY ConcatAppend
      <3>3. /\ Sum(Counted(measure, s \o Append(t, e)))
                 = Sum(Counted(measure, s \o t)) + One(e)
            /\ Sum(Counted(measure, Append(t, e)))
                 = Sum(Counted(measure, t)) + One(e)
        BY <1>4, <3>2, ZenonT(60)
      <3>4. /\ Sum(Counted(measure, s)) \in Int
            /\ Sum(Counted(measure, t)) \in Int /\ One(e) \in Int
        BY <1>2, <1>3
      <3> QED
        BY <2>2, <3>1, <3>3, <3>4
    <2>3. T \in SUBSET Seq(Txs)
      OBVIOUS
    <2> HIDE DEF T
    <2>4. \A t \in Seq(Txs) : t \in T
      BY <2>1, <2>2, <2>3, ListInduct, ZenonT(60)
    <2> QED
      BY <2>4, ZenonT(60) DEF T
  <1> QED
    BY <1>1, <1>3, <1>5, ZenonT(60)

\* selectTransactions adds up the sizes of the bundles: that is the size of
\* the transactions in them, also when the sums wrap.
LEMMA SizeConcat ==
  /\ Size(<<>>) = [bytes |-> 0, gas |-> 0]
  /\ \A s \in Seq(Txs) : Size(s) \in [bytes: Int, gas: Int]
  /\ \A s, t \in Seq(Txs) :
       Size(s \o t) = [bytes |-> Add(Size(s).bytes, Size(t).bytes),
                       gas |-> Add(Size(s).gas, Size(t).gas)]
  <1>1. Bytes \in [Txs -> Int] /\ Gas \in [Txs -> Int]
    BY PaymentsAssumption
  <1>2. Wrap(0) = 0
    BY Wraps, PaymentsAssumption
  <1>3. ASSUME NEW measure \in [Txs -> Int]
        PROVE  /\ Total(Counted(measure, <<>>)) = 0
               /\ \A s \in Seq(Txs) : Total(Counted(measure, s)) \in Int
               /\ \A s, t \in Seq(Txs) :
                    Total(Counted(measure, s \o t))
                      = Add(Total(Counted(measure, s)), Total(Counted(measure, t)))
    <2>1. Total(Counted(measure, <<>>)) = 0
      BY <1>2, CountedConcat DEF Total
    <2>2. \A s \in Seq(Txs) : Total(Counted(measure, s)) \in Int
      BY CountedConcat, Wraps, ZenonT(60) DEF Total
    <2>3. ASSUME NEW s \in Seq(Txs), NEW t \in Seq(Txs)
          PROVE  Total(Counted(measure, s \o t))
                   = Add(Total(Counted(measure, s)), Total(Counted(measure, t)))
      <3> DEFINE m == Sum(Counted(measure, s))
                 n == Sum(Counted(measure, t))
      <3>1. m \in Int /\ n \in Int /\ Sum(Counted(measure, s \o t)) = m + n
        BY CountedConcat, ZenonT(60)
      <3>2. Add(Wrap(m), Wrap(n)) = Wrap(m + n)
        BY <3>1, Wraps
      <3> QED
        BY <3>1, <3>2, ZenonT(60) DEF Total
    <2> QED
      BY <2>1, <2>2, <2>3, ZenonT(60)
  <1> QED
    BY <1>1, <1>3, ZenonT(60) DEF Size

-----------------------------------------------------------------------------
(* Charging a bid.                                                         *)

Account == [ok: BOOLEAN, balances: [Senders -> Nat]]
ChargeStep(ps) == [n \in 1..Len(ps) |-> [v \in Account |-> Charge(v, ps[n])]]

\* One payment: it is made where the sender has the amount.
LEMMA ChargeOne ==
  ASSUME NEW v \in Account, NEW p \in Payment
  PROVE  /\ Charge(v, p) \in Account
         /\ Charge(v, p).ok <=> v.ok /\ p.amount <= v.balances[p.from]
         /\ Charge(v, p).ok => \A a \in Senders :
              Charge(v, p).balances[a] + AmountBy(p, a) = v.balances[a]
  <1> DEFINE left == v.balances[p.from] - p.amount
  <1>1. /\ v = [ok |-> v.ok, balances |-> v.balances]
        /\ v.ok \in BOOLEAN /\ v.balances \in [Senders -> Nat]
        /\ p.from \in Senders /\ p.amount \in Nat
    BY ZenonT(60) DEF Account, Payment
  <1>2. left \in Int /\ (left >= 0 <=> p.amount <= v.balances[p.from])
    BY <1>1
  <1>3. CASE v.ok /\ left >= 0
    <2>1. Charge(v, p) = [v EXCEPT !.balances[p.from] = left]
      BY <1>3 DEF Charge
    <2>2. /\ Charge(v, p).ok = v.ok
          /\ Charge(v, p).balances = [v.balances EXCEPT ![p.from] = left]
          /\ Charge(v, p) = [ok |-> v.ok,
                             balances |-> [v.balances EXCEPT ![p.from] = left]]
      BY <1>1, <2>1, ZenonT(60)
    <2>3. [v.balances EXCEPT ![p.from] = left] \in [Senders -> Nat]
      BY <1>1, <1>2, <1>3
    <2>4. \A a \in Senders :
             [v.balances EXCEPT ![p.from] = left][a] + AmountBy(p, a)
               = v.balances[a]
      BY <1>1, <1>2 DEF AmountBy
    <2> QED
      BY <1>1, <1>2, <1>3, <2>2, <2>3, <2>4, ZenonT(60) DEF Account
  <1>4. CASE ~ (v.ok /\ left >= 0)
    <2>1. Charge(v, p) = [v EXCEPT !.ok = FALSE]
      BY <1>4 DEF Charge
    <2>2. /\ ~ Charge(v, p).ok
          /\ Charge(v, p) = [ok |-> FALSE, balances |-> v.balances]
      BY <1>1, <2>1, ZenonT(60)
    <2> QED
      BY <1>1, <1>2, <1>4, <2>2 DEF Account
  <1> QED
    BY <1>3, <1>4

\* The payments are charged one after the other.
LEMMA ChargeDef ==
  ASSUME NEW copy \in [Senders -> Nat], NEW ps \in Seq(Payment)
  PROVE  \E f : /\ Computes(f, Account, [ok |-> TRUE, balances |-> copy],
                            Len(ps), ChargeStep(ps))
                /\ ChargeAll(copy, ps) = f[Len(ps)]
  <1> DEFINE N == Len(ps)
             b == [ok |-> TRUE, balances |-> copy]
             Def(g) == [n \in 0..N |->
                          IF n = 0 THEN [ok |-> TRUE, balances |-> copy]
                          ELSE Charge(g[n - 1], ps[n])]
             f == CHOOSE g : g = Def(g)
  <1>1. N \in Nat /\ b \in Account /\ \A n \in 1..N : ps[n] \in Payment
    BY DEF Account
  <1>2. /\ ChargeStep(ps) \in [1..N -> [Account -> Account]]
        /\ \A n \in 1..N, v \in Account : ChargeStep(ps)[n][v] = Charge(v, ps[n])
    <2>1. \A n \in 1..N, v \in Account : Charge(v, ps[n]) \in Account
      BY <1>1, ChargeOne, ZenonT(60)
    <2> QED
      BY <1>1, <2>1 DEF ChargeStep
  <1>3. PICK g : Computes(g, Account, b, N, ChargeStep(ps))
    <2> HIDE DEF b
    <2> QED
      BY <1>1, <1>2, Recursion, ZenonT(60)
  <1>4. g = Def(g)
    <2>1. /\ g \in [0..N -> Account] /\ g[0] = b
          /\ \A n \in 1..N : g[n] = ChargeStep(ps)[n][g[n - 1]]
      BY <1>3, ZenonT(60) DEF Computes
    <2>2. \A n \in 0..N : n # 0 => n \in 1..N /\ n - 1 \in 0..N
      BY <1>1
    <2>3. \A n \in 0..N : g[n] = IF n = 0 THEN b ELSE Charge(g[n - 1], ps[n])
      <3> HIDE DEF b
      <3> QED
        BY <1>2, <2>1, <2>2, ZenonT(60)
    <2> QED
      BY <2>1, <2>3, ZenonT(60)
  <1>5. f = Def(f)
    BY <1>4, ZenonT(60)
  <1>6. ChargeAll(copy, ps) = f[N]
    BY DEF ChargeAll
  <1> HIDE DEF f
  <1>7. f = [n \in 0..N |-> f[n]] /\ f[0] = b
    BY <1>1, <1>5
  <1>8. \A n \in 1..N :
           f[n - 1] \in Account => f[n] = ChargeStep(ps)[n][f[n - 1]]
    <2>1. \A n \in 1..N : n \in 0..N /\ n # 0
      BY <1>1
    <2>2. \A n \in 1..N : f[n] = Charge(f[n - 1], ps[n])
      BY <1>5, <2>1, ZenonT(60)
    <2> QED
      BY <1>2, <2>2, ZenonT(60)
  <1>9. Computes(f, Account, b, N, ChargeStep(ps))
    <2> HIDE DEF b
    <2> QED
      BY <1>1, <1>2, <1>7, <1>8, Takes, ZenonT(60)
  <1> QED
    BY <1>6, <1>9, ZenonT(60)

\* No payment, and one more.
LEMMA ChargeAppend ==
  ASSUME NEW copy \in [Senders -> Nat]
  PROVE  /\ ChargeAll(copy, <<>>) = [ok |-> TRUE, balances |-> copy]
         /\ \A ps \in Seq(Payment) : ChargeAll(copy, ps) \in Account
         /\ \A ps \in Seq(Payment), p \in Payment :
              ChargeAll(copy, Append(ps, p)) = Charge(ChargeAll(copy, ps), p)
  <1> DEFINE b == [ok |-> TRUE, balances |-> copy]
  <1>0. \A ps \in Seq(Payment) :
           \E f : /\ Computes(f, Account, b, Len(ps), ChargeStep(ps))
                  /\ ChargeAll(copy, ps) = f[Len(ps)]
    BY ChargeDef, ZenonT(60)
  <1> HIDE DEF b
  <1>1. ChargeAll(copy, <<>>) = b
    <2>1. <<>> \in Seq(Payment) /\ Len(<<>>) = 0
      OBVIOUS
    <2>2. PICK f : /\ Computes(f, Account, b, 0, ChargeStep(<<>>))
                   /\ ChargeAll(copy, <<>>) = f[0]
      BY <1>0, <2>1, ZenonT(60)
    <2> QED
      BY <2>2 DEF Computes
  <1>2. ASSUME NEW ps \in Seq(Payment)
        PROVE  ChargeAll(copy, ps) \in Account
    <2>1. PICK f : /\ Computes(f, Account, b, Len(ps), ChargeStep(ps))
                   /\ ChargeAll(copy, ps) = f[Len(ps)]
      BY <1>0
    <2>2. Len(ps) \in 0..Len(ps)
      OBVIOUS
    <2> QED
      BY <2>1, <2>2, ZenonT(60) DEF Computes
  <1>3. ASSUME NEW ps \in Seq(Payment), NEW p \in Payment
        PROVE  ChargeAll(copy, Append(ps, p)) = Charge(ChargeAll(copy, ps), p)
    <2> DEFINE t == Append(ps, p)
               M == Len(ps)
    <2>1. /\ t \in Seq(Payment) /\ M \in Nat /\ Len(t) = M + 1
          /\ t[M + 1] = p /\ \A n \in 1..M : t[n] = ps[n]
      BY AppendShape, ListShape
    <2> HIDE DEF t
    <2>2. PICK f : /\ Computes(f, Account, b, M, ChargeStep(ps))
                   /\ ChargeAll(copy, ps) = f[M]
      BY <1>0, ZenonT(60)
    <2>3. PICK g : /\ Computes(g, Account, b, M + 1, ChargeStep(t))
                   /\ ChargeAll(copy, t) = g[M + 1]
      BY <1>0, <2>1, ZenonT(60)
    <2>4. /\ Agree(ChargeStep(ps), ChargeStep(t), Account, M)
          /\ \A v \in Account : ChargeStep(t)[M + 1][v] = Charge(v, p)
      <3>1. \A n \in 1..M : n \in 1..Len(ps) /\ n \in 1..Len(t)
        BY <2>1
      <3>2. M + 1 \in 1..Len(t)
        BY <2>1
      <3> QED
        BY <2>1, <3>1, <3>2, ZenonT(60) DEF Agree, ChargeStep
    <2>5. f[M] \in Account /\ g[M + 1] = ChargeStep(t)[M + 1][f[M]]
      BY <2>1, <2>2, <2>3, <2>4, OneMore
    <2> QED
      BY <2>2, <2>3, <2>4, <2>5, ZenonT(60) DEF t
  <1> QED
    BY <1>1, <1>2, <1>3, ZenonT(60) DEF b

\* The account after a list of payments: it is good when every sender owned
\* what the list makes that sender pay, and then holds what is left.
ChargeResult(copy, ps) ==
  LET r == ChargeAll(copy, ps)
  IN /\ \A a \in Senders : PaidBy(a, ps) >= 0
     /\ r.ok <=> \A a \in Senders : PaidBy(a, ps) <= copy[a]
     /\ r.ok => \A a \in Senders : r.balances[a] + PaidBy(a, ps) = copy[a]

\* Whether a bid can be charged does not depend on the order of its payments.
LEMMA Charging ==
  ASSUME NEW copy \in [Senders -> Nat]
  PROVE  \A ps \in Seq(Payment) : ChargeResult(copy, ps)
  <1> DEFINE T == {ps \in Seq(Payment) : ChargeResult(copy, ps)}
  <1>1. <<>> \in T
    <2>1. ChargeAll(copy, <<>>).ok /\ ChargeAll(copy, <<>>).balances = copy
      BY ChargeAppend
    <2>2. \A a \in Senders : PaidBy(a, <<>>) = 0 /\ copy[a] \in Nat
      BY PaidByAppend, ZenonT(60)
    <2> QED
      BY <2>1, <2>2 DEF ChargeResult
  <1>2. ASSUME NEW ps \in Seq(Payment), NEW p \in Payment, ps \in T
        PROVE  Append(ps, p) \in T
    <2> DEFINE q == Append(ps, p)
               v == ChargeAll(copy, ps)
               w == ChargeAll(copy, q)
    <2>1. q \in Seq(Payment) /\ w = Charge(v, p) /\ v \in Account
      <3>1. q \in Seq(Payment)
        BY AppendShape
      <3> QED
        BY <3>1, ChargeAppend, ZenonT(60)
    <2>2. /\ \A a \in Senders : PaidBy(a, ps) >= 0
          /\ v.ok <=> \A a \in Senders : PaidBy(a, ps) <= copy[a]
          /\ v.ok => \A a \in Senders : v.balances[a] + PaidBy(a, ps) = copy[a]
      BY <1>2, ZenonT(60) DEF ChargeResult
    <2>3. \A a \in Senders : /\ PaidBy(a, q) = PaidBy(a, ps) + AmountBy(p, a)
                             /\ PaidBy(a, ps) \in Int /\ copy[a] \in Nat
      BY PaidByAppend, ZenonT(60)
    <2>4. /\ w \in Account
          /\ w.ok <=> v.ok /\ p.amount <= v.balances[p.from]
          /\ w.ok => \A a \in Senders :
               w.balances[a] + AmountBy(p, a) = v.balances[a]
      BY <2>1, ChargeOne
    <2>5. /\ p.from \in Senders /\ p.amount \in Nat
          /\ AmountBy(p, p.from) = p.amount
          /\ \A a \in Senders : AmountBy(p, a) \in Nat
                                /\ (a # p.from => AmountBy(p, a) = 0)
      BY ZenonT(60) DEF Payment, AmountBy
    <2>6. \A a \in Senders : v.balances[a] \in Nat /\ w.balances[a] \in Nat
      BY <2>1, <2>4, ZenonT(60) DEF Account
    <2> HIDE DEF q, v, w
    <2>7. \A a \in Senders : PaidBy(a, q) >= 0
      BY <2>2, <2>3, <2>5
    <2>8. ASSUME w.ok
          PROVE  \A a \in Senders : /\ w.balances[a] + PaidBy(a, q) = copy[a]
                                    /\ PaidBy(a, q) <= copy[a]
      <3>1. v.ok /\ p.amount <= v.balances[p.from]
        BY <2>4, <2>8, ZenonT(60)
      <3> SUFFICES ASSUME NEW a \in Senders
                   PROVE  /\ w.balances[a] + PaidBy(a, q) = copy[a]
                          /\ PaidBy(a, q) <= copy[a]
        OBVIOUS
      <3>2. /\ v.balances[a] + PaidBy(a, ps) = copy[a]
            /\ w.balances[a] + AmountBy(p, a) = v.balances[a]
        BY <2>2, <2>4, <2>8, <3>1, ZenonT(60)
      <3>3. /\ AmountBy(p, a) \in Nat /\ PaidBy(a, ps) \in Int
            /\ v.balances[a] \in Nat /\ w.balances[a] \in Nat
            /\ PaidBy(a, q) = PaidBy(a, ps) + AmountBy(p, a)
        BY <2>3, <2>5, <2>6, ZenonT(60)
      <3> QED
        BY <3>2, <3>3
    <2>9. ASSUME \A a \in Senders : PaidBy(a, q) <= copy[a]
          PROVE  w.ok
      <3>1. \A a \in Senders : PaidBy(a, ps) <= copy[a]
        BY <2>3, <2>5, <2>9
      <3>2. v.ok
        BY <2>2, <3>1, ZenonT(60)
      <3>3. p.amount <= v.balances[p.from]
        <4>1. PaidBy(p.from, ps) + p.amount <= copy[p.from]
          BY <2>3, <2>5, <2>9, ZenonT(60)
        <4>2. v.balances[p.from] + PaidBy(p.from, ps) = copy[p.from]
          BY <2>2, <2>5, <3>2, ZenonT(60)
        <4> QED
          BY <2>3, <2>5, <2>6, <4>1, <4>2
      <3> QED
        BY <2>4, <3>2, <3>3, ZenonT(60)
    <2>10. w.ok <=> \A a \in Senders : PaidBy(a, q) <= copy[a]
      BY <2>8, <2>9, ZenonT(60)
    <2>11. ChargeResult(copy, q)
      BY <2>7, <2>8, <2>10, ZenonT(60) DEF ChargeResult, w
    <2> QED
      BY <2>1, <2>11, ZenonT(60) DEF q
  <1>3. T \in SUBSET Seq(Payment)
    OBVIOUS
  <1> HIDE DEF T
  <1>4. \A ps \in Seq(Payment) : ps \in T
    BY <1>1, <1>2, <1>3, ListInduct, ZenonT(60)
  <1> QED
    BY <1>4, ZenonT(60) DEF T

-----------------------------------------------------------------------------
(* Evaluated bids, and the bundles of a block.                             *)

\* So has an evaluated bid; its payment is that of its transactions as
\* encoded again.
LEMMA EvaluatedShape ==
  ASSUME NEW kind \in {"top", "block"}, NEW txs \in Seq(Txs),
         NEW state \in {"", "pending"}
  PROVE  /\ Evaluated(kind, txs, state) \in Bid
         /\ Evaluated(kind, txs, state).state = state
         /\ Evaluated(kind, txs, state).kind = kind
         /\ Evaluated(kind, txs, state).validator =
              PaidTo(PaymentsOf(Evaluated(kind, txs, state).txs), "validator")
  <1>1. Normalize(txs) \in Seq(Txs)
    <2>1. /\ DOMAIN txs = 1..Len(txs) /\ Len(txs) \in Nat
          /\ \A i \in DOMAIN txs : txs[i] \in Txs
      BY ListShape, ZenonT(60)
    <2>2. \A i \in DOMAIN txs :
             (IF Readable(txs[i]) THEN Normal[txs[i]] ELSE txs[i]) \in Txs
      BY <2>1, PaymentsAssumption, ZenonT(60) DEF Readable
    <2>3. Normalize(txs) \in [1..Len(txs) -> Txs]
      BY <2>1, <2>2, ZenonT(60) DEF Normalize
    <2> QED
      BY <2>1, <2>3, ListIsFunction, ZenonT(60)
  <1>2. PaymentsOf(txs) \in Seq(Payment)
    BY PaymentsAppend, ZenonT(60)
  <1>3. \A to : PaidTo(PaymentsOf(txs), to) \in Int
    BY <1>2, PaidToSum, ZenonT(60)
  <1>4. Add(PaidTo(PaymentsOf(txs), "validator"),
            PaidTo(PaymentsOf(txs), "mekatek")) \in Int
    BY <1>3, Wraps, ZenonT(60)
  <1>5. /\ Evaluated(kind, txs, state) \in Bid
        /\ Evaluated(kind, txs, state).state = state
        /\ Evaluated(kind, txs, state).kind = kind
    BY <1>1, <1>2, <1>3, <1>4, ZenonT(60) DEF Bid, Evaluated
  <1>6. Evaluated(kind, txs, state).validator =
          PaidTo(PaymentsOf(Evaluated(kind, txs, state).txs), "validator")
    BY PaymentsNormalized, ZenonT(60) DEF Evaluated
  <1> QED
    BY <1>5, <1>6, ZenonT(60)

TxsIn(bs) == Flatten([n \in DOMAIN bs |-> bs[n].txs])

\* The members of B hold lists of transactions.
Bundled(B) == \A b \in B : b.txs \in Seq(Txs)

\* A bundle more puts its transactions at the end of the block.
LEMMA TxsInMore ==
  ASSUME NEW B, Bundled(B)
  PROVE  /\ TxsIn(<<>>) = <<>>
         /\ \A bs \in Seq(B) : TxsIn(bs) \in Seq(Txs)
         /\ \A bs \in Seq(B), b \in B : TxsIn(Append(bs, b)) = TxsIn(bs) \o b.txs
  <1>1. TxsIn(<<>>) = <<>>
    <2>1. [n \in DOMAIN <<>> |-> <<>>[n].txs] = <<>>
      BY EmptyList
    <2> QED
      BY <2>1, FlattenAppend, ZenonT(60) DEF TxsIn
  <1>2. ASSUME NEW bs \in Seq(B)
        PROVE  TxsIn(bs) \in Seq(Txs)
    <2> DEFINE m == [n \in DOMAIN bs |-> bs[n].txs]
    <2>1. /\ Len(bs) \in Nat /\ DOMAIN bs = 1..Len(bs)
          /\ \A n \in 1..Len(bs) : bs[n] \in B
      BY ListShape, ZenonT(60)
    <2>2. m \in [1..Len(bs) -> Seq(Txs)]
      BY <2>1, ZenonT(60) DEF Bundled
    <2>3. m \in Seq(Seq(Txs))
      BY <2>1, <2>2, ListOf, ZenonT(60)
    <2> QED
      BY <2>3, FlattenAppend, ZenonT(60) DEF TxsIn
  <1>3. ASSUME NEW bs \in Seq(B), NEW b \in B
        PROVE  TxsIn(Append(bs, b)) = TxsIn(bs) \o b.txs
    <2> DEFINE q == Append(bs, b)
               m == [n \in DOMAIN bs |-> bs[n].txs]
               k == [n \in DOMAIN q |-> q[n].txs]
    <2>1. /\ DOMAIN q = DOMAIN bs \cup {Len(bs) + 1}
          /\ \A i \in DOMAIN bs : q[i] = bs[i] /\ bs[i] \in B
          /\ q[Len(bs) + 1] = b
      BY AppendShape, ListShape
    <2>2. \A n \in DOMAIN bs : m[n] \in Seq(Txs) /\ k[n] = m[n]
      BY <2>1, ZenonT(60) DEF Bundled
    <2>3. k[Len(bs) + 1] = b.txs /\ b.txs \in Seq(Txs)
      BY <2>1, ZenonT(60) DEF Bundled
    <2>4. m = [n \in DOMAIN bs |-> m[n]] /\ k = [n \in DOMAIN q |-> k[n]]
      BY ZenonT(60)
    <2>5. TxsIn(bs) = Flatten(m) /\ TxsIn(q) = Flatten(k)
      BY DEF TxsIn
    <2> HIDE DEF m, k
    <2>6. Grows(Seq(Txs), m, k, bs, b, b.txs)
      BY <2>2, <2>3, <2>4, ZenonT(60) DEF Grows
    <2>7. m \in Seq(Seq(Txs)) /\ k = Append(m, b.txs)
      BY <2>6, Mapped
    <2>8. Flatten(k) = Flatten(m) \o b.txs
      BY <2>3, <2>7, FlattenAppend, ZenonT(60)
    <2> QED
      BY <2>5, <2>8, ZenonT(60)
  <1> QED
    BY <1>1, <1>2, <1>3, ZenonT(60)

\* What a bundle adds to the announced payment, given the bids f.
PaymentFor(b, f) == IF b.bid = NULL THEN 0 ELSE f[b.bid].validator

\* What bundles announce.
Announced(bs, f) == Total([n \in DOMAIN bs |-> PaymentFor(bs[n], f)])

\* What a bundle adds to the transactions of the bids.
BidTxsIn(b) == IF b.bid = NULL THEN <<>> ELSE b.txs

\* The transactions of the bids.
OfBids(bs) == Flatten([n \in DOMAIN bs |-> BidTxsIn(bs[n])])

\* The bid of a bundle is among f, and its payment an integer.
Known(b, f) ==
  b.bid # NULL => b.bid \in DOMAIN f /\ f[b.bid].validator \in Int

\* The bids f and g know bundle b, and its payment is the same in both.
SamePayment(b, f, g) == Known(b, f) /\ PaymentFor(b, g) = PaymentFor(b, f)

\* A bundle more adds its payment to the announced one.
LEMMA AnnouncedOneMore ==
  ASSUME NEW B, NEW bs \in Seq(B), NEW b \in B, NEW f, NEW g,
         \A n \in DOMAIN bs : SamePayment(bs[n], f, g), SamePayment(b, f, g)
  PROVE  Announced(Append(bs, b), g) = Add(Announced(bs, f), PaymentFor(b, f))
  <1> DEFINE q == Append(bs, b)
             m == [n \in DOMAIN bs |-> PaymentFor(bs[n], f)]
             k == [n \in DOMAIN q |-> PaymentFor(q[n], g)]
             v == PaymentFor(b, f)
  <1>1. Announced(bs, f) = Wrap(Sum(m)) /\ Announced(q, g) = Wrap(Sum(k))
    BY ZenonT(60) DEF Announced, Total
  <1>2. /\ DOMAIN q = DOMAIN bs \cup {Len(bs) + 1}
        /\ \A i \in DOMAIN bs : q[i] = bs[i]
        /\ q[Len(bs) + 1] = b
    BY AppendShape, ListShape
  <1>3. \A n \in DOMAIN bs : m[n] \in Int /\ k[n] = m[n]
    <2>1. \A n \in DOMAIN bs : /\ PaymentFor(bs[n], f) \in Int
                               /\ PaymentFor(bs[n], g) = PaymentFor(bs[n], f)
      BY DEF Known, PaymentFor, SamePayment
    <2> QED
      BY <1>2, <2>1, ZenonT(60)
  <1>4. k[Len(bs) + 1] = v /\ v \in Int
    <2>1. v \in Int /\ PaymentFor(b, g) = v
      BY DEF Known, PaymentFor, SamePayment
    <2> QED
      BY <1>2, <2>1, ZenonT(60)
  <1>5. /\ m = [n \in DOMAIN bs |-> m[n]]
        /\ k = [n \in DOMAIN Append(bs, b) |-> k[n]]
    BY ZenonT(60)
  <1> HIDE DEF m, k, v
  <1>6. Grows(Int, m, k, bs, b, v)
    BY <1>3, <1>4, <1>5, ZenonT(60) DEF Grows
  <1>7. Sum(m) \in Int /\ Sum(k) = Sum(m) + v /\ v \in Int
    BY <1>4, <1>6, SumMore
  <1>8. Add(Wrap(Sum(m)), v) = Wrap(Sum(m) + v)
    BY <1>7, Wraps, ZenonT(60)
  <1> QED
    BY <1>1, <1>7, <1>8, ZenonT(60) DEF v

\* The bundles announce nothing while there are none, and the same with bids
\* that know the same payments.
LEMMA AnnouncedSame ==
  /\ \A f : Announced(<<>>, f) = 0
  /\ \A bs, f, g : (\A n \in DOMAIN bs : SamePayment(bs[n], f, g)) =>
                      Announced(bs, g) = Announced(bs, f)
  <1>1. ASSUME NEW f PROVE Announced(<<>>, f) = 0
    <2>1. [n \in DOMAIN <<>> |-> PaymentFor(<<>>[n], f)] = <<>>
      BY EmptyList
    <2>2. Sum(<<>>) = 0 /\ Wrap(0) = 0
      BY SumAppend, Wraps, PaymentsAssumption
    <2> QED
      BY <2>1, <2>2, ZenonT(60) DEF Announced, Total
  <1>2. ASSUME NEW bs, NEW f, NEW g, \A n \in DOMAIN bs : SamePayment(bs[n], f, g)
        PROVE  Announced(bs, g) = Announced(bs, f)
    <2>1. [n \in DOMAIN bs |-> PaymentFor(bs[n], g)]
            = [n \in DOMAIN bs |-> PaymentFor(bs[n], f)]
      BY <1>2, ZenonT(60) DEF SamePayment
    <2> QED
      BY <2>1, ZenonT(60) DEF Announced
  <1> QED
    BY <1>1, <1>2, ZenonT(60)

\* A bundle more adds its transactions to those of the bids.
LEMMA OfBidsOneMore ==
  ASSUME NEW B, Bundled(B)
  PROVE  /\ OfBids(<<>>) = <<>>
         /\ \A b \in B : BidTxsIn(b) \in Seq(Txs)
         /\ \A bs \in Seq(B), b \in B :
              /\ OfBids(bs) \in Seq(Txs)
              /\ OfBids(Append(bs, b)) = OfBids(bs) \o BidTxsIn(b)
  <1>1. OfBids(<<>>) = <<>>
    <2>1. [n \in DOMAIN <<>> |-> BidTxsIn(<<>>[n])] = <<>>
      BY EmptyList
    <2> QED
      BY <2>1, FlattenAppend, ZenonT(60) DEF OfBids
  <1>2. \A c \in B : BidTxsIn(c) \in Seq(Txs)
    BY EmptyList, ZenonT(60) DEF Bundled, BidTxsIn
  <1>3. ASSUME NEW bs \in Seq(B), NEW b \in B
        PROVE  /\ OfBids(bs) \in Seq(Txs)
               /\ OfBids(Append(bs, b)) = OfBids(bs) \o BidTxsIn(b)
    <2> DEFINE q == Append(bs, b)
               m == [n \in DOMAIN bs |-> BidTxsIn(bs[n])]
               k == [n \in DOMAIN q |-> BidTxsIn(q[n])]
               v == BidTxsIn(b)
    <2>1. OfBids(bs) = Flatten(m) /\ OfBids(q) = Flatten(k)
      BY ZenonT(60) DEF OfBids
    <2>2. /\ DOMAIN q = DOMAIN bs \cup {Len(bs) + 1}
          /\ \A i \in DOMAIN bs : q[i] = bs[i] /\ bs[i] \in B
          /\ q[Len(bs) + 1] = b
      BY AppendShape, ListShape
    <2>3. \A n \in DOMAIN bs : m[n] \in Seq(Txs) /\ k[n] = m[n]
      BY <1>2, <2>2, ZenonT(60)
    <2>4. k[Len(bs) + 1] = v /\ v \in Seq(Txs)
      BY <1>2, <2>2, ZenonT(60)
    <2>5. m = [n \in DOMAIN bs |-> m[n]] /\ k = [n \in DOMAIN q |-> k[n]]
      OBVIOUS
    <2> HIDE DEF m, k, v
    <2>6. Grows(Seq(Txs), m, k, bs, b, v)
      BY <2>3, <2>4, <2>5, ZenonT(60) DEF Grows
    <2>7. m \in Seq(Seq(Txs)) /\ k = Append(m, v)
      BY <2>6, Mapped
    <2>8. Flatten(m) \in Seq(Txs) /\ Flatten(k) = Flatten(m) \o v
      BY <2>4, <2>7, FlattenAppend, ZenonT(60)
    <2> QED
      BY <2>1, <2>8, ZenonT(60) DEF v
  <1> QED
    BY <1>1, <1>2, <1>3, ZenonT(60)

\* What is paid to the validator in two lists of transactions.
LEMMA PaidConcat ==
  ASSUME NEW s \in Seq(Txs), NEW t \in Seq(Txs)
  PROVE  PaidTo(PaymentsOf(s \o t), "validator") =
           Add(PaidTo(PaymentsOf(s), "validator"), PaidTo(PaymentsOf(t), "validator"))
  <1> DEFINE x == SumTo(PaymentsOf(s), "validator")
             y == SumTo(PaymentsOf(t), "validator")
  <1>1. PaymentsOf(s) \in Seq(Payment) /\ PaymentsOf(t) \in Seq(Payment)
    BY PaymentsAppend, ZenonT(60)
  <1>2. PaymentsOf(s \o t) = PaymentsOf(s) \o PaymentsOf(t)
    BY PaymentsConcat, ZenonT(60)
  <1>3. PaymentsOf(s) \o PaymentsOf(t) \in Seq(Payment)
    BY <1>1, ConcatShape, ZenonT(60)
  <1>4. SumTo(PaymentsOf(s) \o PaymentsOf(t), "validator") = x + y
    BY <1>1, SumToConcat, ZenonT(60)
  <1>5. x \in Int /\ y \in Int
    BY <1>1, SumToAppend, ZenonT(60)
  <1>6. Add(Wrap(x), Wrap(y)) = Wrap(x + y)
    BY <1>5, Wraps, ZenonT(60)
  <1> QED
    BY <1>1, <1>2, <1>3, <1>4, <1>6, PaidToSum, ZenonT(60)

\* Nothing is paid for an empty list.
LEMMA PaidNothing == PaidTo(PaymentsOf(<<>>), "validator") = 0
  <1>1. PaymentsOf(<<>>) = <<>> /\ <<>> \in Seq(Payment)
    BY PaymentsAppend, EmptyList, ZenonT(60)
  <1>2. SumTo(<<>>, "validator") = 0
    BY SumToAppend, ZenonT(60)
  <1>3. Wrap(0) = 0
    BY Wraps, PaymentsAssumption
  <1> QED
    BY <1>1, <1>2, <1>3, PaidToSum, ZenonT(60)

\* Whatever does not fit does not fit any more once something was added.
LEMMA StaysFull ==
  ASSUME NEW u \in Int, NEW x \in Int, NEW y \in Int, NEW l \in Int,
         -(MaxInt + 1) <= u, u <= Limit(l) \/ u = 0,
         InRange(x, l), InRange(y, l),
         Add(u, x) <= Limit(l), ~ Add(u, y) <= Limit(l)
  PROVE  ~ Add(Add(u, x), y) <= Limit(l)
  <1>1. MaxInt \in Nat
    BY PaymentsAssumption
  <1>2. /\ \A n \in Int : Wrap(n) \in Int /\ Wrap(n) <= MaxInt
        /\ \A n \in Int : -(MaxInt + 1) <= n /\ n <= MaxInt => Wrap(n) = n
    BY Wraps, ZenonT(60)
  <1>3. u + x \in Int /\ u + y \in Int
    OBVIOUS
  <1>4. l # -1
    <2>1. Wrap(u + y) <= MaxInt
      BY <1>2, <1>3, ZenonT(60)
    <2> QED
      BY <2>1, ZenonT(60) DEF Limit, Add
  <1>5. /\ Limit(l) = l /\ 0 <= x /\ x <= MaxInt /\ 0 <= y /\ y <= MaxInt
        /\ l + x <= MaxInt /\ l + y <= MaxInt
    BY <1>4, ZenonT(60) DEF Limit, InRange
  <1>6. u + x <= MaxInt /\ u + y <= MaxInt
    BY <1>1, <1>5
  <1>7. Wrap(u + x) = u + x /\ Wrap(u + y) = u + y
    BY <1>1, <1>2, <1>3, <1>5, <1>6
  <1>8. u + x <= l /\ ~ u + y <= l
    BY <1>5, <1>7, ZenonT(60) DEF Add
  <1>9. (u + x) + y \in Int /\ (u + x) + y <= MaxInt /\ -(MaxInt + 1) <= (u + x) + y
    BY <1>1, <1>5, <1>8
  <1>10. Wrap((u + x) + y) = (u + x) + y
    BY <1>2, <1>9, ZenonT(60)
  <1>11. Add(Add(u, x), y) = (u + x) + y
    BY <1>7, <1>10, ZenonT(60) DEF Add
  <1> QED
    BY <1>5, <1>8, <1>11

\* What one transaction takes.
LEMMA SizeOfOne ==
  ASSUME NEW t \in Decodes, 0 <= Bytes[t], Bytes[t] <= MaxInt,
         0 <= Gas[t], Gas[t] <= MaxInt
  PROVE  Size(<<t>>) = [bytes |-> Bytes[t], gas |-> Gas[t]]
  <1>1. MaxInt \in Nat /\ t \in Txs /\ Bytes[t] \in Int /\ Gas[t] \in Int
    BY PaymentsAssumption
  <1>2. ASSUME NEW measure, measure[t] \in Int
        PROVE  Sum(Counted(measure, <<t>>)) = measure[t]
    <2>1. Counted(measure, <<t>>) = <<measure[t]>>
      BY DEF Counted
    <2>2. <<measure[t]>> = Append(<<>>, measure[t]) /\ <<>> \in Seq(Int)
      OBVIOUS
    <2>3. Sum(Append(<<>>, measure[t])) = Sum(<<>>) + measure[t] /\ Sum(<<>>) = 0
      BY <1>2, <2>2, SumAppend, ZenonT(60)
    <2> QED
      BY <1>2, <2>1, <2>2, <2>3
  <1>3. Wrap(Bytes[t]) = Bytes[t] /\ Wrap(Gas[t]) = Gas[t]
    <2>1. -(MaxInt + 1) <= Bytes[t] /\ -(MaxInt + 1) <= Gas[t]
      BY <1>1
    <2>2. \A n \in Int : -(MaxInt + 1) <= n /\ n <= MaxInt => Wrap(n) = n
      BY Wraps
    <2> QED
      BY <1>1, <2>1, <2>2, ZenonT(60)
  <1> QED
    BY <1>1, <1>2, <1>3, ZenonT(60) DEF Size, Total
==============================================================================
