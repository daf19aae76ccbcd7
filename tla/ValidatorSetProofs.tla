---------------------------- MODULE ValidatorSetProofs ----------------------------
(***************************************************************************)
(* Proofs about what a service learns of its chain: the rotation that      *)
(* predicts a proposer (Proposer) and the fetch of a validator set         *)
(* (ValidatorSet), for any number of nodes and validators, any sizes of a  *)
(* page and any history of the chain.                                      *)
(***************************************************************************)
EXTENDS ValidatorSet, WellFoundedInduction, TLAPS

\* The provers of a leaf that names none, in the order they are tried.
USE SMTT(60), Z3T(60), SMTT(90), Z3T(90)

-----------------------------------------------------------------------------
(* Recursion over lists.  The induction is the one over the natural        *)
(* numbers, by the least element of a set of them.                         *)

\* The order of the natural numbers is well-founded.
LEMMA NatOrder ==
  \E R : IsWellFoundedOn(R, Nat) /\ \A x, y \in Nat : <<y, x>> \in R <=> y < x
  <1>1. \A x, y \in Nat : <<y, x>> \in OpToRel(<, Nat) <=> y < x
    BY DEF OpToRel
  <1> QED
    BY NatLessThanWellFounded, <1>1, ZenonT(60)

\* A set of natural numbers has a least element.
LEMMA Least ==
  ASSUME NEW T \in SUBSET Nat, T # {}
  PROVE  \E m \in T : \A k \in T : m <= k
  <1>1. PICK R : /\ IsWellFoundedOn(R, Nat)
                 /\ \A x, y \in Nat : <<y, x>> \in R <=> y < x
    BY NatOrder
  <1>2. PICK m \in T : \A k \in T : ~ (<<k, m>> \in R)
    BY <1>1, WFMin, ZenonT(60)
  <1>3. \A k \in T : k \in Nat /\ m \in Nat
    OBVIOUS
  <1>4. \A k \in T : ~ (k < m)
    BY <1>1, <1>2, <1>3, ZenonT(60)
  <1> QED
    BY <1>3, <1>4

\* Induction: a set with 0 and the successor of each member is all of Nat.
LEMMA Induct ==
  ASSUME NEW T \in SUBSET Nat, 0 \in T, \A n \in Nat : n \in T => n + 1 \in T
  PROVE  \A n \in Nat : n \in T
  <1> SUFFICES ASSUME Nat \ T # {} PROVE FALSE
    OBVIOUS
  <1>1. PICK m \in Nat \ T : \A k \in Nat \ T : m <= k
    BY Least, Nat \ T \in SUBSET Nat, ZenonT(60)
  <1>2. m - 1 \in Nat
    OBVIOUS
  <1>3. m - 1 \in T
    BY <1>1, <1>2
  <1>4. (m - 1) + 1 \in T
    BY <1>2, <1>3, ZenonT(60)
  <1> QED
    BY <1>1, <1>4

\* f takes N steps from b.
Computes(f, V, b, N, step) ==
  /\ f \in [0..N -> V] /\ f[0] = b
  /\ \A n \in 1..N : f[n] = step[n][f[n - 1]]

\* The values of a recursive definition exist: each step has a result.
LEMMA Recursion ==
  ASSUME NEW V, NEW b \in V, NEW N \in Nat, NEW step \in [1..N -> [V -> V]]
  PROVE  \E f : Computes(f, V, b, N, step)
  <1> DEFINE Good(f, k) == f[0] = b /\ \A n \in 1..k : f[n] = step[n][f[n - 1]]
             T == {k \in Nat : k <= N => \E f \in [0..N -> V] : Good(f, k)}
  <1>1. 0 \in T
    <2>1. /\ [n \in 0..N |-> b] \in [0..N -> V]
          /\ Good([n \in 0..N |-> b], 0)
      OBVIOUS
    <2> QED
      BY <2>1, ZenonT(60)
  <1>2. ASSUME NEW k \in Nat, k \in T
        PROVE  k + 1 \in T
    <2> SUFFICES ASSUME k + 1 <= N
                 PROVE  \E f \in [0..N -> V] : Good(f, k + 1)
      OBVIOUS
    <2>1. PICK f \in [0..N -> V] : Good(f, k)
      BY <1>2
    <2> DEFINE g == [f EXCEPT ![k + 1] = step[k + 1][f[k]]]
    <2>2. step[k + 1][f[k]] \in V
      OBVIOUS
    <2>3. g \in [0..N -> V]
      BY <2>2, ZenonT(60)
    <2>4. (\A n \in 0..k : g[n] = f[n]) /\ g[k + 1] = step[k + 1][f[k]]
      OBVIOUS
    <2>5. Good(g, k + 1)
      <3>1. g[0] = b
        BY <2>1, <2>4
      <3>2. ASSUME NEW n \in 1..(k + 1) PROVE g[n] = step[n][g[n - 1]]
        <4>1. CASE n = k + 1
          BY <2>4, <4>1
        <4>2. CASE n \in 1..k
          BY <2>1, <2>4, <4>2
        <4> QED
          BY <4>1, <4>2
      <3> HIDE DEF g
      <3> QED
        BY <3>1, <3>2, ZenonT(60)
    <2> QED
      BY <2>3, <2>5, ZenonT(60)
  <1> HIDE DEF T
  <1>3. \A n \in Nat : n \in T
    BY <1>1, <1>2, Induct, ZenonT(60) DEF T
  <1> QED
    BY <1>3 DEF T, Computes

\* A function that is defined by these steps takes them.
LEMMA Takes ==
  ASSUME NEW V, NEW b \in V, NEW N \in Nat, NEW step \in [1..N -> [V -> V]],
         NEW f, f = [n \in 0..N |-> f[n]], f[0] = b,
         \A n \in 1..N : f[n - 1] \in V => f[n] = step[n][f[n - 1]]
  PROVE  Computes(f, V, b, N, step)
  <1> DEFINE T == {n \in Nat : n <= N => f[n] \in V}
  <1>1. 0 \in T
    OBVIOUS
  <1>2. ASSUME NEW n \in Nat, n \in T
        PROVE  n + 1 \in T
    <2> SUFFICES ASSUME n + 1 <= N PROVE f[n + 1] \in V
      OBVIOUS
    <2>1. n + 1 \in 1..N /\ (n + 1) - 1 = n /\ f[n] \in V
      BY <1>2
    <2>2. f[n + 1] = step[n + 1][f[n]]
      BY <2>1, ZenonT(60)
    <2>3. step[n + 1] \in [V -> V]
      BY <2>1
    <2> QED
      BY <2>1, <2>2, <2>3, ZenonT(60)
  <1> HIDE DEF T
  <1>3. \A n \in Nat : n \in T
    BY <1>1, <1>2, Induct, ZenonT(60) DEF T
  <1>4. \A n \in 0..N : f[n] \in V
    BY <1>3 DEF T
  <1>5. f \in [0..N -> V]
    BY <1>4
  <1>6. \A n \in 1..N : n - 1 \in 0..N
    OBVIOUS
  <1> QED
    BY <1>4, <1>5, <1>6, ZenonT(60) DEF Computes

-----------------------------------------------------------------------------
(* Sums.                                                                   *)

SumStep(s) == [n \in 1..Len(s) |-> [v \in Int |-> v + s[n]]]

\* Sum adds the elements one after the other.
LEMMA SumDef ==
  ASSUME NEW s \in Seq(Int)
  PROVE  \E f : Computes(f, Int, 0, Len(s), SumStep(s)) /\ Sum(s) = f[Len(s)]
  <1> DEFINE N == Len(s)
             Def(g) == [n \in 0..N |-> IF n = 0 THEN 0 ELSE g[n - 1] + s[n]]
             f == CHOOSE g : g = Def(g)
  <1>1. N \in Nat /\ 0 \in Int /\ \A n \in 1..N : s[n] \in Int
    OBVIOUS
  <1>2. /\ SumStep(s) \in [1..N -> [Int -> Int]]
        /\ \A n \in 1..N, v \in Int : SumStep(s)[n][v] = v + s[n]
    BY <1>1 DEF SumStep
  <1>3. PICK g : Computes(g, Int, 0, N, SumStep(s))
    BY <1>1, <1>2, Recursion, ZenonT(60)
  <1>4. g = Def(g)
    <2>1. /\ g \in [0..N -> Int] /\ g[0] = 0
          /\ \A n \in 1..N : g[n] = SumStep(s)[n][g[n - 1]]
      BY <1>3, ZenonT(60) DEF Computes
    <2>2. \A n \in 0..N : n # 0 => n \in 1..N /\ n - 1 \in 0..N
      BY <1>1
    <2>3. \A n \in 0..N : g[n] = IF n = 0 THEN 0 ELSE g[n - 1] + s[n]
      BY <1>2, <2>1, <2>2, ZenonT(60)
    <2> QED
      BY <2>1, <2>3
  <1>5. f = Def(f)
    BY <1>4, ZenonT(60)
  <1>6. Sum(s) = f[N]
    BY DEF Sum
  <1> HIDE DEF f
  <1>7. f = [n \in 0..N |-> f[n]] /\ f[0] = 0
    BY <1>1, <1>5
  <1>8. \A n \in 1..N : f[n - 1] \in Int => f[n] = SumStep(s)[n][f[n - 1]]
    <2>1. \A n \in 1..N : n \in 0..N /\ n # 0
      BY <1>1
    <2>2. \A n \in 1..N : f[n] = f[n - 1] + s[n]
      BY <1>5, <2>1, ZenonT(60)
    <2> QED
      BY <1>2, <2>2, ZenonT(60)
  <1>9. Computes(f, Int, 0, N, SumStep(s))
    BY <1>1, <1>2, <1>7, <1>8, Takes, ZenonT(60)
  <1> QED
    BY <1>6, <1>9

\* Quotient and remainder.
LEMMA Division ==
  ASSUME NEW x \in Int, NEW w \in Nat, w > 0
  PROVE  x % w \in 0..(w - 1) /\ x = w * (x \div w) + (x % w) /\ x \div w \in Int
  <1>1. x % w \in 0..(w - 1)
    OBVIOUS
  <1>2. x \div w \in Int
    OBVIOUS
  <1>3. x = w * (x \div w) + (x % w)
    OBVIOUS
  <1> QED
    BY <1>1, <1>2, <1>3


\* Induction up to a number.
LEMMA InductTo ==
  ASSUME NEW N \in Nat, NEW T, 0 \in T,
         \A n \in 0..(N - 1) : n \in T => n + 1 \in T
  PROVE  N \in T
  <1> DEFINE U == {n \in Nat : n <= N => n \in T}
  <1>1. 0 \in U
    OBVIOUS
  <1>2. \A n \in Nat : n \in U => n + 1 \in U
    OBVIOUS
  <1> HIDE DEF U
  <1>3. N \in U
    BY <1>1, <1>2, Induct, ZenonT(60) DEF U
  <1> QED
    BY <1>3 DEF U

\* f holds the sums of the first elements of s.
Adds(f, s) ==
  /\ f \in [0..Len(s) -> Int] /\ f[0] = 0
  /\ \A n \in 0..(Len(s) - 1) : f[n + 1] = f[n] + s[n + 1]

\* A sum is the last of the sums of the first elements.
LEMMA SumAdds ==
  ASSUME NEW s \in Seq(Int)
  PROVE  (\E f : Adds(f, s) /\ Sum(s) = f[Len(s)]) /\ Sum(s) \in Int
  <1>1. PICK f : Computes(f, Int, 0, Len(s), SumStep(s)) /\ Sum(s) = f[Len(s)]
    BY SumDef
  <1>2. /\ Len(s) \in Nat /\ f \in [0..Len(s) -> Int] /\ f[0] = 0
        /\ \A n \in 1..Len(s) : f[n] = SumStep(s)[n][f[n - 1]]
    BY <1>1 DEF Computes
  <1>3. ASSUME NEW n \in 0..(Len(s) - 1) PROVE f[n + 1] = f[n] + s[n + 1]
    <2>1. n + 1 \in 1..Len(s) /\ (n + 1) - 1 = n /\ f[n] \in Int
      BY <1>2
    <2>2. SumStep(s)[n + 1][f[n]] = f[n] + s[n + 1]
      BY <2>1 DEF SumStep
    <2> QED
      BY <1>2, <2>1, <2>2, ZenonT(60)
  <1>4. Adds(f, s)
    BY <1>2, <1>3, ZenonT(60) DEF Adds
  <1> QED
    BY <1>1, <1>2, <1>4

\* The sum of the sums of two lists is that of the list of the sums.
LEMMA SumPlus ==
  ASSUME NEW s \in Seq(Int), NEW t \in Seq(Int), NEW u \in Seq(Int),
         Len(s) = Len(u), Len(t) = Len(u),
         \A i \in 1..Len(u) : u[i] = s[i] + t[i]
  PROVE  Sum(u) = Sum(s) + Sum(t)
  <1> DEFINE N == Len(u)
  <1>1. PICK f : Adds(f, s) /\ Sum(s) = f[N]
    BY SumAdds, ZenonT(60)
  <1>2. PICK g : Adds(g, t) /\ Sum(t) = g[N]
    BY SumAdds, ZenonT(60)
  <1>3. PICK h : Adds(h, u) /\ Sum(u) = h[N]
    BY SumAdds
  <1> DEFINE T == {n \in 0..N : h[n] = f[n] + g[n]}
  <1>4. N \in Nat /\ 0 \in T
    BY <1>1, <1>2, <1>3 DEF Adds
  <1>5. ASSUME NEW n \in 0..(N - 1), n \in T
        PROVE  n + 1 \in T
    <2>1. /\ h[n + 1] = h[n] + u[n + 1] /\ f[n + 1] = f[n] + s[n + 1]
          /\ g[n + 1] = g[n] + t[n + 1]
      BY <1>1, <1>2, <1>3, ZenonT(60) DEF Adds
    <2>2. n + 1 \in 1..N /\ n + 1 \in 0..N /\ n \in 0..N
      OBVIOUS
    <2>3. f[n] \in Int /\ g[n] \in Int
      BY <1>1, <1>2, <2>2, ZenonT(60) DEF Adds
    <2>4. s[n + 1] \in Int /\ t[n + 1] \in Int
      BY <2>2
    <2>5. u[n + 1] = s[n + 1] + t[n + 1] /\ h[n] = f[n] + g[n]
      BY <1>5, <2>2
    <2>6. h[n + 1] = f[n + 1] + g[n + 1]
      <3>1. (f[n] + g[n]) + (s[n + 1] + t[n + 1]) =
              (f[n] + s[n + 1]) + (g[n] + t[n + 1])
        BY <2>3, <2>4
      <3> QED
        BY <2>1, <2>5, <3>1, ZenonT(60)
    <2> QED
      BY <2>2, <2>6
  <1>6. N \in T
    <2> HIDE DEF T, N
    <2> QED
      BY <1>4, <1>5, InductTo, ZenonT(60)
  <1> QED
    BY <1>1, <1>2, <1>3, <1>6, ZenonT(60)

\* The sum of equal elements.
LEMMA SumConstant ==
  ASSUME NEW s \in Seq(Int), NEW c \in Int, \A i \in 1..Len(s) : s[i] = c
  PROVE  Sum(s) = Len(s) * c
  <1> DEFINE N == Len(s)
  <1>1. PICK f : Adds(f, s) /\ Sum(s) = f[N]
    BY SumAdds
  <1> DEFINE T == {n \in 0..N : f[n] = n * c}
  <1>2. N \in Nat /\ 0 \in T
    BY <1>1 DEF Adds
  <1>3. ASSUME NEW n \in 0..(N - 1), n \in T
        PROVE  n + 1 \in T
    <2>1. f[n + 1] = f[n] + s[n + 1] /\ n + 1 \in 1..N
      BY <1>1 DEF Adds
    <2>2. (n + 1) * c = n * c + c
      OBVIOUS
    <2> QED
      BY <1>3, <2>1, <2>2
  <1>4. N \in T
    <2> HIDE DEF T, N
    <2> QED
      BY <1>2, <1>3, InductTo, ZenonT(60)
  <1> QED
    BY <1>1, <1>4

\* The sum of a list that is 0 but at k.
LEMMA SumSingle ==
  ASSUME NEW s \in Seq(Int), NEW k \in 1..Len(s),
         \A i \in 1..Len(s) : i # k => s[i] = 0
  PROVE  Sum(s) = s[k]
  <1> DEFINE N == Len(s)
  <1>1. PICK f : Adds(f, s) /\ Sum(s) = f[N]
    BY SumAdds
  <1> DEFINE T == {n \in 0..N : f[n] = IF n < k THEN 0 ELSE s[k]}
  <1>2. N \in Nat /\ 0 \in T
    BY <1>1 DEF Adds
  <1>3. ASSUME NEW n \in 0..(N - 1), n \in T
        PROVE  n + 1 \in T
    <2>1. f[n + 1] = f[n] + s[n + 1] /\ n + 1 \in 1..N /\ s[k] \in Int
      BY <1>1 DEF Adds
    <2>2. CASE n + 1 = k
      BY <1>3, <2>1, <2>2
    <2>3. CASE n + 1 # k
      BY <1>3, <2>1, <2>3
    <2> QED
      BY <2>2, <2>3
  <1>4. N \in T
    <2> HIDE DEF T, N
    <2> QED
      BY <1>2, <1>3, InductTo, ZenonT(60)
  <1> QED
    BY <1>1, <1>4

\* The sum of positive numbers is positive.
LEMMA SumPositive ==
  ASSUME NEW s \in Seq(Int), s # <<>>, \A i \in 1..Len(s) : s[i] > 0
  PROVE  Sum(s) > 0
  <1> DEFINE N == Len(s)
  <1>1. PICK f : Adds(f, s) /\ Sum(s) = f[N]
    BY SumAdds
  <1> DEFINE T == {n \in 0..N : f[n] >= n}
  <1>2. N \in Nat \ {0} /\ 0 \in T
    BY <1>1 DEF Adds
  <1>3. ASSUME NEW n \in 0..(N - 1), n \in T
        PROVE  n + 1 \in T
    <2>1. f[n + 1] = f[n] + s[n + 1] /\ n + 1 \in 1..N /\ n \in 0..N
      BY <1>1 DEF Adds
    <2>2. f[n] \in Int
      BY <1>1, <2>1, ZenonT(60) DEF Adds
    <2>3. s[n + 1] \in Int /\ s[n + 1] > 0
      BY <2>1
    <2> QED
      BY <1>3, <2>1, <2>2, <2>3
  <1>4. N \in T
    <2> HIDE DEF T, N
    <2> QED
      BY <1>2, <1>3, InductTo, ZenonT(60)
  <1>5. f[N] \in Int
    BY <1>1, <1>2 DEF Adds
  <1> QED
    BY <1>1, <1>2, <1>4, <1>5

-----------------------------------------------------------------------------
(* The rotation of the proposers.                                          *)

Voter == [addr: Nat, power: Nat \ {0}, priority: Int]
Voters == Seq(Voter) \ {<<>>}

\* One of the elements of a list is not below the others, and one not above.
LEMMA Extremes ==
  ASSUME NEW s \in Seq(Int), s # <<>>
  PROVE  /\ Highest(s) \in 1..Len(s) /\ Lowest(s) \in 1..Len(s)
         /\ \A j \in 1..Len(s) : s[j] <= s[Highest(s)]
  <1> DEFINE N == Len(s)
             Up(n, i) == \A j \in 1..n : s[j] <= s[i]
             Down(n, i) == \A j \in 1..n : s[i] <= s[j]
             T == {n \in 0..N : n > 0 => /\ \E i \in 1..n : Up(n, i)
                                         /\ \E i \in 1..n : Down(n, i)}
  <1>1. N \in Nat \ {0} /\ 0 \in T
    OBVIOUS
  <1>2. ASSUME NEW n \in 0..(N - 1), n \in T
        PROVE  n + 1 \in T
    <2>1. \A i \in 1..N : s[i] \in Int
      OBVIOUS
    <2>2. CASE n = 0
      <3>1. 1 \in 1..(n + 1) /\ Up(n + 1, 1) /\ Down(n + 1, 1)
        BY <2>1, <2>2
      <3> QED
        BY <3>1
    <2>3. CASE n > 0
      <3>1. PICK i \in 1..n : Up(n, i)
        BY <1>2, <2>3, ZenonT(60)
      <3>2. PICK k \in 1..n : Down(n, k)
        BY <1>2, <2>3, ZenonT(60)
      <3>3. \E m \in 1..(n + 1) : Up(n + 1, m)
        <4>1. CASE s[n + 1] <= s[i]
          <5>1. Up(n + 1, i) /\ i \in 1..(n + 1)
            BY <3>1, <4>1
          <5> QED
            BY <5>1, ZenonT(60)
        <4>2. CASE ~ (s[n + 1] <= s[i])
          <5>1. Up(n + 1, n + 1) /\ n + 1 \in 1..(n + 1)
            BY <2>1, <3>1, <4>2
          <5> QED
            BY <5>1
        <4> QED
          BY <4>1, <4>2, ZenonT(60)
      <3>4. \E m \in 1..(n + 1) : Down(n + 1, m)
        <4>1. CASE s[k] <= s[n + 1]
          <5>1. Down(n + 1, k) /\ k \in 1..(n + 1)
            BY <3>2, <4>1
          <5> QED
            BY <5>1
        <4>2. CASE ~ (s[k] <= s[n + 1])
          <5>1. Down(n + 1, n + 1) /\ n + 1 \in 1..(n + 1)
            BY <2>1, <3>2, <4>2
          <5> QED
            BY <5>1
        <4> QED
          BY <4>1, <4>2
      <3>5. n + 1 \in 0..N
        OBVIOUS
      <3> HIDE DEF Up, Down, N
      <3> QED
        BY <3>3, <3>4, <3>5, ZenonT(60)
    <2> QED
      BY <2>2, <2>3
  <1>3. N \in T
    <2> HIDE DEF T, N
    <2> QED
      BY <1>1, <1>2, InductTo, ZenonT(60)
  <1>4. (\E i \in 1..N : Up(N, i)) /\ \E i \in 1..N : Down(N, i)
    BY <1>1, <1>3
  <1> QED
    BY <1>4, ZenonT(60) DEF Highest, Lowest

\* The elements of a validator set.
LEMMA VotersFacts ==
  ASSUME NEW vals \in Voters
  PROVE  /\ Len(vals) \in Nat \ {0}
         /\ \A i \in 1..Len(vals) :
              /\ vals[i] \in Voter /\ vals[i].addr \in Nat
              /\ vals[i].power \in Nat \ {0} /\ vals[i].priority \in Int
         /\ Priorities(vals) \in Seq(Int) /\ Powers(vals) \in Seq(Int)
         /\ Priorities(vals) # <<>> /\ Powers(vals) # <<>>
         /\ Len(Priorities(vals)) = Len(vals) /\ Len(Powers(vals)) = Len(vals)
         /\ \A i \in 1..Len(vals) : /\ Priorities(vals)[i] = vals[i].priority
                                    /\ Powers(vals)[i] = vals[i].power
  <1>1. Len(vals) \in Nat \ {0} /\ \A i \in 1..Len(vals) : vals[i] \in Voter
    BY DEF Voters
  <1>2. \A i \in 1..Len(vals) : /\ vals[i].addr \in Nat
                                /\ vals[i].power \in Nat \ {0}
                                /\ vals[i].priority \in Int
    BY <1>1, ZenonT(60) DEF Voter
  <1>3. Priorities(vals) \in Seq(Int) /\ Len(Priorities(vals)) = Len(vals)
    BY <1>1, <1>2 DEF Priorities
  <1>4. Powers(vals) \in Seq(Int) /\ Len(Powers(vals)) = Len(vals)
    BY <1>1, <1>2 DEF Powers
  <1>5. \A i \in 1..Len(vals) : /\ Priorities(vals)[i] = vals[i].priority
                                /\ Powers(vals)[i] = vals[i].power
    BY DEF Priorities, Powers
  <1>6. Priorities(vals) # <<>> /\ Powers(vals) # <<>>
    BY <1>1, <1>3, <1>4
  <1> QED
    BY <1>1, <1>2, <1>3, <1>4, <1>5, <1>6, ZenonT(60)

\* Other priorities change nothing else.
LEMMA WithFacts ==
  ASSUME NEW vals \in Voters, NEW p \in [1..Len(vals) -> Int]
  PROVE  /\ With(vals, p) \in Voters /\ Len(With(vals, p)) = Len(vals)
         /\ Powers(With(vals, p)) = Powers(vals)
         /\ \A i \in 1..Len(vals) : With(vals, p)[i].priority = p[i]
         /\ \A i \in 1..Len(vals) : With(vals, p)[i].addr = vals[i].addr
  <1> DEFINE w == With(vals, p)
  <1>1. Len(vals) \in Nat \ {0} /\ \A i \in 1..Len(vals) : vals[i] \in Voter
    BY VotersFacts
  <1>2. ASSUME NEW i \in 1..Len(vals)
        PROVE  /\ w[i] = [vals[i] EXCEPT !.priority = p[i]]
               /\ w[i] \in Voter /\ w[i].priority = p[i]
               /\ w[i].power = vals[i].power /\ w[i].addr = vals[i].addr
    <2>1. w[i] = [vals[i] EXCEPT !.priority = p[i]]
      BY DEF With
    <2> QED
      BY <1>1, <2>1, ZenonT(60) DEF Voter
  <1>3. w = [i \in 1..Len(vals) |-> w[i]]
    BY DEF With
  <1> HIDE DEF w
  <1>4. w \in Seq(Voter) /\ Len(w) = Len(vals)
    BY <1>1, <1>2, <1>3
  <1>5. w \in Voters
    BY <1>1, <1>4 DEF Voters
  <1>6. Powers(w) = Powers(vals)
    BY <1>2, <1>4, ZenonT(60) DEF Powers
  <1> QED
    BY <1>2, <1>4, <1>5, <1>6, ZenonT(60) DEF w

\* A validator set has power.
LEMMA PowerPositive ==
  ASSUME NEW vals \in Voters
  PROVE  TotalPower(vals) \in Int /\ TotalPower(vals) > 0
  <1>1. /\ Powers(vals) \in Seq(Int) /\ Powers(vals) # <<>>
        /\ \A i \in 1..Len(Powers(vals)) : Powers(vals)[i] > 0
    BY VotersFacts
  <1> QED
    BY <1>1, SumAdds, SumPositive, ZenonT(60) DEF TotalPower

\* a / b is an integer.
LEMMA QuoType ==
  ASSUME NEW a \in Int, NEW b \in Int, b > 0
  PROVE  Quo(a, b) \in Int
  BY DEF Quo

\* Rescaling yields a validator set, and leaves alone what is in the window.
LEMMA RescaleFacts ==
  ASSUME NEW vals \in Voters
  PROVE  /\ RescalePriorities(vals) \in Voters
         /\ ~OutOfWindow(vals) => RescalePriorities(vals) = vals
  <1> DEFINE spread == Spread(Priorities(vals))
             window == Window(vals)
             ratio == (spread + window - 1) \div window
             p == [i \in 1..Len(vals) |-> Quo(vals[i].priority, ratio)]
  <1>1. RescalePriorities(vals) = IF OutOfWindow(vals) THEN With(vals, p) ELSE vals
    BY DEF RescalePriorities
  <1>2. ASSUME OutOfWindow(vals)
        PROVE  With(vals, p) \in Voters
    <2>1. window \in Int /\ window > 0
      BY PowerPositive DEF Window
    <2>2. spread \in Int
      <3>1. /\ Highest(Priorities(vals)) \in 1..Len(Priorities(vals))
            /\ Lowest(Priorities(vals)) \in 1..Len(Priorities(vals))
        BY VotersFacts, Extremes, ZenonT(60)
      <3>2. \A i \in 1..Len(Priorities(vals)) : Priorities(vals)[i] \in Int
        BY VotersFacts
      <3> QED
        BY <3>1, <3>2 DEF Spread
    <2>3. spread > window
      BY <1>2 DEF OutOfWindow
    <2> HIDE DEF spread, window
    <2>4. ratio \in Int /\ ratio > 0
      <3> DEFINE x == spread + window - 1
      <3>1. x \in Int /\ x >= window /\ window \in Nat
        BY <2>1, <2>2, <2>3
      <3> HIDE DEF x
      <3>2. /\ x % window \in 0..(window - 1) /\ x \div window \in Int
            /\ x = window * (x \div window) + (x % window)
        BY <2>1, <3>1, Division, ZenonT(60)
      <3>3. x \div window > 0
        <4> SUFFICES ASSUME x \div window <= 0
                     PROVE  FALSE
          BY <3>2
        <4>1. window * (x \div window) <= 0
          BY <2>1, <3>2
        <4> QED
          BY <2>1, <3>1, <3>2, <4>1
      <3> QED
        BY <3>2, <3>3 DEF x
    <2> HIDE DEF ratio
    <2>5. p \in [1..Len(vals) -> Int]
      <3>1. \A i \in 1..Len(vals) : Quo(vals[i].priority, ratio) \in Int
        BY <2>4, VotersFacts, QuoType, ZenonT(60)
      <3> QED
        BY <3>1
    <2> HIDE DEF p
    <2> QED
      BY <2>5, WithFacts, ZenonT(60)
  <1> QED
    BY <1>1, <1>2

\* A product is not nearer to 0 than its factors.
LEMMA Products ==
  ASSUME NEW a \in Int, NEW b \in Int, a > 0
  PROVE  (b > 0 => a * b >= a) /\ (b < 0 => a * b <= -a)
  <1>1. a * b = a * (b - 1) + a /\ a * b = a * (b + 1) - a
    OBVIOUS
  <1>2. b > 0 => a * (b - 1) >= 0
    OBVIOUS
  <1>3. b < 0 => a * (b + 1) <= 0
    OBVIOUS
  <1>4. a * (b - 1) \in Int /\ a * (b + 1) \in Int
    OBVIOUS
  <1> QED
    BY <1>1, <1>2, <1>3, <1>4

\* A validator set whose priorities are centred.
Centred == {vals \in Voters : Sum(Priorities(vals)) \in 0..(Len(vals) - 1)}

\* The shift centres the priorities, and leaves alone what is centred.
LEMMA ShiftFacts ==
  ASSUME NEW vals \in Voters
  PROVE  /\ ShiftByAverage(vals) \in Centred
         /\ vals \in Centred => ShiftByAverage(vals) = vals
  <1> DEFINE N == Len(vals)
             sum == Sum(Priorities(vals))
             avg == Average(vals)
             p == [i \in 1..N |-> vals[i].priority - avg]
             w == With(vals, p)
             c == [i \in 1..N |-> -avg]
  <1>1. /\ N \in Nat \ {0} /\ Priorities(vals) \in Seq(Int)
        /\ Len(Priorities(vals)) = N
        /\ \A i \in 1..N : /\ Priorities(vals)[i] = vals[i].priority
                           /\ vals[i].priority \in Int
    BY VotersFacts, ZenonT(60)
  <1>2. sum \in Int
    BY <1>1, SumAdds, ZenonT(60)
  <1>3. /\ avg = sum \div N /\ avg \in Int /\ sum % N \in 0..(N - 1)
        /\ sum = N * avg + (sum % N)
    <2>1. avg = sum \div N
      BY DEF Average
    <2> HIDE DEF avg, sum, N
    <2> QED
      BY <1>1, <1>2, <2>1, Division
  <1> HIDE DEF avg, sum, N
  <1>4. N \in Int /\ N > 0 /\ N \in Nat /\ avg \in Int /\ -avg \in Int
    <2>1. N \in Int /\ N > 0 /\ N \in Nat
      BY <1>1
    <2>2. avg \in Int
      BY <1>3
    <2> QED
      BY <2>1, <2>2
  <1>5. \A i \in 1..N : vals[i].priority \in Int
    BY <1>1, ZenonT(60)
  <1>6. p \in [1..N -> Int] /\ \A i \in 1..N : p[i] = vals[i].priority + (-avg)
    BY <1>4, <1>5
  <1>7. c \in Seq(Int) /\ Len(c) = N /\ \A i \in 1..N : c[i] = -avg
    BY <1>4
  <1>8. ShiftByAverage(vals) = w
    BY ZenonT(60) DEF ShiftByAverage, avg, N
  <1> HIDE DEF p, c
  <1>9. /\ w \in Voters /\ Len(w) = N
        /\ \A i \in 1..N : w[i].priority = p[i]
    BY <1>6, WithFacts, ZenonT(60) DEF N
  <1> HIDE DEF w
  <1>10. Sum(Priorities(w)) = sum % N
    <2>1. /\ Priorities(w) \in Seq(Int) /\ Len(Priorities(w)) = N
          /\ \A i \in 1..N : Priorities(w)[i] = w[i].priority
      BY <1>9, VotersFacts, ZenonT(60)
    <2>2. \A i \in 1..N : Priorities(w)[i] = Priorities(vals)[i] + c[i]
      BY <1>1, <1>6, <1>7, <1>9, <2>1, ZenonT(60)
    <2>3. Sum(Priorities(w)) = sum + Sum(c)
      BY <1>1, <1>7, <2>1, <2>2, SumPlus, ZenonT(60) DEF sum
    <2>4. -avg \in Int
      BY <1>3
    <2>5. Sum(c) = N * (-avg)
      BY <1>7, <2>4, SumConstant, ZenonT(60)
    <2>6. N * (-avg) = -(N * avg)
      BY <1>1, <1>3
    <2> QED
      BY <1>1, <1>2, <1>3, <2>3, <2>5, <2>6
  <1>11. w \in Centred
    BY <1>3, <1>9, <1>10, ZenonT(60) DEF Centred
  <1>12. ASSUME vals \in Centred
         PROVE  w = vals
    <2>1. sum \in 0..(N - 1)
      BY <1>12, ZenonT(60) DEF Centred, N, sum
    <2>2. avg = 0
      <3>1. CASE avg > 0
        <4>1. N * avg >= N
          BY <1>4, <3>1, Products
        <4> QED
          BY <1>1, <1>3, <2>1, <4>1
      <3>2. CASE avg < 0
        <4>1. N * avg <= -N
          BY <1>4, <3>2, Products, ZenonT(60)
        <4> QED
          BY <1>1, <1>3, <2>1, <4>1
      <3> QED
        BY <1>3, <3>1, <3>2
    <2>3. \A i \in 1..N : p[i] = vals[i].priority /\ vals[i] \in Voter
      BY <1>1, <1>6, <2>2, VotersFacts DEF N
    <2>4. \A i \in 1..N : [vals[i] EXCEPT !.priority = p[i]] = vals[i]
      BY <2>3 DEF Voter
    <2>5. vals = [i \in 1..N |-> vals[i]]
      BY DEF Voters, N
    <2>6. w = [i \in 1..N |-> [vals[i] EXCEPT !.priority = p[i]]]
      BY ZenonT(60) DEF w, With, N
    <2> QED
      BY <2>4, <2>5, <2>6, ZenonT(60)
  <1> QED
    BY <1>8, <1>11, <1>12, ZenonT(60)

\* Somebody is ahead: of those with the highest priority, the one with the
\* lowest address.
LEMMA SomebodyAhead ==
  ASSUME NEW vals \in Voters
  PROVE  MostPriority(vals) \in 1..Len(vals)
  <1> DEFINE N == Len(vals)
             s == Priorities(vals)
             top == {i \in 1..N : \A j \in 1..N : vals[j].priority <= vals[i].priority}
             A == {vals[i].addr : i \in top}
             Leads(i) == \A j \in 1..N :
                           \/ vals[i].priority > vals[j].priority
                           \/ /\ vals[i].priority = vals[j].priority
                              /\ vals[i].addr <= vals[j].addr
  <1>1. \A i \in 1..N : vals[i].addr \in Nat /\ vals[i].priority \in Int
    BY VotersFacts, ZenonT(60)
  <1>2. top # {}
    <2>1. /\ Len(s) = N /\ Highest(s) \in 1..Len(s)
          /\ \A j \in 1..Len(s) : s[j] <= s[Highest(s)]
      BY VotersFacts, Extremes, ZenonT(60)
    <2>2. \A i \in 1..N : s[i] = vals[i].priority
      BY VotersFacts, ZenonT(60)
    <2> HIDE DEF s, N
    <2>3. Highest(s) \in top
      BY <2>1, <2>2, ZenonT(60)
    <2> QED
      BY <2>3, ZenonT(60)
  <1>3. A \in SUBSET Nat /\ A # {}
    BY <1>1, <1>2, ZenonT(60)
  <1> HIDE DEF A
  <1>4. PICK a \in A : \A b \in A : a <= b
    BY <1>3, Least
  <1>5. PICK i \in top : a = vals[i].addr
    BY DEF A
  <1>6. ASSUME NEW j \in 1..N
        PROVE  \/ vals[i].priority > vals[j].priority
               \/ vals[i].priority = vals[j].priority /\ vals[i].addr <= vals[j].addr
    <2>1. vals[j].priority <= vals[i].priority /\ i \in 1..N
      BY <1>5, ZenonT(60)
    <2>2. CASE vals[j].priority = vals[i].priority
      <3>1. j \in top
        BY <1>5, <2>2, ZenonT(60)
      <3>2. vals[j].addr \in A
        BY <3>1, ZenonT(60) DEF A
      <3> QED
        BY <1>4, <1>5, <2>2, <3>2, ZenonT(60)
    <2>3. CASE vals[j].priority # vals[i].priority
      BY <1>1, <2>1, <2>3
    <2> QED
      BY <2>2, <2>3, ZenonT(60)
  <1>7. i \in 1..N /\ Leads(i)
    BY <1>5, <1>6, ZenonT(60)
  <1> QED
    BY <1>7, ZenonT(60) DEF MostPriority

\* What a concatenation is.
LEMMA Concatenation ==
  ASSUME NEW S, NEW s \in Seq(S), NEW t \in Seq(S)
  PROVE  /\ s \o t \in Seq(S) /\ Len(s \o t) = Len(s) + Len(t)
         /\ \A i \in 1..(Len(s) + Len(t)) :
              (s \o t)[i] = IF i <= Len(s) THEN s[i] ELSE t[i - Len(s)]
  OBVIOUS

\* Charging a validator changes its priority and nothing else.
LEMMA ChargedFacts ==
  ASSUME NEW vals \in Voters, NEW k \in 1..Len(vals), NEW x \in Int
  PROVE  /\ Charged(vals, k, x) \in Voters
         /\ Len(Charged(vals, k, x)) = Len(vals)
         /\ \A i \in 1..Len(vals) : Charged(vals, k, x)[i].priority =
               IF i = k THEN vals[i].priority - x ELSE vals[i].priority
  <1> DEFINE N == Len(vals)
             one == [vals[k] EXCEPT !.priority = @ - x]
             before == SubSeq(vals, 1, k - 1)
             beyond == SubSeq(vals, k + 1, N)
             w == Charged(vals, k, x)
  <1>1. /\ N \in Nat \ {0} /\ vals \in Seq(Voter) /\ k \in 1..N
        /\ vals[k] \in Voter /\ vals[k].priority \in Int
    BY VotersFacts, ZenonT(60) DEF Voters
  <1>2. one \in Voter /\ one.priority = vals[k].priority - x
    <2>1. ASSUME NEW m \in Voter
          PROVE  /\ [m EXCEPT !.priority = @ - x] \in Voter
                 /\ [m EXCEPT !.priority = @ - x].priority = m.priority - x
      BY DEF Voter
    <2> QED
      BY <1>1, <2>1, ZenonT(60)
  <1> HIDE DEF one, N
  <1>3. /\ before \in Seq(Voter) /\ Len(before) = k - 1
        /\ \A i \in 1..(k - 1) : before[i] = vals[i]
    BY <1>1 DEF N
  <1>4. /\ beyond \in Seq(Voter) /\ Len(beyond) = N - k
        /\ \A i \in 1..(N - k) : beyond[i] = vals[k + i]
    BY <1>1 DEF N
  <1>5. w = before \o <<one>> \o beyond
    BY ZenonT(60) DEF Charged, one, N
  <1> HIDE DEF before, beyond, w
  <1>6. /\ w \in Seq(Voter) /\ Len(w) = N
        /\ \A i \in 1..N : w[i] = IF i < k THEN before[i]
                                  ELSE IF i = k THEN one ELSE beyond[i - k]
    <2> DEFINE a == before \o <<one>>
    <2>1. /\ a \in Seq(Voter) /\ Len(a) = k /\ a[k] = one
          /\ \A i \in 1..(k - 1) : a[i] = before[i]
      <3>1. <<one>> \in Seq(Voter) /\ Len(<<one>>) = 1 /\ <<one>>[1] = one
        BY <1>2
      <3>2. /\ a \in Seq(Voter) /\ Len(a) = Len(before) + 1
            /\ \A i \in 1..(Len(before) + 1) : a[i] =
                 IF i <= Len(before) THEN before[i] ELSE <<one>>[i - Len(before)]
        BY <1>3, <3>1, Concatenation, ZenonT(60)
      <3> HIDE DEF a
      <3>3. /\ (k - 1) + 1 = k /\ k \in 1..k /\ ~ (k <= k - 1) /\ k - (k - 1) = 1
            /\ \A i \in 1..(k - 1) : i \in 1..k /\ i <= k - 1
        BY <1>1
      <3> QED
        BY <1>3, <3>1, <3>2, <3>3, ZenonT(60)
    <2> HIDE DEF a
    <2>2. /\ a \o beyond \in Seq(Voter) /\ Len(a \o beyond) = N
          /\ \A i \in 1..N : (a \o beyond)[i] = IF i <= k THEN a[i] ELSE beyond[i - k]
      <3>1. k + (N - k) = N
        BY <1>1
      <3>2. Len(a) + Len(beyond) = N /\ Len(a) = k
        BY <1>4, <2>1, <3>1
      <3>3. /\ a \o beyond \in Seq(Voter)
            /\ Len(a \o beyond) = Len(a) + Len(beyond)
            /\ \A i \in 1..(Len(a) + Len(beyond)) :
                 (a \o beyond)[i] = IF i <= Len(a) THEN a[i] ELSE beyond[i - Len(a)]
        BY <1>4, <2>1, Concatenation, ZenonT(60)
      <3> QED
        BY <3>2, <3>3
    <2>3. /\ w \in Seq(Voter) /\ Len(w) = N
          /\ \A i \in 1..N : w[i] = IF i <= k THEN a[i] ELSE beyond[i - k]
      BY <1>5, <2>2, ZenonT(60) DEF a
    <2>4. ASSUME NEW i \in 1..N
          PROVE  w[i] = IF i < k THEN before[i]
                        ELSE IF i = k THEN one ELSE beyond[i - k]
      <3>1. CASE i < k
        <4>1. i <= k /\ i \in 1..(k - 1)
          BY <1>1, <3>1
        <4> QED
          BY <2>1, <2>3, <3>1, <4>1, ZenonT(60)
      <3>2. CASE i = k
        <4>1. i <= k /\ ~ (i < k)
          BY <1>1, <3>2
        <4> QED
          BY <2>1, <2>3, <3>2, <4>1, ZenonT(60)
      <3>3. CASE i > k
        <4>1. ~ (i <= k) /\ ~ (i < k) /\ i # k
          BY <1>1, <3>3
        <4> QED
          BY <2>3, <4>1, ZenonT(60)
      <3> QED
        BY <1>1, <3>1, <3>2, <3>3
    <2> QED
      BY <2>3, <2>4, ZenonT(60)
  <1>7. w \in Voters
    BY <1>1, <1>6 DEF Voters
  <1>8. ASSUME NEW i \in 1..N
        PROVE  w[i] = IF i = k THEN one ELSE vals[i]
    <2>1. CASE i < k
      BY <1>1, <1>3, <1>6, <2>1
    <2>2. CASE i > k
      <3>1. i - k \in 1..(N - k) /\ k + (i - k) = i
        BY <1>1, <2>2
      <3> QED
        BY <1>4, <1>6, <2>2, <3>1
    <2>3. CASE i = k
      BY <1>6, <2>3
    <2> QED
      BY <1>1, <2>1, <2>2, <2>3
  <1> QED
    BY <1>2, <1>6, <1>7, <1>8, ZenonT(60) DEF w, N

\* A rotation keeps the sum of the priorities.
LEMMA RotateFacts ==
  ASSUME NEW vals \in Voters
  PROVE  /\ Rotate(vals).vals \in Voters /\ Rotate(vals).proposer \in Nat
         /\ Rotate(vals) = [vals |-> Rotate(vals).vals,
                            proposer |-> Rotate(vals).proposer]
         /\ Len(Rotate(vals).vals) = Len(vals)
         /\ Sum(Priorities(Rotate(vals).vals)) = Sum(Priorities(vals))
  <1> DEFINE N == Len(vals)
             p == [i \in 1..N |-> vals[i].priority + vals[i].power]
             g == Gained(vals)
             k == MostPriority(g)
             x == TotalPower(vals)
             w == Charged(g, k, x)
             c == [i \in 1..N |-> IF i = k THEN -x ELSE 0]
  <1>1. /\ Rotate(vals) = [vals |-> w, proposer |-> vals[k].addr]
        /\ g = With(vals, p)
    BY DEF Rotate, Gained
  <1>2. x \in Int /\ x = Sum(Powers(vals))
    BY PowerPositive DEF TotalPower
  <1> HIDE DEF x
  <1>3. /\ N \in Nat \ {0} /\ Priorities(vals) \in Seq(Int) /\ Powers(vals) \in Seq(Int)
        /\ Len(Priorities(vals)) = N /\ Len(Powers(vals)) = N
        /\ \A i \in 1..N : /\ Priorities(vals)[i] = vals[i].priority
                           /\ Powers(vals)[i] = vals[i].power
                           /\ vals[i].priority \in Int /\ vals[i].power \in Int
                           /\ vals[i].addr \in Nat
    BY VotersFacts
  <1>4. p \in [1..N -> Int]
    BY <1>3
  <1>5. /\ g \in Voters /\ Len(g) = N
        /\ \A i \in 1..N : g[i].priority = vals[i].priority + vals[i].power
    <2>1. \A i \in 1..N : p[i] = vals[i].priority + vals[i].power
      OBVIOUS
    <2> HIDE DEF p, g
    <2> QED
      BY <1>1, <1>4, <2>1, WithFacts, ZenonT(60)
  <1> HIDE DEF p, g, N
  <1>6. /\ Priorities(g) \in Seq(Int) /\ Len(Priorities(g)) = N
        /\ \A i \in 1..N : /\ Priorities(g)[i] = g[i].priority
                           /\ g[i].priority \in Int
    BY <1>5, VotersFacts, ZenonT(60)
  <1>7. Sum(Priorities(g)) = Sum(Priorities(vals)) + x
    <2>1. \A i \in 1..N : Priorities(g)[i] = Priorities(vals)[i] + Powers(vals)[i]
      BY <1>3, <1>5, <1>6, ZenonT(60)
    <2>2. /\ Len(Priorities(vals)) = Len(Priorities(g))
          /\ Len(Powers(vals)) = Len(Priorities(g))
          /\ \A i \in 1..Len(Priorities(g)) :
               Priorities(g)[i] = Priorities(vals)[i] + Powers(vals)[i]
      BY <1>3, <1>6, <2>1, ZenonT(60)
    <2>3. Sum(Priorities(g)) = Sum(Priorities(vals)) + Sum(Powers(vals))
      BY <1>3, <1>6, <2>2, SumPlus, ZenonT(60)
    <2> QED
      BY <1>2, <2>3, ZenonT(60)
  <1>8. k \in 1..N
    BY <1>5, SomebodyAhead, ZenonT(60)
  <1> HIDE DEF k
  <1>9. /\ w \in Voters /\ Len(w) = N
        /\ \A i \in 1..N : w[i].priority = IF i = k THEN g[i].priority - x
                                           ELSE g[i].priority
    BY <1>2, <1>5, <1>8, ChargedFacts, ZenonT(60)
  <1> HIDE DEF w
  <1>10. /\ Priorities(w) \in Seq(Int) /\ Len(Priorities(w)) = N
         /\ \A i \in 1..N : Priorities(w)[i] = w[i].priority
    BY <1>9, VotersFacts, ZenonT(60)
  <1>11. /\ c \in Seq(Int) /\ Len(c) = N /\ c[k] = -x
         /\ \A i \in 1..N : i # k => c[i] = 0
    <2>1. N \in Nat /\ -x \in Int /\ 0 \in Int
      BY <1>2, <1>3
    <2> QED
      BY <1>8, <2>1
  <1> HIDE DEF c
  <1>12. Sum(Priorities(w)) = Sum(Priorities(g)) + Sum(c)
    <2>1. ASSUME NEW i \in 1..N
          PROVE  Priorities(w)[i] = Priorities(g)[i] + c[i]
      <3>1. /\ Priorities(w)[i] = w[i].priority /\ Priorities(g)[i] = g[i].priority
            /\ g[i].priority \in Int
            /\ w[i].priority = IF i = k THEN g[i].priority - x ELSE g[i].priority
        BY <1>6, <1>9, <1>10, ZenonT(60)
      <3>2. c[i] = IF i = k THEN -x ELSE 0
        BY <1>11, ZenonT(60)
      <3> QED
        BY <1>2, <3>1, <3>2
    <2>2. /\ Len(Priorities(g)) = Len(Priorities(w)) /\ Len(c) = Len(Priorities(w))
          /\ \A i \in 1..Len(Priorities(w)) :
               Priorities(w)[i] = Priorities(g)[i] + c[i]
      BY <1>6, <1>10, <1>11, <2>1, ZenonT(60)
    <2> QED
      BY <1>6, <1>10, <1>11, <2>2, SumPlus, ZenonT(60)
  <1>13. Sum(c) = -x
    BY <1>8, <1>11, SumSingle, ZenonT(60)
  <1>14. Sum(Priorities(vals)) \in Int
    BY <1>3, SumAdds, ZenonT(60)
  <1>15. Sum(Priorities(w)) = Sum(Priorities(vals))
    BY <1>2, <1>7, <1>12, <1>13, <1>14
  <1>16. vals[k].addr \in Nat
    BY <1>3, <1>8, ZenonT(60)
  <1>17. Rotate(vals).vals = w /\ Rotate(vals).proposer = vals[k].addr
    BY <1>1
  <1> QED
    BY <1>1, <1>9, <1>15, <1>16, <1>17, ZenonT(60) DEF N

\* A step of the rotation, as PredictProposer takes it.
Rotation == [vals: Centred, proposer: Nat]
RotateStep(d) == [n \in 1..d |-> [v \in Rotation |-> Rotate(v.vals)]]
Start(vals) == [vals |-> ShiftByAverage(RescalePriorities(vals)),
                proposer |-> NoProposer]

\* A rotation of centred priorities leaves them centred.
LEMMA RotateCentred ==
  ASSUME NEW vals \in Centred
  PROVE  Rotate(vals) \in Rotation
  <1>1. vals \in Voters /\ Sum(Priorities(vals)) \in 0..(Len(vals) - 1)
    BY DEF Centred
  <1>2. Rotate(vals).vals \in Centred
    BY <1>1, RotateFacts, ZenonT(60) DEF Centred
  <1>3. /\ Rotate(vals).proposer \in Nat
        /\ Rotate(vals) = [vals |-> Rotate(vals).vals,
                           proposer |-> Rotate(vals).proposer]
    BY <1>1, RotateFacts, ZenonT(60)
  <1> QED
    BY <1>2, <1>3, ZenonT(60) DEF Rotation

\* A call starts with centred priorities.
LEMMA StartCentred ==
  ASSUME NEW vals \in Voters
  PROVE  Start(vals) \in Rotation /\ Start(vals).vals \in Centred
  <1>1. ShiftByAverage(RescalePriorities(vals)) \in Centred
    BY RescaleFacts, ShiftFacts, ZenonT(60)
  <1> QED
    BY <1>1, ZenonT(60) DEF Start, Rotation, NoProposer

\* IncrementProposerPriority rotates as often as it is told.
LEMMA Increments ==
  ASSUME NEW vals \in Voters, NEW d \in Nat
  PROVE  \E f : /\ Computes(f, Rotation, Start(vals), d, RotateStep(d))
                /\ IncrementProposerPriority(vals, d) = f[d]
  <1> DEFINE Def(g) == [n \in 0..d |-> IF n = 0 THEN Start(vals)
                                       ELSE Rotate(g[n - 1].vals)]
             f == CHOOSE g : g = Def(g)
  <1>1. Start(vals) \in Rotation
    BY StartCentred, ZenonT(60)
  <1>2. \A v \in Rotation : Rotate(v.vals) \in Rotation
    BY RotateCentred DEF Rotation
  <1>3. /\ RotateStep(d) \in [1..d -> [Rotation -> Rotation]]
        /\ \A n \in 1..d, v \in Rotation : RotateStep(d)[n][v] = Rotate(v.vals)
    BY <1>2, ZenonT(60) DEF RotateStep
  <1>4. PICK g : Computes(g, Rotation, Start(vals), d, RotateStep(d))
    BY <1>1, <1>3, Recursion, ZenonT(60)
  <1>5. g = Def(g)
    <2>1. /\ g \in [0..d -> Rotation] /\ g[0] = Start(vals)
          /\ \A n \in 1..d : g[n] = RotateStep(d)[n][g[n - 1]]
      BY <1>4, ZenonT(60) DEF Computes
    <2>2. \A n \in 0..d : n # 0 => n \in 1..d /\ n - 1 \in 0..d
      OBVIOUS
    <2>3. \A n \in 1..d : g[n] = Rotate(g[n - 1].vals)
      <3>1. \A n \in 1..d : n - 1 \in 0..d
        OBVIOUS
      <3> QED
        BY <1>3, <2>1, <3>1, ZenonT(60)
    <2>4. \A n \in 0..d : g[n] = IF n = 0 THEN Start(vals) ELSE Rotate(g[n - 1].vals)
      BY <2>1, <2>2, <2>3, ZenonT(60)
    <2> QED
      BY <2>1, <2>4, ZenonT(60)
  <1>6. f = Def(f)
    BY <1>5, ZenonT(60)
  <1>7. IncrementProposerPriority(vals, d) = f[d]
    BY ZenonT(60) DEF IncrementProposerPriority, Start
  <1> HIDE DEF f
  <1>8. f = [n \in 0..d |-> f[n]] /\ f[0] = Start(vals)
    <2>1. 0 \in 0..d
      OBVIOUS
    <2> QED
      BY <1>6, <2>1, ZenonT(60)
  <1>9. \A n \in 1..d : f[n - 1] \in Rotation => f[n] = RotateStep(d)[n][f[n - 1]]
    <2>1. \A n \in 1..d : n \in 0..d /\ n # 0
      OBVIOUS
    <2>2. \A n \in 1..d : f[n] = Rotate(f[n - 1].vals)
      BY <1>6, <2>1, ZenonT(60)
    <2> QED
      BY <1>3, <2>2, ZenonT(60)
  <1>10. Computes(f, Rotation, Start(vals), d, RotateStep(d))
    BY <1>1, <1>3, <1>8, <1>9, Takes, ZenonT(60)
  <1> QED
    BY <1>7, <1>10, ZenonT(60)

\* The same, step by step.
LEMMA Rotations ==
  ASSUME NEW vals \in Voters, NEW d \in Nat
  PROVE  \E f : /\ f \in [0..d -> Rotation] /\ f[0] = Start(vals)
                /\ \A n \in 0..(d - 1) : f[n + 1] = Rotate(f[n].vals)
                /\ IncrementProposerPriority(vals, d) = f[d]
  <1>1. PICK f : /\ Computes(f, Rotation, Start(vals), d, RotateStep(d))
                 /\ IncrementProposerPriority(vals, d) = f[d]
    BY Increments, ZenonT(60)
  <1>2. /\ f \in [0..d -> Rotation] /\ f[0] = Start(vals)
        /\ \A n \in 1..d : f[n] = RotateStep(d)[n][f[n - 1]]
    BY <1>1, ZenonT(60) DEF Computes
  <1>3. ASSUME NEW n \in 0..(d - 1)
        PROVE  f[n + 1] = Rotate(f[n].vals)
    <2>1. n + 1 \in 1..d /\ (n + 1) - 1 = n /\ n \in 0..d
      OBVIOUS
    <2>2. f[n] \in Rotation /\ f[n + 1] = RotateStep(d)[n + 1][f[n]]
      BY <1>2, <2>1, ZenonT(60)
    <2> QED
      BY <2>1, <2>2, ZenonT(60) DEF RotateStep
  <1> QED
    BY <1>1, <1>2, <1>3, ZenonT(60)

\* One increment is one rotation.
LEMMA OneIncrement ==
  ASSUME NEW vals \in Voters
  PROVE  IncrementProposerPriority(vals, 1) = Rotate(Start(vals).vals)
  <1>1. PICK f : /\ f[0] = Start(vals)
                 /\ \A n \in 0..(1 - 1) : f[n + 1] = Rotate(f[n].vals)
                 /\ IncrementProposerPriority(vals, 1) = f[1]
    BY Rotations
  <1>2. f[0 + 1] = Rotate(f[0].vals)
    BY <1>1
  <1> QED
    BY <1>1, <1>2

\* The validators that a chain comes to are those of the prediction, as long as
\* it does nothing but rotate, and so is the proposer.
LEMMA Predicts ==
  ASSUME NEW c, NEW h \in Nat, NEW d \in Nat \ {0}, c[h] \in Voters,
         \A k \in h..(h + d - 1) :
           /\ c[k + 1] = IncrementProposerPriority(c[k], 1).vals
           /\ k > h => ~OutOfWindow(c[k])
  PROVE  IncrementProposerPriority(c[h], d) =
           IncrementProposerPriority(c[h + d - 1], 1)
  <1>1. PICK f : /\ f \in [0..d -> Rotation] /\ f[0] = Start(c[h])
                 /\ \A n \in 0..(d - 1) : f[n + 1] = Rotate(f[n].vals)
                 /\ IncrementProposerPriority(c[h], d) = f[d]
    BY Rotations, ZenonT(60)
  <1>2. \A n \in 0..d : f[n].vals \in Centred
    BY <1>1 DEF Rotation
  <1> DEFINE T == {n \in 0..(d - 1) : c[h + n] \in Voters /\
                                      Start(c[h + n]).vals = f[n].vals}
  <1>3. 0 \in T
    <2>1. 0 \in 0..(d - 1) /\ h + 0 = h
      OBVIOUS
    <2> QED
      BY <1>1, <2>1, ZenonT(60)
  <1>4. ASSUME NEW n \in 0..((d - 1) - 1), n \in T
        PROVE  n + 1 \in T
    <2>1. /\ n \in 0..(d - 1) /\ n + 1 \in 0..(d - 1) /\ n + 1 \in 0..d
          /\ h + n \in h..(h + d - 1) /\ h + (n + 1) \in h..(h + d - 1)
          /\ h + (n + 1) > h /\ (h + n) + 1 = h + (n + 1)
      OBVIOUS
    <2>2. c[h + (n + 1)] = IncrementProposerPriority(c[h + n], 1).vals
      BY <2>1, ZenonT(60)
    <2>3. c[h + n] \in Voters /\ Start(c[h + n]).vals = f[n].vals
      BY <1>4, ZenonT(60)
    <2>4. c[h + (n + 1)] = f[n + 1].vals
      BY <1>1, <2>1, <2>2, <2>3, OneIncrement, ZenonT(60)
    <2> DEFINE w == c[h + (n + 1)]
    <2>5. w \in Centred /\ w \in Voters
      BY <1>2, <2>1, <2>4, ZenonT(60) DEF Centred
    <2>6. ~OutOfWindow(w)
      BY <2>1, ZenonT(60)
    <2> HIDE DEF w
    <2>7. ShiftByAverage(RescalePriorities(w)) = w
      BY <2>5, <2>6, RescaleFacts, ShiftFacts, ZenonT(60)
    <2>8. Start(w).vals = w
      BY <2>7, ZenonT(60) DEF Start
    <2> QED
      BY <2>1, <2>4, <2>5, <2>8, ZenonT(60) DEF w
  <1>5. d - 1 \in T
    <2>1. d - 1 \in Nat
      OBVIOUS
    <2> HIDE DEF T
    <2> QED
      BY <1>3, <1>4, <2>1, InductTo, ZenonT(60)
  <1>6. /\ d - 1 \in 0..(d - 1) /\ (d - 1) + 1 = d /\ h + (d - 1) = h + d - 1
    OBVIOUS
  <1>7. f[d] = Rotate(f[d - 1].vals)
    BY <1>1, <1>6, ZenonT(60)
  <1>8. c[h + d - 1] \in Voters /\ Start(c[h + d - 1]).vals = f[d - 1].vals
    BY <1>5, <1>6, ZenonT(60)
  <1> QED
    BY <1>1, <1>7, <1>8, OneIncrement, ZenonT(60)

-----------------------------------------------------------------------------
(* The fetch of a validator set.                                           *)

\* Pages that follow each other make up one.
LEMMA Pages ==
  ASSUME NEW S, NEW s \in Seq(S), NEW m \in Nat, NEW n \in Nat,
         m <= n, n <= Len(s)
  PROVE  /\ SubSeq(s, 1, m) \o SubSeq(s, m + 1, n) = SubSeq(s, 1, n)
         /\ Len(SubSeq(s, m + 1, n)) = n - m
         /\ SubSeq(s, 1, Len(s)) = s
  <1>1. Len(SubSeq(s, 1, m)) = m /\ Len(SubSeq(s, m + 1, n)) = n - m
    OBVIOUS
  <1>2. SubSeq(s, 1, m) \o SubSeq(s, m + 1, n) = SubSeq(s, 1, n)
    BY <1>1
  <1>3. SubSeq(s, 1, Len(s)) = s
    OBVIOUS
  <1> QED
    BY <1>1, <1>2, <1>3, ZenonT(60)

\* A page starts where the one before it ends.
LEMMA PageStarts ==
  ASSUME NEW k \in Nat \ {0}
  PROVE  /\ (k - 1) * PerPage \in Nat /\ k * PerPage \in Nat
         /\ k * PerPage = (k - 1) * PerPage + PerPage
  BY ValidatorSetAssumption

\* What a height of a chain has.
LEMMA HistoryFacts ==
  ASSUME NEW x \in Histories, NEW h \in Heights
  PROVE  /\ x.consensus[h] \in Seq(Member)
         /\ Len(x.consensus[h]) \in Nat \ {0}
         /\ Addrs(x.consensus[h]) \subseteq Nat
  <1>1. x \in History /\ x.consensus[h] # <<>>
    BY ValidatorSetAssumption, ZenonT(60)
  <1>2. h \in 1..MaxHeight + Ahead
    BY ValidatorSetAssumption DEF Heights
  <1>3. x.consensus[h] \in Seq(Member)
    BY <1>1, <1>2, ZenonT(60) DEF History
  <1>4. Addrs(x.consensus[h]) \subseteq Nat
    <2>1. \A i \in DOMAIN x.consensus[h] : x.consensus[h][i] \in Member
      BY <1>3
    <2> QED
      BY <2>1, ValidatorSetAssumption, ZenonT(60) DEF Addrs, Member
  <1> QED
    BY <1>1, <1>3, <1>4

\* FetchInv but for what it says of a call that fetches.
BaseInv ==
  /\ FetchTypeOK /\ SetWhole /\ NoNeedlessError
  /\ phase \in {"idle", "status"} => target = 0
  /\ phase = "status" => \A n \in Nodes : n < node => n \notin good
  /\ phase = "done" /\ ~result.err => target \in Heights

FetchingInv ==
  /\ target \in Heights /\ PagesInv
  /\ able \subseteq {n \in good : height[n] >= target}
  /\ \A n \in able : n < node => PageBoundary \/ n \in LeftStaking
  /\ node \in able => NodeInv

\* The invariant, apart from what holds during a fetch.
LEMMA TwoParts == FetchInv <=> BaseInv /\ (phase = "fetch" => FetchingInv)
  BY DEF FetchInv, BaseInv, FetchingInv

\* A call starts with the first page and the first key of a node.
LEMMA FreshNode ==
  ASSUME chain' \in Histories, target' \in Heights,
         tm' = FirstPage, st' = FirstKey
  PROVE  PagesInv' /\ NodeInv'
  <1>1. Consensus' \in Seq(Member) /\ Addrs(Consensus') \subseteq Nat
    BY HistoryFacts, ZenonT(60) DEF Consensus
  <1>2. PagesInv'
    BY <1>1, ValidatorSetAssumption DEF PagesInv, FirstPage
  <1>3. NodeInv'
    BY <1>1 DEF NodeInv, FirstPage, FirstKey, NoKey
  <1> QED
    BY <1>2, <1>3, ZenonT(60)

\* Nothing has been asked yet.
LEMMA FetchInitInv == FetchInit => FetchInv
  BY ValidatorSetAssumption
     DEF FetchInit, FetchInv, FetchTypeOK, SetWhole, NoNeedlessError, FirstPage, FirstKey,
         NoResult, Tendermint, Staking, Result, States, Nodes, Heights
-----------------------------------------------------------------------------

\* A new call has no height yet and asks the first client.
LEMMA AskStep ==
  ASSUME FetchInv, Ask
  PROVE  FetchInv'
  BY ValidatorSetAssumption
     DEF Ask, FetchInv, FetchTypeOK, SetWhole, NoNeedlessError, PagesInv, NodeInv,
         world, Nodes

\* Heights only grow.
LEMMA AdvanceStep ==
  ASSUME FetchInv, NEW n \in Nodes, Advance(n)
  PROVE  FetchInv'
  <1>1. /\ height' = [height EXCEPT ![n] = @ + 1]
        /\ height[n] < MaxHeight
        /\ UNCHANGED <<chain, good, phase, node, target, tm, st, result, able>>
    BY ZenonT(60) DEF Advance, world
  <1>2. height' \in [Nodes -> Heights] /\ \A m \in Nodes : height'[m] >= height[m]
    BY <1>1, ValidatorSetAssumption DEF FetchInv, FetchTypeOK, Heights
  <1>3. /\ Consensus' = Consensus /\ PageBoundary' = PageBoundary
        /\ LeftStaking \subseteq LeftStaking'
    <2>1. Consensus' = Consensus /\ PageBoundary' = PageBoundary
      BY <1>1, ZenonT(60) DEF PageBoundary, Consensus
    <2>2. \A m \in Nodes : target..height[m] \subseteq target..height'[m]
      BY <1>2 DEF FetchInv, FetchTypeOK, Heights
    <2> QED
      BY <1>1, <2>1, <2>2, ZenonT(60) DEF LeftStaking
  <1>4. BaseInv'
    BY <1>1, <1>2, <1>3, TwoParts, ZenonT(60)
       DEF BaseInv, FetchTypeOK, SetWhole, NoNeedlessError
  <1>5. ASSUME phase' = "fetch"
        PROVE  FetchingInv'
    <2>1. FetchingInv /\ good \subseteq Nodes /\ height \in [Nodes -> Heights]
      BY <1>1, <1>5, TwoParts, ZenonT(60) DEF BaseInv, FetchTypeOK
    <2>2. able' \subseteq {m \in good' : height'[m] >= target'}
      BY <1>1, <1>2, <2>1 DEF FetchingInv, Heights
    <2>3. (PagesInv => PagesInv') /\ (NodeInv => NodeInv')
      BY <1>1, <1>3, ZenonT(60) DEF PagesInv, NodeInv
    <2> QED
      BY <1>1, <1>3, <2>1, <2>2, <2>3, ZenonT(60) DEF FetchingInv
  <1> QED
    BY <1>4, <1>5, TwoParts, ZenonT(60) DEF FetchInv, BaseInv, FetchingInv

\* The first position in pages and keys is well typed.
LEMMA FirstTypes == FirstPage \in Tendermint /\ FirstKey \in Staking
  BY DEF FirstPage, FirstKey, Tendermint, Staking, States

\* An error is a result, and so is none.
LEMMA ResultTypes ==
  /\ NoResult \in Result /\ NoResult.err = FALSE
  /\ Error \in Result /\ Error.err = TRUE
  BY DEF NoResult, Error, Result

\* The next client starts afresh, and whoever was before it could not help.
LEMMA TryNextFacts ==
  ASSUME FetchTypeOK, TryNext
  PROVE  \/ /\ node < NumNodes /\ node' = node + 1 /\ node' \in Nodes
            /\ tm' = FirstPage /\ st' = FirstKey
            /\ phase' = phase /\ result' = result
         \/ /\ node = NumNodes
            /\ phase' = "done" /\ result' = Error
            /\ UNCHANGED <<node, tm, st>>
  BY ValidatorSetAssumption DEF TryNext, HasNext, StartPages, FetchTypeOK, Nodes

\* A client answers the status: its height is the target of the fetch.
LEMMA StatusOKStep ==
  ASSUME FetchInv, StatusOK
  PROVE  FetchInv'
  <1>1. /\ phase = "status" /\ phase' = "fetch" /\ node' = 1
        /\ target' = height[node]
        /\ able' = {n \in good : height[n] >= height[node]}
        /\ tm' = FirstPage /\ st' = FirstKey
        /\ UNCHANGED <<chain, good, height, result>>
    BY ZenonT(60) DEF StatusOK, world
  <1>2. FetchTypeOK' /\ target' \in Heights
    <2>1. FetchTypeOK /\ height[node] \in Heights /\ able' \subseteq Nodes
      BY <1>1, ZenonT(60) DEF FetchInv, FetchTypeOK
    <2>2. 1 \in Nodes
      BY ValidatorSetAssumption DEF Nodes
    <2> QED
      BY <1>1, <2>1, <2>2, FirstTypes, ZenonT(60) DEF FetchTypeOK
  <1>3. PagesInv' /\ NodeInv'
    BY <1>1, <1>2, FreshNode, ZenonT(60) DEF FetchTypeOK
  <1> QED
    BY <1>1, <1>2, <1>3 DEF FetchInv, FetchTypeOK, SetWhole, NoNeedlessError, Nodes

\* A client that does not answer the status was not good.
LEMMA StatusFailsStep ==
  ASSUME FetchInv, StatusFails
  PROVE  FetchInv'
  <1>1. /\ phase = "status" /\ node \notin good /\ TryNext
        /\ UNCHANGED <<chain, good, height, target, able>>
        /\ target = 0 /\ FetchTypeOK /\ good \subseteq Nodes /\ node \in Nodes
        /\ \A n \in Nodes : n < node => n \notin good
    BY ZenonT(60) DEF StatusFails, world, FetchInv, FetchTypeOK
  <1>2. CASE /\ node < NumNodes /\ node' = node + 1 /\ node' \in Nodes
             /\ tm' = FirstPage /\ st' = FirstKey
             /\ phase' = phase /\ result' = result
    <2>1. FetchTypeOK'
      BY <1>1, <1>2, FirstTypes, ZenonT(60) DEF FetchTypeOK
    <2>2. \A n \in Nodes : n < node' => n \notin good
      BY <1>1, <1>2 DEF Nodes
    <2> QED
      BY <1>1, <1>2, <2>1, <2>2, ZenonT(60) DEF FetchInv, SetWhole, NoNeedlessError
  <1>3. CASE /\ node = NumNodes
             /\ phase' = "done" /\ result' = Error
             /\ UNCHANGED <<node, tm, st>>
    <2>1. FetchTypeOK'
      BY <1>1, <1>3, ResultTypes, ZenonT(60) DEF FetchTypeOK
    <2>2. good = {}
      BY <1>1, <1>3 DEF Nodes
    <2> QED
      BY <1>1, <1>3, <2>1, <2>2, ResultTypes, ZenonT(60) DEF FetchInv, SetWhole, NoNeedlessError
  <1> QED
    BY <1>1, <1>2, <1>3, TryNextFacts, ZenonT(60)

-----------------------------------------------------------------------------
\* What holds while the two goroutines run.
Fetching ==
  /\ FetchTypeOK /\ phase = "fetch" /\ FetchingInv
  /\ UNCHANGED <<chain, height, good, target, able>>

\* A step of a goroutine keeps the invariant if it keeps what the invariant
\* says of the goroutines.
LEMMA GoroutineStep ==
  ASSUME Fetching, UNCHANGED <<phase, node, result>>,
         tm' \in Tendermint, st' \in Staking,
         PagesInv', node \in able => NodeInv'
  PROVE  FetchInv'
  <1>1. FetchTypeOK'
    BY ZenonT(60) DEF Fetching, FetchTypeOK
  <1>2. PageBoundary' = PageBoundary /\ LeftStaking' = LeftStaking
    BY ZenonT(60) DEF Fetching, PageBoundary, LeftStaking, Consensus
  <1>3. FetchingInv'
    BY <1>2, ZenonT(60) DEF Fetching, FetchingInv
  <1> QED
    BY <1>1, <1>3, ZenonT(60) DEF Fetching, FetchInv, FetchingInv, SetWhole, NoNeedlessError

\* What a step inside a fetch leaves alone.
LEMMA FetchingFacts ==
  ASSUME FetchInv, phase = "fetch", UNCHANGED <<chain, height, good, target, able>>
  PROVE  /\ Fetching
         /\ Consensus' = Consensus /\ Consensus \in Seq(Member)
         /\ Len(Consensus) \in Nat \ {0} /\ Addrs(Consensus) \subseteq Nat
         /\ PageBoundary' = PageBoundary /\ LeftStaking' = LeftStaking
  <1>1. Fetching /\ chain \in Histories /\ target \in Heights
    BY DEF FetchInv, Fetching, FetchingInv, FetchTypeOK
  <1>2. Consensus' = Consensus
    BY ZenonT(60) DEF Consensus
  <1>3. PageBoundary' = PageBoundary /\ LeftStaking' = LeftStaking
    BY <1>2, ZenonT(60) DEF PageBoundary, LeftStaking
  <1> QED
    BY <1>1, <1>2, <1>3, HistoryFacts, ZenonT(60) DEF Consensus

\* A node that has the height and does not fill its pages has the next one.
LEMMA NextPageThere ==
  ASSUME FetchInv, phase = "fetch", node \in able, tm.state = "run",
         ~PageBoundary
  PROVE  HasPage(tm.page)
  <1> DEFINE k == tm.page - 1
  <1>1. /\ Len(Consensus) \in Nat \ {0} /\ k \in Nat
        /\ k * PerPage <= Len(Consensus)
        /\ target <= height[node]
    <2>1. chain \in Histories /\ target \in Heights
      BY ZenonT(60) DEF FetchInv, FetchTypeOK
    <2>2. Len(Consensus) \in Nat \ {0}
      BY <2>1, HistoryFacts, ZenonT(60) DEF Consensus
    <2>3. target <= height[node]
      BY <2>1, ZenonT(60) DEF FetchInv, FetchTypeOK, Heights
    <2> QED
      BY <2>2, <2>3 DEF FetchInv, PagesInv, FetchTypeOK, Tendermint
  <1>2. k * PerPage # Len(Consensus)
    <2> SUFFICES ASSUME k * PerPage = Len(Consensus)
                 PROVE  FALSE
      BY ZenonT(60)
    <2>1. k \in 1..Len(Consensus)
      BY <1>1, ValidatorSetAssumption
    <2> QED
      BY <2>1, ZenonT(60) DEF PageBoundary
  <1>3. k * PerPage \in Nat
    BY <1>1, ValidatorSetAssumption
  <1> QED
    BY <1>1, <1>2, <1>3 DEF HasPage

\* A page of the target height extends the validators so far.
LEMMA GetPageStep ==
  ASSUME FetchInv, GetPage
  PROVE  FetchInv'
  <1> DEFINE m == (tm.page - 1) * PerPage
             n == tm.page * PerPage
             e == PageEnd(tm.page)
  <1>1. /\ phase = "fetch" /\ tm.state = "run" /\ HasPage(tm.page)
        /\ tm' = [state |-> IF LastPage(Page(tm.page)) THEN "ok" ELSE "run",
                  page |-> tm.page + 1, vals |-> tm.vals \o Page(tm.page)]
        /\ UNCHANGED <<chain, height, good, phase, node, target, st, result, able>>
    BY ZenonT(60) DEF GetPage, world
  <1>2. /\ Fetching
        /\ Consensus' = Consensus /\ Consensus \in Seq(Member)
        /\ Len(Consensus) \in Nat \ {0}
        /\ PageBoundary' = PageBoundary /\ LeftStaking' = LeftStaking
    BY <1>1, FetchingFacts, ZenonT(60)
  <1>3. /\ tm.page \in Nat \ {0} /\ tm.vals = SubSeq(Consensus, 1, m)
        /\ tm \in Tendermint /\ st \in Staking
    BY <1>1, ZenonT(60) DEF FetchInv, PagesInv, FetchTypeOK, Tendermint
  <1>4. /\ m \in Nat /\ n \in Nat /\ n = m + PerPage /\ m < Len(Consensus)
    BY <1>1, <1>3, PageStarts, ZenonT(60) DEF HasPage
  <1>5. /\ e \in Nat /\ m < e /\ e <= n /\ e <= Len(Consensus)
        /\ e # n => e = Len(Consensus)
    BY <1>2, <1>4, ValidatorSetAssumption DEF PageEnd
  <1>6. Page(tm.page) = SubSeq(Consensus, m + 1, e)
    BY DEF Page
  <1>7. /\ tm'.vals = SubSeq(Consensus, 1, e) /\ tm'.page = tm.page + 1
        /\ Len(Page(tm.page)) = e - m
        /\ SubSeq(Consensus, 1, Len(Consensus)) = Consensus
    <2> HIDE DEF m, n, e
    <2>1. /\ tm.vals \o Page(tm.page) = SubSeq(Consensus, 1, e)
          /\ Len(Page(tm.page)) = e - m
          /\ SubSeq(Consensus, 1, Len(Consensus)) = Consensus
      BY <1>2, <1>3, <1>4, <1>5, <1>6, Pages
    <2> QED
      BY <1>1, <2>1, ZenonT(60)
  <1>8. /\ LastPage(Page(tm.page)) <=> e # n
        /\ tm'.state = IF e # n THEN "ok" ELSE "run"
    BY <1>1, <1>4, <1>5, <1>7, ValidatorSetAssumption DEF LastPage
  <1>9. PagesInv'
    <2>1. (tm'.page - 1) * PerPage = n
      BY <1>3, <1>7
    <2> QED
      BY <1>2, <1>5, <1>7, <1>8, <2>1, ZenonT(60) DEF PagesInv
  <1>10. tm' \in Tendermint
    <2>1. tm'.vals \in Seq(Member)
      BY <1>2, <1>5, <1>7
    <2> QED
      BY <1>1, <1>3, <2>1 DEF Tendermint, States
  <1>11. node \in able => NodeInv'
    BY <1>1, <1>2, <1>8 DEF Fetching, FetchingInv, NodeInv
  <1> QED
    BY <1>1, <1>2, <1>3, <1>9, <1>10, <1>11, GoroutineStep, ZenonT(60)

\* The pages of a good client fail only at a page boundary, or with its keys.
LEMMA PageFailsStep ==
  ASSUME FetchInv, PageFails
  PROVE  FetchInv'
  <1>1. /\ phase = "fetch" /\ tm.state = "run"
        /\ node \notin good \/ ~HasPage(tm.page) \/ st.state = "failed"
        /\ tm' = [tm EXCEPT !.state = "failed"]
        /\ UNCHANGED <<chain, height, good, phase, node, target, st, result, able>>
    BY ZenonT(60) DEF PageFails, world
  <1>2. /\ Fetching /\ tm \in Tendermint /\ st \in Staking
        /\ PageBoundary' = PageBoundary /\ LeftStaking' = LeftStaking
    BY <1>1, FetchingFacts, ZenonT(60) DEF FetchInv, FetchTypeOK
  <1>3. tm' \in Tendermint /\ tm'.state = "failed"
    BY <1>1, <1>2, ZenonT(60) DEF Tendermint, States
  <1>4. PagesInv'
    BY <1>3, ZenonT(60) DEF PagesInv
  <1>5. node \in able => NodeInv'
    <2> SUFFICES ASSUME node \in able, ~PageBoundary, node \notin LeftStaking
                 PROVE  FALSE
      BY <1>1, <1>2, ZenonT(60) DEF NodeInv
    <2>1. node \in good /\ st.state # "failed"
      BY <1>2 DEF Fetching, FetchingInv, NodeInv
    <2> QED
      BY <1>1, <2>1, NextPageThere, ZenonT(60)
  <1> QED
    BY <1>1, <1>2, <1>3, <1>4, <1>5, GoroutineStep, ZenonT(60)

\* The keys of a good client fail only with its pages.
LEMMA KeysFailStep ==
  ASSUME FetchInv, KeysFail
  PROVE  FetchInv'
  <1>1. /\ phase = "fetch" /\ st.state = "run"
        /\ node \notin good \/ tm.state = "failed"
        /\ st' = [st EXCEPT !.state = "failed"]
        /\ UNCHANGED <<chain, height, good, phase, node, target, tm, result, able>>
    BY ZenonT(60) DEF KeysFail, world
  <1>2. /\ Fetching /\ tm \in Tendermint /\ st \in Staking
        /\ Consensus' = Consensus
        /\ PageBoundary' = PageBoundary /\ LeftStaking' = LeftStaking
    BY <1>1, FetchingFacts, ZenonT(60) DEF FetchInv, FetchTypeOK
  <1>3. st' \in Staking
    BY <1>1, <1>2, ZenonT(60) DEF Staking, States
  <1>4. PagesInv'
    BY <1>1, <1>2 DEF Fetching, FetchingInv, PagesInv
  <1>5. node \in able => NodeInv'
    BY <1>1, <1>2, ZenonT(60) DEF Fetching, FetchingInv, NodeInv
  <1> QED
    BY <1>1, <1>2, <1>3, <1>4, <1>5, GoroutineStep, ZenonT(60)

\* A page of keys holds all up to the next key, or all of them.
LEMMA NextKeyFacts ==
  ASSUME NEW s, s \subseteq Validators
  PROVE  /\ Limited(s) \subseteq s
         /\ s # Limited(s) => /\ NextKey(s) \in s
                              /\ \A v \in s \ Limited(s) : v >= NextKey(s)
  <1>1. Limited(s) \subseteq s /\ s \subseteq Nat
    BY ValidatorSetAssumption DEF Limited
  <1>2. ASSUME s # Limited(s)
        PROVE  /\ NextKey(s) \in s
               /\ \A v \in s \ Limited(s) : v >= NextKey(s)
    <2> DEFINE rest == s \ Limited(s)
    <2>1. rest \subseteq Nat /\ rest # {}
      BY <1>1, <1>2, ZenonT(60)
    <2> HIDE DEF rest
    <2>2. \E v \in rest : \A u \in rest : v <= u
      BY <2>1, Least
    <2>3. NextKey(s) = CHOOSE v \in rest : \A u \in rest : v <= u
      BY DEF NextKey, rest
    <2>4. NextKey(s) \in rest /\ \A u \in rest : NextKey(s) <= u
      BY <2>2, <2>3, ZenonT(60)
    <2>5. \A u \in rest : u >= NextKey(s)
      BY <2>1, <2>4
    <2> QED
      BY <2>4, <2>5 DEF rest
  <1> QED
    BY <1>1, <1>2, ZenonT(60)

\* A page of keys extends the keys so far, up to the next key.
LEMMA GetKeysStep ==
  ASSUME FetchInv, GetKeys
  PROVE  FetchInv'
  <1> DEFINE s == From(st.key)
             more == s # Limited(s)
  <1>1. /\ phase = "fetch" /\ st.state = "run"
        /\ st' = [state |-> IF more THEN "run" ELSE "ok",
                  key |-> IF more THEN NextKey(s) ELSE NoKey,
                  valset |-> st.valset \cup Limited(s)]
        /\ UNCHANGED <<chain, height, good, phase, node, target, tm, result, able>>
    BY DEF GetKeys, world
  <1>2. /\ Fetching /\ tm \in Tendermint /\ st \in Staking
        /\ Consensus' = Consensus /\ Addrs(Consensus) \subseteq Nat
        /\ PageBoundary' = PageBoundary /\ LeftStaking' = LeftStaking
    BY <1>1, FetchingFacts, ZenonT(60) DEF FetchInv, FetchTypeOK
  <1>3. s \subseteq chain.staking[height[node]] /\ s \subseteq Validators
    <2>1. chain \in History /\ height[node] \in Heights
      BY <1>2, ValidatorSetAssumption DEF Fetching, FetchTypeOK
    <2> QED
      BY <2>1 DEF From, History
  <1>4. /\ Limited(s) \subseteq s
        /\ more => /\ NextKey(s) \in s
                   /\ \A v \in s \ Limited(s) : v >= NextKey(s)
    BY <1>3, NextKeyFacts
  <1>5. st' \in Staking
    BY <1>1, <1>2, <1>3, <1>4 DEF Staking, States
  <1>6. PagesInv'
    BY <1>1, <1>2 DEF Fetching, FetchingInv, PagesInv
  <1>7. node \in able => NodeInv'
    <2> SUFFICES ASSUME node \in able, ~PageBoundary, node \notin LeftStaking
                 PROVE  NodeInv'
      BY <1>1, <1>2, ZenonT(60) DEF NodeInv
    <2>1. /\ tm.state # "failed" /\ target \in Heights
          /\ \A v \in Addrs(Consensus) \ st.valset : v >= st.key
          /\ height[node] \in target..height[node] /\ node \in Nodes
      BY <1>2 DEF Fetching, FetchingInv, NodeInv, FetchTypeOK, Heights
    <2>2. \A v \in Addrs(Consensus) \ st.valset : v \in s
      BY <2>1 DEF LeftStaking, From
    <2>3. \A v \in Addrs(Consensus) \ (st.valset \cup Limited(s)) :
             more /\ v >= NextKey(s)
      BY <1>4, <2>2
    <2>4. /\ st'.state # "failed" /\ tm'.state # "failed"
          /\ st'.valset = st.valset \cup Limited(s)
          /\ more => st'.state = "run" /\ st'.key = NextKey(s)
      <3>1. /\ st'.state = IF more THEN "run" ELSE "ok"
            /\ st'.key = IF more THEN NextKey(s) ELSE NoKey
            /\ st'.valset = st.valset \cup Limited(s)
        BY <1>1, ZenonT(60)
      <3>2. tm'.state # "failed"
        BY <1>1, <2>1, ZenonT(60)
      <3> QED
        BY <3>1, <3>2, ZenonT(60)
    <2> QED
      BY <1>2, <2>3, <2>4 DEF NodeInv
  <1> QED
    BY <1>1, <1>2, <1>5, <1>6, <1>7, GoroutineStep

-----------------------------------------------------------------------------

\* Joining pages and keys gives the whole set of the target height.
LEMMA JoinStep ==
  ASSUME FetchInv, Join
  PROVE  FetchInv'
  <1>1. /\ phase = "fetch" /\ Joined /\ phase' = "done"
        /\ result' = [err |-> FALSE, height |-> target, vals |-> tm.vals]
        /\ UNCHANGED <<chain, height, good, node, target, tm, st, able>>
    BY DEF Join, world
  <1>2. target \in Heights /\ tm.vals = chain.consensus[target]
    BY <1>1 DEF FetchInv, PagesInv, Joined, Consensus
  <1>3. result' \in Result
    BY <1>1, <1>2 DEF FetchInv, FetchTypeOK, Tendermint, Result
  <1>4. FetchTypeOK'
    BY <1>1, <1>3 DEF FetchInv, FetchTypeOK
  <1> QED
    BY <1>1, <1>2, <1>4 DEF FetchInv, SetWhole, NoNeedlessError

\* A node that could help is not the one that failed.
LEMMA JoinFailsStep ==
  ASSUME FetchInv, JoinFails
  PROVE  FetchInv'
  <1>1. /\ phase = "fetch" /\ tm.state # "run" /\ st.state # "run"
        /\ ~Joined /\ TryNext
        /\ UNCHANGED <<chain, height, good, target, able>>
    BY DEF JoinFails, world
  <1>2. /\ Fetching /\ Consensus' = Consensus
        /\ PageBoundary' = PageBoundary /\ LeftStaking' = LeftStaking
        /\ FetchTypeOK /\ FetchingInv /\ chain \in Histories /\ node \in Nodes
        /\ able \subseteq Nodes /\ target \in Heights
    BY <1>1, FetchingFacts DEF Fetching, FetchingInv, FetchTypeOK
  <1>3. node \in able => PageBoundary \/ node \in LeftStaking
    <2> SUFFICES ASSUME node \in able, ~PageBoundary, node \notin LeftStaking
                 PROVE  FALSE
      OBVIOUS
    <2>1. /\ tm.state \in States /\ st.state \in States
      BY <1>2 DEF FetchTypeOK, Tendermint, Staking
    <2>2. NodeInv /\ PagesInv
      BY <1>2 DEF FetchingInv
    <2>3. tm.state = "ok" /\ st.state = "ok"
      BY <1>1, <2>1, <2>2 DEF NodeInv, States
    <2>4. tm.vals = Consensus /\ Addrs(Consensus) \subseteq st.valset
      BY <2>2, <2>3 DEF NodeInv, PagesInv
    <2> QED
      BY <1>1, <2>3, <2>4 DEF Joined
  <1>4. \A n \in able : n <= node => PageBoundary \/ n \in LeftStaking
    BY <1>2, <1>3 DEF FetchingInv, Nodes
  <1>5. CASE /\ node < NumNodes /\ node' = node + 1 /\ node' \in Nodes
             /\ tm' = FirstPage /\ st' = FirstKey
             /\ phase' = phase /\ result' = result
    <2>1. FetchTypeOK'
      BY <1>1, <1>2, <1>5, FirstTypes DEF FetchTypeOK
    <2>2. \A n \in able : n < node' => PageBoundary \/ n \in LeftStaking
      BY <1>2, <1>4, <1>5 DEF Nodes
    <2>3. PagesInv' /\ NodeInv'
      BY <1>1, <1>2, <1>5, FreshNode
    <2>4. FetchingInv'
      BY <1>1, <1>2, <2>2, <2>3 DEF FetchingInv
    <2> QED
      BY <1>1, <1>5, <2>1, <2>4 DEF FetchInv, FetchingInv, SetWhole, NoNeedlessError
  <1>6. CASE /\ node = NumNodes
             /\ phase' = "done" /\ result' = Error
             /\ UNCHANGED <<node, tm, st>>
    <2>1. FetchTypeOK'
      BY <1>1, <1>2, <1>6, ResultTypes DEF FetchTypeOK
    <2>2. target # 0
      BY <1>2 DEF Heights
    <2>3. PageBoundary \/ able \subseteq LeftStaking
      BY <1>2, <1>4, <1>6 DEF Nodes
    <2> QED
      BY <1>1, <1>2, <1>6, <2>1, <2>2, <2>3, ResultTypes
         DEF FetchInv, SetWhole, NoNeedlessError
  <1> QED
    BY <1>1, <1>2, <1>5, <1>6, TryNextFacts

\* A call that returns leaves nothing behind.
LEMMA FetchReturnsStep ==
  ASSUME FetchInv, FetchReturns
  PROVE  FetchInv'
  <1>1. /\ phase' = "idle" /\ result' = NoResult /\ target' = 0 /\ able' = {}
        /\ tm' = FirstPage /\ st' = FirstKey
        /\ UNCHANGED <<chain, good, height, node>>
    BY ZenonT(60) DEF FetchReturns, world
  <1>2. FetchTypeOK'
    BY <1>1, FirstTypes, ResultTypes, ZenonT(60) DEF FetchInv, FetchTypeOK
  <1> QED
    BY <1>1, <1>2 DEF FetchInv, SetWhole, NoNeedlessError

-----------------------------------------------------------------------------

\* Every step preserves the invariant.
LEMMA FetchNextStep ==
  ASSUME FetchInv, [FetchNext]_fetchVars
  PROVE  FetchInv'
  <1>1. CASE UNCHANGED fetchVars
    <2>1. /\ chain' = chain /\ height' = height /\ good' = good /\ phase' = phase
          /\ node' = node /\ target' = target /\ tm' = tm /\ st' = st
          /\ result' = result /\ able' = able
      BY <1>1, ZenonT(60) DEF fetchVars
    <2>2. /\ Consensus' = Consensus /\ PageBoundary' = PageBoundary
          /\ LeftStaking' = LeftStaking
      <3>1. Consensus' = Consensus
        BY <2>1, ZenonT(60) DEF Consensus
      <3> QED
        BY <2>1, <3>1, ZenonT(60) DEF PageBoundary, LeftStaking
    <2>3. FetchTypeOK' /\ SetWhole'
      BY <2>1, ZenonT(60) DEF FetchInv, FetchTypeOK, SetWhole
    <2>4. NoNeedlessError'
      BY <2>1, <2>2, ZenonT(60) DEF FetchInv, NoNeedlessError
    <2>5. (PagesInv' <=> PagesInv) /\ (NodeInv' <=> NodeInv)
      BY <2>1, <2>2, ZenonT(60) DEF PagesInv, NodeInv, Addrs
    <2> QED
      BY <2>1, <2>2, <2>3, <2>4, <2>5, ZenonT(60) DEF FetchInv
  <1>2. CASE FetchNext
    BY <1>2, AskStep, AdvanceStep, StatusOKStep, StatusFailsStep, GetPageStep,
       PageFailsStep, GetKeysStep, KeysFailStep, JoinStep, JoinFailsStep,
       FetchReturnsStep
       DEF FetchNext, FetchStep
  <1> QED
    BY <1>1, <1>2

\* While the service reads the pages and the keys of a node it has all up to
\* where it is, and whoever was tried before could not have answered.
THEOREM FetchInvariance == FetchSpec => []FetchInv
  BY FetchInitInv, FetchNextStep, PTL DEF FetchSpec

\* getValidatorSet never returns part of a set, or pages of two nodes, whatever
\* the size of a page and whenever nodes fail.
THEOREM SetsWhole == FetchSpec => []SetWhole
  <1>1. FetchInv => SetWhole
    BY ZenonT(60) DEF FetchInv
  <1> QED
    BY <1>1, FetchInvariance, PTL

\* rpcClients.do reports an error only if each node failed, lacked the height or
\* had come to one at which a validator has left staking, or if the validators
\* fill their pages exactly: the two goroutines of getValidatorSet cancel each
\* other only at such nodes.
THEOREM NoNeedlessErrors == FetchSpec => []NoNeedlessError
  <1>1. FetchInv => NoNeedlessError
    BY DEF FetchInv
  <1> QED
    BY <1>1, FetchInvariance, PTL

\* The validators of a height are a validator set.
LEMMA MembersAreVoters ==
  ASSUME chain \in Histories, NEW h \in Heights
  PROVE  Members(h) \in Voters
  <1>1. Members(h) \in Seq(Member) /\ Members(h) # <<>>
    BY HistoryFacts, ValidatorSetAssumption, ZenonT(60) DEF Members
  <1>2. Member \subseteq Voter
    BY ValidatorSetAssumption, ZenonT(60) DEF Member, Voter
  <1> QED
    BY <1>1, <1>2 DEF Voters

\* PredictProposer, which increments the priorities of the fetched set as often
\* as there are blocks to come, names the proposer that the chain comes to by
\* incrementing them block by block: shifting priorities to their average and
\* rescaling them, which the chain does at every block and the prediction once,
\* make no difference, however far ahead the height is.
THEOREM Predictions == FetchSpec => []PredictionHolds
  <1>1. ASSUME FetchInv
        PROVE  PredictionHolds
    <2> SUFFICES ASSUME phase = "done", ~result.err, NEW d \in 1..Ahead,
                        Steady(target, d)
                 PROVE  PredictProposer(result, target + d) = ProposerOf(target + d)
      BY DEF PredictionHolds
    <2>1. /\ target \in Heights /\ chain \in Histories
          /\ result.height = target /\ result.vals = chain.consensus[target]
      BY <1>1 DEF FetchInv, SetWhole, FetchTypeOK
    <2>2. target \in Nat /\ d \in Nat \ {0} /\ d \in Int
      BY <2>1, ValidatorSetAssumption DEF Heights
    <2>3. chain.consensus[target] \in Voters
      BY <2>1, MembersAreVoters DEF Members
    <2> DEFINE c == chain.consensus
    <2>4. \A k \in target..(target + d - 1) :
            /\ c[k + 1] = IncrementProposerPriority(c[k], 1).vals
            /\ k > target => ~OutOfWindow(c[k])
      BY ZenonT(60) DEF Steady, Members
    <2> HIDE DEF c
    <2>5. IncrementProposerPriority(c[target], d) =
            IncrementProposerPriority(c[target + d - 1], 1)
      BY <2>2, <2>3, <2>4, Predicts, ZenonT(60) DEF c
    <2>6. Distance(result, target + d) = d /\ ~ (d <= 0)
      BY <2>1, <2>2 DEF Distance
    <2>7. PredictProposer(result, target + d) =
            IncrementProposerPriority(c[target], d).proposer
      BY <2>1, <2>6, ZenonT(60) DEF PredictProposer, c
    <2>8. ProposerOf(target + d) =
            IncrementProposerPriority(c[target + d - 1], 1).proposer
      <3>1. (target + d) - 1 = target + d - 1
        BY <2>2
      <3> QED
        BY <3>1, ZenonT(60) DEF ProposerOf, Members, c
    <2> QED
      BY <2>5, <2>7, <2>8, ZenonT(60)
  <1> QED
    BY <1>1, FetchInvariance, PTL

=============================================================================
