------------------------------- MODULE Payments -------------------------------
(***************************************************************************)
(* What a list of transactions pays, takes and charges: the arithmetic of  *)
(* evaluateBid, computeOrder and selectTransactions, without their state.  *)
(* A transaction is an opaque value; constants say what decoding, encoding *)
(* and measuring it yields.  Amounts, bytes and gas are int64 in the code: *)
(* sums wrap at the constant MaxInt.                                       *)
(***************************************************************************)
EXTENDS Integers, Sequences

CONSTANTS
  Txs,            \* transactions, as bytes
  Decodes,        \* the transactions that DecodeTransaction accepts
  Normal,         \* EncodeTransaction after DecodeTransaction, or NULL
  Pays,           \* the payments that GetPayment finds in a transaction
  Bytes,          \* size of a transaction
  Gas,            \* gas limit of a transaction, converted to int64
  Senders,        \* addresses that payments come from
  Allocation,     \* per cent of a payment that go to the validator (code: 97)
  MaxInt,         \* the largest integer (code: 2^63 - 1)
  NULL            \* no value; the source of a mempool transaction

Payment == [from: Senders, to: {"validator", "mekatek", "other"}, amount: Nat]

ASSUME PaymentsAssumption ==
  /\ MaxInt \in Nat /\ Allocation \in 0..100
  /\ Decodes \subseteq Txs
  /\ Normal \in [Decodes -> Txs \cup {NULL}]
  /\ Pays \in [Decodes -> Seq(Payment)]
  /\ Bytes \in [Txs -> Nat] /\ Gas \in [Txs -> Int]
  /\ NULL \notin Txs

\* A transaction that was encoded again is the same transaction.
ASSUME NormalAssumption ==
  \A t \in Decodes : Normal[t] # NULL =>
    /\ Normal[t] \in Decodes /\ Normal[Normal[t]] # NULL
    /\ Pays[Normal[t]] = Pays[t]

-----------------------------------------------------------------------------
(* Lists, and int64 arithmetic.                                            *)

Sum(s) ==
  LET sum[n \in 0..Len(s)] == IF n = 0 THEN 0 ELSE sum[n - 1] + s[n]
  IN sum[Len(s)]

\* One list of the lists in ss.
Flatten(ss) ==
  LET flat[n \in 0..Len(ss)] == IF n = 0 THEN <<>> ELSE flat[n - 1] \o ss[n]
  IN flat[Len(ss)]

Wrap(n) == ((n + MaxInt + 1) % (2 * (MaxInt + 1))) - (MaxInt + 1)

Add(m, n) == Wrap(m + n)

\* A sum that wraps on the way ends where the sum of the integers wraps to.
Total(s) == Wrap(Sum(s))

Abs(n) == IF n < 0 THEN -n ELSE n

-----------------------------------------------------------------------------
(* evaluateBid.                                                            *)

\* Transactions that do not decode or encode are passed over.
Readable(tx) == tx \in Decodes /\ Normal[tx] # NULL

Normalize(txs) ==
  [i \in DOMAIN txs |-> IF Readable(txs[i]) THEN Normal[txs[i]] ELSE txs[i]]

\* The payments to the validator and to Mekatek.
Relevant(payments) ==
  LET kept[n \in 0..Len(payments)] ==
        IF n = 0 THEN <<>>
        ELSE IF payments[n].to = "other" THEN kept[n - 1]
        ELSE Append(kept[n - 1], payments[n])
  IN kept[Len(payments)]

\* Those in a list of transactions.
PaymentsOf(txs) ==
  Flatten([i \in DOMAIN txs |->
             IF Readable(txs[i]) THEN Relevant(Pays[txs[i]]) ELSE <<>>])

PaidTo(payments, to) ==
  Total([i \in DOMAIN payments |->
           IF payments[i].to = to THEN payments[i].amount ELSE 0])

\* The share of each side is within one per cent of the allocation.
AllocationMet(validator, mekatek) ==
  LET total == Add(validator, mekatek)
  IN /\ total > 0
     /\ Abs(Allocation * total - 100 * validator) < total
     /\ Abs((100 - Allocation) * total - 100 * mekatek) < total

Acceptable(txs) ==
  AllocationMet(PaidTo(PaymentsOf(txs), "validator"),
                PaidTo(PaymentsOf(txs), "mekatek"))

Bid == [kind: {"top", "block"}, txs: Seq(Txs),
        state: {"", "pending", "accepted", "rejected"}, priority: Int,
        validator: Int, payments: Seq(Payment)]

Evaluated(kind, txs, state) ==
  LET payments == PaymentsOf(txs)
      validator == PaidTo(payments, "validator")
      mekatek == PaidTo(payments, "mekatek")
  IN [kind |-> kind, txs |-> Normalize(txs), state |-> state,
      priority |-> Add(validator, mekatek), validator |-> validator,
      payments |-> payments]

\* A row from the time before bids were evaluated when they are placed.
Unevaluated(kind, txs) ==
  [kind |-> kind, txs |-> txs, state |-> "", priority |-> 0, validator |-> 0,
   payments |-> <<>>]

-----------------------------------------------------------------------------
(* What computeOrder charges to the senders.                               *)

\* Mutant: the balance may become negative.
ChargeAnyway(account, p) ==
  [account EXCEPT !.balances[p.from] = @ - p.amount]

\* The payments are taken from a copy of the balances, one after the other.
Charge(account, p) ==
  LET left == account.balances[p.from] - p.amount
  IN IF account.ok /\ left >= 0
     THEN [account EXCEPT !.balances[p.from] = left]
     ELSE [account EXCEPT !.ok = FALSE]

ChargeAll(copy, payments) ==
  LET account[n \in 0..Len(payments)] ==
        IF n = 0 THEN [ok |-> TRUE, balances |-> copy]
        ELSE Charge(account[n - 1], payments[n])
  IN account[Len(payments)]

\* What sender a pays with a list of payments.
PaidBy(a, payments) ==
  Sum([n \in DOMAIN payments |->
         IF payments[n].from = a THEN payments[n].amount ELSE 0])

-----------------------------------------------------------------------------
(* What selectTransactions counts.                                         *)

\* -1 means no limit.
Limit(n) == IF n = -1 THEN MaxInt ELSE n

\* What transactions take; one that does not decode counts nothing.
Counted(measure, txs) ==
  [i \in DOMAIN txs |-> IF txs[i] \in Decodes THEN measure[txs[i]] ELSE 0]

Size(txs) == [bytes |-> Total(Counted(Bytes, txs)),
              gas |-> Total(Counted(Gas, txs))]

\* A size that is an int64, and still is when it is added to the limit.
InRange(size, limit) ==
  /\ 0 <= size /\ size <= MaxInt
  /\ limit = -1 \/ limit + size <= MaxInt

=============================================================================
