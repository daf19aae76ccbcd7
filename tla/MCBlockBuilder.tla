---------------------------- MODULE MCBlockBuilder ----------------------------
(***************************************************************************)
(* Values of the constants of BlockBuilder for TLC.                        *)
(***************************************************************************)
EXTENDS BlockBuilder

\* pay1, pay2: the payments of two searchers; swap: a transaction to go with
\* them; rawSwap: another encoding of swap; junk: does not decode; half: gives
\* the validator half of the payment.
MCTxs == {"pay1", "pay2", "swap", "rawSwap", "junk", "half"}
MCDecodes == MCTxs \ {"junk"}
MCNormal == [t \in MCDecodes |-> IF t = "rawSwap" THEN "swap" ELSE t]

Pay(from, validator, mekatek) ==
  <<[from |-> from, to |-> "validator", amount |-> validator],
    [from |-> from, to |-> "mekatek", amount |-> mekatek]>>

MCPays ==
  [t \in MCDecodes |->
     CASE t = "pay1" -> Pay("ann", 97, 3)
       [] t = "pay2" -> Append(Pay("bob", 97, 3),
                               [from |-> "ann", to |-> "validator", amount |-> 1])
       [] t = "half" -> Pay("ann", 50, 50)
       [] OTHER -> <<[from |-> "ann", to |-> "other", amount |-> 7]>>]

MCBytes == [t \in MCTxs |-> IF t \in {"swap", "rawSwap"} THEN 2 ELSE 1]
MCGas == [t \in MCTxs |-> IF t = "pay1" THEN 2 ELSE 1]

MCBidTxs == {<<"pay1">>, <<"pay1", "rawSwap">>, <<"pay2", "swap">>,
             <<"junk", "pay2">>, <<"half">>}
MCMempools == {<<"swap", "rawSwap", "swap", "pay1">>, <<"junk", "pay1">>}
MCBalances == {[ann |-> 100, bob |-> 100], [ann |-> 300, bob |-> 100]}
MCLimits == {[bytes |-> -1, gas |-> -1], [bytes |-> 3, gas |-> 3]}

\* The hypothesis of the theorem about MempoolKept holds of these values.
ASSUME MCSizes == SizesInRange
=============================================================================
