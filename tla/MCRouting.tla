------------------------------ MODULE MCRouting ------------------------------
(* Small instances of Routing.                                             *)
EXTENDS Routing

CONSTANTS c1, c2, n1, n2, n3, n4, a, b, bad

MCChains == {c1, c2}

MCNetworks == {n1, n2, n3, n4}
MCInstances == {n1, n2}
MCConfigs == {a, b, bad}

\* A chain of the first network may turn bad, or move to the other instance with
\* another configuration.  A chain that nobody serves may come to the first
\* network, or to one whose URI is bad.
MCRows ==
  [c \in Chains |->
    IF c = c1
    THEN {[network |-> n1, config |-> bad], [network |-> n2, config |-> b]}
    ELSE {[network |-> n1, config |-> a], [network |-> n3, config |-> a]}]
MCTables ==
  {[c \in Chains |-> [network |-> IF c = c1 THEN n1 ELSE n4, config |-> a]]}
=============================================================================
