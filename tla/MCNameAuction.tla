--------------------------- MODULE MCNameAuction ----------------------------
(* NameAuction on small instances: see the README for the bounds.          *)
EXTENDS NameAuction

CONSTANTS StartBalance, Premium

Balances == [b \in Bidders |-> StartBalance]

SuffixOf == [n \in Others |-> Premium]
=============================================================================
