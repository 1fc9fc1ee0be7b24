----------------------------- MODULE MCDefender -----------------------------
(***************************************************************************)
(* Up to two selected failures, each altered in at most one part or        *)
(* replayed with at most one difference.                                   *)
(***************************************************************************)
EXTENDS DefenderProperties

CONSTANTS crash, drift, gap, volatility

MCFamiliesOf == [s \in Scenarios |-> IF s = crash THEN {gap} ELSE {gap, volatility}]

AtMostOne(S) == {x \in SUBSET S : Cardinality(x) <= 1}

MCAlterations == AtMostOne(Provenance)

MCReplays ==
  [valid: {TRUE}, differs: {{}}, delta: 0..2]
  \cup [valid: {TRUE}, differs: AtMostOne(Compared), delta: {0}]
  \cup [valid: {FALSE}, differs: {{}}, delta: {0}]

MCClaims ==
  {[status |-> "verified", families |-> {volatility}],
   [status |-> "verified", families |-> {gap}],
   [status |-> "unverifiable", families |-> {}]}
=============================================================================
