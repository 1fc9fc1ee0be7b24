--------------------------- MODULE MCDatasetCache ---------------------------
(***************************************************************************)
(* Two overlapping queries: the provider may return the same frame for     *)
(* both, and has corrected its prices for the first.                       *)
(***************************************************************************)
EXTENDS DatasetCacheProperties

CONSTANTS full, part, old, corrected

MCAcceptable == [q \in Queries |-> IF q = full THEN {old, corrected} ELSE {old}]
=============================================================================
