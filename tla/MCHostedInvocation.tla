------------------------- MODULE MCHostedInvocation -------------------------
(***************************************************************************)
(* Two invocations of an agent in either role, the second at the same time *)
(* as the first or as a retry of it, on a dataset with a longer second     *)
(* version.                                                                *)
(***************************************************************************)
EXTENDS HostedInvocationProperties

CONSTANTS original, longer

MCSize == [v \in Versions |-> IF v = longer THEN 2 ELSE 1]
=============================================================================
