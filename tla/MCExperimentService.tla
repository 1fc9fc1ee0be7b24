------------------------ MODULE MCExperimentService ------------------------
(***************************************************************************)
(* Small instances of the research API: two requests race for one key,     *)
(* while another client reads.                                             *)
(***************************************************************************)
EXTENDS ExperimentServiceProperties

CONSTANTS first, second, key

MCKeyOf == [r \in Requests |-> key]
=============================================================================
