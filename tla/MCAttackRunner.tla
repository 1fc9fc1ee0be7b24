--------------------------- MODULE MCAttackRunner ---------------------------
(***************************************************************************)
(* Small instances of the bounded attack run.  Seven payloads: four that   *)
(* breach (two of them equally severe, one that breaches more rules but    *)
(* too little to qualify), one the engine rejects, one that breaches       *)
(* nothing and one the policy refuses.                                     *)
(***************************************************************************)
EXTENDS AttackRunnerProperties

CONSTANTS mild, severe, twin, broad, broken, harmless, refused

MCSemantics == {mild, severe, twin, broad, broken, harmless, refused}

MCAdmissible == MCSemantics \ {refused}

Breach(count, excess) ==
  [status |-> "valid", code |-> NoCode, breaches |-> count,
   maxExcess |-> excess, totalExcess |-> excess, worstLoss |-> 1]

MCEngine ==
  [s \in MCSemantics |->
     CASE s = mild             -> Breach(1, 3)
       [] s \in {severe, twin} -> Breach(2, 2)
       [] s = broad            -> Breach(3, 1)
       [] s = broken           -> Rejection("invalid_window")
       [] OTHER                -> Breach(0, 0)]

Raw(form, id, sem, headline) ==
  [form |-> form, id |-> id, sem |-> sem, headline |-> headline]

\* Typed scenarios, mappings, refused payloads, reused ids and payloads.
MCCandidates ==
  {Raw("typed", 3, mild, TRUE), Raw("typed", 2, severe, TRUE),
   Raw("full", 1, twin, TRUE), Raw("partial", 3, severe, TRUE),
   Raw("typed", 5, broad, TRUE), Raw("typed", 1, broken, TRUE),
   Raw("typed", 4, harmless, TRUE),
   Raw("typed", 2, mild, FALSE), Raw("typed", 4, refused, TRUE),
   Raw("schema_invalid", 2, severe, TRUE),
   Raw("provider_failure", NoId, mild, TRUE)}
=============================================================================
