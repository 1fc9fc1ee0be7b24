-------------------------- MODULE MCAttackerService --------------------------
(***************************************************************************)
(* Small instances of the attacker service: three rounds, and a model that *)
(* answers with a few scenarios or with something unusable.                *)
(***************************************************************************)
EXTENDS AttackerService

CONSTANTS severe, mild, broken

MCSemantics == {severe, mild, broken}

Breach(count) ==
  [status |-> "valid", code |-> NoCode, breaches |-> count,
   maxExcess |-> count, totalExcess |-> count, worstLoss |-> 1]

MCEngine ==
  [s \in MCSemantics |->
     CASE s = severe -> Breach(2)
       [] s = mild   -> Breach(1)
       [] OTHER      -> Rejection("invalid_window")]

Scenario(id, sem) ==
  [form |-> "typed", id |-> id, sem |-> sem, headline |-> TRUE]

MCInvalidBatchId(r) == 10 + r

\* One scenario has the name the adapter gives the unusable answer of round 2.
MCCandidates ==
  {Scenario(1, severe), Scenario(2, mild), Scenario(1, broken),
   Scenario(3, broken), Scenario(12, mild)}
  \cup {InvalidCandidate(r) : r \in 1..MaxRounds}
=============================================================================
