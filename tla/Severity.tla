------------------------------ MODULE Severity ------------------------------
(***************************************************************************)
(* The bounded severity ranking of attack evidence: a pure algorithm, used *)
(* by the runner when it selects its top failures and by the verifier that *)
(* recomputes the selection from the recorded results.                     *)
(*                                                                         *)
(* An outcome is what the numerical engine says of one scenario.  The four *)
(* severity figures are floats in the code; only their order matters here, *)
(* so they are naturals.                                                   *)
(***************************************************************************)
EXTENDS Naturals, Integers, Sequences, FiniteSets

Statuses == {"valid", "rejected"}

RejectionCodes ==
  {"invalid_parameter", "invalid_window", "duplicate_scenario",
   "invalid_data", "timeout"}

\* The code of an outcome that is not a rejection.
NoCode == "none"

Outcomes ==
  [status: Statuses, code: RejectionCodes \cup {NoCode},
   breaches: Nat, maxExcess: Nat, totalExcess: Nat, worstLoss: Nat]

\* A rejected result carries no ranking evidence.
Rejection(code) ==
  [status |-> "rejected", code |-> code,
   breaches |-> 0, maxExcess |-> 0, totalExcess |-> 0, worstLoss |-> 0]

IsValid(record) == record.outcome.status = "valid"

IsFailure(record) == IsValid(record) /\ record.outcome.breaches > 0

SeverityKey(record) ==
  <<record.outcome.breaches, record.outcome.maxExcess,
    record.outcome.totalExcess, record.outcome.worstLoss>>

\* Lexicographically greater: the first figure on which the keys differ decides.
KeyExceeds(k, l) ==
  \E n \in 1..4 : k[n] > l[n] /\ \A m \in 1..(n - 1) : k[m] = l[m]

\* Fault variant: the tie on severity is left to the order of evaluation.
RanksBeforeByPosition(records, i, j) ==
  LET k == SeverityKey(records[i])
      l == SeverityKey(records[j])
  IN  KeyExceeds(k, l) \/ (k = l /\ i < j)

(***************************************************************************)
(* records[i] is sorted before records[j]: greater severity first, then    *)
(* the smaller scenario id, then (the sort is stable) the earlier record.  *)
(***************************************************************************)
RanksBefore(records, i, j) ==
  LET k == SeverityKey(records[i])
      l == SeverityKey(records[j])
  IN  \/ KeyExceeds(k, l)
      \/ k = l /\ records[i].id < records[j].id
      \/ k = l /\ records[i].id = records[j].id /\ i < j

FailureIndexes(records) == {i \in DOMAIN records : IsFailure(records[i])}

RankOf(records, i) ==
  1 + Cardinality({j \in FailureIndexes(records) : RanksBefore(records, j, i)})

(***************************************************************************)
(* The positions of the topK most severe failures, most severe first.  The *)
(* code sorts and slices; the position of rank r is the one that exactly   *)
(* r - 1 other failures are sorted before.                                 *)
(***************************************************************************)
RankTopFailures(records, topK) ==
  LET failures == FailureIndexes(records)
      count    == Cardinality(failures)
  IN  [r \in 1..(IF count < topK THEN count ELSE topK) |->
         CHOOSE i \in failures : RankOf(records, i) = r]
=============================================================================
