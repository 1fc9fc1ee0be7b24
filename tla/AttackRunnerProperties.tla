----------------------- MODULE AttackRunnerProperties -----------------------
(***************************************************************************)
(* What a bounded attack run promises: the type invariant, the safety      *)
(* invariants and the strengthening that makes them inductive.             *)
(***************************************************************************)
EXTENDS AttackRunner

Records(outcomes) ==
  [round: 1..MaxRounds, number: 1..MaxPerRound, id: Int,
   input: RawCandidates, outcome: outcomes]

ProposalRecords ==
  [round: 1..MaxRounds, number: 1..MaxPerRound, id: Int,
   input: RawCandidates, scenario: RawCandidates \cup {NoScenario},
   decision: {"accepted", "rejected"}, code: RejectionCodes \cup {NoCode}]

\* The type of every variable: run_attack's locals and the budget's counters.
TypeOK ==
  /\ pc \in {"round_start", "propose", "candidates", "evaluate", "finish",
             "done", "aborted", "budget_exceeded", "evaluation_raised"}
  /\ expired \in BOOLEAN /\ timedOut \in BOOLEAN
  /\ round \in 1..MaxRounds /\ roundsStarted \in 0..MaxRounds
  /\ slots \in 0..MaxTotal
  /\ batch \in Seq(Candidates) /\ Len(batch) <= MaxPerRound
  /\ cursor \in 1..(MaxPerRound + 1)
  /\ proposals \in Seq(ProposalRecords)
  /\ evaluations \in Seq(Records(Outcomes))
  /\ priorResults \in Seq(Nat)
  /\ seenIds \subseteq Nat /\ seenSemantics \subseteq Semantics
  /\ evaluated \in Nat /\ rejected \in Nat /\ qualifying \in Nat
  /\ stopReason \in StopReasons \cup {NoReason}
  /\ \E n \in 0..TopK : DOMAIN topFailures = 1..n
  /\ publication \in {"none", "published", "integrity_error"}

Ended == pc \in {"finish", "done"}

TimeoutIndexes ==
  {i \in DOMAIN evaluations : evaluations[i].outcome.code = "timeout"}

-----------------------------------------------------------------------------
(***************************************************************************)
(* Every consumed slot is settled exactly once.  The budget charges a      *)
(* batch before any of it is validated; from then on the slots consumed    *)
(* are the records written, rejected or evaluated, plus the candidates of  *)
(* the batch still to be taken up, whatever branch each candidate takes.   *)
(***************************************************************************)
SlotsAccounted ==
  /\ slots = Len(evaluations)
             + (IF pc \in {"candidates", "evaluate", "evaluation_raised"}
                THEN Len(batch) - cursor + 1 ELSE 0)
  /\ evaluated + rejected = Len(evaluations)
  /\ Len(proposals) =
       Len(evaluations) + (IF pc \in {"evaluate", "evaluation_raised"} THEN 1 ELSE 0)

(***************************************************************************)
(* No scenario is admitted twice in a run: accepted proposals differ both  *)
(* in scenario id and in numeric payload, across batches and rounds.       *)
(***************************************************************************)
AdmittedOnce ==
  \A i, j \in DOMAIN proposals :
    /\ i < j
    /\ proposals[i].decision = "accepted"
    /\ proposals[j].decision = "accepted"
    => /\ proposals[i].scenario.id # proposals[j].scenario.id
       /\ proposals[i].scenario.sem # proposals[j].scenario.sem

(***************************************************************************)
(* A candidate is called a duplicate only of a schema-valid candidate the  *)
(* bundle shows before it: one the schema refused burns nothing.           *)
(***************************************************************************)
DuplicateHasOriginal ==
  \A j \in DOMAIN proposals :
    proposals[j].code = "duplicate_scenario" =>
      \E i \in 1..(j - 1) :
        /\ proposals[i].scenario # NoScenario
        /\ \/ proposals[i].scenario.id = proposals[j].scenario.id
           \/ proposals[i].scenario.sem = proposals[j].scenario.sem

(***************************************************************************)
(* Duplicates are told exactly: never admitted, and never claimed of a     *)
(* candidate without an original (attack.py, _prepare_candidate and the    *)
(* seen sets of run_attack).                                               *)
(***************************************************************************)
DuplicatesAreExact == AdmittedOnce /\ DuplicateHasOriginal

(***************************************************************************)
(* A run reported as completed lost no evidence to the clock: if any       *)
(* candidate was skipped or its evidence discarded after the deadline, the *)
(* run ends with the stop reason timeout and is not completed.             *)
(***************************************************************************)
CompletedSawNoTimeout ==
  Ended /\ AttackCompleted => TimeoutIndexes = {}

(***************************************************************************)
(* The recorded stop reason is the true one: a timeout was a real one, and *)
(* each other reason is recorded only in the circumstances it names.       *)
(***************************************************************************)
StopReasonHonest ==
  Ended =>
    /\ stopReason = "timeout" => expired
    /\ stopReason = "evidence_condition_met" =>
         EvidenceConditionMet /\ TimeoutIndexes = {}
    /\ stopReason = "max_rounds_reached" =>
         roundsStarted = MaxRounds /\ Remaining > 0 /\ ~EvidenceConditionMet
    /\ stopReason = "max_total_scenarios_reached" =>
         Remaining = 0 /\ ~EvidenceConditionMet
    /\ stopReason \in {"proposer_exhausted", "proposer_budget_violation"} =>
         Remaining > 0 /\ ~EvidenceConditionMet

(***************************************************************************)
(* evidence_condition_met is backed by what the bundle shows.  It holds    *)
(* exactly when enough recorded results qualify.  The ranking goes by the  *)
(* number of breaches before the excess, so failures that do not qualify   *)
(* may displace results that do; but each place of the ranking that could  *)
(* be filled with a qualifying result is filled, by a failure with no      *)
(* fewer breaches than qualifying takes.                                   *)
(***************************************************************************)
QualifyingIndexes ==
  {i \in DOMAIN evaluations : Qualifies(evaluations[i].outcome)}

EvidenceBacked ==
  Ended =>
    /\ EvidenceConditionMet <=> MinFailures <= Cardinality(QualifyingIndexes)
    /\ pc = "done" =>
         \A r \in 1..TopK :
           r <= Cardinality(QualifyingIndexes) =>
             /\ r \in DOMAIN topFailures
             /\ evaluations[topFailures[r]].outcome.breaches >= MinBreaches

(***************************************************************************)
(* The published ranking is the bounded severity ranking of the record: as *)
(* many failures as there are, up to top_k; each a different scenario; in  *)
(* order of severity, equals by scenario id; and no failure left out is    *)
(* more severe than one that is in.                                        *)
(***************************************************************************)
NotAfter(i, j) ==
  LET k == SeverityKey(evaluations[i])
      l == SeverityKey(evaluations[j])
  IN  KeyExceeds(k, l) \/ (k = l /\ evaluations[i].id < evaluations[j].id)

TopFailuresAreMostSevere ==
  pc = "done" =>
    LET failures == FailureIndexes(evaluations)
        top      == {topFailures[r] : r \in DOMAIN topFailures}
    IN  /\ top \subseteq failures
        /\ Cardinality(top) = Len(topFailures)
        /\ Len(topFailures) =
             (IF Cardinality(failures) < TopK THEN Cardinality(failures)
                                              ELSE TopK)
        /\ \A r, s \in DOMAIN topFailures :
             r < s => NotAfter(topFailures[r], topFailures[s])
        /\ \A i \in top, j \in failures \ top : NotAfter(i, j)

(***************************************************************************)
(* The run never breaks its own budget: whatever the proposer returns, the *)
(* loop starts no round beyond max_rounds and reserves no slot beyond      *)
(* those of the round and of the run.  AttackBudget would answer either    *)
(* with an exception that run_attack does not catch, and the evidence of   *)
(* every round so far would be lost with it (attack.py, start_round and    *)
(* reserve_batch).                                                         *)
(***************************************************************************)
BudgetNeverRaises == pc # "budget_exceeded"

(***************************************************************************)
(* What run_attack says of itself: every run that ends publishes its       *)
(* bundle.  The code does not keep this for every candidate the proposer   *)
(* protocol allows.                                                        *)
(***************************************************************************)
EveryBundlePublishes == pc = "done" => publication = "published"

-----------------------------------------------------------------------------
(***************************************************************************)
(* The strengthening that makes the safety invariants above inductive.     *)
(***************************************************************************)
\* Where the loop stands in its batch, and what its flags then mean.
LoopPosition ==
  /\ pc = "candidates" => cursor <= Len(batch) + 1
  /\ pc = "evaluate" => cursor <= Len(batch) /\ ~timedOut
  /\ pc \in {"round_start", "propose"} => ~EvidenceConditionMet
  /\ pc = "propose" => Remaining > 0
  /\ pc = "round_start" => roundsStarted = round - 1
  /\ pc \in {"propose", "candidates", "evaluate"} => roundsStarted = round
  /\ pc \in {"round_start", "propose", "candidates", "evaluate"} =>
       stopReason = NoReason
  /\ Ended => stopReason # NoReason
  /\ timedOut => expired
  /\ BudgetNeverRaises

\* The candidates seen are exactly the schema-valid ones of the record.
SeenIsRecorded ==
  /\ \A i \in DOMAIN proposals :
       /\ proposals[i].scenario # NoScenario =>
            /\ proposals[i].scenario.id \in seenIds
            /\ proposals[i].scenario.sem \in seenSemantics
       /\ proposals[i].decision = "accepted" =>
            proposals[i].scenario # NoScenario
  /\ \A id \in seenIds : \E i \in DOMAIN proposals :
       proposals[i].scenario # NoScenario /\ proposals[i].scenario.id = id
  /\ \A sem \in seenSemantics : \E i \in DOMAIN proposals :
       proposals[i].scenario # NoScenario /\ proposals[i].scenario.sem = sem

\* A timeout record is always on its way to the stop reason.
TimeoutWillStop ==
  \/ TimeoutIndexes = {}
  \/ pc = "candidates" /\ timedOut
  \/ Ended /\ stopReason = "timeout"

\* The figures the run reports are those of its records.
FiguresRecorded ==
  /\ evaluated = Cardinality(ValidIndexes)
  /\ qualifying = Cardinality(QualifyingIndexes)

\* A result stands in the place of its proposal, and only an accepted
\* proposal has a valid one.
PairedAt(i) ==
  /\ proposals[i].round = evaluations[i].round
  /\ proposals[i].number = evaluations[i].number
  /\ proposals[i].id = evaluations[i].id
  /\ IsValid(evaluations[i]) =>
       /\ proposals[i].decision = "accepted"
       /\ proposals[i].scenario.id = evaluations[i].id

\* The proposal under evaluation is the last one of the record.
UnderEvaluation ==
  LET last == proposals[Len(proposals)]
  IN  /\ SchemaValid(Current)
      /\ last.round = round /\ last.number = cursor /\ last.id = Current.id
      /\ last.decision = "accepted" /\ last.scenario.id = Current.id
      /\ last.input = InputHash(Current)

RecordsPaired ==
  /\ \A i \in DOMAIN evaluations : PairedAt(i)
  /\ pc = "evaluate" => UnderEvaluation

\* Where no mapping leaves a field out, both records hash the same payload.
WholePayloads == \A i \in DOMAIN batch : batch[i].form # "partial"

InputsPaired ==
  \A i \in DOMAIN evaluations : proposals[i].input = evaluations[i].input

\* What Finish writes is what verification recomputes from the records.
EndOfRun ==
  pc = "done" =>
    /\ topFailures = RankTopFailures(evaluations, TopK)
    /\ publication = (IF BundleVerifies(topFailures) THEN "published"
                                                     ELSE "integrity_error")

LoopInvariant ==
  /\ TypeOK /\ SlotsAccounted /\ LoopPosition
  /\ SeenIsRecorded /\ AdmittedOnce /\ DuplicateHasOriginal
  /\ TimeoutWillStop /\ StopReasonHonest
  /\ FiguresRecorded /\ RecordsPaired /\ EndOfRun
=============================================================================
