---------------------------- MODULE AttackRunner ----------------------------
(***************************************************************************)
(* The bounded attack run: run_attack of attack.py with the AttackBudget   *)
(* it spends, the candidate boundary _prepare_candidate, the evaluation of *)
(* a scenario, the severity ranking, and the verification of the bundle it *)
(* publishes.                                                              *)
(*                                                                         *)
(* The loop is sequential.  Its environment is the proposer, which may     *)
(* return any batch, and the monotonic clock, which may pass the deadline  *)
(* between any two statements: the code reads it at five places and every  *)
(* read is a step of its own here.                                         *)
(***************************************************************************)
EXTENDS Severity

CONSTANTS
  MaxRounds,            \* experiment.max_rounds
  MaxPerRound,          \* experiment.max_candidates_per_round
  MaxTotal,             \* experiment.max_total_scenarios
  TopK,                 \* experiment.top_k
  MinFailures,          \* evidence_condition.minimum_failure_scenarios
  MinBreaches,          \* evidence_condition.minimum_breach_count
  MinExcess,            \* evidence_condition.minimum_maximum_normalized_excess
  Semantics,            \* numeric payloads: components and evaluation window
  AdmissibleSemantics,  \* the payloads the attack policy admits
  HeadlineRequired,     \* the policy has hypothesis rows, which want a headline
  Engine,               \* Engine[s]: the deterministic outcome of payload s
  Candidates,           \* the raw candidates a proposer may return
  NoScenario            \* the absent typed scenario of a rejected proposal

(***************************************************************************)
(* A raw candidate.  "typed" is a StressScenario, "full" a mapping equal   *)
(* to what that scenario dumps to, "partial" a valid mapping that leaves   *)
(* defaulted fields out.  "schema_invalid" fails the scenario schema and   *)
(* "provider_failure" is the adapter's report of an unusable answer.       *)
(***************************************************************************)
ScenarioForms == {"typed", "full", "partial"}

Forms == ScenarioForms \cup {"schema_invalid", "provider_failure"}

\* The id of a candidate that carries no usable scenario_id.
NoId == 0

RawCandidates == [form: Forms, id: Nat, sem: Semantics, headline: BOOLEAN]

\* The limits AttackBudget accepts, and the contract of the evidence condition.
ASSUME BudgetAssumption ==
  /\ MaxRounds \in 1..3 /\ MaxPerRound \in 1..8
  /\ MaxTotal \in 1..24 /\ TopK \in 1..3
  /\ MaxTotal <= MaxRounds * MaxPerRound
  /\ TopK <= MaxTotal
  /\ MinFailures \in 1..3 /\ MinBreaches \in 1..3 /\ MinExcess \in Nat

\* What the engine can answer: a valid result, or one of three rejections.
ASSUME EngineAssumption ==
  /\ AdmissibleSemantics \subseteq Semantics
  /\ HeadlineRequired \in BOOLEAN
  /\ Engine \in [Semantics -> Outcomes]
  /\ \A s \in Semantics :
       \/ /\ Engine[s].status = "valid" /\ Engine[s].code = NoCode
          /\ Engine[s].breaches \in 0..3
       \/ \E code \in {"invalid_window", "invalid_parameter", "invalid_data"} :
            Engine[s] = Rejection(code)

\* A scenario has an id; only other payloads may lack one.
ASSUME CandidateAssumption ==
  /\ Candidates \subseteq RawCandidates
  /\ \A raw \in Candidates : raw.form \in ScenarioForms => raw.id # NoId
  /\ NoScenario \notin RawCandidates

VARIABLES
  pc,             \* the next statement of the loop
  expired,        \* clock() >= deadline: it never becomes false again
  round,          \* round_number
  roundsStarted,  \* budget.rounds_started
  slots,          \* budget.candidate_slots_consumed
  batch,          \* candidates: the proposer's answer of this round
  cursor,         \* candidate_number
  timedOut,       \* timed_out: this round has seen the deadline pass
  proposals,      \* one ProposalRecord per candidate taken up
  evaluations,    \* one ScenarioEvaluationRecord per candidate settled
  priorResults,   \* ids of the valid results fed back to the proposer
  seenIds,        \* ids of every schema-valid candidate so far
  seenSemantics,  \* payloads of every schema-valid candidate so far
  evaluated,      \* evaluated_scenarios
  rejected,       \* rejected_scenarios
  qualifying,     \* qualifying_scenarios
  stopReason,     \* stop_reason
  topFailures,    \* positions in evaluations, by rank
  publication     \* "none", "published" or "integrity_error"

budgetVars == <<roundsStarted, slots>>
seenVars   == <<seenIds, seenSemantics>>
tallyVars  == <<priorResults, evaluated, rejected, qualifying>>
recordVars == <<proposals, evaluations>>
finalVars  == <<topFailures, publication>>

vars == <<pc, expired, round, roundsStarted, slots, batch, cursor, timedOut,
          proposals, evaluations, priorResults, seenIds, seenSemantics,
          evaluated, rejected, qualifying, stopReason, topFailures,
          publication>>

NoReason == "none"

InterruptedReasons == {"timeout", "proposer_budget_violation"}

StopReasons ==
  InterruptedReasons \cup
  {"evidence_condition_met", "max_rounds_reached",
   "max_total_scenarios_reached", "proposer_exhausted"}

-----------------------------------------------------------------------------
(***************************************************************************)
(* The candidate boundary: _candidate_identity and _prepare_candidate.     *)
(***************************************************************************)
SchemaValid(raw) == raw.form \in ScenarioForms

Typed(raw) == [raw EXCEPT !.form = "typed"]

\* A candidate without an id is filed under its place, "rejected-rNN-cNN":
\* a negative number, so that it is nobody's scenario id.
CandidateId(raw) ==
  IF raw.id # NoId THEN raw.id ELSE -(9 * round + cursor)

\* The hash of the payload as received.  Hashes do not collide, so the
\* payload stands for its hash; a full mapping dumps as its scenario does.
InputHash(raw) == IF raw.form = "full" THEN Typed(raw) ELSE raw

\* Fault variant: equal numeric payloads under two names are both admitted.
AlreadySeenById(raw) == raw.id \in seenIds

AlreadySeen(raw) == raw.id \in seenIds \/ raw.sem \in seenSemantics

PolicyAdmits(raw) ==
  raw.sem \in AdmissibleSemantics /\ (HeadlineRequired => raw.headline)

RejectionOf(raw) ==
  IF ~SchemaValid(raw) THEN "invalid_parameter"
  ELSE IF AlreadySeen(raw) THEN "duplicate_scenario"
  ELSE IF ~PolicyAdmits(raw) THEN "invalid_parameter"
  ELSE NoCode

Prepared(raw) ==
  [round |-> round, number |-> cursor, id |-> CandidateId(raw),
   input |-> InputHash(raw),
   scenario |-> IF SchemaValid(raw) THEN Typed(raw) ELSE NoScenario,
   decision |-> IF RejectionOf(raw) = NoCode THEN "accepted" ELSE "rejected",
   code |-> RejectionOf(raw)]

(***************************************************************************)
(* Every schema-valid candidate is remembered, a duplicate or a candidate  *)
(* the policy then rejects included: it burns its id and its payload.      *)
(***************************************************************************)
Remember(raw) ==
  /\ seenIds' = IF SchemaValid(raw) THEN seenIds \cup {raw.id} ELSE seenIds
  /\ seenSemantics' =
       IF SchemaValid(raw) THEN seenSemantics \cup {raw.sem} ELSE seenSemantics

PrepareCandidate(raw) ==
  /\ proposals' = Append(proposals, Prepared(raw))
  /\ Remember(raw)

-----------------------------------------------------------------------------
\* Fault variant: one slot more than the budget has.
RemainingOffByOne == MaxTotal - slots + 1

Remaining == MaxTotal - slots

\* Fault variant: the slots already consumed are forgotten.
MaximumBatchOfRound == MaxPerRound

MaximumBatch == IF MaxPerRound < Remaining THEN MaxPerRound ELSE Remaining

Current == batch[cursor]

Qualifies(outcome) ==
  /\ outcome.status = "valid"
  /\ outcome.breaches >= MinBreaches
  /\ outcome.maxExcess >= MinExcess

Record(id, input, outcome) ==
  [round |-> round, number |-> cursor, id |-> id, input |-> input,
   outcome |-> outcome]

Init ==
  /\ pc = "round_start" /\ expired = FALSE
  /\ round = 1 /\ roundsStarted = 0 /\ slots = 0
  /\ batch = <<>> /\ cursor = 1 /\ timedOut = FALSE
  /\ proposals = <<>> /\ evaluations = <<>> /\ priorResults = <<>>
  /\ seenIds = {} /\ seenSemantics = {}
  /\ evaluated = 0 /\ rejected = 0 /\ qualifying = 0
  /\ stopReason = NoReason /\ topFailures = <<>> /\ publication = "none"

\* The run is over: "aborted" by its proposer, or by an exception of its own
\* budget or of an evaluation.  Only "done" leaves a bundle.
Over == {"done", "aborted", "budget_exceeded", "evaluation_raised"}

\* The wall clock passes the deadline, at any point of the run.
DeadlinePasses ==
  /\ ~expired /\ pc \notin Over
  /\ expired' = TRUE
  /\ UNCHANGED <<pc, round, batch, cursor, timedOut, stopReason,
                 budgetVars, seenVars, tallyVars, recordVars, finalVars>>

Stop(reason) ==
  /\ stopReason' = reason
  /\ pc' = "finish"

\* The two breaks at the head of the loop, the deadline before the budget.
StopBeforeRound ==
  /\ pc = "round_start"
  /\ expired \/ Remaining = 0
  /\ Stop(IF expired THEN "timeout" ELSE "max_total_scenarios_reached")
  /\ UNCHANGED <<expired, round, batch, cursor, timedOut,
                 budgetVars, seenVars, tallyVars, recordVars, finalVars>>

\* budget.start_round raises AttackBudgetExceeded at the round limit.
StartRound ==
  /\ pc = "round_start"
  /\ ~expired /\ Remaining # 0
  /\ IF roundsStarted < MaxRounds
     THEN roundsStarted' = roundsStarted + 1 /\ pc' = "propose"
     ELSE pc' = "budget_exceeded" /\ UNCHANGED roundsStarted
  /\ UNCHANGED <<expired, round, slots, batch, cursor, timedOut, stopReason,
                 seenVars, tallyVars, recordVars, finalVars>>

\* The proposer raises, or its answer is no sequence: the run is abandoned
\* and nothing is published.
ProposerFails ==
  /\ pc = "propose"
  /\ pc' = "aborted"
  /\ UNCHANGED <<expired, round, batch, cursor, timedOut, stopReason,
                 budgetVars, seenVars, tallyVars, recordVars, finalVars>>

\* More candidates than were asked for: none is looked at or counted.
ProposerOverflows ==
  /\ pc = "propose"
  /\ Stop("proposer_budget_violation")
  /\ UNCHANGED <<expired, round, batch, cursor, timedOut,
                 budgetVars, seenVars, tallyVars, recordVars, finalVars>>

ProposerExhausted ==
  /\ pc = "propose"
  /\ Stop("proposer_exhausted")
  /\ UNCHANGED <<expired, round, batch, cursor, timedOut,
                 budgetVars, seenVars, tallyVars, recordVars, finalVars>>

BatchFits(count) == count <= MaxPerRound /\ count <= Remaining

\* Fault variant: a batch is charged as one slot, whatever its size.
ReserveOne(count) == slots' = slots + 1

ReserveBatch(count) == slots' = slots + count

\* The whole batch is paid for before its first candidate is validated,
\* then the clock is read.
TakeBatch(candidates) ==
  /\ ReserveBatch(Len(candidates))
  /\ batch' = candidates /\ cursor' = 1
  /\ timedOut' = expired
  /\ pc' = "candidates"

\* budget.reserve_batch raises AttackBudgetExceeded past either limit, and
\* nobody in run_attack catches it.
ProposerReturns(candidates) ==
  /\ pc = "propose"
  /\ Len(candidates) \in 1..MaximumBatch
  /\ IF BatchFits(Len(candidates))
     THEN TakeBatch(candidates)
     ELSE /\ pc' = "budget_exceeded"
          /\ UNCHANGED <<slots, batch, cursor, timedOut>>
  /\ UNCHANGED <<expired, round, roundsStarted, stopReason,
                 seenVars, tallyVars, recordVars, finalVars>>

-----------------------------------------------------------------------------
AtCandidate == pc = "candidates" /\ cursor <= Len(batch)

\* timed_out or budget.deadline_reached(), read when a candidate is settled
\* without an evaluation.
DeadlineSeen == timedOut \/ expired

RejectCandidate ==
  /\ AtCandidate
  /\ RejectionOf(Current) # NoCode
  /\ PrepareCandidate(Current)
  /\ evaluations' =
       Append(evaluations, Record(CandidateId(Current), InputHash(Current),
                                  Rejection(RejectionOf(Current))))
  /\ rejected' = rejected + 1
  /\ timedOut' = DeadlineSeen
  /\ cursor' = cursor + 1
  /\ UNCHANGED <<pc, expired, round, batch, stopReason, budgetVars,
                 priorResults, evaluated, qualifying, finalVars>>

\* An accepted candidate after the deadline is not evaluated.
SkipCandidate ==
  /\ AtCandidate
  /\ RejectionOf(Current) = NoCode /\ DeadlineSeen
  /\ PrepareCandidate(Current)
  /\ evaluations' =
       Append(evaluations, Record(Current.id, InputHash(Current),
                                  Rejection("timeout")))
  /\ rejected' = rejected + 1
  /\ timedOut' = TRUE
  /\ cursor' = cursor + 1
  /\ UNCHANGED <<pc, expired, round, batch, stopReason, budgetVars,
                 priorResults, evaluated, qualifying, finalVars>>

BeginEvaluation ==
  /\ AtCandidate
  /\ RejectionOf(Current) = NoCode /\ ~DeadlineSeen
  /\ PrepareCandidate(Current)
  /\ pc' = "evaluate"
  /\ UNCHANGED <<expired, round, batch, cursor, timedOut, stopReason,
                 evaluations, budgetVars, tallyVars, finalVars>>

NoteDeadline == timedOut' = TRUE

\* The deadline passed during the evaluation: its evidence is thrown away.
DiscardEvidence ==
  /\ pc = "evaluate" /\ expired
  /\ NoteDeadline
  /\ evaluations' =
       Append(evaluations, Record(Current.id, InputHash(Current),
                                  Rejection("timeout")))
  /\ rejected' = rejected + 1
  /\ pc' = "candidates" /\ cursor' = cursor + 1
  /\ UNCHANGED <<expired, round, batch, stopReason, proposals,
                 budgetVars, seenVars, priorResults, evaluated, qualifying,
                 finalVars>>

\* Fault variant: qualifying evidence is counted whatever its strength.
TallyAnyFailure(outcome) ==
  IF outcome.status = "valid"
  THEN /\ evaluated' = evaluated + 1
       /\ priorResults' = Append(priorResults, Current.id)
       /\ qualifying' = qualifying + 1
       /\ UNCHANGED rejected
  ELSE /\ rejected' = rejected + 1
       /\ UNCHANGED <<evaluated, priorResults, qualifying>>

\* Fault variant: a scenario the engine rejects is counted nowhere.
TallyValidOnly(outcome) ==
  IF outcome.status = "valid"
  THEN /\ evaluated' = evaluated + 1
       /\ priorResults' = Append(priorResults, Current.id)
       /\ qualifying' = qualifying + (IF Qualifies(outcome) THEN 1 ELSE 0)
       /\ UNCHANGED rejected
  ELSE UNCHANGED <<evaluated, rejected, priorResults, qualifying>>

Tally(outcome) ==
  IF outcome.status = "valid"
  THEN /\ evaluated' = evaluated + 1
       /\ priorResults' = Append(priorResults, Current.id)
       /\ qualifying' = qualifying + (IF Qualifies(outcome) THEN 1 ELSE 0)
       /\ UNCHANGED rejected
  ELSE /\ rejected' = rejected + 1
       /\ UNCHANGED <<evaluated, priorResults, qualifying>>

\* The evaluation finished in time.  Its input hash is that of the typed
\* scenario, not that of the payload the proposer sent.
RecordEvidence ==
  /\ pc = "evaluate" /\ ~expired
  /\ LET outcome == Engine[Current.sem]
     IN  /\ evaluations' =
              Append(evaluations, Record(Current.id, Typed(Current), outcome))
         /\ Tally(outcome)
  /\ pc' = "candidates" /\ cursor' = cursor + 1
  /\ UNCHANGED <<expired, round, batch, timedOut, stopReason, proposals,
                 budgetVars, seenVars, finalVars>>

\* An exception past the handlers of the evaluation, a worst window that
\* cannot be linked or evidence its contract refuses, abandons the run.
EvaluationRaises ==
  /\ pc = "evaluate"
  /\ pc' = "evaluation_raised"
  /\ UNCHANGED <<expired, round, batch, cursor, timedOut, stopReason,
                 budgetVars, seenVars, tallyVars, recordVars, finalVars>>

-----------------------------------------------------------------------------
RoundOver == pc = "candidates" /\ cursor > Len(batch)

\* Fault variant: the evidence condition is looked at before the deadline.
EvidenceFirstReason ==
  IF qualifying >= MinFailures THEN "evidence_condition_met"
  ELSE IF timedOut THEN "timeout"
  ELSE IF Remaining = 0 THEN "max_total_scenarios_reached"
  ELSE NoReason

ReasonAfterRound ==
  IF timedOut THEN "timeout"
  ELSE IF qualifying >= MinFailures THEN "evidence_condition_met"
  ELSE IF Remaining = 0 THEN "max_total_scenarios_reached"
  ELSE NoReason

StopAfterRound ==
  /\ RoundOver
  /\ ReasonAfterRound # NoReason
  /\ Stop(ReasonAfterRound)
  /\ UNCHANGED <<expired, round, batch, cursor, timedOut,
                 budgetVars, seenVars, tallyVars, recordVars, finalVars>>

\* The loop variable may be the last one: the loop then ends by itself.
NextRound ==
  /\ RoundOver
  /\ ReasonAfterRound = NoReason /\ round < MaxRounds
  /\ round' = round + 1
  /\ pc' = "round_start"
  /\ UNCHANGED <<expired, batch, cursor, timedOut, stopReason,
                 budgetVars, seenVars, tallyVars, recordVars, finalVars>>

RoundsExhausted ==
  /\ RoundOver
  /\ ReasonAfterRound = NoReason /\ round = MaxRounds
  /\ Stop("max_rounds_reached")
  /\ UNCHANGED <<expired, round, batch, cursor, timedOut,
                 budgetVars, seenVars, tallyVars, recordVars, finalVars>>

-----------------------------------------------------------------------------
EvidenceConditionMet == qualifying >= MinFailures

AttackCompleted == stopReason \notin InterruptedReasons

Aligned(proposal, record) ==
  /\ proposal.round = record.round /\ proposal.number = record.number
  /\ proposal.id = record.id
  /\ proposal.input = record.input

ValidIndexes == {i \in DOMAIN evaluations : IsValid(evaluations[i])}

\* What verify_run_artifacts recomputes from the records of the bundle.
BundleVerifies(top) ==
  /\ evaluated + rejected = slots
  /\ Len(proposals) = slots /\ Len(evaluations) = slots
  /\ \A i \in DOMAIN proposals : Aligned(proposals[i], evaluations[i])
  /\ Cardinality(ValidIndexes) = evaluated
  /\ Len(evaluations) - evaluated = rejected
  /\ top = RankTopFailures(evaluations, TopK)

\* Rank, write the bundle into a hidden directory, verify it, publish it.
Finish ==
  /\ pc = "finish"
  /\ topFailures' = RankTopFailures(evaluations, TopK)
  /\ publication' =
       IF BundleVerifies(topFailures') THEN "published" ELSE "integrity_error"
  /\ pc' = "done"
  /\ UNCHANGED <<expired, round, batch, cursor, timedOut, stopReason,
                 budgetVars, seenVars, tallyVars, recordVars>>

Terminated == pc \in Over /\ UNCHANGED vars

LoopStep ==
  \/ StopBeforeRound \/ StartRound
  \/ RejectCandidate \/ SkipCandidate \/ BeginEvaluation
  \/ DiscardEvidence \/ RecordEvidence \/ EvaluationRaises
  \/ StopAfterRound \/ NextRound \/ RoundsExhausted
  \/ Finish

ProposerStep ==
  \/ ProposerFails \/ ProposerOverflows \/ ProposerExhausted
  \/ \E count \in 1..MaxPerRound : \E candidates \in [1..count -> Candidates] :
       ProposerReturns(candidates)

Next == LoopStep \/ ProposerStep \/ DeadlinePasses \/ Terminated

Spec == Init /\ [][Next]_vars
=============================================================================
