--------------------------- MODULE AttackerService ---------------------------
(***************************************************************************)
(* The attacker service: the bounded run of module AttackRunner driven     *)
(* through _ScenarioProposerAdapter of services.py, which turns the text a *)
(* language model answers into candidates and tells the model how much of  *)
(* the budget is left.  The adapter keeps its own count of the slots it    *)
(* has handed out; the runner keeps another.                               *)
(***************************************************************************)
EXTENDS AttackRunnerProperties

CONSTANT InvalidBatchId(_)  \* the id "invalid-batch-rNN" of a round

VARIABLE slotsReturned      \* adapter._candidate_slots_returned

serviceVars == <<vars, slotsReturned>>

\* domain.MAX_CANDIDATES_PER_ROUND and services.MAX_PRIOR_RESULT_SUMMARIES.
HardPerRound == 8
MaxPriorResults == 16

TypedCandidates == {raw \in Candidates : raw.form = "typed"}

\* The single candidate that stands for an unusable answer; no payload of
\* it is ever looked at.
InvalidCandidate(r) ==
  [form |-> "provider_failure", id |-> InvalidBatchId(r),
   sem |-> CHOOSE s \in Semantics : TRUE, headline |-> FALSE]

ASSUME AdapterAssumption ==
  \A r \in 1..MaxRounds : InvalidCandidate(r) \in Candidates

\* The budget shown to the model: the experiment's total less the slots the
\* adapter itself has returned.
AdapterRemaining == MaxTotal - slotsReturned

\* The contract AttackerEvidenceSummary is validated against before every
\* call; a violation is an error nobody catches.
SummaryValid ==
  /\ AdapterRemaining \in 1..24
  /\ MaximumBatch <= AdapterRemaining
  /\ Len(priorResults) <= MaxPriorResults
  /\ Len(priorResults) <= (round - 1) * HardPerRound

ServiceInit == Init /\ slotsReturned = 0

\* Fault variant: only usable answers are counted.
CountUsable(candidates) ==
  slotsReturned' = slotsReturned
                   + Len(SelectSeq(candidates, SchemaValid))

CountReturned(candidates) ==
  slotsReturned' = slotsReturned + Len(candidates)

(***************************************************************************)
(* The provider failed, its answer was not text, too long, not JSON, not   *)
(* an AttackBatch, or a batch for another experiment or round: one invalid *)
(* candidate, which costs one slot.                                        *)
(***************************************************************************)
ProviderUnusable ==
  /\ SummaryValid
  /\ CountReturned(<<InvalidCandidate(round)>>)
  /\ ProposerReturns(<<InvalidCandidate(round)>>)

\* AttackBatch refuses a batch that names two scenarios alike.
DistinctIds(candidates) ==
  \A i, j \in DOMAIN candidates : candidates[i].id = candidates[j].id => i = j

\* A valid batch within the request.
ProviderAnswers(candidates) ==
  /\ SummaryValid /\ DistinctIds(candidates)
  /\ CountReturned(candidates)
  /\ ProposerReturns(candidates)

\* More scenarios than asked for: one too many is passed on uncounted, which
\* is enough for the runner to stop.
ProviderOverflows ==
  /\ SummaryValid
  /\ ProposerOverflows
  /\ UNCHANGED slotsReturned

ProviderExhausted ==
  /\ SummaryValid
  /\ ProposerExhausted
  /\ UNCHANGED slotsReturned

\* The provider raises something that is no ApplicationBoundaryError.
ProviderRaises ==
  /\ SummaryValid
  /\ ProposerFails
  /\ UNCHANGED slotsReturned

ProviderStep ==
  \/ ProviderUnusable \/ ProviderOverflows \/ ProviderExhausted
  \/ ProviderRaises
  \/ \E count \in 1..MaxPerRound :
       \E candidates \in [1..count -> TypedCandidates] :
         ProviderAnswers(candidates)

ServiceLoopStep == LoopStep /\ UNCHANGED slotsReturned

ServiceNext ==
  \/ ServiceLoopStep
  \/ ProviderStep
  \/ DeadlinePasses /\ UNCHANGED slotsReturned
  \/ Terminated /\ UNCHANGED slotsReturned

ServiceSpec == ServiceInit /\ [][ServiceNext]_serviceVars

-----------------------------------------------------------------------------
(***************************************************************************)
(* The two counts of the budget never drift apart, whatever the model      *)
(* answers: whenever it is called it is told exactly what the runner has   *)
(* left, and the summary it is handed passes its own validation, so no     *)
(* call dies before it is made; and an unusable answer costs its round     *)
(* exactly one slot: it stands in the record as the only candidate of the  *)
(* round, rejected as invalid, and never as a duplicate, whatever scenario *)
(* ids the model has used before (services.py, _FoundryAttackProposer).    *)
(***************************************************************************)
SummaryHonest ==
  /\ pc = "propose" => AdapterRemaining = Remaining /\ SummaryValid
  /\ \A i \in DOMAIN evaluations :
       proposals[i].input.form = "provider_failure" =>
         /\ evaluations[i].outcome = Rejection("invalid_parameter")
         /\ proposals[i].scenario = NoScenario
         /\ \A j \in DOMAIN proposals :
              proposals[j].round = proposals[i].round => j = i

-----------------------------------------------------------------------------
(***************************************************************************)
(* The strengthening that makes SummaryHonest inductive.                   *)
(***************************************************************************)
InBatch == pc \in {"candidates", "evaluate"}

\* The adapter answers with typed scenarios, or with one invalid candidate.
BatchUsable ==
  \A n \in DOMAIN batch :
    \/ batch[n].form = "typed"
    \/ batch[n].form = "provider_failure" /\ Len(batch) = 1

\* A round feeds back at most one result a candidate it has settled.
PriorBounded ==
  /\ pc \in {"round_start", "propose"} =>
       Len(priorResults) <= (round - 1) * HardPerRound
  /\ InBatch => Len(priorResults) <= (round - 1) * HardPerRound + cursor - 1

\* The record shows this round only once a candidate of it is prepared.
RoundsRecorded ==
  \A j \in DOMAIN proposals :
    /\ proposals[j].round <= round
    /\ pc \in {"round_start", "propose"} => proposals[j].round < round
    /\ pc = "candidates" /\ cursor = 1 => proposals[j].round < round

\* An unusable answer was refused as invalid, and ends its round.
FailuresStandAlone ==
  \A i \in DOMAIN proposals :
    proposals[i].input.form = "provider_failure" =>
      /\ proposals[i].scenario = NoScenario
      /\ i \in DOMAIN evaluations
      /\ evaluations[i].outcome = Rejection("invalid_parameter")
      /\ \A j \in DOMAIN proposals :
           proposals[j].round = proposals[i].round => j = i
      /\ InBatch /\ proposals[i].round = round =>
           pc = "candidates" /\ cursor > Len(batch)

AdapterInvariant ==
  /\ slotsReturned = slots
  /\ BatchUsable /\ PriorBounded /\ RoundsRecorded /\ FailuresStandAlone
=============================================================================
