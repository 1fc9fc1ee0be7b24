-------------------------- MODULE AttackRunnerProofs --------------------------
(***************************************************************************)
(* Proofs about the bounded attack run, for every budget AttackBudget      *)
(* accepts, every evidence condition, every engine and every proposer:     *)
(* types, slot accounting, the deadline and the stop reason, duplicates,   *)
(* the severity ranking, the evidence and the bundle, and last the same    *)
(* run behind the adapter of the attacker service.                         *)
(***************************************************************************)
EXTENDS AttackerService, OrdersAndSums, TLAPS, SequenceTheorems,
        FiniteSetTheorems

-----------------------------------------------------------------------------
(***************************************************************************)
(* The records the loop appends are well formed.                           *)
(***************************************************************************)

\* The limits themselves, without the relation between them.
LEMMA BudgetLimits ==
  /\ MaxRounds \in 1..3 /\ MaxPerRound \in 1..8
  /\ MaxTotal \in 1..24 /\ TopK \in 1..3
  /\ MinFailures \in 1..3 /\ MinBreaches \in 1..3 /\ MinExcess \in Nat
  BY BudgetAssumption

\* A candidate a proposer returned is a raw candidate, and the one under the
\* cursor is one of the batch.
LEMMA CurrentType ==
  ASSUME TypeOK, cursor <= Len(batch)
  PROVE  /\ Current \in Candidates
         /\ Current \in RawCandidates
         /\ cursor \in 1..MaxPerRound
         /\ cursor + 1 \in 1..(MaxPerRound + 1)
  BY CandidateAssumption, BudgetLimits DEF TypeOK, Current

\* Forms, hashes and ids of a raw candidate (_candidate_identity).
LEMMA IdentityType ==
  ASSUME TypeOK, NEW raw \in RawCandidates
  PROVE  /\ Typed(raw) \in RawCandidates
         /\ InputHash(raw) \in RawCandidates
         /\ CandidateId(raw) \in Int
         /\ raw.id \in Nat /\ raw.sem \in Semantics
  <1>1. Typed(raw) \in RawCandidates
    BY DEF Typed, RawCandidates, Forms, ScenarioForms
  <1>2. InputHash(raw) \in RawCandidates
    BY <1>1 DEF InputHash
  <1>3. CandidateId(raw) \in Int
    BY DEF CandidateId, TypeOK, RawCandidates
  <1>4. QED
    BY <1>1, <1>2, <1>3 DEF RawCandidates

\* A rejection code is one of the boundary's, or none.
LEMMA RejectionType ==
  ASSUME NEW raw \in RawCandidates
  PROVE  RejectionOf(raw) \in
           {"invalid_parameter", "duplicate_scenario", NoCode}
  BY DEF RejectionOf

\* A rejected result is an outcome.
LEMMA RejectionOutcome ==
  ASSUME NEW code \in RejectionCodes
  PROVE  Rejection(code) \in Outcomes
  BY DEF Rejection, Outcomes, Statuses

\* What _prepare_candidate appends is a proposal record.
LEMMA PreparedType ==
  ASSUME TypeOK, NEW raw \in RawCandidates, cursor \in 1..MaxPerRound
  PROVE  Prepared(raw) \in ProposalRecords
  <1>1. /\ Typed(raw) \in RawCandidates
        /\ InputHash(raw) \in RawCandidates
        /\ CandidateId(raw) \in Int
    BY IdentityType
  <1>2. RejectionOf(raw) \in RejectionCodes \cup {NoCode}
    BY RejectionType DEF RejectionCodes
  <1>3. QED
    BY <1>1, <1>2 DEF Prepared, ProposalRecords, TypeOK

\* What the loop appends to its results is an evaluation record.
LEMMA RecordType ==
  ASSUME TypeOK, cursor \in 1..MaxPerRound,
         NEW id \in Int, NEW input \in RawCandidates, NEW outcome \in Outcomes
  PROVE  Record(id, input, outcome) \in Records(Outcomes)
  BY DEF Record, Records, TypeOK

\* The ranking is a sequence of at most top_k positions.
LEMMA RankingLength ==
  ASSUME TypeOK
  PROVE  \E n \in 0..TopK : DOMAIN RankTopFailures(evaluations, TopK) = 1..n
  <1> DEFINE failures == FailureIndexes(evaluations)
             count    == Cardinality(failures)
  <1>1. IsFiniteSet(failures)
    <2>1. IsFiniteSet(1..Len(evaluations))
      BY FS_Interval DEF TypeOK
    <2>2. failures \subseteq 1..Len(evaluations)
      BY DEF FailureIndexes, TypeOK
    <2>3. QED
      BY <2>1, <2>2, FS_Subset
  <1>2. count \in Nat
    BY <1>1, FS_CardinalityType
  <1>3. DOMAIN RankTopFailures(evaluations, TopK) =
          1..(IF count < TopK THEN count ELSE TopK)
    BY DEF RankTopFailures
  <1>4. (IF count < TopK THEN count ELSE TopK) \in 0..TopK
    BY <1>2, BudgetLimits
  <1>5. QED
    BY <1>3, <1>4

-----------------------------------------------------------------------------
(***************************************************************************)
(* Type correctness.  An action keeps TypeOK where the loop is inside its  *)
(* batch, which LoopPosition says, so the two are proved together.         *)
(***************************************************************************)

\* The records and the seen sets after _prepare_candidate.
LEMMA PrepareType ==
  ASSUME TypeOK, AtCandidate, PrepareCandidate(Current)
  PROVE  /\ proposals' \in Seq(ProposalRecords)
         /\ seenIds' \subseteq Nat
         /\ seenSemantics' \subseteq Semantics
  <1>1. /\ Current \in RawCandidates
        /\ cursor \in 1..MaxPerRound
    BY CurrentType DEF AtCandidate
  <1>2. Prepared(Current) \in ProposalRecords
    BY <1>1, PreparedType
  <1>3. proposals' \in Seq(ProposalRecords)
    BY <1>2 DEF PrepareCandidate, TypeOK
  <1>4. Current.id \in Nat /\ Current.sem \in Semantics
    BY <1>1, IdentityType
  <1>5. seenIds' \subseteq Nat /\ seenSemantics' \subseteq Semantics
    BY <1>4 DEF PrepareCandidate, Remember, TypeOK
  <1>6. QED
    BY <1>3, <1>5

\* Appending a well-formed record keeps the results well formed.
LEMMA AppendRecordType ==
  ASSUME TypeOK, cursor <= Len(batch),
         NEW id \in Int, NEW input \in RawCandidates, NEW outcome \in Outcomes,
         evaluations' = Append(evaluations, Record(id, input, outcome))
  PROVE  evaluations' \in Seq(Records(Outcomes))
  <1>1. cursor \in 1..MaxPerRound
    BY CurrentType
  <1>2. Record(id, input, outcome) \in Records(Outcomes)
    BY <1>1, RecordType
  <1>3. QED
    BY <1>2 DEF TypeOK

\* The run starts well typed.
LEMMA TypeInit == Init => TypeOK
  <1> SUFFICES ASSUME Init PROVE TypeOK
    OBVIOUS
  <1>1. \E n \in 0..TopK : DOMAIN topFailures = 1..n
    <2>1. DOMAIN topFailures = 1..0
      BY DEF Init
    <2>2. QED
      BY <2>1, BudgetLimits
  <1>2. /\ batch \in Seq(Candidates) /\ Len(batch) = 0
        /\ Len(batch) <= MaxPerRound
        /\ proposals \in Seq(ProposalRecords)
        /\ evaluations \in Seq(Records(Outcomes))
        /\ priorResults \in Seq(Nat)
    BY BudgetLimits DEF Init
  <1>3. /\ round \in 1..MaxRounds /\ roundsStarted \in 0..MaxRounds
        /\ slots \in 0..MaxTotal /\ cursor \in 1..(MaxPerRound + 1)
        /\ evaluated \in Nat /\ rejected \in Nat /\ qualifying \in Nat
    BY BudgetLimits DEF Init
  <1>4. QED
    BY <1>1, <1>2, <1>3 DEF Init, TypeOK

\* The statements at the head of the loop and the end of the run.
LEMMA TypeLoopControl ==
  ASSUME TypeOK, LoopPosition,
         \/ StopBeforeRound \/ StartRound \/ StopAfterRound \/ NextRound
         \/ RoundsExhausted \/ Finish \/ DeadlinePasses \/ EvaluationRaises
         \/ Terminated
  PROVE  TypeOK'
  <1> USE BudgetLimits
  <1>1. CASE StopBeforeRound
    <2>1. stopReason' \in StopReasons
      BY <1>1 DEF StopBeforeRound, Stop, StopReasons, InterruptedReasons
    <2>2. QED
      BY <1>1, <2>1 DEF StopBeforeRound, Stop, TypeOK, budgetVars, seenVars,
                        tallyVars, recordVars, finalVars
  <1>2. CASE StartRound
    <2>1. roundsStarted' \in 0..MaxRounds
      BY <1>2 DEF StartRound, TypeOK
    <2>2. QED
      BY <1>2, <2>1
      DEF StartRound, TypeOK, seenVars, tallyVars, recordVars, finalVars
  <1>3. CASE StopAfterRound
    <2>1. stopReason' \in StopReasons
      BY <1>3 DEF StopAfterRound, ReasonAfterRound, Stop, StopReasons,
                  InterruptedReasons
    <2>2. QED
      BY <1>3, <2>1 DEF StopAfterRound, Stop, TypeOK, budgetVars, seenVars,
                        tallyVars, recordVars, finalVars
  <1>4. CASE NextRound
    <2>1. round' \in 1..MaxRounds
      BY <1>4 DEF NextRound, TypeOK
    <2>2. QED
      BY <1>4, <2>1 DEF NextRound, TypeOK, budgetVars, seenVars, tallyVars,
                        recordVars, finalVars
  <1>5. CASE RoundsExhausted
    BY <1>5 DEF RoundsExhausted, Stop, StopReasons, TypeOK, budgetVars,
                seenVars, tallyVars, recordVars, finalVars
  <1>6. CASE Finish
    <2>1. \E n \in 0..TopK : DOMAIN topFailures' = 1..n
      BY <1>6, RankingLength DEF Finish
    <2>2. publication' \in {"none", "published", "integrity_error"}
      BY <1>6 DEF Finish
    <2>3. QED
      BY <1>6, <2>1, <2>2
      DEF Finish, TypeOK, budgetVars, seenVars, tallyVars, recordVars
  <1>7. CASE DeadlinePasses \/ EvaluationRaises
    BY <1>7 DEF DeadlinePasses, EvaluationRaises, TypeOK, budgetVars, seenVars, tallyVars,
                recordVars, finalVars
  <1>8. CASE Terminated
    BY <1>8 DEF Terminated, TypeOK, vars
  <1>9. QED
    BY <1>1, <1>2, <1>3, <1>4, <1>5, <1>6, <1>7, <1>8

\* A batch no longer than was asked for fits the budget: it is taken.
LEMMA ReturnedBatchIsTaken ==
  ASSUME TypeOK, NEW candidates, ProposerReturns(candidates)
  PROVE  TakeBatch(candidates) /\ Len(candidates) \in Nat
  <1>1. Remaining \in Nat /\ MaxPerRound \in Nat
    BY BudgetLimits DEF Remaining, TypeOK
  <1>2. Len(candidates) \in 1..MaximumBatch
    BY DEF ProposerReturns
  <1>3. BatchFits(Len(candidates)) /\ Len(candidates) \in Nat
    BY <1>1, <1>2 DEF BatchFits, MaximumBatch
  <1>4. QED
    BY <1>3 DEF ProposerReturns

\* The answers of the proposer.
LEMMA TypeProposer ==
  ASSUME TypeOK, ProposerStep
  PROVE  TypeOK'
  <1> USE BudgetLimits
  <1>1. CASE ProposerFails
    BY <1>1 DEF ProposerFails, TypeOK, budgetVars, seenVars, tallyVars,
                recordVars, finalVars
  <1>2. CASE ProposerOverflows
    BY <1>2 DEF ProposerOverflows, Stop, StopReasons, InterruptedReasons,
                TypeOK, budgetVars, seenVars, tallyVars, recordVars, finalVars
  <1>3. CASE ProposerExhausted
    BY <1>3 DEF ProposerExhausted, Stop, StopReasons, TypeOK, budgetVars,
                seenVars, tallyVars, recordVars, finalVars
  <1>4. ASSUME NEW count \in 1..MaxPerRound,
               NEW candidates \in [1..count -> Candidates],
               ProposerReturns(candidates)
        PROVE  TypeOK'
    <2>1. candidates \in Seq(Candidates) /\ Len(candidates) = count
      OBVIOUS
    <2>2. TakeBatch(candidates)
      BY <1>4, ReturnedBatchIsTaken
    <2>3. slots' \in 0..MaxTotal
      BY <1>4, <2>1, <2>2 DEF ProposerReturns, MaximumBatch, TakeBatch,
                              ReserveBatch, Remaining, TypeOK
    <2>4. UNCHANGED <<expired, round, roundsStarted, stopReason,
                      seenVars, tallyVars, recordVars, finalVars>>
      BY <1>4 DEF ProposerReturns
    <2>5. /\ batch' \in Seq(Candidates) /\ Len(batch') <= MaxPerRound
          /\ cursor' = 1 /\ timedOut' = expired /\ pc' = "candidates"
      BY <2>1, <2>2 DEF TakeBatch
    <2>6. QED
      BY <2>3, <2>4, <2>5
      DEF TypeOK, seenVars, tallyVars, recordVars, finalVars
  <1>5. QED
    BY <1>1, <1>2, <1>3, <1>4 DEF ProposerStep

\* The candidates of a batch.
LEMMA TypeCandidate ==
  ASSUME TypeOK, LoopPosition,
         \/ RejectCandidate \/ SkipCandidate \/ BeginEvaluation
         \/ DiscardEvidence \/ RecordEvidence
  PROVE  TypeOK'
  <1>0. /\ cursor <= Len(batch)
        /\ cursor \in 1..MaxPerRound
        /\ cursor + 1 \in 1..(MaxPerRound + 1)
        /\ Current \in RawCandidates
    <2>1. cursor <= Len(batch)
      BY DEF LoopPosition, AtCandidate, RejectCandidate, SkipCandidate,
             BeginEvaluation, DiscardEvidence, RecordEvidence
    <2>2. QED
      BY <2>1, CurrentType
  <1>a. /\ Typed(Current) \in RawCandidates
        /\ InputHash(Current) \in RawCandidates
        /\ CandidateId(Current) \in Int
        /\ Current.id \in Nat /\ Current.id \in Int /\ Current.sem \in Semantics
    BY <1>0, IdentityType
  <1>b. Rejection("timeout") \in Outcomes
    BY RejectionOutcome DEF RejectionCodes
  <1>1. CASE RejectCandidate
    <2>1. Rejection(RejectionOf(Current)) \in Outcomes
      BY <1>0, <1>1, RejectionType, RejectionOutcome
      DEF RejectCandidate, RejectionCodes
    <2>2. evaluations' \in Seq(Records(Outcomes))
      BY <1>0, <1>1, <1>a, <2>1, AppendRecordType DEF RejectCandidate
    <2>3. QED
      BY <1>0, <1>1, <2>2, PrepareType
      DEF RejectCandidate, DeadlineSeen, TypeOK, budgetVars, finalVars
  <1>2. CASE SkipCandidate
    <2>1. evaluations' \in Seq(Records(Outcomes))
      BY <1>0, <1>2, <1>a, <1>b, AppendRecordType DEF SkipCandidate
    <2>2. QED
      BY <1>0, <1>2, <2>1, PrepareType
      DEF SkipCandidate, TypeOK, budgetVars, finalVars
  <1>3. CASE BeginEvaluation
    BY <1>0, <1>3, PrepareType
    DEF BeginEvaluation, TypeOK, budgetVars, tallyVars, finalVars
  <1>4. CASE DiscardEvidence
    <2>1. evaluations' \in Seq(Records(Outcomes))
      BY <1>0, <1>4, <1>a, <1>b, AppendRecordType DEF DiscardEvidence
    <2>2. QED
      BY <1>0, <1>4, <2>1
      DEF DiscardEvidence, NoteDeadline, TypeOK, budgetVars, seenVars, finalVars
  <1>5. CASE RecordEvidence
    <2>1. Engine[Current.sem] \in Outcomes
      BY <1>a, EngineAssumption
    <2>2. evaluations' \in Seq(Records(Outcomes))
      BY <1>0, <1>5, <1>a, <2>1, AppendRecordType DEF RecordEvidence
    <2>3. /\ evaluated' \in Nat /\ rejected' \in Nat /\ qualifying' \in Nat
          /\ priorResults' \in Seq(Nat)
      <3> DEFINE outcome == Engine[Current.sem]
      <3>1. Tally(outcome)
        BY <1>5 DEF RecordEvidence
      <3>2. CASE outcome.status = "valid"
        <4>1. qualifying' \in Nat
          BY <3>1, <3>2 DEF Tally, TypeOK
        <4>2. priorResults' \in Seq(Nat)
          <5>1. priorResults \in Seq(Nat)
            BY DEF TypeOK
          <5>2. priorResults' = Append(priorResults, Current.id)
            BY <3>1, <3>2 DEF Tally
          <5>3. QED
            BY <5>1, <5>2, <1>a
        <4>3. QED
          BY <3>1, <3>2, <4>1, <4>2 DEF Tally, TypeOK
      <3>3. CASE outcome.status # "valid"
        BY <3>1, <3>3 DEF Tally, TypeOK
      <3>4. QED
        BY <3>2, <3>3
    <2>4. QED
      BY <1>0, <1>5, <2>2, <2>3
      DEF RecordEvidence, TypeOK, budgetVars, seenVars, finalVars
  <1>6. QED
    BY <1>1, <1>2, <1>3, <1>4, <1>5

-----------------------------------------------------------------------------
(***************************************************************************)
(* Where the loop stands.  Only the control variables, the budget and the  *)
(* deadline matter; records are not looked at.                             *)
(***************************************************************************)
LEMMA PositionInit == Init => LoopPosition
  BY BudgetLimits DEF Init, LoopPosition, EvidenceConditionMet, Ended, Remaining,
                      BudgetNeverRaises

\* A round that starts is one of those the budget has.
LEMMA StartedRoundIsCharged ==
  ASSUME TypeOK, LoopPosition, StartRound
  PROVE  roundsStarted' = roundsStarted + 1 /\ pc' = "propose"
  <1>1. roundsStarted < MaxRounds
    BY BudgetLimits DEF StartRound, LoopPosition, TypeOK
  <1>2. QED
    BY <1>1 DEF StartRound

\* The breaks and the start of a round keep the loop position.
LEMMA PositionHead ==
  ASSUME TypeOK, LoopPosition,
         StopBeforeRound \/ StartRound \/ ProposerStep \/ Finish
         \/ DeadlinePasses \/ EvaluationRaises \/ Terminated
  PROVE  LoopPosition'
  <1>0. CASE StartRound
    <2>1. roundsStarted' = roundsStarted + 1 /\ pc' = "propose"
      BY <1>0, StartedRoundIsCharged
    <2>2. MaxTotal - slots > 0
      BY <1>0, BudgetLimits DEF StartRound, Remaining, TypeOK
    <2>3. roundsStarted' = round'
      BY <1>0, <2>1 DEF StartRound, LoopPosition, TypeOK
    <2>4. QED
      BY <1>0, <2>1, <2>2, <2>3
      DEF StartRound, LoopPosition, EvidenceConditionMet, Ended, Remaining,
          BudgetNeverRaises, tallyVars
  <1> USE DEF LoopPosition, EvidenceConditionMet, Ended, Remaining, budgetVars,
              tallyVars, BudgetNeverRaises
  <1>1. CASE StopBeforeRound
    BY <1>1 DEF StopBeforeRound, Stop, NoReason
  <1>3. CASE ProposerFails
    BY <1>3 DEF ProposerFails
  <1>4. CASE ProposerOverflows
    BY <1>4 DEF ProposerOverflows, Stop, NoReason
  <1>5. CASE ProposerExhausted
    BY <1>5 DEF ProposerExhausted, Stop, NoReason
  <1>6. ASSUME NEW count \in 1..MaxPerRound,
               NEW candidates \in [1..count -> Candidates],
               ProposerReturns(candidates)
        PROVE  LoopPosition'
    <2>1. TakeBatch(candidates)
      BY <1>6, ReturnedBatchIsTaken
    <2>2. cursor' = 1 /\ Len(batch') >= 1
      BY <1>6, <2>1 DEF ProposerReturns, TakeBatch
    <2>3. QED
      BY <1>6, <2>1, <2>2 DEF ProposerReturns, TakeBatch
  <1>7. CASE Finish
    BY <1>7 DEF Finish
  <1>8. CASE DeadlinePasses \/ EvaluationRaises
    BY <1>8 DEF DeadlinePasses, EvaluationRaises
  <1>9. CASE Terminated
    BY <1>9 DEF Terminated, vars
  <1>10. QED
    BY <1>0, <1>1, <1>3, <1>4, <1>5, <1>6, <1>7, <1>8, <1>9 DEF ProposerStep

\* Settling a candidate keeps the loop position.
LEMMA PositionCandidate ==
  ASSUME TypeOK, LoopPosition,
         \/ RejectCandidate \/ SkipCandidate \/ BeginEvaluation
         \/ DiscardEvidence \/ RecordEvidence
  PROVE  LoopPosition'
  <1> USE DEF LoopPosition, Ended, budgetVars, BudgetNeverRaises
  <1>0. cursor \in Nat /\ Len(batch) \in Nat
    BY DEF TypeOK
  <1>1. CASE RejectCandidate
    <2>1. cursor' <= Len(batch') + 1
      BY <1>0, <1>1 DEF RejectCandidate, AtCandidate
    <2>2. timedOut' => expired'
      BY <1>1 DEF RejectCandidate, DeadlineSeen
    <2>3. /\ pc = "candidates" /\ pc' = pc /\ roundsStarted' = roundsStarted
          /\ round' = round /\ stopReason' = stopReason
      BY <1>1 DEF RejectCandidate, AtCandidate
    <2>4. QED
      BY <2>1, <2>2, <2>3
  <1>2. CASE SkipCandidate
    BY <1>0, <1>2 DEF SkipCandidate, AtCandidate, DeadlineSeen
  <1>3. CASE BeginEvaluation
    BY <1>0, <1>3 DEF BeginEvaluation, AtCandidate, DeadlineSeen
  <1>4. CASE DiscardEvidence
    BY <1>0, <1>4 DEF DiscardEvidence, NoteDeadline
  <1>5. CASE RecordEvidence
    BY <1>0, <1>5 DEF RecordEvidence
  <1>6. QED
    BY <1>1, <1>2, <1>3, <1>4, <1>5

\* The end of a round keeps the loop position.
LEMMA PositionRoundOver ==
  ASSUME TypeOK, LoopPosition,
         StopAfterRound \/ NextRound \/ RoundsExhausted
  PROVE  LoopPosition'
  <1> USE DEF LoopPosition, EvidenceConditionMet, Ended, budgetVars, tallyVars,
              RoundOver, BudgetNeverRaises
  <1>1. CASE StopAfterRound
    BY <1>1 DEF StopAfterRound, Stop
  <1>2. CASE NextRound
    <2>1. ~(qualifying >= MinFailures)
      BY <1>2 DEF NextRound, ReasonAfterRound, NoReason
    <2>2. roundsStarted = round' - 1
      BY <1>2 DEF NextRound, TypeOK
    <2>3. QED
      BY <1>2, <2>1, <2>2 DEF NextRound
  <1>3. CASE RoundsExhausted
    BY <1>3 DEF RoundsExhausted, Stop, NoReason
  <1>4. QED
    BY <1>1, <1>2, <1>3

\* Every step keeps the types and the position.
LEMMA TypeNext ==
  TypeOK /\ LoopPosition /\ [Next]_vars => TypeOK' /\ LoopPosition'
  <1> SUFFICES ASSUME TypeOK, LoopPosition, [Next]_vars
               PROVE  TypeOK' /\ LoopPosition'
    OBVIOUS
  <1>1. CASE StopBeforeRound \/ StartRound \/ Finish
             \/ DeadlinePasses \/ EvaluationRaises \/ Terminated
    BY <1>1, TypeLoopControl, PositionHead
  <1>2. CASE StopAfterRound \/ NextRound \/ RoundsExhausted
    BY <1>2, TypeLoopControl, PositionRoundOver
  <1>3. CASE RejectCandidate \/ SkipCandidate \/ BeginEvaluation
             \/ DiscardEvidence \/ RecordEvidence
    BY <1>3, TypeCandidate, PositionCandidate
  <1>4. CASE ProposerStep
    BY <1>4, TypeProposer, PositionHead
  <1>5. CASE UNCHANGED vars
    BY <1>5, TypeLoopControl, PositionHead
    DEF vars, TypeOK, LoopPosition, Ended, EvidenceConditionMet, Remaining,
        BudgetNeverRaises
  <1>6. QED
    BY <1>1, <1>2, <1>3, <1>4, <1>5 DEF Next, LoopStep

(***************************************************************************)
(* Type correctness of a run (TypeOK), whatever the limits, the policy,    *)
(* the engine and the proposer of run_attack.                              *)
(***************************************************************************)
THEOREM TypeCorrect == Spec => []TypeOK
  <1>1. Init => TypeOK /\ LoopPosition
    BY TypeInit, PositionInit
  <1>2. QED
    BY <1>1, TypeNext, PTL DEF Spec

(***************************************************************************)
(* The run never breaks its own budget (BudgetNeverRaises): neither        *)
(* start_round nor reserve_batch raises, whatever the limits and whatever  *)
(* the proposer returns.  A round that starts is the round_number-th, and  *)
(* a batch that was not refused is no longer than what remained when the   *)
(* proposer was asked, and nothing is charged in between.                  *)
(***************************************************************************)
THEOREM BudgetIsNeverExceeded == Spec => []BudgetNeverRaises
  <1>1. Init => TypeOK /\ LoopPosition
    BY TypeInit, PositionInit
  <1>2. LoopPosition => BudgetNeverRaises
    BY DEF LoopPosition
  <1>3. QED
    BY <1>1, <1>2, TypeNext, PTL DEF Spec

-----------------------------------------------------------------------------
(***************************************************************************)
(* Slot accounting.                                                        *)
(***************************************************************************)

\* The sequences SlotsAccounted counts, and the figures it adds up.
LEMMA AccountedTypes ==
  ASSUME TypeOK
  PROVE  /\ Len(evaluations) \in Nat /\ Len(proposals) \in Nat
         /\ Len(batch) \in Nat /\ cursor \in Nat /\ slots \in Nat
         /\ evaluated \in Nat /\ rejected \in Nat
  BY BudgetLimits DEF TypeOK

\* A record appended makes the record one longer.
LEMMA AppendLength ==
  ASSUME NEW S, NEW seq \in Seq(S), NEW e
  PROVE  /\ Len(Append(seq, e)) = Len(seq) + 1
         /\ DOMAIN Append(seq, e) = DOMAIN seq \cup {Len(seq) + 1}
         /\ \A i \in DOMAIN seq : Append(seq, e)[i] = seq[i]
         /\ Append(seq, e)[Len(seq) + 1] = e
         /\ Len(seq) + 1 \notin DOMAIN seq
         /\ DOMAIN seq = 1..Len(seq) /\ Len(seq) \in Nat
  OBVIOUS

\* What _prepare_candidate does to the length of the proposal records.
LEMMA PrepareLength ==
  ASSUME TypeOK, PrepareCandidate(Current)
  PROVE  Len(proposals') = Len(proposals) + 1
  BY AppendLength DEF PrepareCandidate, TypeOK

\* A run starts with nothing consumed and nothing recorded.
LEMMA AccountedInit == Init => SlotsAccounted
  BY DEF Init, SlotsAccounted

\* Every step of the run keeps the account of the slots.
LEMMA AccountedNext ==
  ASSUME TypeOK, LoopPosition, SlotsAccounted, [Next]_vars
  PROVE  SlotsAccounted'
  <1>0. /\ Len(evaluations) \in Nat /\ Len(proposals) \in Nat
        /\ Len(batch) \in Nat /\ cursor \in Nat /\ slots \in Nat
        /\ evaluated \in Nat /\ rejected \in Nat
    BY AccountedTypes
  <1> USE <1>0 DEF SlotsAccounted
  <1>1. CASE StopBeforeRound
    BY <1>1 DEF StopBeforeRound, Stop, budgetVars, tallyVars, recordVars
  <1>2. CASE StartRound
    BY <1>2 DEF StartRound, tallyVars, recordVars
  <1>3. CASE ProposerFails
    BY <1>3 DEF ProposerFails, budgetVars, tallyVars, recordVars
  <1>4. CASE ProposerOverflows \/ ProposerExhausted
    BY <1>4 DEF ProposerOverflows, ProposerExhausted, Stop, budgetVars,
                tallyVars, recordVars
  <1>5. ASSUME NEW candidates \in Seq(Candidates), ProposerReturns(candidates)
        PROVE  SlotsAccounted'
    <2>0. TakeBatch(candidates) /\ Len(candidates) \in Nat
      BY <1>5, ReturnedBatchIsTaken
    <2>1. slots' = slots + Len(candidates)
      BY <2>0 DEF TakeBatch, ReserveBatch
    <2>2. slots' = Len(evaluations) + Len(candidates)
      BY <1>5, <2>1 DEF ProposerReturns
    <2>3. QED
      BY <1>5, <2>0, <2>1, <2>2
      DEF ProposerReturns, TakeBatch, tallyVars, recordVars
  <1>6. CASE RejectCandidate \/ SkipCandidate
    <2>1. Len(evaluations') = Len(evaluations) + 1
      BY <1>6, AppendLength DEF RejectCandidate, SkipCandidate, TypeOK
    <2>2. Len(proposals') = Len(proposals) + 1
      BY <1>6, PrepareLength DEF RejectCandidate, SkipCandidate
    <2>3. /\ pc = "candidates" /\ pc' = pc /\ slots' = slots
          /\ batch' = batch /\ cursor' = cursor + 1
          /\ evaluated' = evaluated /\ rejected' = rejected + 1
      BY <1>6 DEF RejectCandidate, SkipCandidate, AtCandidate, budgetVars
    <2>4. slots' = Len(evaluations') + (Len(batch') - cursor' + 1)
      BY <2>1, <2>3
    <2>5. evaluated' + rejected' = Len(evaluations')
      BY <2>1, <2>3
    <2>6. Len(proposals') = Len(evaluations')
      BY <2>1, <2>2, <2>3
    <2>7. QED
      BY <2>3, <2>4, <2>5, <2>6
  <1>7. CASE BeginEvaluation
    <2>1. Len(proposals') = Len(proposals) + 1
      BY <1>7, PrepareLength DEF BeginEvaluation
    <2>2. QED
      BY <1>7, <2>1 DEF BeginEvaluation, AtCandidate, budgetVars, tallyVars
  <1>8. CASE DiscardEvidence \/ RecordEvidence
    <2>1. Len(evaluations') = Len(evaluations) + 1
      BY <1>8, AppendLength DEF DiscardEvidence, RecordEvidence, TypeOK
    <2>2. evaluated' + rejected' = evaluated + rejected + 1
      BY <1>8 DEF DiscardEvidence, RecordEvidence, Tally
    <2>3. /\ pc = "evaluate" /\ pc' = "candidates" /\ slots' = slots
          /\ batch' = batch /\ cursor' = cursor + 1 /\ proposals' = proposals
      BY <1>8 DEF DiscardEvidence, RecordEvidence, budgetVars
    <2>4. slots' = Len(evaluations') + (Len(batch') - cursor' + 1)
      BY <2>1, <2>3
    <2>5. evaluated' + rejected' = Len(evaluations')
      BY <2>1, <2>2
    <2>6. Len(proposals') = Len(evaluations')
      BY <2>1, <2>3
    <2>7. QED
      BY <2>3, <2>4, <2>5, <2>6
  <1>9. CASE StopAfterRound \/ NextRound \/ RoundsExhausted
    <2>1. cursor = Len(batch) + 1
      BY <1>9 DEF LoopPosition, StopAfterRound, NextRound, RoundsExhausted,
                  RoundOver
    <2>2. /\ pc = "candidates" /\ pc' \in {"finish", "round_start"}
          /\ UNCHANGED <<slots, evaluations, proposals, evaluated, rejected>>
      BY <1>9
      DEF StopAfterRound, NextRound, RoundsExhausted, RoundOver, Stop,
          budgetVars, tallyVars, recordVars
    <2>3. slots = Len(evaluations)
      BY <2>1, <2>2
    <2>4. QED
      BY <2>2, <2>3
  <1>10. CASE Finish
    BY <1>10 DEF Finish, budgetVars, tallyVars, recordVars
  <1>11. CASE DeadlinePasses \/ EvaluationRaises
    BY <1>11 DEF DeadlinePasses, EvaluationRaises, budgetVars, tallyVars, recordVars
  <1>12. CASE UNCHANGED vars
    BY <1>12 DEF vars
  <1>13. QED
    BY <1>1, <1>2, <1>3, <1>4, <1>5, <1>6, <1>7, <1>8, <1>9, <1>10, <1>11,
       <1>12
    DEF Next, LoopStep, ProposerStep, Terminated

(***************************************************************************)
(* Every slot AttackBudget charges is settled by exactly one record        *)
(* (SlotsAccounted), on every path through the candidate loop.             *)
(***************************************************************************)
THEOREM SlotsAreAccounted == Spec => []SlotsAccounted
  <1>1. Init => TypeOK /\ LoopPosition /\ SlotsAccounted
    BY TypeInit, PositionInit, AccountedInit
  <1>2. TypeOK /\ LoopPosition /\ SlotsAccounted /\ [Next]_vars
        => TypeOK' /\ LoopPosition' /\ SlotsAccounted'
    BY TypeNext, AccountedNext
  <1>3. QED
    BY <1>1, <1>2, PTL DEF Spec

-----------------------------------------------------------------------------
(***************************************************************************)
(* The deadline and the stop reason.                                       *)
(***************************************************************************)

\* The engine never answers with the code "timeout": only the loop does.
LEMMA EngineNeverTimesOut ==
  ASSUME NEW s \in Semantics
  PROVE  Engine[s].code # "timeout"
  <1>1. CASE Engine[s].code = NoCode
    BY <1>1 DEF NoCode
  <1>2. ASSUME NEW code \in {"invalid_window", "invalid_parameter",
                             "invalid_data"},
               Engine[s] = Rejection(code)
        PROVE  Engine[s].code # "timeout"
    BY <1>2 DEF Rejection
  <1>3. QED
    BY <1>1, <1>2, EngineAssumption

\* A record that is no timeout, appended, leaves no timeout where none was.
LEMMA NoTimeoutAppended ==
  ASSUME TypeOK, TimeoutIndexes = {},
         NEW record, record.outcome.code # "timeout",
         evaluations' = Append(evaluations, record)
  PROVE  TimeoutIndexes' = {}
  <1>1. evaluations \in Seq(Records(Outcomes))
    BY DEF TypeOK
  <1>2. /\ DOMAIN evaluations' = DOMAIN evaluations \cup {Len(evaluations) + 1}
        /\ \A i \in DOMAIN evaluations : evaluations'[i] = evaluations[i]
        /\ evaluations'[Len(evaluations) + 1] = record
    BY <1>1, AppendLength
  <1>3. QED
    BY <1>2 DEF TimeoutIndexes

\* No record, hence no timeout, at first.
LEMMA TimeoutInit == Init => TimeoutWillStop
  BY DEF Init, TimeoutWillStop, TimeoutIndexes

\* A timeout record and the flag that will stop the run come together.
LEMMA TimeoutNext ==
  ASSUME TypeOK, LoopPosition, TimeoutWillStop, [Next]_vars
  PROVE  TimeoutWillStop'
  <1>0. ASSUME UNCHANGED evaluations
        PROVE  TimeoutIndexes' = TimeoutIndexes
    BY <1>0 DEF TimeoutIndexes
  <1>1. CASE \/ StopBeforeRound \/ StartRound \/ ProposerFails
             \/ ProposerOverflows \/ ProposerExhausted
             \/ \E candidates \in Seq(Candidates) : ProposerReturns(candidates)
    <2>1. pc \in {"round_start", "propose"} /\ UNCHANGED evaluations
      BY <1>1 DEF StopBeforeRound, StartRound, ProposerFails,
                  ProposerOverflows, ProposerExhausted, ProposerReturns,
                  recordVars
    <2>2. TimeoutIndexes = {}
      BY <2>1 DEF TimeoutWillStop, Ended
    <2>3. QED
      BY <1>0, <2>1, <2>2 DEF TimeoutWillStop
  <1>2. CASE RejectCandidate
    <2>1. /\ pc = "candidates" /\ pc' = pc /\ (timedOut => timedOut')
      BY <1>2 DEF RejectCandidate, AtCandidate, DeadlineSeen
    <2>2. CASE TimeoutIndexes = {}
      <3>1. RejectionOf(Current) # "timeout"
        BY CurrentType, RejectionType, <1>2
        DEF RejectCandidate, AtCandidate, NoCode
      <3> DEFINE record == Record(CandidateId(Current), InputHash(Current),
                                  Rejection(RejectionOf(Current)))
      <3>2. record.outcome.code # "timeout"
        BY <3>1 DEF Record, Rejection
      <3>3. evaluations' = Append(evaluations, record)
        BY <1>2 DEF RejectCandidate
      <3>4. TimeoutIndexes' = {}
        BY <2>2, <3>2, <3>3, NoTimeoutAppended
      <3>5. QED
        BY <3>4 DEF TimeoutWillStop
    <2>3. CASE timedOut
      BY <2>1, <2>3 DEF TimeoutWillStop
    <2>4. QED
      BY <2>1, <2>2, <2>3 DEF TimeoutWillStop, Ended
  <1>3. CASE SkipCandidate
    BY <1>3 DEF SkipCandidate, AtCandidate, TimeoutWillStop
  <1>4. CASE DiscardEvidence
    BY <1>4 DEF DiscardEvidence, NoteDeadline, TimeoutWillStop
  <1>5. CASE BeginEvaluation
    <2>1. TimeoutIndexes = {}
      BY <1>5 DEF BeginEvaluation, AtCandidate, DeadlineSeen,
                  TimeoutWillStop, Ended
    <2>2. QED
      BY <1>0, <1>5, <2>1 DEF BeginEvaluation, TimeoutWillStop
  <1>6. CASE RecordEvidence
    <2>1. TimeoutIndexes = {}
      BY <1>6 DEF RecordEvidence, TimeoutWillStop, Ended
    <2> DEFINE record == Record(Current.id, Typed(Current),
                                Engine[Current.sem])
    <2>2. record.outcome.code # "timeout"
      <3>1. Current.sem \in Semantics
        BY <1>6, CurrentType, IdentityType DEF RecordEvidence, LoopPosition
      <3>2. QED
        BY <3>1, EngineNeverTimesOut DEF Record
    <2>3. evaluations' = Append(evaluations, record)
      BY <1>6 DEF RecordEvidence
    <2>4. QED
      BY <2>1, <2>2, <2>3, NoTimeoutAppended DEF TimeoutWillStop
  <1>7. CASE StopAfterRound
    <2>1. timedOut => stopReason' = "timeout"
      BY <1>7 DEF StopAfterRound, Stop, ReasonAfterRound
    <2>2. pc = "candidates" /\ pc' = "finish" /\ UNCHANGED evaluations
      BY <1>7 DEF StopAfterRound, RoundOver, Stop, recordVars
    <2>3. QED
      BY <1>0, <2>1, <2>2 DEF TimeoutWillStop, Ended
  <1>8. CASE NextRound \/ RoundsExhausted
    <2>1. ~timedOut
      BY <1>8 DEF NextRound, RoundsExhausted, ReasonAfterRound, NoReason
    <2>2. pc = "candidates" /\ UNCHANGED evaluations
      BY <1>8 DEF NextRound, RoundsExhausted, RoundOver, recordVars
    <2>3. QED
      BY <1>0, <2>1, <2>2 DEF TimeoutWillStop, Ended
  <1>9. CASE Finish
    BY <1>0, <1>9 DEF Finish, recordVars, TimeoutWillStop, Ended
  <1>10. CASE DeadlinePasses \/ EvaluationRaises
    BY <1>0, <1>10 DEF DeadlinePasses, EvaluationRaises, recordVars,
                       TimeoutWillStop, Ended
  <1>11. CASE UNCHANGED vars
    BY <1>0, <1>11 DEF vars, TimeoutWillStop, Ended
  <1>12. QED
    BY <1>1, <1>2, <1>3, <1>4, <1>5, <1>6, <1>7, <1>8, <1>9, <1>10, <1>11
    DEF Next, LoopStep, ProposerStep, Terminated

(***************************************************************************)
(* A run reported as completed lost no evidence to the clock               *)
(* (CompletedSawNoTimeout).  A timeout record exists only while the round  *)
(* that wrote it is on its way to the stop reason "timeout"; the engine    *)
(* itself never answers with that code.                                    *)
(***************************************************************************)
THEOREM CompletedMeansInTime == Spec => []CompletedSawNoTimeout
  <1>1. Init => TypeOK /\ LoopPosition /\ TimeoutWillStop
    BY TypeInit, PositionInit, TimeoutInit
  <1>2. TypeOK /\ LoopPosition /\ TimeoutWillStop /\ [Next]_vars
        => TypeOK' /\ LoopPosition' /\ TimeoutWillStop'
    BY TypeNext, TimeoutNext
  <1>3. TimeoutWillStop => CompletedSawNoTimeout
    BY DEF TimeoutWillStop, CompletedSawNoTimeout, Ended, AttackCompleted,
           InterruptedReasons
  <1>4. QED
    BY <1>1, <1>2, <1>3, PTL DEF Spec

\* What is left of the budget is a natural number.
LEMMA RemainingType ==
  ASSUME TypeOK
  PROVE  Remaining \in Nat
  BY BudgetLimits DEF TypeOK, Remaining

\* A run that has not ended has no reason to be honest about.
LEMMA HonestInit == Init => StopReasonHonest
  BY DEF Init, StopReasonHonest, Ended

\* Every step that records a stop reason records the true one.
LEMMA HonestNext ==
  ASSUME TypeOK, LoopPosition, TimeoutWillStop, StopReasonHonest, [Next]_vars
  PROVE  StopReasonHonest'
  <1>0. ASSUME UNCHANGED <<slots, evaluations, qualifying, roundsStarted>>
        PROVE  /\ TimeoutIndexes' = TimeoutIndexes
               /\ Remaining' = Remaining
               /\ EvidenceConditionMet' = EvidenceConditionMet
    BY <1>0 DEF TimeoutIndexes, Remaining, EvidenceConditionMet
  <1>a. Remaining \in Nat
    BY RemainingType
  <1>1. CASE StopBeforeRound
    <2>1. ~EvidenceConditionMet
      BY <1>1 DEF StopBeforeRound, LoopPosition
    <2>2. stopReason' = IF expired THEN "timeout"
                                   ELSE "max_total_scenarios_reached"
      BY <1>1 DEF StopBeforeRound, Stop
    <2>3. /\ expired \/ Remaining = 0
          /\ UNCHANGED <<expired, slots, evaluations, qualifying, roundsStarted>>
      BY <1>1 DEF StopBeforeRound, budgetVars, recordVars, tallyVars
    <2>4. QED
      BY <1>0, <2>1, <2>2, <2>3 DEF StopReasonHonest
  <1>2. CASE ProposerOverflows \/ ProposerExhausted
    <2>1. ~EvidenceConditionMet /\ Remaining > 0
      BY <1>2 DEF ProposerOverflows, ProposerExhausted, LoopPosition
    <2>2. stopReason' \in {"proposer_exhausted", "proposer_budget_violation"}
      BY <1>2 DEF ProposerOverflows, ProposerExhausted, Stop
    <2>3. UNCHANGED <<slots, evaluations, qualifying, roundsStarted>>
      BY <1>2 DEF ProposerOverflows, ProposerExhausted, budgetVars,
                  recordVars, tallyVars
    <2>4. QED
      BY <1>0, <2>1, <2>2, <2>3 DEF StopReasonHonest
  <1>3. CASE StopAfterRound
    <2>1. /\ stopReason' = ReasonAfterRound
          /\ UNCHANGED <<expired, slots, evaluations, qualifying, roundsStarted>>
      BY <1>3 DEF StopAfterRound, Stop, budgetVars, recordVars, tallyVars
    <2>2. CASE timedOut
      <3>1. stopReason' = "timeout" /\ expired'
        BY <2>1, <2>2 DEF ReasonAfterRound, LoopPosition
      <3>2. QED
        BY <3>1 DEF StopReasonHonest
    <2>3. CASE ~timedOut /\ EvidenceConditionMet
      <3>1. stopReason' = "evidence_condition_met"
        BY <2>1, <2>3 DEF ReasonAfterRound, EvidenceConditionMet
      <3>2. TimeoutIndexes = {}
        BY <1>3, <2>3 DEF TimeoutWillStop, StopAfterRound, RoundOver, Ended
      <3>3. QED
        BY <1>0, <2>1, <2>3, <3>1, <3>2 DEF StopReasonHonest
    <2>4. CASE ~timedOut /\ ~EvidenceConditionMet
      <3>1. stopReason' = "max_total_scenarios_reached" /\ Remaining = 0
        BY <1>3, <2>1, <2>4
        DEF StopAfterRound, ReasonAfterRound, EvidenceConditionMet
      <3>2. QED
        BY <1>0, <2>1, <2>4, <3>1 DEF StopReasonHonest
    <2>5. QED
      BY <2>2, <2>3, <2>4
  <1>4. CASE RoundsExhausted
    <2>1. ~EvidenceConditionMet /\ Remaining # 0
      BY <1>4 DEF RoundsExhausted, ReasonAfterRound, NoReason,
                  EvidenceConditionMet
    <2>2. roundsStarted = MaxRounds
      BY <1>4 DEF RoundsExhausted, RoundOver, LoopPosition
    <2>3. /\ stopReason' = "max_rounds_reached"
          /\ UNCHANGED <<slots, evaluations, qualifying, roundsStarted>>
      BY <1>4 DEF RoundsExhausted, Stop, budgetVars, recordVars, tallyVars
    <2>4. QED
      BY <1>0, <1>a, <2>1, <2>2, <2>3 DEF StopReasonHonest
  <1>5. CASE \/ StartRound \/ ProposerFails \/ RejectCandidate
             \/ SkipCandidate \/ BeginEvaluation \/ DiscardEvidence
             \/ RecordEvidence \/ EvaluationRaises \/ NextRound
             \/ \E candidates \in Seq(Candidates) : ProposerReturns(candidates)
    <2>1. pc' \in {"propose", "aborted", "budget_exceeded", "candidates",
                   "evaluate", "evaluation_raised", "round_start"}
      BY <1>5 DEF StartRound, ProposerFails, RejectCandidate, SkipCandidate,
                  BeginEvaluation, DiscardEvidence, RecordEvidence,
                  EvaluationRaises, NextRound, ProposerReturns, TakeBatch, AtCandidate
    <2>2. QED
      BY <2>1 DEF StopReasonHonest, Ended
  <1>6. CASE Finish
    <2>1. Ended
      BY <1>6 DEF Finish, Ended
    <2>2. UNCHANGED <<expired, stopReason, slots, evaluations, qualifying,
                      roundsStarted>>
      BY <1>6 DEF Finish, budgetVars, recordVars, tallyVars
    <2>3. QED
      BY <1>0, <2>1, <2>2 DEF StopReasonHonest
  <1>7. CASE DeadlinePasses
    <2>1. /\ expired' = TRUE
          /\ UNCHANGED <<pc, stopReason, slots, evaluations, qualifying,
                         roundsStarted>>
      BY <1>7 DEF DeadlinePasses, budgetVars, recordVars, tallyVars
    <2>2. QED
      BY <1>0, <2>1 DEF StopReasonHonest, Ended
  <1>8. CASE UNCHANGED vars
    BY <1>0, <1>8 DEF vars, StopReasonHonest, Ended
  <1>9. QED
    BY <1>1, <1>2, <1>3, <1>4, <1>5, <1>6, <1>7, <1>8
    DEF Next, LoopStep, ProposerStep, Terminated

(***************************************************************************)
(* The stop reason run_attack records is the true one (StopReasonHonest):  *)
(* timeouts are real, and every other reason is recorded in just the       *)
(* circumstances it names.                                                 *)
(***************************************************************************)
THEOREM StopReasonIsHonest == Spec => []StopReasonHonest
  <1>1. Init => TypeOK /\ LoopPosition /\ TimeoutWillStop /\ StopReasonHonest
    BY TypeInit, PositionInit, TimeoutInit, HonestInit
  <1>2. TypeOK /\ LoopPosition /\ TimeoutWillStop /\ StopReasonHonest
        /\ [Next]_vars
        => TypeOK' /\ LoopPosition' /\ TimeoutWillStop' /\ StopReasonHonest'
    BY TypeNext, TimeoutNext, HonestNext
  <1>3. QED
    BY <1>1, <1>2, PTL DEF Spec

-----------------------------------------------------------------------------
(***************************************************************************)
(* Duplicates: three statements of the loop call _prepare_candidate, the   *)
(* others leave the proposal records and the seen sets alone.              *)
(***************************************************************************)

\* What the record of a candidate shows of it.
LEMMA PreparedShows ==
  ASSUME NEW raw \in RawCandidates
  PROVE  /\ Prepared(raw).scenario # NoScenario <=> SchemaValid(raw)
         /\ SchemaValid(raw) => /\ Prepared(raw).scenario.id = raw.id
                                /\ Prepared(raw).scenario.sem = raw.sem
         /\ Prepared(raw).decision = "accepted" =>
              SchemaValid(raw) /\ ~AlreadySeen(raw)
         /\ Prepared(raw).code = "duplicate_scenario" =>
              SchemaValid(raw) /\ AlreadySeen(raw)
  <1>1. /\ Typed(raw) # NoScenario
        /\ Typed(raw).id = raw.id /\ Typed(raw).sem = raw.sem
    <2>1. Typed(raw) \in RawCandidates
      BY DEF Typed, RawCandidates, Forms, ScenarioForms
    <2>2. QED
      BY <2>1, CandidateAssumption DEF Typed, RawCandidates
  <1>2. RejectionOf(raw) = NoCode => SchemaValid(raw) /\ ~AlreadySeen(raw)
    BY DEF RejectionOf, NoCode
  <1>3. RejectionOf(raw) = "duplicate_scenario" =>
          SchemaValid(raw) /\ AlreadySeen(raw)
    BY DEF RejectionOf, NoCode
  <1>4. QED
    BY <1>1, <1>2, <1>3 DEF Prepared

\* The proposal records after _prepare_candidate.
LEMMA PrepareAppends ==
  ASSUME TypeOK, NEW raw \in RawCandidates, PrepareCandidate(raw),
         NEW last, last = Len(proposals) + 1
  PROVE  /\ DOMAIN proposals' = DOMAIN proposals \cup {last}
         /\ \A i \in DOMAIN proposals : proposals'[i] = proposals[i]
         /\ proposals'[last] = Prepared(raw)
         /\ last \notin DOMAIN proposals
         /\ DOMAIN proposals = 1..(last - 1) /\ last \in Nat
  <1>1. proposals \in Seq(ProposalRecords)
    BY DEF TypeOK
  <1>2. proposals' = Append(proposals, Prepared(raw))
    BY DEF PrepareCandidate
  <1>3. QED
    BY <1>1, <1>2, AppendLength

\* Preparing a candidate remembers it as it records it.
LEMMA SeenPrepared ==
  ASSUME TypeOK, NEW raw \in RawCandidates, PrepareCandidate(raw),
         SeenIsRecorded
  PROVE  SeenIsRecorded'
  <1> DEFINE last == Len(proposals) + 1
  <1>0. /\ DOMAIN proposals' = DOMAIN proposals \cup {last}
        /\ \A i \in DOMAIN proposals : proposals'[i] = proposals[i]
        /\ proposals'[last] = Prepared(raw)
    BY PrepareAppends
  <1> HIDE DEF last
  <1>1. ASSUME NEW i \in DOMAIN proposals'
        PROVE  /\ proposals'[i].scenario # NoScenario =>
                    /\ proposals'[i].scenario.id \in seenIds'
                    /\ proposals'[i].scenario.sem \in seenSemantics'
               /\ proposals'[i].decision = "accepted" =>
                    proposals'[i].scenario # NoScenario
    <2>1. CASE i \in DOMAIN proposals
      <3>1. seenIds \subseteq seenIds' /\ seenSemantics \subseteq seenSemantics'
        BY DEF PrepareCandidate, Remember
      <3>2. QED
        BY <1>0, <2>1, <3>1 DEF SeenIsRecorded
    <2>2. CASE i = last
      <3>1. SchemaValid(raw) => raw.id \in seenIds' /\ raw.sem \in seenSemantics'
        BY DEF PrepareCandidate, Remember
      <3>2. QED
        BY <1>0, <2>2, <3>1, PreparedShows
    <2>3. QED
      BY <1>0, <2>1, <2>2
  <1>2. ASSUME NEW id \in seenIds'
        PROVE  \E i \in DOMAIN proposals' :
                 proposals'[i].scenario # NoScenario /\ proposals'[i].scenario.id = id
    <2>1. CASE id \in seenIds
      BY <1>0, <2>1 DEF SeenIsRecorded
    <2>2. CASE id \notin seenIds
      <3>1. SchemaValid(raw) /\ id = raw.id
        BY <2>2 DEF PrepareCandidate, Remember
      <3>2. last \in DOMAIN proposals'
        BY <1>0
      <3>3. QED
        BY <1>0, <3>1, <3>2, PreparedShows
    <2>3. QED
      BY <2>1, <2>2
  <1>3. ASSUME NEW sem \in seenSemantics'
        PROVE  \E i \in DOMAIN proposals' :
                 proposals'[i].scenario # NoScenario /\ proposals'[i].scenario.sem = sem
    <2>1. CASE sem \in seenSemantics
      BY <1>0, <2>1 DEF SeenIsRecorded
    <2>2. CASE sem \notin seenSemantics
      <3>1. SchemaValid(raw) /\ sem = raw.sem
        BY <2>2 DEF PrepareCandidate, Remember
      <3>2. last \in DOMAIN proposals'
        BY <1>0
      <3>3. QED
        BY <1>0, <3>1, <3>2, PreparedShows
    <2>3. QED
      BY <2>1, <2>2
  <1>4. QED
    BY <1>1, <1>2, <1>3 DEF SeenIsRecorded

\* A candidate prepared as accepted is new to the record.
LEMMA AdmittedPrepared ==
  ASSUME TypeOK, NEW raw \in RawCandidates, PrepareCandidate(raw),
         SeenIsRecorded, AdmittedOnce
  PROVE  AdmittedOnce'
  <1> DEFINE last == Len(proposals) + 1
  <1>0. /\ DOMAIN proposals' = DOMAIN proposals \cup {last}
        /\ \A i \in DOMAIN proposals : proposals'[i] = proposals[i]
        /\ proposals'[last] = Prepared(raw)
        /\ DOMAIN proposals = 1..(last - 1) /\ last \in Nat
    BY PrepareAppends
  <1> HIDE DEF last
  <1> SUFFICES ASSUME NEW i \in DOMAIN proposals', NEW j \in DOMAIN proposals',
                      i < j,
                      proposals'[i].decision = "accepted",
                      proposals'[j].decision = "accepted"
               PROVE  /\ proposals'[i].scenario.id # proposals'[j].scenario.id
                      /\ proposals'[i].scenario.sem # proposals'[j].scenario.sem
    BY DEF AdmittedOnce
  <1>1. i \in DOMAIN proposals
    BY <1>0
  <1>2. CASE j \in DOMAIN proposals
    BY <1>0, <1>1, <1>2 DEF AdmittedOnce
  <1>3. CASE j = last
    <2>1. SchemaValid(raw) /\ raw.id \notin seenIds /\ raw.sem \notin seenSemantics
      BY <1>0, <1>3, PreparedShows DEF AlreadySeen
    <2>2. /\ proposals[i].scenario.id \in seenIds
          /\ proposals[i].scenario.sem \in seenSemantics
      BY <1>0, <1>1 DEF SeenIsRecorded
    <2>3. QED
      BY <1>0, <1>1, <1>3, <2>1, <2>2, PreparedShows
  <1>4. QED
    BY <1>0, <1>2, <1>3

\* A candidate prepared as a duplicate repeats one of the record.
LEMMA DuplicatePrepared ==
  ASSUME TypeOK, NEW raw \in RawCandidates, PrepareCandidate(raw),
         SeenIsRecorded, DuplicateHasOriginal
  PROVE  DuplicateHasOriginal'
  <1> DEFINE last == Len(proposals) + 1
  <1>0. /\ DOMAIN proposals' = DOMAIN proposals \cup {last}
        /\ \A i \in DOMAIN proposals : proposals'[i] = proposals[i]
        /\ proposals'[last] = Prepared(raw)
        /\ DOMAIN proposals = 1..(last - 1) /\ last \in Nat
    BY PrepareAppends
  <1> HIDE DEF last
  <1> SUFFICES ASSUME NEW j \in DOMAIN proposals',
                      proposals'[j].code = "duplicate_scenario"
               PROVE  \E i \in 1..(j - 1) :
                        /\ proposals'[i].scenario # NoScenario
                        /\ \/ proposals'[i].scenario.id = proposals'[j].scenario.id
                           \/ proposals'[i].scenario.sem = proposals'[j].scenario.sem
    BY DEF DuplicateHasOriginal
  <1>1. CASE j \in DOMAIN proposals
    <2>1. PICK i \in 1..(j - 1) :
            /\ proposals[i].scenario # NoScenario
            /\ \/ proposals[i].scenario.id = proposals[j].scenario.id
               \/ proposals[i].scenario.sem = proposals[j].scenario.sem
      BY <1>0, <1>1 DEF DuplicateHasOriginal
    <2>2. i \in DOMAIN proposals
      BY <1>0, <1>1
    <2>3. QED
      BY <1>0, <1>1, <2>1, <2>2
  <1>2. CASE j = last
    <2>1. SchemaValid(raw) /\ (raw.id \in seenIds \/ raw.sem \in seenSemantics)
      BY <1>0, <1>2, PreparedShows DEF AlreadySeen
    <2>2. PICK i \in DOMAIN proposals :
            /\ proposals[i].scenario # NoScenario
            /\ \/ proposals[i].scenario.id = raw.id
               \/ proposals[i].scenario.sem = raw.sem
      BY <2>1 DEF SeenIsRecorded
    <2>3. i \in 1..(j - 1)
      BY <1>0, <1>2
    <2>4. /\ proposals'[j].scenario.id = raw.id
          /\ proposals'[j].scenario.sem = raw.sem
      BY <1>0, <1>2, <2>1, PreparedShows
    <2>5. QED
      BY <1>0, <2>2, <2>3, <2>4
  <1>3. QED
    BY <1>0, <1>1, <1>2

\* A step either prepares the candidate under the cursor or leaves the
\* records of the boundary alone.
LEMMA PreparesOrLeaves ==
  ASSUME TypeOK, [Next]_vars
  PROVE  \/ \E raw \in RawCandidates : PrepareCandidate(raw)
         \/ UNCHANGED <<proposals, seenIds, seenSemantics>>
  <1>1. CASE RejectCandidate \/ SkipCandidate \/ BeginEvaluation
    <2>1. PrepareCandidate(Current) /\ AtCandidate
      BY <1>1 DEF RejectCandidate, SkipCandidate, BeginEvaluation
    <2>2. Current \in RawCandidates
      BY <2>1, CurrentType DEF AtCandidate
    <2>3. QED
      BY <2>1, <2>2
  <1>2. CASE StopBeforeRound \/ StartRound \/ Finish \/ StopAfterRound
             \/ NextRound \/ RoundsExhausted
    BY <1>2 DEF StopBeforeRound, StartRound, Finish, StopAfterRound, NextRound,
                RoundsExhausted, seenVars, recordVars
  <1>3. CASE DiscardEvidence \/ RecordEvidence
    BY <1>3 DEF DiscardEvidence, RecordEvidence, seenVars
  <1>4. CASE ProposerStep
    BY <1>4 DEF ProposerStep, ProposerFails, ProposerOverflows,
                ProposerExhausted, ProposerReturns, TakeBatch, seenVars,
                recordVars
  <1>5. CASE DeadlinePasses \/ EvaluationRaises \/ UNCHANGED vars
    BY <1>5 DEF DeadlinePasses, EvaluationRaises, seenVars, recordVars, vars
  <1>6. QED
    BY <1>1, <1>2, <1>3, <1>4, <1>5 DEF Next, LoopStep, Terminated

\* The empty record has nothing seen and no duplicate.
LEMMA DuplicatesInit ==
  Init => SeenIsRecorded /\ AdmittedOnce /\ DuplicateHasOriginal
  BY DEF Init, SeenIsRecorded, AdmittedOnce, DuplicateHasOriginal

\* Every step keeps what is seen, admitted and called a duplicate.
LEMMA DuplicatesNext ==
  ASSUME TypeOK, SeenIsRecorded, AdmittedOnce, DuplicateHasOriginal,
         [Next]_vars
  PROVE  SeenIsRecorded' /\ AdmittedOnce' /\ DuplicateHasOriginal'
  <1>1. ASSUME NEW raw \in RawCandidates, PrepareCandidate(raw)
        PROVE  SeenIsRecorded' /\ AdmittedOnce' /\ DuplicateHasOriginal'
    BY <1>1, SeenPrepared, AdmittedPrepared, DuplicatePrepared
  <1>2. CASE UNCHANGED <<proposals, seenIds, seenSemantics>>
    BY <1>2 DEF SeenIsRecorded, AdmittedOnce, DuplicateHasOriginal
  <1>3. QED
    BY <1>1, <1>2, PreparesOrLeaves

(***************************************************************************)
(* No scenario is admitted twice in a run, by id or by numeric payload,    *)
(* and every proposal called a duplicate has a schema-valid original       *)
(* before it (DuplicatesAreExact): the seen sets hold what the proposal    *)
(* records show.                                                           *)
(***************************************************************************)
THEOREM DuplicatesAreAlwaysExact == Spec => []DuplicatesAreExact
  <1>1. Init => /\ TypeOK /\ LoopPosition
                /\ SeenIsRecorded /\ AdmittedOnce /\ DuplicateHasOriginal
    BY TypeInit, PositionInit, DuplicatesInit
  <1>2. /\ TypeOK /\ LoopPosition
        /\ SeenIsRecorded /\ AdmittedOnce /\ DuplicateHasOriginal
        /\ [Next]_vars
        => /\ TypeOK' /\ LoopPosition'
           /\ SeenIsRecorded' /\ AdmittedOnce' /\ DuplicateHasOriginal'
    BY TypeNext, DuplicatesNext
  <1>3. AdmittedOnce /\ DuplicateHasOriginal => DuplicatesAreExact
    BY DEF DuplicatesAreExact
  <1>4. QED
    BY <1>1, <1>2, <1>3, PTL DEF Spec

-----------------------------------------------------------------------------
(***************************************************************************)
(* The severity ranking: records are totally ordered, so the ranks are the *)
(* places 1, 2, ... and each one is somebody's.                            *)
(***************************************************************************)

Keys == Nat \X Nat \X Nat \X Nat

\* KeyExceeds, its first four cases spelt out.
LEMMA KeyExceedsCases ==
  ASSUME NEW k \in Keys, NEW l \in Keys
  PROVE  KeyExceeds(k, l) <=>
           \/ k[1] > l[1]
           \/ k[1] = l[1] /\ k[2] > l[2]
           \/ k[1] = l[1] /\ k[2] = l[2] /\ k[3] > l[3]
           \/ k[1] = l[1] /\ k[2] = l[2] /\ k[3] = l[3] /\ k[4] > l[4]
  <1> DEFINE At(n) == k[n] > l[n] /\ \A m \in 1..(n - 1) : k[m] = l[m]
  <1>1. KeyExceeds(k, l) <=> At(1) \/ At(2) \/ At(3) \/ At(4)
    <2>1. \A n \in 1..4 : n = 1 \/ n = 2 \/ n = 3 \/ n = 4
      OBVIOUS
    <2>2. KeyExceeds(k, l) <=> \E n \in 1..4 : At(n)
      BY DEF KeyExceeds
    <2> HIDE DEF At
    <2>3. QED
      BY <2>1, <2>2
  <1>2. At(1) <=> k[1] > l[1]
    OBVIOUS
  <1>3. At(2) <=> k[1] = l[1] /\ k[2] > l[2]
    OBVIOUS
  <1>4. At(3) <=> k[1] = l[1] /\ k[2] = l[2] /\ k[3] > l[3]
    OBVIOUS
  <1>5. At(4) <=> k[1] = l[1] /\ k[2] = l[2] /\ k[3] = l[3] /\ k[4] > l[4]
    OBVIOUS
  <1> HIDE DEF At
  <1>6. QED
    BY <1>1, <1>2, <1>3, <1>4, <1>5

\* Equal keys are equal in each figure.
LEMMA KeysEqual ==
  ASSUME NEW k \in Keys, NEW l \in Keys
  PROVE  k = l <=> k[1] = l[1] /\ k[2] = l[2] /\ k[3] = l[3] /\ k[4] = l[4]
  BY DEF Keys

\* Keys are totally ordered.
LEMMA KeysOrdered ==
  ASSUME NEW k \in Keys, NEW l \in Keys, NEW m \in Keys
  PROVE  /\ ~KeyExceeds(k, k)
         /\ k # l => KeyExceeds(k, l) \/ KeyExceeds(l, k)
         /\ KeyExceeds(k, l) /\ KeyExceeds(l, m) => KeyExceeds(k, m)
  <1>1. /\ k[1] \in Nat /\ k[2] \in Nat /\ k[3] \in Nat /\ k[4] \in Nat
        /\ l[1] \in Nat /\ l[2] \in Nat /\ l[3] \in Nat /\ l[4] \in Nat
        /\ m[1] \in Nat /\ m[2] \in Nat /\ m[3] \in Nat /\ m[4] \in Nat
    BY DEF Keys
  <1>2. ~KeyExceeds(k, k)
    BY <1>1, KeyExceedsCases
  <1>3. k # l => KeyExceeds(k, l) \/ KeyExceeds(l, k)
    BY <1>1, KeyExceedsCases, KeysEqual
  <1>4. KeyExceeds(k, l) /\ KeyExceeds(l, m) => KeyExceeds(k, m)
    BY <1>1, KeyExceedsCases
  <1>5. QED
    BY <1>2, <1>3, <1>4

\* Records that can be ranked: outcomes and integer ids.
Rankable(records) ==
  \A i \in DOMAIN records :
    i \in Int /\ records[i].id \in Int /\ records[i].outcome \in Outcomes

Ranking(records) ==
  LET failures == FailureIndexes(records)
  IN  {p \in failures \X failures : RanksBefore(records, p[1], p[2])}

LEMMA KeyType ==
  ASSUME NEW records, Rankable(records), NEW i \in DOMAIN records
  PROVE  SeverityKey(records[i]) \in Keys
  BY DEF Rankable, Outcomes, SeverityKey, Keys

\* The order of the sort is a total one.
LEMMA RankingIsTotal ==
  ASSUME NEW records, Rankable(records)
  PROVE  TotallyOrders(Ranking(records), FailureIndexes(records))
  <1> DEFINE F == FailureIndexes(records)
             K(i) == SeverityKey(records[i])
             Id(i) == records[i].id
             B(i, j) == RanksBefore(records, i, j)
  <1>0. \A i \in F : i \in Int /\ Id(i) \in Int /\ K(i) \in Keys
    BY KeyType DEF Rankable, FailureIndexes
  <1>1. \A i, j \in F : <<i, j>> \in Ranking(records) <=> B(i, j)
    BY DEF Ranking
  <1>2. \A i, j : B(i, j) <=>
          \/ KeyExceeds(K(i), K(j))
          \/ K(i) = K(j) /\ Id(i) < Id(j)
          \/ K(i) = K(j) /\ Id(i) = Id(j) /\ i < j
    BY DEF RanksBefore
  <1> HIDE DEF F, K, Id, B
  <1>3. \A i \in F : ~B(i, i)
    BY <1>0, <1>2, KeysOrdered
  <1>4. \A i, j \in F : i # j => B(i, j) \/ B(j, i)
    BY <1>0, <1>2, KeysOrdered
  <1>5. \A i, j, n \in F : B(i, j) /\ B(j, n) => B(i, n)
    BY <1>0, <1>2, KeysOrdered
  <1>6. QED
    BY <1>1, <1>3, <1>4, <1>5 DEF TotallyOrders, F

\* The rank of a failure is its place.
LEMMA RankIsPlace ==
  ASSUME NEW records, NEW i \in FailureIndexes(records)
  PROVE  RankOf(records, i) = Place(Ranking(records), FailureIndexes(records), i)
  <1>1. {j \in FailureIndexes(records) : RanksBefore(records, j, i)}
          = Preceding(Ranking(records), FailureIndexes(records), i)
    BY DEF Ranking, Preceding
  <1>2. QED
    BY <1>1 DEF RankOf, Place

(***************************************************************************)
(* RankTopFailures, for any finite record: its entries are failures, each  *)
(* at the place its rank says.                                             *)
(***************************************************************************)
LEMMA TopIsRanked ==
  ASSUME NEW records, Rankable(records), IsFiniteSet(FailureIndexes(records)),
         NEW topK \in Nat
  PROVE  LET failures == FailureIndexes(records)
             count    == Cardinality(failures)
             top      == RankTopFailures(records, topK)
         IN  /\ count \in Nat
             /\ DOMAIN top = 1..(IF count < topK THEN count ELSE topK)
             /\ \A r \in DOMAIN top : /\ top[r] \in failures
                                      /\ Place(Ranking(records), failures, top[r]) = r
  <1> DEFINE failures == FailureIndexes(records)
             count    == Cardinality(failures)
             bound    == IF count < topK THEN count ELSE topK
             top      == RankTopFailures(records, topK)
  <1>1. count \in Nat
    BY FS_CardinalityType
  <1>2. top = [r \in 1..bound |->
                 CHOOSE i \in failures : RankOf(records, i) = r]
    BY DEF RankTopFailures
  <1>3. \A r \in 1..count : \E i \in failures :
          Place(Ranking(records), failures, i) = r
    BY RankingIsTotal, PlacesAreTaken
  <1>4. 1..bound \subseteq 1..count
    BY <1>1
  <1> HIDE DEF failures, bound, count, top
  <1>5. ASSUME NEW r \in 1..bound
        PROVE  /\ top[r] \in failures
               /\ Place(Ranking(records), failures, top[r]) = r
    <2>1. \E i \in failures : RankOf(records, i) = r
      BY <1>3, <1>4, RankIsPlace DEF failures
    <2>2. top[r] = CHOOSE i \in failures : RankOf(records, i) = r
      BY <1>2
    <2>3. top[r] \in failures /\ RankOf(records, top[r]) = r
      BY <2>1, <2>2
    <2>4. QED
      BY <2>3, RankIsPlace DEF failures
  <1>6. QED
    BY <1>1, <1>2, <1>5 DEF failures, bound, count, top

-----------------------------------------------------------------------------
(***************************************************************************)
(* The figures of the run and the records they are taken from.             *)
(***************************************************************************)

\* A sequence has finitely many positions.
LEMMA FiniteIndexes ==
  ASSUME NEW S, NEW seq \in Seq(S), NEW I, I \subseteq DOMAIN seq
  PROVE  IsFiniteSet(I) /\ Cardinality(I) \in Nat
  <1>1. DOMAIN seq = 1..Len(seq) /\ Len(seq) \in Nat
    OBVIOUS
  <1>2. IsFiniteSet(1..Len(seq))
    BY <1>1, FS_Interval
  <1>3. IsFiniteSet(I)
    BY <1>1, <1>2, FS_Subset
  <1>4. QED
    BY <1>3, FS_CardinalityType

\* A record appended adds itself to those of which something holds, or nothing.
LEMMA CountAppended ==
  ASSUME NEW S, NEW seq \in Seq(S), NEW e \in S, NEW T, T \subseteq S,
         NEW new, new = Append(seq, e)
  PROVE  Cardinality({i \in DOMAIN new : new[i] \in T}) =
           Cardinality({i \in DOMAIN seq : seq[i] \in T})
           + (IF e \in T THEN 1 ELSE 0)
  <1> DEFINE I == {i \in DOMAIN seq : seq[i] \in T}
             J == {i \in DOMAIN new : new[i] \in T}
             last == Len(seq) + 1
  <1>1. /\ DOMAIN new = DOMAIN seq \cup {last} /\ last \notin DOMAIN seq
        /\ \A i \in DOMAIN seq : new[i] = seq[i]
        /\ new[last] = e
    BY AppendLength
  <1>2. IsFiniteSet(I) /\ Cardinality(I) \in Nat
    BY FiniteIndexes
  <1> HIDE DEF last
  <1>3. IF e \in T THEN J = I \cup {last} /\ last \notin I ELSE J = I
    BY <1>1
  <1> HIDE DEF I, J
  <1>4. Cardinality(J) = Cardinality(I) + (IF e \in T THEN 1 ELSE 0)
    BY <1>2, <1>3, FS_AddElement
  <1>5. QED
    BY <1>4 DEF I, J

ValidRecords == {record \in Records(Outcomes) : IsValid(record)}
QualifyingRecords == {record \in Records(Outcomes) : Qualifies(record.outcome)}

\* The figures count records of these two kinds.
LEMMA FiguresOfRecords ==
  ASSUME TypeOK
  PROVE  /\ ValidIndexes =
              {i \in DOMAIN evaluations : evaluations[i] \in ValidRecords}
         /\ QualifyingIndexes =
              {i \in DOMAIN evaluations : evaluations[i] \in QualifyingRecords}
  BY DEF TypeOK, ValidIndexes, QualifyingIndexes, ValidRecords,
         QualifyingRecords

\* The figures of a run with a record more.
LEMMA FiguresAppended ==
  ASSUME TypeOK, TypeOK',
         NEW record \in Records(Outcomes),
         evaluations' = Append(evaluations, record)
  PROVE  /\ Cardinality(ValidIndexes') = Cardinality(ValidIndexes)
              + (IF IsValid(record) THEN 1 ELSE 0)
         /\ Cardinality(QualifyingIndexes') = Cardinality(QualifyingIndexes)
              + (IF Qualifies(record.outcome) THEN 1 ELSE 0)
  <1>1. /\ ValidRecords \subseteq Records(Outcomes)
        /\ QualifyingRecords \subseteq Records(Outcomes)
        /\ record \in ValidRecords <=> IsValid(record)
        /\ record \in QualifyingRecords <=> Qualifies(record.outcome)
    BY DEF ValidRecords, QualifyingRecords
  <1>2. /\ ValidIndexes =
             {i \in DOMAIN evaluations : evaluations[i] \in ValidRecords}
        /\ QualifyingIndexes =
             {i \in DOMAIN evaluations : evaluations[i] \in QualifyingRecords}
    BY FiguresOfRecords
  <1>3. /\ ValidIndexes' =
             {i \in DOMAIN evaluations' : evaluations'[i] \in ValidRecords}
        /\ QualifyingIndexes' =
             {i \in DOMAIN evaluations' : evaluations'[i] \in QualifyingRecords}
    <2>1. evaluations' \in Seq(Records(Outcomes))
      BY DEF TypeOK
    <2>2. QED
      BY <2>1 DEF ValidIndexes, QualifyingIndexes, ValidRecords,
                  QualifyingRecords
  <1>4. evaluations \in Seq(Records(Outcomes))
    BY DEF TypeOK
  <1> HIDE DEF ValidRecords, QualifyingRecords
  <1>5. Cardinality(ValidIndexes') = Cardinality(ValidIndexes)
          + (IF record \in ValidRecords THEN 1 ELSE 0)
    BY <1>1, <1>2, <1>3, <1>4, CountAppended
  <1>6. Cardinality(QualifyingIndexes') = Cardinality(QualifyingIndexes)
          + (IF record \in QualifyingRecords THEN 1 ELSE 0)
    BY <1>1, <1>2, <1>3, <1>4, CountAppended
  <1>7. QED
    BY <1>1, <1>5, <1>6

\* A step writes at most one record, of the candidate under the cursor: a
\* rejection, or what the engine answered and was counted.
Settles ==
  \E id \in Int, input \in RawCandidates, outcome \in Outcomes :
    /\ evaluations' = Append(evaluations, Record(id, input, outcome))
    /\ Record(id, input, outcome) \in Records(Outcomes)
    /\ \/ /\ outcome.status = "rejected"
          /\ UNCHANGED <<evaluated, qualifying>>
       \/ /\ outcome.status \in Statuses
          /\ Tally(outcome)

LEMMA SettlesOrLeaves ==
  ASSUME TypeOK, LoopPosition, [Next]_vars
  PROVE  \/ Settles
         \/ UNCHANGED <<evaluations, evaluated, qualifying>>
  <1>1. CASE RejectCandidate \/ SkipCandidate \/ DiscardEvidence
             \/ RecordEvidence
    <2>1. /\ cursor <= Len(batch)
          /\ cursor \in 1..MaxPerRound
          /\ Current \in RawCandidates
      <3>1. cursor <= Len(batch)
        BY <1>1 DEF LoopPosition, AtCandidate, RejectCandidate, SkipCandidate,
                    DiscardEvidence, RecordEvidence
      <3>2. QED
        BY <3>1, CurrentType
    <2>2. /\ Typed(Current) \in RawCandidates
          /\ InputHash(Current) \in RawCandidates
          /\ CandidateId(Current) \in Int
          /\ Current.id \in Int /\ Current.sem \in Semantics
      BY <2>1, IdentityType
    <2>3. \A code \in RejectionCodes :
            Rejection(code) \in Outcomes /\ Rejection(code).status = "rejected"
      BY RejectionOutcome DEF Rejection
    <2>4. CASE RejectCandidate
      <3>1. RejectionOf(Current) \in RejectionCodes
        BY <2>1, <2>4, RejectionType DEF RejectCandidate, RejectionCodes
      <3>2. evaluations' =
              Append(evaluations, Record(CandidateId(Current), InputHash(Current),
                                         Rejection(RejectionOf(Current))))
        BY <2>4 DEF RejectCandidate
      <3>3. QED
        BY <2>1, <2>2, <2>3, <2>4, <3>1, <3>2, RecordType
        DEF RejectCandidate, Settles
    <2>5. CASE SkipCandidate \/ DiscardEvidence
      <3>1. "timeout" \in RejectionCodes
        BY DEF RejectionCodes
      <3>2. QED
        BY <2>1, <2>2, <2>3, <2>5, <3>1, RecordType
        DEF SkipCandidate, DiscardEvidence, Settles
    <2>6. CASE RecordEvidence
      <3>1. Engine[Current.sem] \in Outcomes
        BY <2>2, EngineAssumption
      <3>2. Engine[Current.sem].status \in Statuses
        BY <3>1 DEF Outcomes
      <3>3. QED
        BY <2>1, <2>2, <2>6, <3>1, <3>2, RecordType DEF RecordEvidence, Settles
    <2>7. QED
      BY <1>1, <2>4, <2>5, <2>6
  <1>2. CASE StopBeforeRound \/ StartRound \/ StopAfterRound \/ NextRound
             \/ RoundsExhausted \/ Finish \/ BeginEvaluation
    BY <1>2 DEF StopBeforeRound, StartRound, StopAfterRound, NextRound,
                RoundsExhausted, Finish, BeginEvaluation, recordVars, tallyVars
  <1>3. CASE ProposerStep
    BY <1>3 DEF ProposerStep, ProposerFails, ProposerOverflows,
                ProposerExhausted, ProposerReturns, recordVars, tallyVars
  <1>4. CASE DeadlinePasses \/ EvaluationRaises \/ UNCHANGED vars
    BY <1>4 DEF DeadlinePasses, EvaluationRaises, recordVars, tallyVars, vars
  <1>5. QED
    BY <1>1, <1>2, <1>3, <1>4 DEF Next, LoopStep, Terminated

\* A run starts with no record and nothing counted.
LEMMA FiguresInit == Init => FiguresRecorded
  <1> SUFFICES ASSUME Init PROVE FiguresRecorded
    OBVIOUS
  <1>1. ValidIndexes = {} /\ QualifyingIndexes = {}
    BY DEF Init, ValidIndexes, QualifyingIndexes
  <1>2. QED
    BY <1>1, FS_EmptySet DEF Init, FiguresRecorded

\* Every step counts what it records.
LEMMA FiguresNext ==
  ASSUME TypeOK, LoopPosition, FiguresRecorded, [Next]_vars
  PROVE  FiguresRecorded'
  <1>1. CASE Settles
    <2>1. PICK id \in Int, input \in RawCandidates, outcome \in Outcomes :
            /\ evaluations' = Append(evaluations, Record(id, input, outcome))
            /\ Record(id, input, outcome) \in Records(Outcomes)
            /\ \/ /\ outcome.status = "rejected"
                  /\ UNCHANGED <<evaluated, qualifying>>
               \/ /\ outcome.status \in Statuses
                  /\ Tally(outcome)
      BY <1>1 DEF Settles
    <2> DEFINE record == Record(id, input, outcome)
    <2>2. record.outcome = outcome /\ TypeOK'
      BY TypeNext DEF Record
    <2>3. /\ Cardinality(ValidIndexes') = Cardinality(ValidIndexes)
               + (IF IsValid(record) THEN 1 ELSE 0)
          /\ Cardinality(QualifyingIndexes') = Cardinality(QualifyingIndexes)
               + (IF Qualifies(record.outcome) THEN 1 ELSE 0)
      BY <2>1, <2>2, FiguresAppended
    <2> HIDE DEF record
    <2>4. /\ evaluated' = evaluated + (IF outcome.status = "valid" THEN 1 ELSE 0)
          /\ qualifying' = qualifying + (IF Qualifies(outcome) THEN 1 ELSE 0)
      <3>1. CASE outcome.status = "rejected" /\ UNCHANGED <<evaluated, qualifying>>
        BY <3>1 DEF Qualifies, TypeOK
      <3>2. CASE outcome.status = "valid" /\ Tally(outcome)
        BY <3>2 DEF Tally
      <3>3. CASE outcome.status # "valid" /\ Tally(outcome)
        BY <3>3 DEF Tally, Qualifies, TypeOK
      <3>4. QED
        BY <2>1, <3>1, <3>2, <3>3
    <2>5. QED
      BY <2>2, <2>3, <2>4 DEF FiguresRecorded, IsValid
  <1>2. CASE UNCHANGED <<evaluations, evaluated, qualifying>>
    BY <1>2 DEF FiguresRecorded, ValidIndexes, QualifyingIndexes
  <1>3. QED
    BY <1>1, <1>2, SettlesOrLeaves

-----------------------------------------------------------------------------
(***************************************************************************)
(* Proposals and results are written side by side.                         *)
(***************************************************************************)

\* The last result and the proposal in its place.
LastPaired(whole) ==
  LET last     == Len(evaluations')
      proposal == proposals'[last]
      record   == evaluations'[last]
  IN  /\ proposal.round = record.round /\ proposal.number = record.number
      /\ proposal.id = record.id
      /\ IsValid(record) => /\ proposal.decision = "accepted"
                            /\ proposal.scenario.id = record.id
      /\ whole => proposal.input = record.input

\* Records so paired, and one more.
LEMMA PairedAppended ==
  ASSUME TypeOK, SlotsAccounted, RecordsPaired, NEW record, NEW whole,
         evaluations' = Append(evaluations, record),
         \A i \in DOMAIN proposals : proposals'[i] = proposals[i],
         LastPaired(whole)
  PROVE  /\ \A i \in DOMAIN evaluations' : PairedAt(i)'
         /\ whole /\ InputsPaired => InputsPaired'
  <1>1. /\ evaluations \in Seq(Records(Outcomes))
        /\ proposals \in Seq(ProposalRecords)
        /\ Len(evaluations) \in Nat
    BY DEF TypeOK
  <1>2. /\ DOMAIN evaluations' = DOMAIN evaluations \cup {Len(evaluations')}
        /\ \A i \in DOMAIN evaluations : evaluations'[i] = evaluations[i]
    BY <1>1, AppendLength
  <1>3. DOMAIN evaluations \subseteq DOMAIN proposals
    BY <1>1 DEF SlotsAccounted
  <1>4. ASSUME NEW i \in DOMAIN evaluations
        PROVE  /\ PairedAt(i)'
               /\ InputsPaired => proposals'[i].input = evaluations'[i].input
    <2>1. PairedAt(i)
      BY DEF RecordsPaired
    <2>2. evaluations'[i] = evaluations[i] /\ proposals'[i] = proposals[i]
      BY <1>2, <1>3
    <2>3. QED
      BY <2>1, <2>2 DEF PairedAt, InputsPaired
  <1>5. ASSUME NEW i, i = Len(evaluations')
        PROVE  /\ PairedAt(i)'
               /\ whole => proposals'[i].input = evaluations'[i].input
    BY <1>5 DEF LastPaired, PairedAt
  <1>6. QED
    BY <1>2, <1>4, <1>5 DEF InputsPaired

\* A scenario the boundary admits keeps its own id, and a whole payload
\* hashes as the typed scenario does.
LEMMA AdmittedIdentity ==
  ASSUME NEW raw \in Candidates, SchemaValid(raw)
  PROVE  /\ CandidateId(raw) = raw.id
         /\ raw.form # "partial" => InputHash(raw) = Typed(raw)
         /\ Typed(raw).id = raw.id
  <1>1. raw \in RawCandidates /\ raw.id # NoId
    BY CandidateAssumption DEF SchemaValid
  <1>2. raw.form # "partial" => InputHash(raw) = Typed(raw)
    <2>1. CASE raw.form = "full"
      BY <2>1 DEF InputHash
    <2>2. CASE raw.form = "typed"
      <3>1. [raw EXCEPT !.form = "typed"] = raw
        BY <1>1, <2>2 DEF RawCandidates
      <3>2. QED
        BY <2>2, <3>1 DEF InputHash, Typed
    <2>3. QED
      BY <2>1, <2>2 DEF SchemaValid, ScenarioForms
  <1>3. QED
    BY <1>1, <1>2 DEF CandidateId, Typed, RawCandidates

\* A result written together with its proposal stands beside it.
LEMMA PairedWhenPrepared ==
  ASSUME TypeOK, SlotsAccounted, RecordsPaired,
         RejectCandidate \/ SkipCandidate
  PROVE  /\ \A i \in DOMAIN evaluations' : PairedAt(i)'
         /\ InputsPaired => InputsPaired'
  <1> DEFINE last == Len(proposals) + 1
  <1>1. /\ AtCandidate /\ PrepareCandidate(Current)
        /\ Current \in Candidates /\ Current \in RawCandidates
    BY CurrentType DEF RejectCandidate, SkipCandidate, AtCandidate
  <1>2. PICK id, code :
          /\ evaluations' = Append(evaluations,
                                   Record(id, InputHash(Current), Rejection(code)))
          /\ id = CandidateId(Current)
    <2>1. CASE RejectCandidate
      BY <2>1 DEF RejectCandidate
    <2>2. CASE SkipCandidate
      <3>1. SchemaValid(Current)
        BY <2>2 DEF SkipCandidate, RejectionOf, NoCode
      <3>2. Current.id = CandidateId(Current)
        BY <1>1, <3>1, AdmittedIdentity
      <3>3. QED
        BY <2>2, <3>2 DEF SkipCandidate
    <2>3. QED
      BY <2>1, <2>2
  <1> DEFINE record == Record(id, InputHash(Current), Rejection(code))
  <1>3. /\ \A i \in DOMAIN proposals : proposals'[i] = proposals[i]
        /\ proposals'[last] = Prepared(Current)
    BY <1>1, PrepareAppends
  <1>4. evaluations \in Seq(Records(Outcomes))
    BY DEF TypeOK
  <1>5. Len(evaluations') = last /\ evaluations'[last] = record
    <2>1. Len(proposals) = Len(evaluations)
      BY <1>1, <1>4 DEF SlotsAccounted, AtCandidate, TypeOK
    <2>2. QED
      BY <1>2, <1>4, <2>1, AppendLength
  <1>6. /\ record.round = round /\ record.number = cursor
        /\ record.id = CandidateId(Current) /\ record.input = InputHash(Current)
        /\ ~IsValid(record)
    BY <1>2 DEF Record, Rejection, IsValid
  <1> HIDE DEF record, last
  <1>7. LastPaired(TRUE)
    BY <1>3, <1>5, <1>6 DEF LastPaired, Prepared
  <1>8. evaluations' = Append(evaluations, record)
    BY <1>2 DEF record
  <1>9. QED
    BY <1>3, <1>7, <1>8, PairedAppended

\* The result of an evaluation stands beside the proposal under evaluation.
LEMMA PairedWhenEvaluated ==
  ASSUME TypeOK, LoopPosition, SlotsAccounted, RecordsPaired,
         DiscardEvidence \/ RecordEvidence
  PROVE  /\ \A i \in DOMAIN evaluations' : PairedAt(i)'
         /\ WholePayloads /\ InputsPaired => InputsPaired'
  <1>1. /\ pc = "evaluate" /\ cursor <= Len(batch) /\ UnderEvaluation
        /\ proposals' = proposals
    BY DEF DiscardEvidence, RecordEvidence, LoopPosition, RecordsPaired
  <1>2. /\ Current \in Candidates /\ SchemaValid(Current)
        /\ WholePayloads => Current.form # "partial"
    BY <1>1, CurrentType DEF UnderEvaluation, WholePayloads, Current, TypeOK
  <1>3. PICK input, outcome :
          /\ evaluations' = Append(evaluations, Record(Current.id, input, outcome))
          /\ input \in {Typed(Current), InputHash(Current)}
    BY DEF DiscardEvidence, RecordEvidence
  <1> DEFINE record == Record(Current.id, input, outcome)
             last   == Len(proposals)
  <1>4. evaluations \in Seq(Records(Outcomes))
    BY DEF TypeOK
  <1>5. Len(evaluations') = last /\ evaluations'[last] = record
    <2>1. Len(proposals) = Len(evaluations) + 1
      BY <1>1 DEF SlotsAccounted
    <2>2. QED
      BY <1>3, <1>4, <2>1, AppendLength
  <1>6. /\ record.round = round /\ record.number = cursor
        /\ record.id = Current.id /\ record.input = input
    BY DEF Record
  <1>7. WholePayloads => input = InputHash(Current)
    BY <1>2, <1>3, AdmittedIdentity
  <1>8. evaluations' = Append(evaluations, record)
    BY <1>3
  <1> HIDE DEF record, last
  <1>9. LastPaired(WholePayloads)
    BY <1>1, <1>5, <1>6, <1>7 DEF LastPaired, UnderEvaluation, last
  <1>10. QED
    BY <1>1, <1>8, <1>9, PairedAppended

\* A candidate whose evaluation begins is the last proposal of the record.
LEMMA PairedWhenBegun ==
  ASSUME TypeOK, BeginEvaluation
  PROVE  UnderEvaluation'
  <1>1. /\ AtCandidate /\ PrepareCandidate(Current)
        /\ Current \in Candidates /\ Current \in RawCandidates
        /\ UNCHANGED <<round, cursor, batch>>
    BY CurrentType DEF BeginEvaluation, AtCandidate
  <1>2. RejectionOf(Current) = NoCode /\ SchemaValid(Current)
    BY DEF BeginEvaluation, RejectionOf, NoCode
  <1>3. /\ Prepared(Current).round = round /\ Prepared(Current).number = cursor
        /\ Prepared(Current).id = Current.id
        /\ Prepared(Current).decision = "accepted"
        /\ Prepared(Current).scenario.id = Current.id
        /\ Prepared(Current).input = InputHash(Current)
    BY <1>1, <1>2, AdmittedIdentity DEF Prepared
  <1>4. proposals'[Len(proposals')] = Prepared(Current)
    BY <1>1, PrepareAppends, PrepareLength
  <1>5. Current' = Current
    BY <1>1 DEF Current
  <1>6. InputHash(Current)' = InputHash(Current)
        /\ SchemaValid(Current)' = SchemaValid(Current)
    BY <1>5 DEF InputHash, Typed, SchemaValid
  <1>7. QED
    BY <1>1, <1>2, <1>3, <1>4, <1>5, <1>6 DEF UnderEvaluation

\* No record, nothing to pair.
LEMMA PairedInit == Init => RecordsPaired /\ WholePayloads /\ InputsPaired
  BY DEF Init, RecordsPaired, WholePayloads, InputsPaired

\* Every step keeps the records paired.
LEMMA PairedNext ==
  ASSUME TypeOK, LoopPosition, SlotsAccounted, RecordsPaired, [Next]_vars
  PROVE  /\ RecordsPaired'
         /\ WholePayloads /\ InputsPaired => InputsPaired'
  <1>1. CASE RejectCandidate \/ SkipCandidate
    <2>1. pc' # "evaluate"
      BY <1>1 DEF RejectCandidate, SkipCandidate, AtCandidate
    <2>2. QED
      BY <1>1, <2>1, PairedWhenPrepared DEF RecordsPaired
  <1>2. CASE DiscardEvidence \/ RecordEvidence
    <2>1. pc' # "evaluate"
      BY <1>2 DEF DiscardEvidence, RecordEvidence
    <2>2. QED
      BY <1>2, <2>1, PairedWhenEvaluated DEF RecordsPaired
  <1>3. CASE BeginEvaluation
    <2>1. \A i \in DOMAIN evaluations : proposals'[i] = proposals[i]
      <3>1. proposals \in Seq(ProposalRecords)
        BY DEF TypeOK
      <3>2. DOMAIN evaluations \subseteq DOMAIN proposals
        BY <1>3, <3>1 DEF SlotsAccounted, BeginEvaluation, AtCandidate, TypeOK
      <3>3. proposals' = Append(proposals, Prepared(Current))
        BY <1>3 DEF BeginEvaluation, PrepareCandidate
      <3>4. QED
        BY <3>1, <3>2, <3>3, AppendLength
    <2>2. evaluations' = evaluations
      BY <1>3 DEF BeginEvaluation
    <2>3. ASSUME NEW i \in DOMAIN evaluations
          PROVE  /\ PairedAt(i)'
                 /\ InputsPaired => proposals'[i].input = evaluations'[i].input
      BY <2>1, <2>2 DEF RecordsPaired, PairedAt, InputsPaired
    <2>4. QED
      BY <1>3, <2>2, <2>3, PairedWhenBegun DEF RecordsPaired, InputsPaired
  <1>4. ASSUME UNCHANGED recordVars,
               pc' # "evaluate" \/ UNCHANGED <<pc, round, cursor, batch>>
        PROVE  /\ RecordsPaired'
               /\ InputsPaired => InputsPaired'
    <2>1. UNCHANGED <<proposals, evaluations>>
      BY <1>4 DEF recordVars
    <2>2. \A i \in DOMAIN evaluations : PairedAt(i)'
      BY <2>1 DEF RecordsPaired, PairedAt
    <2>3. pc' = "evaluate" => UnderEvaluation'
      <3>1. CASE UNCHANGED <<pc, round, cursor, batch>>
        BY <2>1, <3>1 DEF RecordsPaired, UnderEvaluation, Current, InputHash,
                          Typed, SchemaValid
      <3>2. QED
        BY <1>4, <3>1
    <2>4. QED
      BY <2>1, <2>2, <2>3 DEF RecordsPaired, InputsPaired
  <1>5. CASE StopBeforeRound \/ StartRound \/ StopAfterRound \/ NextRound
             \/ RoundsExhausted \/ Finish
    BY <1>4, <1>5 DEF StopBeforeRound, StartRound, StopAfterRound, NextRound,
                      RoundsExhausted, Finish, Stop
  <1>6. CASE ProposerStep
    BY <1>4, <1>6 DEF ProposerStep, ProposerFails, ProposerOverflows,
                      ProposerExhausted, ProposerReturns, TakeBatch, Stop
  <1>7. CASE DeadlinePasses \/ EvaluationRaises \/ UNCHANGED vars
    BY <1>4, <1>7 DEF DeadlinePasses, EvaluationRaises, recordVars, vars
  <1>8. QED
    BY <1>1, <1>2, <1>3, <1>5, <1>6, <1>7 DEF Next, LoopStep, Terminated

-----------------------------------------------------------------------------
(***************************************************************************)
(* The end of the run, and what the invariant says of it.                  *)
(***************************************************************************)

\* Finish writes the ranking and the verdict; nothing changes them after it.
LEMMA EndOfRunNext ==
  ASSUME EndOfRun, [Next]_vars
  PROVE  EndOfRun'
  <1>1. CASE Finish
    <2>1. UNCHANGED <<proposals, evaluations, slots, evaluated, rejected>>
      BY <1>1 DEF Finish, recordVars, budgetVars, tallyVars
    <2>2. BundleVerifies(topFailures)' = BundleVerifies(topFailures')
      BY <2>1 DEF BundleVerifies, ValidIndexes
    <2>3. RankTopFailures(evaluations, TopK)' = RankTopFailures(evaluations, TopK)
      BY <2>1
    <2>4. QED
      BY <1>1, <2>2, <2>3 DEF Finish, EndOfRun
  <1>2. CASE pc' # "done"
    BY <1>2 DEF EndOfRun
  <1>3. CASE UNCHANGED vars
    <2>1. BundleVerifies(topFailures)' = BundleVerifies(topFailures)
      BY <1>3 DEF vars, BundleVerifies, ValidIndexes
    <2>2. QED
      BY <1>3, <2>1 DEF vars, EndOfRun
  <1>4. Finish \/ pc' # "done" \/ UNCHANGED vars
    <2>1. CASE StopBeforeRound \/ StartRound \/ StopAfterRound \/ NextRound
               \/ RoundsExhausted
      BY <2>1 DEF StopBeforeRound, StartRound, StopAfterRound, NextRound,
                  RoundsExhausted, Stop
    <2>2. CASE RejectCandidate \/ SkipCandidate \/ BeginEvaluation
               \/ DiscardEvidence \/ RecordEvidence
      BY <2>2 DEF RejectCandidate, SkipCandidate, BeginEvaluation,
                  DiscardEvidence, RecordEvidence, AtCandidate
    <2>3. CASE ProposerStep
      BY <2>3 DEF ProposerStep, ProposerFails, ProposerOverflows,
                  ProposerExhausted, ProposerReturns, TakeBatch, Stop
    <2>4. CASE DeadlinePasses \/ EvaluationRaises
      BY <2>4 DEF DeadlinePasses, EvaluationRaises, Over
    <2>5. QED
      BY <2>1, <2>2, <2>3, <2>4 DEF Next, LoopStep, Terminated
  <1>5. QED
    BY <1>1, <1>2, <1>3, <1>4

\* The part of the loop invariant the evidence rests on.
EvidenceInvariant ==
  /\ TypeOK /\ LoopPosition /\ SlotsAccounted
  /\ SeenIsRecorded /\ AdmittedOnce /\ DuplicateHasOriginal
  /\ FiguresRecorded /\ RecordsPaired /\ EndOfRun

LEMMA EvidenceInit == Init => EvidenceInvariant
  <1>1. Init => EndOfRun
    BY DEF Init, EndOfRun
  <1>2. QED
    BY <1>1, TypeInit, PositionInit, AccountedInit, DuplicatesInit, FiguresInit,
       PairedInit
    DEF EvidenceInvariant

LEMMA EvidenceNext == EvidenceInvariant /\ [Next]_vars => EvidenceInvariant'
  BY TypeNext, AccountedNext, DuplicatesNext, FiguresNext, PairedNext,
     EndOfRunNext
  DEF EvidenceInvariant

LEMMA RunKeepsEvidence == Spec => []EvidenceInvariant
  BY EvidenceInit, EvidenceNext, PTL DEF Spec

\* The records of a run can be ranked.
LEMMA RecordsRankable ==
  ASSUME TypeOK
  PROVE  /\ Rankable(evaluations)
         /\ IsFiniteSet(FailureIndexes(evaluations))
         /\ Cardinality(FailureIndexes(evaluations)) \in Nat
         /\ TopK \in Nat
  <1>1. evaluations \in Seq(Records(Outcomes))
    BY DEF TypeOK
  <1>2. \A i \in DOMAIN evaluations :
          i \in Int /\ evaluations[i] \in Records(Outcomes)
    BY <1>1
  <1>3. Rankable(evaluations)
    BY <1>2 DEF Rankable, Records
  <1>4. FailureIndexes(evaluations) \subseteq DOMAIN evaluations
    BY DEF FailureIndexes
  <1>5. QED
    BY <1>1, <1>3, <1>4, FiniteIndexes, BudgetLimits

\* Two failures are results of two scenarios.
LEMMA FailuresDiffer ==
  ASSUME EvidenceInvariant,
         NEW i \in FailureIndexes(evaluations),
         NEW j \in FailureIndexes(evaluations), i # j
  PROVE  evaluations[i].id # evaluations[j].id
  <1>1. /\ DOMAIN evaluations \subseteq DOMAIN proposals
        /\ \A n \in DOMAIN evaluations : n \in Nat
    BY DEF EvidenceInvariant, TypeOK, SlotsAccounted
  <1>2. /\ i \in DOMAIN evaluations /\ IsValid(evaluations[i]) /\ PairedAt(i)
        /\ j \in DOMAIN evaluations /\ IsValid(evaluations[j]) /\ PairedAt(j)
    BY DEF EvidenceInvariant, RecordsPaired, FailureIndexes, IsFailure
  <1>3. i \in DOMAIN proposals /\ j \in DOMAIN proposals /\ (i < j \/ j < i)
    BY <1>1, <1>2
  <1>4. proposals[i].scenario.id # proposals[j].scenario.id
    BY <1>2, <1>3 DEF EvidenceInvariant, AdmittedOnce, PairedAt
  <1>5. QED
    BY <1>2, <1>4 DEF PairedAt

\* A failure with a smaller place is not after another.
LEMMA PlacesAreSeverity ==
  ASSUME EvidenceInvariant,
         NEW i \in FailureIndexes(evaluations),
         NEW j \in FailureIndexes(evaluations),
         Place(Ranking(evaluations), FailureIndexes(evaluations), i)
           < Place(Ranking(evaluations), FailureIndexes(evaluations), j)
  PROVE  NotAfter(i, j)
  <1> DEFINE F == FailureIndexes(evaluations)
  <1>1. TypeOK
    BY DEF EvidenceInvariant
  <1>2. TotallyOrders(Ranking(evaluations), F) /\ IsFiniteSet(F)
    BY <1>1, RecordsRankable, RankingIsTotal
  <1>3. <<i, j>> \in Ranking(evaluations)
    BY <1>2, PlacesOrder
  <1>4. RanksBefore(evaluations, i, j) /\ i # j
    BY <1>2, <1>3 DEF Ranking, TotallyOrders
  <1>5. evaluations[i].id # evaluations[j].id
    BY <1>4, FailuresDiffer
  <1>6. QED
    BY <1>4, <1>5 DEF RanksBefore, NotAfter

\* A list of different things is as long as the set of its entries.
LEMMA EntriesCounted ==
  ASSUME NEW n \in Nat, NEW f, DOMAIN f = 1..n, f = [r \in 1..n |-> f[r]],
         \A r, s \in 1..n : f[r] = f[s] => r = s
  PROVE  Cardinality({f[r] : r \in DOMAIN f}) = n
  <1> DEFINE T == {f[r] : r \in 1..n}
  <1>1. f \in [1..n -> T]
    OBVIOUS
  <1>2. \A t \in T : \E r \in 1..n : f[r] = t
    OBVIOUS
  <1> HIDE DEF T
  <1>3. f \in Bijection(1..n, T)
    BY <1>1, <1>2 DEF Bijection, Injection, IsInjective, Surjection
  <1>4. IsFiniteSet(1..n) /\ Cardinality(1..n) = n
    <2>1. 1 \in Int /\ n \in Int /\ (IF 1 > n THEN 0 ELSE n - 1 + 1) = n
      OBVIOUS
    <2>2. QED
      BY <2>1, FS_Interval
  <1>5. Cardinality(T) = n
    BY <1>3, <1>4, FS_Bijection DEF ExistsBijection
  <1>6. QED
    BY <1>5 DEF T

\* The ranking of a run that is done: failures, each at its place.
LEMMA TopOfRun ==
  ASSUME EvidenceInvariant, pc = "done"
  PROVE  LET failures == FailureIndexes(evaluations)
             count    == Cardinality(failures)
             bound    == IF count < TopK THEN count ELSE TopK
         IN  /\ bound \in Nat /\ bound <= count
             /\ topFailures = [r \in 1..bound |-> topFailures[r]]
             /\ DOMAIN topFailures = 1..bound
             /\ \A r \in 1..bound :
                  /\ topFailures[r] \in failures
                  /\ Place(Ranking(evaluations), failures, topFailures[r]) = r
  <1> DEFINE failures == FailureIndexes(evaluations)
             count    == Cardinality(failures)
             bound    == IF count < TopK THEN count ELSE TopK
  <1>1. /\ Rankable(evaluations) /\ IsFiniteSet(failures)
        /\ count \in Nat /\ TopK \in Nat
    BY RecordsRankable DEF EvidenceInvariant
  <1>2. topFailures = RankTopFailures(evaluations, TopK)
    BY DEF EvidenceInvariant, EndOfRun
  <1>3. /\ DOMAIN topFailures = 1..bound
        /\ \A r \in DOMAIN topFailures :
             /\ topFailures[r] \in failures
             /\ Place(Ranking(evaluations), failures, topFailures[r]) = r
    BY <1>1, <1>2, TopIsRanked
  <1>4. topFailures = [r \in 1..bound |-> topFailures[r]]
    BY <1>2 DEF RankTopFailures
  <1>5. bound \in Nat /\ bound <= count
    BY <1>1
  <1> HIDE DEF failures, bound, count
  <1>6. QED
    BY <1>3, <1>4, <1>5 DEF failures, bound, count

\* The ranking of a run that is done is the bounded severity ranking.
LEMMA RankingIsSevere ==
  ASSUME EvidenceInvariant, pc = "done"
  PROVE  TopFailuresAreMostSevere
  <1> DEFINE failures == FailureIndexes(evaluations)
             count    == Cardinality(failures)
             bound    == IF count < TopK THEN count ELSE TopK
             top      == {topFailures[r] : r \in DOMAIN topFailures}
             At(i)    == Place(Ranking(evaluations), failures, i)
  <1>1. /\ bound \in Nat /\ bound <= count
        /\ topFailures = [r \in 1..bound |-> topFailures[r]]
        /\ DOMAIN topFailures = 1..bound
        /\ \A r \in 1..bound :
             topFailures[r] \in failures /\ At(topFailures[r]) = r
    BY TopOfRun
  <1>2. /\ TotallyOrders(Ranking(evaluations), failures)
        /\ IsFiniteSet(failures) /\ count \in Nat
    BY RecordsRankable, RankingIsTotal DEF EvidenceInvariant
  <1>3. \A i \in failures : At(i) \in 1..count
    BY <1>2, PlaceType
  <1>4. \A i, j \in failures : At(i) < At(j) => NotAfter(i, j)
    BY PlacesAreSeverity
  <1>5. \A i, j \in failures : At(i) = At(j) => i = j
    BY <1>2, PlacesOrder
  <1>6. top = {topFailures[r] : r \in 1..bound}
    BY <1>1
  <1> HIDE DEF failures, count, At
  <1>7. Cardinality(top) = bound
    <2>1. \A r, s \in 1..bound : topFailures[r] = topFailures[s] => r = s
      BY <1>1
    <2> HIDE DEF bound
    <2>2. QED
      BY <1>1, <2>1, EntriesCounted
  <1>8. Len(topFailures) = bound
    BY <1>1
  <1> HIDE DEF bound
  <1>9. top \subseteq failures
    BY <1>1, <1>6
  <1>10. \A r, s \in DOMAIN topFailures :
           r < s => NotAfter(topFailures[r], topFailures[s])
    BY <1>1, <1>4
  <1>11. \A i \in top, j \in failures \ top : NotAfter(i, j)
    <2> SUFFICES ASSUME NEW i \in top, NEW j \in failures \ top
                 PROVE  NotAfter(i, j)
      OBVIOUS
    <2>1. PICK r \in 1..bound : i = topFailures[r]
      BY <1>6
    <2>2. At(i) = r /\ i \in failures
      BY <1>1, <2>1
    <2>3. At(j) \notin 1..bound
      <3>1. \A s \in 1..bound : At(topFailures[s]) = s /\ topFailures[s] \in failures
        BY <1>1
      <3>2. \A s \in 1..bound : topFailures[s] # j
        BY <1>6
      <3>3. QED
        BY <1>5, <3>1, <3>2
    <2>4. At(i) < At(j)
      BY <1>1, <1>2, <1>3, <2>2, <2>3
    <2>5. QED
      BY <1>4, <2>2, <2>4
  <1> HIDE DEF top
  <1>12. QED
    BY <1>1, <1>7, <1>8, <1>9, <1>10, <1>11
    DEF TopFailuresAreMostSevere, failures, count, bound, top

(***************************************************************************)
(* The published ranking is the bounded severity ranking of the recorded   *)
(* results (TopFailuresAreMostSevere), for every record a run can write:   *)
(* as many failures as there are up to top_k, each of another scenario, in *)
(* order, and none left out more severe than one that is in.               *)
(***************************************************************************)
THEOREM RankingIsBounded == Spec => []TopFailuresAreMostSevere
  <1>1. EvidenceInvariant => TopFailuresAreMostSevere
    BY RankingIsSevere DEF TopFailuresAreMostSevere
  <1>2. QED
    BY <1>1, RunKeepsEvidence, PTL

\* A qualifying result is a failure, and breaches enough rules.
LEMMA QualifyingAreFailures ==
  ASSUME TypeOK
  PROVE  /\ QualifyingIndexes \subseteq FailureIndexes(evaluations)
         /\ \A i \in QualifyingIndexes :
              evaluations[i].outcome.breaches >= MinBreaches
         /\ \A i \in FailureIndexes(evaluations) :
              evaluations[i].outcome.breaches \in Nat
  <1>1. \A i \in DOMAIN evaluations : evaluations[i].outcome \in Outcomes
    BY RecordsRankable DEF Rankable
  <1>2. QED
    BY <1>1, BudgetLimits DEF QualifyingIndexes, Qualifies, FailureIndexes,
                              IsFailure, IsValid, Outcomes

\* A failure with more breaches comes before one with fewer.
LEMMA MoreBreachesFirst ==
  ASSUME EvidenceInvariant,
         NEW i \in FailureIndexes(evaluations),
         NEW j \in FailureIndexes(evaluations),
         evaluations[i].outcome.breaches > evaluations[j].outcome.breaches
  PROVE  Place(Ranking(evaluations), FailureIndexes(evaluations), i)
           < Place(Ranking(evaluations), FailureIndexes(evaluations), j)
  <1> DEFINE F     == FailureIndexes(evaluations)
             At(k) == Place(Ranking(evaluations), F, k)
  <1>1. /\ TotallyOrders(Ranking(evaluations), F) /\ IsFiniteSet(F)
        /\ Cardinality(F) \in Nat
    BY RecordsRankable, RankingIsTotal DEF EvidenceInvariant
  <1>2. At(i) \in Nat /\ At(j) \in Nat
    BY <1>1, PlaceType
  <1>3. At(i) # At(j)
    <2>1. i # j
      BY QualifyingAreFailures DEF EvidenceInvariant
    <2>2. QED
      BY <1>1, <2>1, PlacesOrder
  <1>4. ~(At(j) < At(i))
    <2>1. ~NotAfter(j, i)
      BY QualifyingAreFailures
      DEF NotAfter, KeyExceeds, SeverityKey, EvidenceInvariant
    <2>2. QED
      BY <2>1, PlacesAreSeverity
  <1> HIDE DEF At
  <1>5. At(i) < At(j)
    BY <1>2, <1>3, <1>4
  <1>6. QED
    BY <1>5 DEF At

\* The first places, as many as results qualify, breach enough rules: were
\* there one that does not, all qualifying results would come before it.
LEMMA PlacesQualify ==
  ASSUME EvidenceInvariant, pc = "done", NEW r \in 1..TopK,
         r <= Cardinality(QualifyingIndexes)
  PROVE  /\ r \in DOMAIN topFailures
         /\ evaluations[topFailures[r]].outcome.breaches >= MinBreaches
  <1> DEFINE F     == FailureIndexes(evaluations)
             count == Cardinality(F)
             bound == IF count < TopK THEN count ELSE TopK
             At(i) == Place(Ranking(evaluations), F, i)
             Q     == QualifyingIndexes
  <1>1. /\ TotallyOrders(Ranking(evaluations), F) /\ IsFiniteSet(F)
        /\ count \in Nat /\ TopK \in Nat
    BY RecordsRankable, RankingIsTotal DEF EvidenceInvariant
  <1>2. /\ Q \subseteq F
        /\ \A i \in Q : evaluations[i].outcome.breaches >= MinBreaches
        /\ \A i \in F : evaluations[i].outcome.breaches \in Nat
    BY QualifyingAreFailures DEF EvidenceInvariant
  <1>3. IsFiniteSet(Q) /\ Cardinality(Q) <= count /\ Cardinality(Q) \in Nat
    BY <1>1, <1>2, FS_Subset, FS_CardinalityType
  <1>4. r \in 1..bound
    BY <1>1, <1>3
  <1>5. /\ DOMAIN topFailures = 1..bound
        /\ topFailures[r] \in F /\ At(topFailures[r]) = r
    BY <1>4, TopOfRun
  <1>6. ASSUME ~(evaluations[topFailures[r]].outcome.breaches >= MinBreaches)
        PROVE  FALSE
    <2>1. \A i \in Q : At(i) < r
      <3> SUFFICES ASSUME NEW i \in Q PROVE At(i) < r
        OBVIOUS
      <3>1. i \in F /\ evaluations[i].outcome.breaches
                         > evaluations[topFailures[r]].outcome.breaches
        BY <1>2, <1>5, <1>6, BudgetLimits
      <3>2. QED
        BY <1>5, <3>1, MoreBreachesFirst
    <2>2. /\ \A i \in Q : At(i) \in 1..count
          /\ \A i, j \in Q : At(i) = At(j) => i = j
      BY <1>1, <1>2, PlaceType, PlacesOrder
    <2> DEFINE place == [i \in Q |-> At(i)]
    <2> HIDE DEF At, F, Q, count, bound
    <2>3. place \in Injection(Q, 1..(r - 1))
      BY <2>1, <2>2 DEF Injection, IsInjective
    <2>4. IsFiniteSet(1..(r - 1)) /\ Cardinality(1..(r - 1)) = r - 1
      <3>1. 1 \in Int /\ r - 1 \in Int
            /\ (IF 1 > r - 1 THEN 0 ELSE (r - 1) - 1 + 1) = r - 1
        BY <1>1
      <3>2. QED
        BY <3>1, FS_Interval
    <2>5. Cardinality(Q) <= r - 1
      BY <2>3, <2>4, FS_Injection
    <2>6. QED
      BY <1>1, <1>3, <2>5 DEF Q
  <1>7. QED
    BY <1>4, <1>5, <1>6

\* What the records and the ranking say of the evidence condition.
LEMMA EvidenceFollows ==
  ASSUME EvidenceInvariant
  PROVE  EvidenceBacked
  <1>1. qualifying = Cardinality(QualifyingIndexes)
    BY DEF EvidenceInvariant, FiguresRecorded
  <1>2. EvidenceConditionMet <=> MinFailures <= Cardinality(QualifyingIndexes)
    BY <1>1, BudgetLimits DEF EvidenceConditionMet, EvidenceInvariant, TypeOK
  <1>3. QED
    BY <1>2, PlacesQualify DEF EvidenceBacked

(***************************************************************************)
(* evidence_condition_met is backed by the bundle (EvidenceBacked).  The   *)
(* count the loop keeps is that of the qualifying results recorded.  The   *)
(* first places of the ranking, as many as results qualify, are held by    *)
(* failures with at least minimum_breach_count breaches: one with fewer    *)
(* would come after every qualifying result, and there are too many.       *)
(***************************************************************************)
THEOREM EvidenceIsBacked == Spec => []EvidenceBacked
  BY RunKeepsEvidence, EvidenceFollows, PTL

-----------------------------------------------------------------------------
(***************************************************************************)
(* The published bundle.                                                   *)
(***************************************************************************)

\* A bundle whose inputs are paired verifies.
LEMMA PairedBundlePublishes ==
  ASSUME EvidenceInvariant, InputsPaired
  PROVE  EveryBundlePublishes
  <1> SUFFICES ASSUME pc = "done"
               PROVE  publication = "published"
    BY DEF EveryBundlePublishes
  <1>1. /\ Len(evaluations) \in Nat /\ Len(proposals) \in Nat
        /\ slots \in Nat /\ evaluated \in Nat /\ rejected \in Nat
    BY AccountedTypes DEF EvidenceInvariant
  <1>2. /\ slots = Len(evaluations) /\ Len(proposals) = slots
        /\ evaluated + rejected = slots /\ Len(evaluations) - evaluated = rejected
    BY <1>1 DEF EvidenceInvariant, SlotsAccounted
  <1>3. DOMAIN proposals = DOMAIN evaluations
    BY <1>2 DEF EvidenceInvariant, TypeOK
  <1>4. \A i \in DOMAIN proposals : Aligned(proposals[i], evaluations[i])
    BY <1>3 DEF EvidenceInvariant, RecordsPaired, PairedAt, InputsPaired, Aligned
  <1>5. Cardinality(ValidIndexes) = evaluated
    BY DEF EvidenceInvariant, FiguresRecorded
  <1>6. QED
    BY <1>2, <1>4, <1>5 DEF EvidenceInvariant, EndOfRun, BundleVerifies

\* A batch of whole payloads stays one until the proposer is asked again.
LEMMA WholeNext ==
  ASSUME WholePayloads, [Next]_vars,
         \A candidates \in Seq(Candidates) :
           ProposerReturns(candidates) =>
             \A i \in DOMAIN candidates : candidates[i].form # "partial"
  PROVE  WholePayloads'
  <1>1. ASSUME NEW count \in 1..MaxPerRound,
               NEW candidates \in [1..count -> Candidates],
               ProposerReturns(candidates)
        PROVE  WholePayloads'
    <2>1. /\ candidates \in Seq(Candidates)
          /\ batch' = candidates \/ UNCHANGED batch
      BY <1>1 DEF ProposerReturns, TakeBatch
    <2>2. QED
      BY <1>1, <2>1 DEF WholePayloads
  <1>2. CASE UNCHANGED batch
    BY <1>2 DEF WholePayloads
  <1>3. CASE LoopStep
    BY <1>2, <1>3 DEF LoopStep, StopBeforeRound, StartRound, RejectCandidate,
      SkipCandidate, BeginEvaluation, DiscardEvidence, RecordEvidence,
      EvaluationRaises, StopAfterRound, NextRound, RoundsExhausted, Finish
  <1>4. CASE ProposerStep
    BY <1>1, <1>2, <1>4 DEF ProposerStep, ProposerFails, ProposerOverflows,
                            ProposerExhausted
  <1>5. CASE DeadlinePasses \/ EvaluationRaises \/ UNCHANGED vars
    BY <1>2, <1>5 DEF DeadlinePasses, EvaluationRaises, vars
  <1>6. QED
    BY <1>3, <1>4, <1>5 DEF Next, Terminated

(***************************************************************************)
(* Every run that ends publishes its bundle (EveryBundlePublishes) where   *)
(* no proposer answers a mapping with a defaulted field left out: all that *)
(* verify_run_artifacts recomputes agrees with what the loop counted.  The *)
(* run MCPartialMapping shows that the proposer protocol does allow such a *)
(* mapping, and the bundle is then refused.                                *)
(***************************************************************************)
THEOREM WholePayloadsPublish ==
  ASSUME \A raw \in Candidates : raw.form # "partial"
  PROVE  Spec => []EveryBundlePublishes
  <1>1. Init => EvidenceInvariant /\ WholePayloads /\ InputsPaired
    BY EvidenceInit, PairedInit
  <1>2. EvidenceInvariant /\ WholePayloads /\ InputsPaired /\ [Next]_vars
        => EvidenceInvariant' /\ WholePayloads' /\ InputsPaired'
    <2> SUFFICES ASSUME EvidenceInvariant, WholePayloads, InputsPaired,
                        [Next]_vars
                 PROVE  EvidenceInvariant' /\ WholePayloads' /\ InputsPaired'
      OBVIOUS
    <2>1. \A candidates \in Seq(Candidates) :
            \A i \in DOMAIN candidates : candidates[i].form # "partial"
      OBVIOUS
    <2>2. WholePayloads'
      BY <2>1, WholeNext
    <2>3. QED
      BY <2>2, EvidenceNext, PairedNext DEF EvidenceInvariant
  <1>3. EvidenceInvariant /\ InputsPaired => EveryBundlePublishes
    BY PairedBundlePublishes
  <1>4. QED
    BY <1>1, <1>2, <1>3, PTL DEF Spec

-----------------------------------------------------------------------------
(***************************************************************************)
(* The attacker service drives the same run: its steps are steps of the    *)
(* run, so what is proved of the run holds of the service.                 *)
(***************************************************************************)

\* An unusable answer is one raw candidate of the run.
LEMMA InvalidCandidateType ==
  ASSUME TypeOK
  PROVE  /\ InvalidCandidate(round) \in Candidates
         /\ InvalidCandidate(round).form = "provider_failure"
         /\ <<InvalidCandidate(round)>> \in [1..1 -> Candidates]
         /\ Len(<<InvalidCandidate(round)>>) = 1
         /\ <<InvalidCandidate(round)>>[1] = InvalidCandidate(round)
  <1>1. InvalidCandidate(round) \in Candidates
    BY AdapterAssumption DEF TypeOK
  <1>2. InvalidCandidate(round).form = "provider_failure"
    BY DEF InvalidCandidate
  <1> HIDE DEF InvalidCandidate
  <1>3. QED
    BY <1>1, <1>2

\* What the adapter hands over, when it hands over anything.
AdapterReturns(candidates) ==
  /\ SummaryValid
  /\ CountReturned(candidates)
  /\ ProposerReturns(candidates)

\* The answers of the adapter are answers of a proposer, and usable ones.
LEMMA AdapterAnswers ==
  ASSUME TypeOK, ProviderStep
  PROVE  /\ ProposerStep
         /\ \/ \E candidates \in Seq(Candidates) :
                 /\ AdapterReturns(candidates)
                 /\ \A n \in DOMAIN candidates :
                      \/ candidates[n].form = "typed"
                      \/ /\ candidates[n].form = "provider_failure"
                         /\ Len(candidates) = 1
            \/ /\ ProposerOverflows \/ ProposerExhausted \/ ProposerFails
               /\ UNCHANGED slotsReturned
  <1>1. CASE ProviderUnusable
    <2> DEFINE answer == <<InvalidCandidate(round)>>
    <2>1. /\ answer \in [1..1 -> Candidates] /\ Len(answer) = 1
          /\ answer[1].form = "provider_failure"
          /\ 1 \in 1..MaxPerRound
      BY InvalidCandidateType, BudgetLimits
    <2>2. AdapterReturns(answer)
      BY <1>1 DEF ProviderUnusable, AdapterReturns
    <2> HIDE DEF answer
    <2>3. answer \in Seq(Candidates) /\ DOMAIN answer = {1}
      <3>1. 1..1 = {1} /\ 1 \in Nat
        OBVIOUS
      <3>2. [1..1 -> Candidates] \subseteq Seq(Candidates)
        OBVIOUS
      <3>3. QED
        BY <2>1, <3>1, <3>2
    <2>4. ProposerStep
      BY <2>1, <2>2 DEF ProposerStep, AdapterReturns
    <2>5. QED
      BY <2>1, <2>2, <2>3, <2>4
  <1>2. ASSUME NEW count \in 1..MaxPerRound,
               NEW candidates \in [1..count -> TypedCandidates],
               ProviderAnswers(candidates)
        PROVE  /\ ProposerStep
               /\ candidates \in Seq(Candidates) /\ AdapterReturns(candidates)
               /\ \A n \in DOMAIN candidates : candidates[n].form = "typed"
    <2>1. candidates \in [1..count -> Candidates]
      BY DEF TypedCandidates
    <2>2. \A n \in DOMAIN candidates : candidates[n].form = "typed"
      BY DEF TypedCandidates
    <2>3. candidates \in Seq(Candidates)
      BY <2>1
    <2>4. AdapterReturns(candidates)
      BY <1>2 DEF ProviderAnswers, AdapterReturns
    <2>5. QED
      BY <2>1, <2>2, <2>3, <2>4 DEF ProposerStep, AdapterReturns
  <1>3. CASE ProviderOverflows \/ ProviderExhausted \/ ProviderRaises
    BY <1>3 DEF ProviderOverflows, ProviderExhausted, ProviderRaises,
                ProposerStep
  <1>4. QED
    BY <1>1, <1>2, <1>3 DEF ProviderStep

\* A step of the service is a step of the run.
LEMMA ServiceRuns ==
  ASSUME TypeOK, [ServiceNext]_serviceVars
  PROVE  [Next]_vars
  BY AdapterAnswers DEF ServiceNext, ServiceLoopStep, Next, serviceVars

\* The service starts as the run does, with nothing handed out.
LEMMA AdapterInit == ServiceInit => AdapterInvariant
  BY DEF ServiceInit, Init, AdapterInvariant, BatchUsable, PriorBounded,
         RoundsRecorded, FailuresStandAlone, InBatch, HardPerRound

\* The adapter counts the slots it hands out as the budget charges them.
LEMMA CountsAgree ==
  ASSUME TypeOK, slotsReturned = slots, [ServiceNext]_serviceVars
  PROVE  slotsReturned' = slots'
  <1>1. CASE ServiceLoopStep
    <2>1. slots' = slots
      BY <1>1 DEF ServiceLoopStep, LoopStep, StopBeforeRound, StartRound,
        RejectCandidate, SkipCandidate, BeginEvaluation, DiscardEvidence,
        RecordEvidence, EvaluationRaises, StopAfterRound, NextRound, RoundsExhausted, Finish,
        budgetVars
    <2>2. QED
      BY <1>1, <2>1 DEF ServiceLoopStep
  <1>2. CASE ProviderStep
    <2>1. ASSUME NEW candidates \in Seq(Candidates), AdapterReturns(candidates)
          PROVE  slotsReturned' = slots'
      BY <2>1, ReturnedBatchIsTaken
      DEF AdapterReturns, CountReturned, TakeBatch, ReserveBatch
    <2>2. CASE /\ ProposerOverflows \/ ProposerExhausted \/ ProposerFails
               /\ UNCHANGED slotsReturned
      BY <2>2 DEF ProposerOverflows, ProposerExhausted, ProposerFails,
                  budgetVars
    <2>3. QED
      BY <1>2, <2>1, <2>2, AdapterAnswers
  <1>3. CASE DeadlinePasses /\ UNCHANGED slotsReturned
    BY <1>3 DEF DeadlinePasses, budgetVars
  <1>4. CASE UNCHANGED vars /\ UNCHANGED slotsReturned
    BY <1>4 DEF vars
  <1>5. QED
    BY <1>1, <1>2, <1>3, <1>4 DEF ServiceNext, serviceVars, Terminated

\* Only the adapter's answers change the batch.
LEMMA UsableNext ==
  ASSUME TypeOK, BatchUsable, [ServiceNext]_serviceVars
  PROVE  BatchUsable'
  <1>0. CASE UNCHANGED batch
    BY <1>0 DEF BatchUsable
  <1>1. CASE ServiceLoopStep
    BY <1>0, <1>1 DEF ServiceLoopStep, LoopStep, StopBeforeRound, StartRound,
      RejectCandidate, SkipCandidate, BeginEvaluation, DiscardEvidence,
      RecordEvidence, EvaluationRaises, StopAfterRound, NextRound,
      RoundsExhausted, Finish
  <1>2. CASE ProviderStep
    <2>1. ASSUME NEW candidates \in Seq(Candidates), AdapterReturns(candidates),
                 \A n \in DOMAIN candidates :
                   \/ candidates[n].form = "typed"
                   \/ /\ candidates[n].form = "provider_failure"
                      /\ Len(candidates) = 1
          PROVE  BatchUsable'
      BY <2>1, ReturnedBatchIsTaken DEF AdapterReturns, TakeBatch, BatchUsable
    <2>2. CASE ProposerOverflows \/ ProposerExhausted \/ ProposerFails
      BY <1>0, <2>2 DEF ProposerOverflows, ProposerExhausted, ProposerFails
    <2>3. QED
      BY <1>2, <2>1, <2>2, AdapterAnswers
  <1>3. CASE DeadlinePasses \/ EvaluationRaises \/ UNCHANGED vars
    BY <1>0, <1>3 DEF DeadlinePasses, EvaluationRaises, vars
  <1>4. QED
    BY <1>1, <1>2, <1>3 DEF ServiceNext, serviceVars, Terminated

\* Every step keeps the results fed back within the round's bound.
LEMMA PriorNext ==
  ASSUME TypeOK, LoopPosition, PriorBounded, [Next]_vars
  PROVE  PriorBounded'
  <1>0. /\ Len(priorResults) \in Nat /\ round \in 1..MaxRounds
        /\ cursor \in Nat /\ Len(batch) \in Nat /\ Len(batch) <= 8
        /\ priorResults \in Seq(Nat)
    BY BudgetLimits DEF TypeOK
  <1> USE <1>0 DEF PriorBounded, InBatch, HardPerRound
  <1>1. CASE StopBeforeRound \/ StartRound \/ Finish
    BY <1>1 DEF StopBeforeRound, StartRound, Finish, Stop, tallyVars
  <1>2. CASE RejectCandidate \/ SkipCandidate \/ BeginEvaluation
             \/ DiscardEvidence
    BY <1>2 DEF RejectCandidate, SkipCandidate, BeginEvaluation,
                DiscardEvidence, AtCandidate, tallyVars
  <1>3. CASE RecordEvidence
    <2>1. Len(priorResults') <= Len(priorResults) + 1
      BY <1>3, AppendLength DEF RecordEvidence, Tally
    <2>2. Len(priorResults') \in Nat
      BY <1>3, AppendLength DEF RecordEvidence, Tally
    <2>3. QED
      BY <1>3, <2>1, <2>2 DEF RecordEvidence
  <1>4. CASE StopAfterRound \/ NextRound \/ RoundsExhausted
    <2>1. cursor = Len(batch) + 1 /\ priorResults' = priorResults
      BY <1>4 DEF StopAfterRound, NextRound, RoundsExhausted, RoundOver,
                  LoopPosition, tallyVars
    <2>2. Len(priorResults) <= round * 8
      BY <1>4, <2>1 DEF StopAfterRound, NextRound, RoundsExhausted, RoundOver
    <2>3. QED
      BY <1>4, <2>1, <2>2
      DEF StopAfterRound, NextRound, RoundsExhausted, RoundOver, Stop
  <1>5. CASE ProposerStep
    BY <1>5 DEF ProposerStep, ProposerFails, ProposerOverflows,
                ProposerExhausted, ProposerReturns, TakeBatch, Stop, tallyVars
  <1>6. CASE DeadlinePasses \/ EvaluationRaises \/ UNCHANGED vars
    BY <1>6 DEF DeadlinePasses, EvaluationRaises, tallyVars, vars
  <1>7. QED
    BY <1>1, <1>2, <1>3, <1>4, <1>5, <1>6 DEF Next, LoopStep, Terminated

\* The proposals as they were, in a step that prepares no candidate.
LEMMA RoundsLeft ==
  ASSUME RoundsRecorded, UNCHANGED proposals, UNCHANGED <<pc, round, cursor>>
  PROVE  RoundsRecorded'
  BY DEF RoundsRecorded

\* Every step keeps the rounds of the record behind the loop's.
LEMMA RoundsNext ==
  ASSUME TypeOK, LoopPosition, RoundsRecorded, [Next]_vars
  PROVE  RoundsRecorded'
  <1>0. /\ round \in Nat /\ cursor \in Nat /\ cursor >= 1
        /\ \A j \in DOMAIN proposals : proposals[j].round \in Nat
    <2>1. \A j \in DOMAIN proposals : proposals[j] \in ProposalRecords
      BY DEF TypeOK
    <2>2. QED
      BY <2>1, BudgetLimits DEF TypeOK, ProposalRecords
  <1>1. CASE RejectCandidate \/ SkipCandidate \/ BeginEvaluation
    <2> DEFINE last == Len(proposals) + 1
    <2>1. /\ AtCandidate /\ PrepareCandidate(Current) /\ Current \in RawCandidates
          /\ round' = round
      BY <1>1, CurrentType DEF RejectCandidate, SkipCandidate, BeginEvaluation,
                               AtCandidate
    <2>2. /\ DOMAIN proposals' = DOMAIN proposals \cup {last}
          /\ \A i \in DOMAIN proposals : proposals'[i] = proposals[i]
          /\ proposals'[last] = Prepared(Current)
      BY <2>1, PrepareAppends
    <2>3. Prepared(Current).round = round
      BY DEF Prepared
    <2>4. pc' \notin {"round_start", "propose"} /\ ~(pc' = "candidates" /\ cursor' = 1)
      BY <1>0, <1>1 DEF RejectCandidate, SkipCandidate, BeginEvaluation,
                        AtCandidate
    <2> HIDE DEF last
    <2>5. QED
      BY <1>0, <2>1, <2>2, <2>3, <2>4 DEF RoundsRecorded
  <1>2. CASE DiscardEvidence \/ RecordEvidence
    <2>1. /\ UNCHANGED <<proposals, round>> /\ pc' = "candidates"
          /\ cursor' = cursor + 1
      BY <1>2 DEF DiscardEvidence, RecordEvidence
    <2>2. QED
      BY <1>0, <2>1 DEF RoundsRecorded
  <1>3. CASE NextRound
    BY <1>0, <1>3 DEF NextRound, RoundsRecorded, recordVars
  <1>4. CASE StopBeforeRound \/ StartRound \/ StopAfterRound
             \/ RoundsExhausted \/ Finish
    BY <1>4 DEF StopBeforeRound, StartRound, StopAfterRound, RoundsExhausted,
                Finish, Stop, recordVars, RoundsRecorded
  <1>5. CASE ProposerStep
    BY <1>5 DEF ProposerStep, ProposerFails, ProposerOverflows,
                ProposerExhausted, ProposerReturns, TakeBatch, Stop, recordVars,
                RoundsRecorded
  <1>6. CASE DeadlinePasses \/ EvaluationRaises \/ UNCHANGED vars
    <2>1. CASE DeadlinePasses \/ UNCHANGED vars
      BY <2>1, RoundsLeft DEF DeadlinePasses, recordVars, vars
    <2>2. CASE EvaluationRaises
      BY <2>2 DEF EvaluationRaises, recordVars, RoundsRecorded
    <2>3. QED
      BY <1>6, <2>1, <2>2
  <1>7. QED
    BY <1>1, <1>2, <1>3, <1>4, <1>5, <1>6 DEF Next, LoopStep, Terminated

\* What FailuresStandAlone says of one proposal.
StandsAlone(i) ==
  /\ proposals[i].scenario = NoScenario
  /\ i \in DOMAIN evaluations
  /\ evaluations[i].outcome = Rejection("invalid_parameter")
  /\ \A j \in DOMAIN proposals :
       proposals[j].round = proposals[i].round => j = i
  /\ InBatch /\ proposals[i].round = round =>
       pc = "candidates" /\ cursor > Len(batch)

\* Preparing a candidate, the records as they were before it.
LEMMA OthersStandAlone ==
  ASSUME TypeOK, RoundsRecorded, FailuresStandAlone,
         RejectCandidate \/ SkipCandidate \/ BeginEvaluation,
         NEW i \in DOMAIN proposals,
         proposals[i].input.form = "provider_failure"
  PROVE  StandsAlone(i)'
  <1> DEFINE last == Len(proposals) + 1
  <1>1. /\ AtCandidate /\ PrepareCandidate(Current) /\ Current \in RawCandidates
        /\ UNCHANGED <<round, batch>>
    BY CurrentType DEF RejectCandidate, SkipCandidate, BeginEvaluation,
                       AtCandidate
  <1>2. /\ DOMAIN proposals' = DOMAIN proposals \cup {last}
        /\ \A j \in DOMAIN proposals : proposals'[j] = proposals[j]
        /\ proposals'[last] = Prepared(Current)
    BY <1>1, PrepareAppends
  <1> HIDE DEF last
  <1>3. StandsAlone(i)
    BY DEF FailuresStandAlone, StandsAlone
  <1>4. proposals[i].round # round
    <2>1. cursor \in Nat /\ Len(batch) \in Nat
      BY DEF TypeOK
    <2>2. QED
      BY <1>1, <1>3, <2>1 DEF StandsAlone, AtCandidate, InBatch
  <1>5. i \in DOMAIN evaluations' /\ evaluations'[i] = evaluations[i]
    <2>1. evaluations \in Seq(Records(Outcomes))
      BY DEF TypeOK
    <2>2. evaluations' = evaluations
          \/ \E record : evaluations' = Append(evaluations, record)
      BY DEF RejectCandidate, SkipCandidate, BeginEvaluation
    <2>3. QED
      BY <1>3, <2>1, <2>2, AppendLength DEF StandsAlone
  <1>6. Prepared(Current).round = round
    BY DEF Prepared
  <1>7. QED
    BY <1>1, <1>2, <1>3, <1>4, <1>5, <1>6 DEF StandsAlone

\* Preparing an unusable answer, which is alone in its batch.
LEMMA AnswerStandsAlone ==
  ASSUME TypeOK, LoopPosition, SlotsAccounted, BatchUsable, RoundsRecorded,
         RejectCandidate \/ SkipCandidate \/ BeginEvaluation,
         Current.form = "provider_failure",
         NEW last, last = Len(proposals) + 1
  PROVE  StandsAlone(last)'
  <1>1. /\ AtCandidate /\ PrepareCandidate(Current) /\ Current \in RawCandidates
        /\ UNCHANGED <<round, batch>>
    BY CurrentType DEF RejectCandidate, SkipCandidate, BeginEvaluation,
                       AtCandidate
  <1>2. /\ DOMAIN proposals' = DOMAIN proposals \cup {last}
        /\ \A j \in DOMAIN proposals : proposals'[j] = proposals[j]
        /\ proposals'[last] = Prepared(Current)
    BY <1>1, PrepareAppends
  <1>3. ~SchemaValid(Current) /\ RejectionOf(Current) = "invalid_parameter"
    BY DEF SchemaValid, ScenarioForms, RejectionOf
  <1>4. RejectCandidate
    BY <1>3 DEF SkipCandidate, BeginEvaluation, NoCode
  <1>5. /\ last \in DOMAIN evaluations'
        /\ evaluations'[last].outcome = Rejection("invalid_parameter")
    <2>1. evaluations \in Seq(Records(Outcomes)) /\ Len(evaluations) + 1 = last
      BY <1>1 DEF TypeOK, SlotsAccounted, AtCandidate
    <2>2. evaluations' =
            Append(evaluations, Record(CandidateId(Current), InputHash(Current),
                                       Rejection("invalid_parameter")))
      BY <1>3, <1>4 DEF RejectCandidate
    <2>3. QED
      BY <2>1, <2>2, AppendLength DEF Record
  <1>6. Len(batch) = 1 /\ cursor = 1
    <2>1. cursor \in DOMAIN batch /\ Current = batch[cursor]
      BY <1>1 DEF TypeOK, AtCandidate, Current
    <2>2. Len(batch) = 1
      BY <2>1 DEF BatchUsable
    <2>3. QED
      BY <2>1, <2>2 DEF TypeOK
  <1>7. \A j \in DOMAIN proposals : proposals[j].round # round
    <2>1. \A j \in DOMAIN proposals :
            proposals[j].round < round /\ proposals[j] \in ProposalRecords
      BY <1>1, <1>6 DEF RoundsRecorded, AtCandidate, TypeOK
    <2>2. QED
      BY <2>1, BudgetLimits DEF ProposalRecords, TypeOK
  <1>8. /\ Prepared(Current).round = round
        /\ Prepared(Current).scenario = NoScenario
    BY <1>3 DEF Prepared
  <1>9. pc' = "candidates" /\ cursor' > Len(batch')
    BY <1>1, <1>4, <1>6 DEF RejectCandidate, AtCandidate
  <1>10. QED
    BY <1>1, <1>2, <1>5, <1>7, <1>8, <1>9 DEF StandsAlone

\* Every step keeps unusable answers alone in their rounds.
LEMMA FailuresNext ==
  ASSUME TypeOK, LoopPosition, SlotsAccounted, BatchUsable, RoundsRecorded,
         FailuresStandAlone, [Next]_vars
  PROVE  FailuresStandAlone'
  <1>0. /\ round \in Nat /\ evaluations \in Seq(Records(Outcomes))
        /\ \A j \in DOMAIN proposals : proposals[j].round \in Nat
    <2>1. \A j \in DOMAIN proposals : proposals[j] \in ProposalRecords
      BY DEF TypeOK
    <2>2. \A j \in DOMAIN proposals : proposals[j].round \in Nat
      BY <2>1, BudgetLimits DEF ProposalRecords
    <2>3. QED
      BY <2>2, BudgetLimits DEF TypeOK
  <1>1. CASE RejectCandidate \/ SkipCandidate \/ BeginEvaluation
    <2>0. PICK last : last = Len(proposals) + 1
      OBVIOUS
    <2>1. /\ AtCandidate /\ PrepareCandidate(Current) /\ Current \in RawCandidates
      BY <1>1, CurrentType DEF RejectCandidate, SkipCandidate, BeginEvaluation,
                               AtCandidate
    <2>2. /\ DOMAIN proposals' = DOMAIN proposals \cup {last}
          /\ \A i \in DOMAIN proposals : proposals'[i] = proposals[i]
          /\ proposals'[last] = Prepared(Current)
      BY <2>0, <2>1, PrepareAppends
    <2>3. proposals'[last].input.form = "provider_failure" =>
            Current.form = "provider_failure"
      BY <2>1, <2>2 DEF Prepared, InputHash, Typed, RawCandidates
    <2>4. Current.form = "provider_failure" => StandsAlone(last)'
      BY <1>1, <2>0, AnswerStandsAlone
    <2>5. \A i \in DOMAIN proposals :
            proposals[i].input.form = "provider_failure" => StandsAlone(i)'
      BY <1>1, OthersStandAlone
    <2>6. \A i \in DOMAIN proposals' :
            proposals'[i].input.form = "provider_failure" => StandsAlone(i)'
      BY <2>2, <2>3, <2>4, <2>5
    <2>7. QED
      BY <2>6 DEF FailuresStandAlone, StandsAlone
  <1>2. CASE DiscardEvidence \/ RecordEvidence
    <2>1. /\ UNCHANGED <<proposals, round, batch>> /\ pc = "evaluate"
          /\ \E record : evaluations' = Append(evaluations, record)
      BY <1>2 DEF DiscardEvidence, RecordEvidence
    <2>2. \A i \in DOMAIN evaluations :
            i \in DOMAIN evaluations' /\ evaluations'[i] = evaluations[i]
      BY <1>0, <2>1, AppendLength
    <2>3. ASSUME NEW i \in DOMAIN proposals,
                 proposals[i].input.form = "provider_failure"
          PROVE  StandsAlone(i)'
      <3>1. StandsAlone(i)
        BY <2>3 DEF FailuresStandAlone, StandsAlone
      <3>2. proposals[i].round # round
        BY <2>1, <3>1 DEF StandsAlone, InBatch
      <3>3. QED
        BY <2>1, <2>2, <3>1, <3>2 DEF StandsAlone
    <2>4. QED
      BY <2>1, <2>3 DEF FailuresStandAlone, StandsAlone
  <1>3. ASSUME UNCHANGED recordVars,
               \/ pc' \notin {"candidates", "evaluate"}
               \/ UNCHANGED <<pc, round, cursor, batch>>
               \/ pc = "propose" /\ UNCHANGED round
        PROVE  FailuresStandAlone'
    <2>1. UNCHANGED <<proposals, evaluations>>
      BY <1>3 DEF recordVars
    <2>2. pc = "propose" => \A i \in DOMAIN proposals : proposals[i].round # round
      BY <1>0 DEF RoundsRecorded
    <2>3. QED
      BY <1>3, <2>1, <2>2 DEF FailuresStandAlone, InBatch
  <1>4. CASE StopBeforeRound \/ StartRound \/ StopAfterRound \/ NextRound
             \/ RoundsExhausted \/ Finish
    BY <1>3, <1>4 DEF StopBeforeRound, StartRound, StopAfterRound, NextRound,
                      RoundsExhausted, Finish, Stop
  <1>5. CASE ProposerStep
    BY <1>3, <1>5 DEF ProposerStep, ProposerFails, ProposerOverflows,
                      ProposerExhausted, ProposerReturns, TakeBatch, Stop
  <1>6. CASE DeadlinePasses \/ EvaluationRaises \/ UNCHANGED vars
    BY <1>3, <1>6 DEF DeadlinePasses, EvaluationRaises, vars, recordVars
  <1>7. QED
    BY <1>1, <1>2, <1>4, <1>5, <1>6 DEF Next, LoopStep, Terminated

\* The run's invariant and the adapter's, kept together.
ServiceInvariant == EvidenceInvariant /\ AdapterInvariant

LEMMA ServiceKeeps == ServiceSpec => []ServiceInvariant
  <1>1. ServiceInit => ServiceInvariant
    BY EvidenceInit, AdapterInit DEF ServiceInit, ServiceInvariant
  <1>2. ServiceInvariant /\ [ServiceNext]_serviceVars => ServiceInvariant'
    <2> SUFFICES ASSUME ServiceInvariant, [ServiceNext]_serviceVars
                 PROVE  ServiceInvariant'
      OBVIOUS
    <2>1. /\ TypeOK /\ LoopPosition /\ SlotsAccounted /\ [Next]_vars
          /\ slotsReturned = slots
          /\ BatchUsable /\ PriorBounded /\ RoundsRecorded /\ FailuresStandAlone
      BY ServiceRuns DEF ServiceInvariant, EvidenceInvariant, AdapterInvariant
    <2>2. EvidenceInvariant'
      BY <2>1, EvidenceNext DEF ServiceInvariant
    <2>3. QED
      BY <2>1, <2>2, CountsAgree, UsableNext, PriorNext, RoundsNext,
         FailuresNext
      DEF ServiceInvariant, AdapterInvariant
  <1>3. QED
    BY <1>1, <1>2, PTL DEF ServiceSpec

\* What the invariant says of the summary and of the unusable answers.
LEMMA SummaryFollows ==
  ASSUME ServiceInvariant
  PROVE  SummaryHonest
  <1>1. ASSUME pc = "propose"
        PROVE  AdapterRemaining = Remaining /\ SummaryValid
    <2>1. AdapterRemaining = Remaining
      BY DEF ServiceInvariant, AdapterInvariant, AdapterRemaining, Remaining
    <2>2. Remaining \in 1..24
      BY <1>1, BudgetLimits
      DEF ServiceInvariant, EvidenceInvariant, LoopPosition, TypeOK, Remaining
    <2>3. MaximumBatch <= Remaining
      BY <2>2, BudgetLimits DEF MaximumBatch
    <2>4. Len(priorResults) <= (round - 1) * 8
      BY <1>1 DEF ServiceInvariant, AdapterInvariant, PriorBounded, HardPerRound
    <2>5. (round - 1) * 8 <= 16 /\ (round - 1) * 8 \in Int
          /\ Len(priorResults) \in Int
      BY BudgetLimits DEF ServiceInvariant, EvidenceInvariant, TypeOK
    <2>6. Len(priorResults) <= 16
      BY <2>4, <2>5
    <2>7. QED
      BY <2>1, <2>2, <2>3, <2>4, <2>6
      DEF SummaryValid, HardPerRound, MaxPriorResults
  <1>2. DOMAIN evaluations \subseteq DOMAIN proposals
    BY DEF ServiceInvariant, EvidenceInvariant, TypeOK, SlotsAccounted
  <1>3. QED
    BY <1>1, <1>2 DEF SummaryHonest, ServiceInvariant, AdapterInvariant,
                      FailuresStandAlone

(***************************************************************************)
(* The service is a run: every step of the adapter, with the model behind  *)
(* it, is one that the runner allows its proposer (CandidateProposer).     *)
(* What the runner never does, the service never does.                     *)
(***************************************************************************)
THEOREM ServiceImplementsRunner == ServiceSpec => Spec
  <1>1. ServiceInit => Init
    BY DEF ServiceInit
  <1>2. ServiceInvariant /\ [ServiceNext]_serviceVars => [Next]_vars
    BY ServiceRuns DEF ServiceInvariant, EvidenceInvariant
  <1>3. QED
    BY <1>1, <1>2, ServiceKeeps, PTL DEF ServiceSpec, Spec

(***************************************************************************)
(* The adapter tells the model exactly what the runner has left, in a      *)
(* summary that passes its validation; and an unusable answer costs its    *)
(* round one slot and is refused as invalid (SummaryHonest), whatever the  *)
(* budget and whatever the model answers.                                  *)
(***************************************************************************)
THEOREM SummaryIsHonest == ServiceSpec => []SummaryHonest
  BY ServiceKeeps, SummaryFollows, PTL

(***************************************************************************)
(* Driven through the adapter, every run that ends publishes its bundle    *)
(* (EveryBundlePublishes): the adapter hands over typed scenarios only.    *)
(***************************************************************************)
THEOREM ServicePublishes == ServiceSpec => []EveryBundlePublishes
  <1>1. ServiceInit => ServiceInvariant /\ InputsPaired
    BY EvidenceInit, AdapterInit, PairedInit DEF ServiceInit, ServiceInvariant
  <1>2. ServiceInvariant /\ InputsPaired /\ [ServiceNext]_serviceVars
        => InputsPaired'
    <2> SUFFICES ASSUME ServiceInvariant, InputsPaired,
                        [ServiceNext]_serviceVars
                 PROVE  InputsPaired'
      OBVIOUS
    <2>1. WholePayloads
      BY DEF ServiceInvariant, AdapterInvariant, BatchUsable, WholePayloads
    <2>2. [Next]_vars
      BY ServiceRuns DEF ServiceInvariant, EvidenceInvariant
    <2>3. QED
      BY <2>1, <2>2, PairedNext DEF ServiceInvariant, EvidenceInvariant
  <1>3. ServiceInvariant /\ InputsPaired => EveryBundlePublishes
    BY PairedBundlePublishes DEF ServiceInvariant
  <1>4. QED
    BY <1>1, <1>2, <1>3, ServiceKeeps, PTL DEF ServiceSpec
=============================================================================
