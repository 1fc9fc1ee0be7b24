------------------------------ MODULE Defender ------------------------------
(***************************************************************************)
(* DefenderService.defend: the selected failures are replayed by the       *)
(* engine, judged, narrated by a language model whose answer is audited,   *)
(* and reported; and what run_offline_experiment does with the outcome.    *)
(*                                                                         *)
(* Hashes and numbers are modelled by whether they agree with what they    *)
(* are compared to.  The records DefenderVerdict, FailureReport and        *)
(* DefenderArtifact validate themselves: one that does not meet its        *)
(* contract raises, and the whole defence is lost.                         *)
(***************************************************************************)
EXTENDS Integers, Sequences, FiniteSets

CONSTANTS
  Scenarios,     \* ids of the scenarios the attacker selected from
  Strangers,     \* ids the report writer may invent
  FamiliesOf,    \* FamiliesOf[s]: the stress families of the scenario
  Families,
  TopK,
  Alterations,   \* the combinations of provenance that may be altered
  Replays,       \* what replaying a scenario may give
  Claims         \* what the report writer may say of a scenario

\* The parts of evidence whose hash, version, identity or rank is checked.
Provenance == {"data", "config", "code", "identity", "rank"}

\* The parts of a replay that are compared with the evidence.
Compared == {"result", "windows", "dates", "transform"}

\* A replay: rejected by the engine, or valid with the parts that differ and
\* the largest difference of a metric: none, within tolerance, or beyond.
Within == 1
Replay == [valid: BOOLEAN, differs: SUBSET Compared, delta: 0..2]

\* CausalClaimAssessment: a verified claim names a mechanism.
Claim ==
  {c \in [status: {"verified", "contradicted", "unverifiable"},
          families: SUBSET Families] : c.status = "verified" => c.families # {}}

ASSUME DefenderAssumption ==
  /\ TopK \in Nat \ {0}
  /\ FamiliesOf \in [Scenarios -> SUBSET Families]
  /\ Alterations \subseteq SUBSET Provenance
  /\ Replays \subseteq Replay
  /\ Claims \subseteq Claim
  /\ Scenarios \cap Strangers = {}

VARIABLES
  top,           \* attack_run.top_failures: evidence, and what its replay gives
  dataset,       \* what loading the dataset and its baseline comes to
  pc,            \* the next statement
  verdicts,      \* verdicts: one for each of top, in order
  accepted,      \* accepted_assessments
  rejections,    \* how many narrative_rejections there are
  report         \* ids of report.verified_results

vars == <<top, dataset, pc, verdicts, accepted, rejections, report>>

Evidence == [id: Scenarios, altered: Alterations, replay: Replays]

\* The attack admits an id once, so that selected failures differ in theirs.
Selections ==
  {t \in UNION {[1..n -> Evidence] : n \in 0..TopK} :
     \A i, j \in DOMAIN t : t[i].id = t[j].id => i = j}

\* Loading: dataset_verified, a manifest that is not that of the run, or a
\* dataset, strategy or baseline that raises.
Loads == {"verified", "mismatch", "raises"}

Verified == dataset = "verified"

-----------------------------------------------------------------------------
(***************************************************************************)
(* Verdicts.                                                               *)
(***************************************************************************)

\* Ranks must be 1, 2, ... in order: one that is not spoils all.
GlobalBudget ==
  /\ Len(top) <= TopK
  /\ \A i \in DOMAIN top : "rank" \notin top[i].altered

\* Fault variant: each record answers for its own rank only.
FailedChecksOwnRank(i) ==
  IF Verified THEN top[i].altered ELSE top[i].altered \cup {"data"}

\* The checks that evidence i fails.
FailedChecks(i) ==
  LET altered == top[i].altered
  IN  (altered \cap {"config", "code", "identity"})
      \cup (IF Verified THEN altered \cap {"data"} ELSE {"data"})
      \cup (IF GlobalBudget THEN {} ELSE {"rank"})

\* Fault variant: worst windows are not compared.
MismatchesNoWindows(replay) ==
  IF ~replay.valid
  THEN {"result", "dates", "transform"}
  ELSE (replay.differs \cap {"dates", "transform"})
       \cup (IF replay.delta > Within \/ replay.differs \cap {"result", "dates"} # {}
             THEN {"result"}
             ELSE {})

\* _record_replay_matches: a rejected replay matches in nothing; breaches are
\* compared with their dates.
Mismatches(replay) ==
  IF ~replay.valid
  THEN {"result", "dates", "transform"}
  ELSE (replay.differs \cap {"dates", "transform"})
       \cup (IF replay.delta > Within \/ replay.differs \cap {"result", "windows", "dates"} # {}
             THEN {"result"}
             ELSE {})

NoDelta == -1

Reproduces(replay) ==
  /\ replay.valid
  /\ Mismatches(replay) = {}
  /\ replay.delta <= Within

InvalidEvidence(i) ==
  [id |-> top[i].id, verdict |-> "invalid_evidence", failed |-> FailedChecks(i),
   mismatches |-> {"result", "dates", "transform"}, metrics |-> FALSE,
   delta |-> NoDelta, reasons |-> Cardinality(FailedChecks(i))]

Replayed(i) ==
  LET replay == top[i].replay
  IN  [id |-> top[i].id,
       verdict |-> IF Reproduces(replay) THEN "reproduced" ELSE "not_reproduced",
       failed |-> {}, mismatches |-> Mismatches(replay),
       metrics |-> replay.valid,
       delta |-> IF replay.valid THEN replay.delta ELSE NoDelta,
       reasons |-> IF Reproduces(replay) THEN 0 ELSE 1]

\* Without baseline nothing can be replayed.
Judge(i) ==
  IF FailedChecks(i) = {} /\ Verified THEN Replayed(i) ELSE InvalidEvidence(i)

\* DefenderVerdict.validate_verdict_contract.
VerdictContract(v) ==
  CASE v.verdict = "reproduced" ->
         /\ v.failed = {} /\ v.mismatches = {}
         /\ v.metrics /\ v.delta \in 0..Within /\ v.reasons = 0
    [] v.verdict = "not_reproduced" ->
         /\ v.failed = {}
         /\ v.metrics <=> v.delta # NoDelta
         /\ v.mismatches # {} \/ v.delta > Within
         /\ v.reasons > 0
    [] v.verdict = "invalid_evidence" ->
         /\ v.failed # {}
         /\ v.mismatches = {"result", "dates", "transform"}
         /\ ~v.metrics /\ v.delta = NoDelta
         /\ v.reasons \in 1..8

\* One pass of the loop over bounded_records.
ReplayNext ==
  LET i == Len(verdicts) + 1
  IN  /\ pc = "replay"
      /\ i <= Len(top) /\ i <= TopK
      /\ IF VerdictContract(Judge(i))
         THEN verdicts' = Append(verdicts, Judge(i)) /\ UNCHANGED pc
         ELSE pc' = "raised" /\ UNCHANGED verdicts
      /\ UNCHANGED <<top, dataset, accepted, rejections, report>>

ReplayDone ==
  /\ pc = "replay"
  /\ Len(verdicts) = Len(top) \/ Len(verdicts) = TopK
  /\ pc' = "narrate"
  /\ UNCHANGED <<top, dataset, verdicts, accepted, rejections, report>>

-----------------------------------------------------------------------------
(***************************************************************************)
(* The narrative and its audit.                                            *)
(***************************************************************************)

\* DefenderNarrativeBatch: at most one assessment of an id, TopK in all.
Batches ==
  UNION {[ids -> Claims] :
    ids \in {d \in SUBSET (Scenarios \cup Strangers) :
               IsFiniteSet(d) /\ Cardinality(d) <= TopK}}

Judged == {verdicts[i].id : i \in DOMAIN verdicts}

ReproducedIds ==
  {verdicts[i].id : i \in {j \in DOMAIN verdicts : verdicts[j].verdict = "reproduced"}}

\* Fault variant: a verified claim is held against its families only.
SupportedByFamilies(s, claim) ==
  claim.status = "verified" => claim.families \subseteq FamiliesOf[s]

\* A verified claim names families of a scenario that was reproduced.
Supported(s, claim) ==
  claim.status = "verified" =>
    s \in ReproducedIds /\ claim.families \subseteq FamiliesOf[s]

Unknown(batch) == DOMAIN batch \ Judged

Unsupported(batch) ==
  {s \in DOMAIN batch \cap Judged : ~Supported(s, batch[s])}

Omitted(batch) == Judged \ DOMAIN batch

\* Fault variant: a rejection for each omitted scenario.
RejectEachOmission(batch) == Cardinality(Omitted(batch))

RejectOmissions(batch) == IF Omitted(batch) = {} THEN 0 ELSE 1

\* The writer raises an exception that is no ApplicationBoundaryError: it
\* leaves defend, and the verdicts are lost with it.
WriterFails ==
  /\ pc = "narrate"
  /\ pc' = "writer_failed"
  /\ UNCHANGED <<top, dataset, verdicts, accepted, rejections, report>>

\* The client has no answer, or reports a boundary error, or the answer is
\* too long, not text, or not a batch.
NarrativeUnusable ==
  /\ pc = "narrate"
  /\ rejections' = 1
  /\ pc' = "report"
  /\ UNCHANGED <<top, dataset, verdicts, accepted, report>>

\* One rejection for each unknown or unsupported claim, one for all omitted.
Narrate ==
  /\ pc = "narrate"
  /\ \E batch \in Batches :
       /\ accepted' = [s \in DOMAIN batch \ (Unknown(batch) \cup Unsupported(batch))
                         |-> batch[s]]
       /\ rejections' = Cardinality(Unknown(batch)) + Cardinality(Unsupported(batch))
                          + RejectOmissions(batch)
  /\ pc' = "report"
  /\ UNCHANGED <<top, dataset, verdicts, report>>

\* FailureReport.validate_report_contract.
ReportContract(verified, explained, hasBaseline) ==
  /\ verified = ReproducedIds
  /\ Cardinality(Judged) = Len(verdicts)
  /\ explained = verified
  /\ verified # {} => hasBaseline

Report ==
  /\ pc = "report"
  /\ IF ReportContract(ReproducedIds, ReproducedIds, Verified)
     THEN report' = ReproducedIds /\ pc' = "defended"
     ELSE pc' = "raised" /\ UNCHANGED report
  /\ UNCHANGED <<top, dataset, verdicts, accepted, rejections>>

-----------------------------------------------------------------------------
(***************************************************************************)
(* run_offline_experiment: every selected failure must be reproduced, and  *)
(* what is written must meet the contract of DefenderArtifact.             *)
(***************************************************************************)
AllReproduced ==
  /\ Len(verdicts) = Len(top)
  /\ \A i \in DOMAIN verdicts : verdicts[i].verdict = "reproduced"

ArtifactContract ==
  /\ Len(verdicts) <= TopK
  /\ Cardinality(DOMAIN accepted) <= TopK
  /\ rejections <= TopK

RefuseRun ==
  /\ pc = "defended"
  /\ ~AllReproduced
  /\ pc' = "refused"
  /\ UNCHANGED <<top, dataset, verdicts, accepted, rejections, report>>

PublishRun ==
  /\ pc = "defended"
  /\ AllReproduced
  /\ pc' = IF ArtifactContract THEN "published" ELSE "raised"
  /\ UNCHANGED <<top, dataset, verdicts, accepted, rejections, report>>

-----------------------------------------------------------------------------
Init ==
  /\ top \in Selections
  /\ dataset \in Loads
  /\ pc = "replay" /\ verdicts = <<>>
  /\ accepted = [s \in {} |-> {}] /\ rejections = 0 /\ report = {}

Defend ==
  \/ ReplayNext \/ ReplayDone
  \/ WriterFails \/ NarrativeUnusable \/ Narrate
  \/ Report

Finished ==
  pc \in {"published", "refused", "raised", "writer_failed"} /\ UNCHANGED vars

Next == Defend \/ RefuseRun \/ PublishRun \/ Finished

Spec == Init /\ [][Next]_vars
=============================================================================
