----------------------- MODULE ExperimentServiceProofs -----------------------
(***************************************************************************)
(* Proofs about the research API, for any number of submit and reading     *)
(* requests, any keys, and any number of database failures and crashes.    *)
(***************************************************************************)
EXTENDS ExperimentServiceProperties, TLAPS

\* The types the proofs need: those of the tables, labels and sessions.
Typed ==
  /\ rows \in [Requests -> Stages]
  /\ provenance \subseteq Requests /\ results \subseteq Requests
  /\ pc \in [Requests -> Labels]
  /\ record \in [Requests -> Requests]
  /\ loaded \in [Requests -> Stages] /\ broken \subseteq Requests
  /\ DOMAIN answers = Requests

\* What the refinement rests on.
StageInvariant == Typed /\ StageOfRequest /\ CompletedHasEvidence

-----------------------------------------------------------------------------
(***************************************************************************)
(* Every step is one of four kinds for the tables.                         *)
(***************************************************************************)

\* Reading requests write neither the tables nor a submit request's state.
LEMMA ViewsOnlyRead ==
  ASSUME NEW q \in Readers, ViewStep(q) \/ ViewRaises(q)
  PROVE  UNCHANGED <<tableVars, pc, sessionVars, answers>>
  <1>1. ASSUME NEW view, Look(q, view)
        PROVE  UNCHANGED <<tableVars, pc, sessionVars, answers>>
    BY <1>1 DEF Look
  <1>2. CASE ViewRaises(q)
    BY <1>2 DEF ViewRaises
  <1>3. CASE StartReading(q) \/ CompareNext(q)
    BY <1>1, <1>3 DEF StartReading, CompareNext, ReadRow
  <1>4. CASE ListPage(q) \/ ListTotal(q)
    BY <1>1, <1>4 DEF ListPage, ListTotal
  <1>5. CASE LoadResult(q) \/ ReplyView(q)
    BY <1>1, <1>5 DEF LoadResult, ReplyView
  <1>6. QED
    BY <1>2, <1>3, <1>4, <1>5 DEF ViewStep

\* No record exists at first.
LEMMA StageInit == Init => StageInvariant
  BY DEF Init, StageInvariant, Typed, StageOfRequest, CompletedHasEvidence,
         Stages, Labels, Absent, Lifecycle!Absent, Lifecycle!RecordStatuses,
         Lifecycle!Terminal, NoAnswer

\* A submit request keeps the stage of its own record and of every other.
LEMMA StageSubmit ==
  ASSUME StageInvariant, NEW r \in Requests, SubmitStep(r)
  PROVE  StageInvariant'
  <1> USE DEF StageInvariant, Typed, StageOfRequest, CompletedHasEvidence,
              At, Goto, Answer, Committed, tableVars, sessionVars, Labels,
              Stages, Absent, Lifecycle!Absent, Lifecycle!RecordStatuses,
              Lifecycle!Terminal
  <1>1. CASE FindExisting(r)
    BY <1>1 DEF FindExisting, WithKeyOf
  <1>2. CASE FindNothing(r) \/ ManifestMissing(r) \/ ManifestFound(r)
    BY <1>2 DEF FindNothing, ManifestMissing, ManifestFound
  <1>3. CASE Create(r)
    BY <1>3 DEF Create, WriteCreated, WriteRow
  <1>4. CASE CreateConflicts(r) \/ FailRefused(r) \/ Respond(r)
    BY <1>4 DEF CreateConflicts, FailRefused, Respond
  <1>5. CASE MarkRunning(r)
    BY <1>5 DEF MarkRunning, WriteRunning, WriteRow
  <1>6. CASE DatasetValid(r) \/ ResearchDone(r) \/ WorkRaises(r)
    BY <1>6 DEF DatasetValid, ResearchDone, WorkRaises
  <1>7. CASE CommitProvenance(r)
    BY <1>7 DEF CommitProvenance, WriteProvenance
  <1>8. CASE Complete(r)
    BY <1>8 DEF Complete, WriteCompleted, WriteRow
  <1>9. CASE Fail(r)
    BY <1>9 DEF Fail, WriteFailed, WriteRow
  <1>10. CASE Refresh(r)
    BY <1>10 DEF Refresh
  <1>11. CASE ReadRaises(r)
    BY <1>11 DEF ReadRaises
  <1>12. CASE CommitRaises(r)
    <2> USE <1>12 DEF CommitRaises, Guarded
    <2>1. CASE UNCHANGED tableVars
      BY <2>1
    <2>2. CASE WriteCreated(r)
      BY <2>2 DEF WriteCreated, WriteRow
    <2>3. CASE WriteRunning(r)
      BY <2>3 DEF WriteRunning, WriteRow
    <2>4. CASE WriteProvenance(r)
      BY <2>4 DEF WriteProvenance
    <2>5. CASE WriteCompleted(r)
      BY <2>5 DEF WriteCompleted, WriteRow
    <2>6. CASE WriteFailed(r)
      BY <2>6 DEF WriteFailed, WriteRow
    <2>7. QED
      BY <2>1, <2>2, <2>3, <2>4, <2>5, <2>6 DEF Write
  <1>13. QED
    BY <1>1, <1>2, <1>3, <1>4, <1>5, <1>6, <1>7, <1>8, <1>9, <1>10, <1>11,
       <1>12
    DEF SubmitStep

\* A crash moves requests out of submit and leaves the tables as committed.
LEMMA StageNext == StageInvariant /\ [Next]_vars => StageInvariant'
  <1> SUFFICES ASSUME StageInvariant, [Next]_vars PROVE StageInvariant'
    OBVIOUS
  <1> USE DEF StageInvariant, Typed, StageOfRequest, CompletedHasEvidence,
              tableVars, sessionVars
  <1>1. ASSUME NEW r \in Requests, SubmitStep(r)
        PROVE  StageInvariant'
    BY <1>1, StageSubmit
  <1>2. ASSUME NEW q \in Readers, ViewStep(q) \/ ViewRaises(q)
        PROVE  StageInvariant'
    <2>1. UNCHANGED <<rows, provenance, results, pc, record, loaded, broken,
                      answers>>
      BY <1>2, ViewsOnlyRead
    <2>2. QED
      BY <2>1
  <1>3. CASE Crash
    BY <1>3 DEF Crash, Labels
  <1>4. CASE UNCHANGED vars
    BY <1>4 DEF vars
  <1>5. QED
    BY <1>1, <1>2, <1>3, <1>4 DEF Next, Idle

-----------------------------------------------------------------------------
(***************************************************************************)
(* Refinement: every write of submit is the step of the lifecycle that the *)
(* stage of the request allows, applied or reported as failed.             *)
(***************************************************************************)
LEMMA WriteIsLifecycleStep ==
  ASSUME StageInvariant, NEW r \in Requests, Write(r),
         pc[r] = "fail" => r \notin broken
  PROVE  [Lifecycle!LifecycleNext]_(Lifecycle!lifecycleVars)
  <1> USE DEF StageInvariant, Typed, StageOfRequest, At, WriteRow,
              Lifecycle!LifecycleNext, Lifecycle!lifecycleVars, Lifecycle!Move,
              Lifecycle!Absent, Absent
  <1>1. CASE WriteCreated(r)
    <2>1. Lifecycle!KeyFree(r)
      BY <1>1 DEF WriteCreated, KeyFree, WithKeyOf, SameKey, Exists,
                  Lifecycle!KeyFree, Lifecycle!Exists
    <2>2. Lifecycle!LifecycleCreate(r)
      BY <1>1, <2>1 DEF WriteCreated, Lifecycle!LifecycleCreate
    <2>3. QED
      BY <2>2
  <1>2. CASE WriteRunning(r)
    <2>1. Lifecycle!LifecycleStart(r)
      BY <1>2 DEF WriteRunning, Lifecycle!LifecycleStart
    <2>2. QED
      BY <2>1
  <1>3. CASE WriteProvenance(r)
    BY <1>3 DEF WriteProvenance
  <1>4. CASE WriteCompleted(r)
    <2>1. Lifecycle!LifecycleComplete(r)
      BY <1>4 DEF WriteCompleted, Lifecycle!LifecycleComplete
    <2>2. QED
      BY <2>1
  <1>5. CASE WriteFailed(r)
    <2>1. Lifecycle!LifecycleFail(r)
      BY <1>5 DEF WriteFailed, Lifecycle!LifecycleFail
    <2>2. QED
      BY <2>1
  <1>6. QED
    BY <1>1, <1>2, <1>3, <1>4, <1>5 DEF Write

\* A step of the service is a step of the lifecycle, or leaves the tables.
LEMMA StepIsLifecycleStep ==
  StageInvariant /\ [Next]_vars
    => [Lifecycle!LifecycleNext]_(Lifecycle!lifecycleVars)
  <1> SUFFICES ASSUME StageInvariant, [Next]_vars
               PROVE  [Lifecycle!LifecycleNext]_(Lifecycle!lifecycleVars)
    OBVIOUS
  <1>1. ASSUME UNCHANGED tableVars
        PROVE  UNCHANGED (Lifecycle!lifecycleVars)
    BY <1>1 DEF tableVars, Lifecycle!lifecycleVars
  <1>2. ASSUME NEW r \in Requests, SubmitStep(r)
        PROVE  UNCHANGED tableVars
               \/ (Write(r) /\ (pc[r] = "fail" => r \notin broken))
    <2>1. CASE FindExisting(r) \/ FindNothing(r) \/ ManifestMissing(r)
               \/ ManifestFound(r) \/ CreateConflicts(r) \/ DatasetValid(r)
               \/ ResearchDone(r) \/ WorkRaises(r) \/ FailRefused(r)
               \/ Refresh(r) \/ Respond(r) \/ ReadRaises(r)
      BY <2>1 DEF FindExisting, FindNothing, ManifestMissing, ManifestFound,
                  CreateConflicts, DatasetValid, ResearchDone, WorkRaises,
                  FailRefused, Refresh, Respond, ReadRaises
    <2>2. CASE Create(r) \/ MarkRunning(r) \/ CommitProvenance(r)
               \/ Complete(r) \/ Fail(r)
      BY <2>2 DEF Create, MarkRunning, CommitProvenance, Complete, Fail, Write,
                  WriteCreated, WriteRunning, WriteProvenance, WriteCompleted,
                  At
    <2>3. CASE CommitRaises(r)
      BY <2>3 DEF CommitRaises
    <2>4. QED
      BY <1>2, <2>1, <2>2, <2>3 DEF SubmitStep
  <1>3. ASSUME NEW r \in Requests, SubmitStep(r)
        PROVE  [Lifecycle!LifecycleNext]_(Lifecycle!lifecycleVars)
    BY <1>1, <1>2, <1>3, WriteIsLifecycleStep
  <1>4. CASE Crash \/ UNCHANGED vars
    BY <1>1, <1>4 DEF Crash, vars, tableVars
  <1>5. ASSUME NEW q \in Readers, ViewStep(q) \/ ViewRaises(q)
        PROVE  [Lifecycle!LifecycleNext]_(Lifecycle!lifecycleVars)
    BY <1>1, <1>5, ViewsOnlyRead DEF tableVars
  <1>6. QED
    BY <1>3, <1>4, <1>5 DEF Next, Idle

(***************************************************************************)
(* The research API implements the promised record lifecycle               *)
(* (ImplementsLifecycle) through interleaved submits, failed commits that  *)
(* were applied after all, and crashes.                                    *)
(***************************************************************************)
THEOREM Refinement == Spec => ImplementsLifecycle
  <1>1. Init => Lifecycle!LifecycleInit
    BY DEF Init, Lifecycle!LifecycleInit, Absent
  <1>2. QED
    BY <1>1, StageInit, StageNext, StepIsLifecycleStep, PTL
    DEF Spec, ImplementsLifecycle, Lifecycle!LifecycleSpec

(***************************************************************************)
(* A COMPLETED record, and no other, has its result, and it is stamped     *)
(* with the hash of its dataset (CompletedHasEvidence).                    *)
(***************************************************************************)
THEOREM CompletedMeansEvidence == Spec => []CompletedHasEvidence
  <1>1. StageInvariant => CompletedHasEvidence
    BY DEF StageInvariant
  <1>2. QED
    BY <1>1, StageInit, StageNext, PTL DEF Spec

-----------------------------------------------------------------------------
(***************************************************************************)
(* Keys: what the lifecycle allows already keeps records and their keys    *)
(* apart, so both facts are taken from the abstract step.                  *)
(***************************************************************************)

\* No record disappears, and only one made by a free key appears.
LEMMA RecordsStay ==
  ASSUME StageInvariant, [Next]_vars
  PROVE  \A e \in Requests :
           /\ Exists(e) => Exists(e)'
           /\ ~Exists(e) /\ Exists(e)' =>
                Lifecycle!KeyFree(e) /\ \A f \in Requests \ {e} : Exists(f)' => Exists(f)
  <1> USE DEF StageInvariant, Typed, Exists, Lifecycle!Exists,
              Lifecycle!Absent, Lifecycle!Move
  <1>1. CASE UNCHANGED (Lifecycle!lifecycleVars)
    BY <1>1 DEF Lifecycle!lifecycleVars
  <1>2. ASSUME NEW r \in Requests,
               \/ Lifecycle!LifecycleStart(r) \/ Lifecycle!LifecycleComplete(r)
               \/ Lifecycle!LifecycleFail(r)
        PROVE  \A e \in Requests : Exists(e)' <=> Exists(e)
    BY <1>2 DEF Lifecycle!LifecycleStart, Lifecycle!LifecycleComplete,
                Lifecycle!LifecycleFail
  <1>3. ASSUME NEW r \in Requests, Lifecycle!LifecycleCreate(r)
        PROVE  /\ Lifecycle!KeyFree(r)
               /\ \A e \in Requests : Exists(e)' <=> Exists(e) \/ e = r
    BY <1>3 DEF Lifecycle!LifecycleCreate
  <1>4. CASE Lifecycle!LifecycleNext
    <2> HIDE DEF Exists, Lifecycle!Move
    <2>1. PICK r \in Requests :
            \/ Lifecycle!LifecycleCreate(r) \/ Lifecycle!LifecycleStart(r)
            \/ Lifecycle!LifecycleComplete(r) \/ Lifecycle!LifecycleFail(r)
      BY <1>4 DEF Lifecycle!LifecycleNext
    <2>2. QED
      BY <1>2, <1>3, <2>1
  <1>5. QED
    BY <1>1, <1>4, StepIsLifecycleStep

\* No step gives two records one key.
LEMMA KeysNext ==
  ASSUME StageInvariant, KeysAreUnique, [Next]_vars
  PROVE  KeysAreUnique'
  <1> SUFFICES ASSUME NEW e \in Requests, NEW f \in Requests,
                      Exists(e)', Exists(f)', SameKey(e, f)
               PROVE  e = f
    BY DEF KeysAreUnique, SameKey
  <1>1. CASE Exists(e) /\ Exists(f)
    BY <1>1 DEF KeysAreUnique
  <1>2. ASSUME NEW a \in Requests, NEW b \in Requests, ~Exists(a),
               Exists(a)', Exists(b)', SameKey(a, b), a # b
        PROVE  FALSE
    <2>1. Lifecycle!KeyFree(a) /\ Exists(b)
      BY <1>2, RecordsStay
    <2>2. QED
      BY <1>2, <2>1 DEF Lifecycle!KeyFree, Lifecycle!Exists, Exists, SameKey
  <1>3. SameKey(f, e)
    BY DEF SameKey
  <1>4. QED
    BY <1>1, <1>2, <1>3

\* The record id is one request r may answer with after the step.
StillAdmissible(r, id) == rows'[id] # Absent /\ (id = r \/ SameKey(r, id))

\* What a request may answer with stays so.
LEMMA AdmissibleStays ==
  ASSUME StageInvariant, [Next]_vars
  PROVE  \A r, id \in Requests : Admissible(r, id) => StillAdmissible(r, id)
  BY RecordsStay DEF Admissible, StillAdmissible, Exists, Lifecycle!Exists,
                     Absent

\* The answers carry record ids.
AnswerIds == \A r \in Requests : answers[r].code = 201 => answers[r].id \in Requests

KeyInvariant ==
  StageInvariant /\ KeysAreUnique /\ AnswersAreAdmissible /\ AnswerIds

\* No request has been answered at first.
LEMMA KeyInit == Init => KeyInvariant
  <1> SUFFICES ASSUME Init PROVE KeyInvariant
    OBVIOUS
  <1>1. KeysAreUnique
    BY DEF Init, KeysAreUnique, Exists, Lifecycle!Exists, Absent
  <1>2. AnswersAreAdmissible /\ AnswerIds
    BY DEF Init, AnswersAreAdmissible, AnswerIds, NoAnswer
  <1>3. QED
    BY <1>1, <1>2, StageInit DEF KeyInvariant

\* Only a few steps matter: finding a record by its key, ending the own
\* record, and answering.
LEMMA AnswersSubmit ==
  ASSUME KeyInvariant, [Next]_vars, NEW r \in Requests, SubmitStep(r)
  PROVE  AnswersAreAdmissible' /\ AnswerIds'
  <1> USE DEF KeyInvariant, StageInvariant, Typed
  <1> SUFFICES ASSUME NEW s \in Requests
               PROVE  /\ pc'[s] \in {"refresh", "respond"} =>
                           StillAdmissible(s, record'[s])
                      /\ pc'[s] \notin {"respond", "answered", "lost"} =>
                           record'[s] = s
                      /\ answers'[s].code = 201 =>
                           StillAdmissible(s, answers'[s].id) /\ answers'[s].id \in Requests
    BY DEF AnswersAreAdmissible, AnswerIds, Admissible, StillAdmissible,
           SameKey, Exists, Lifecycle!Exists, Absent
  <1>a. /\ pc[s] \in {"refresh", "respond"} => StillAdmissible(s, record[s])
        /\ pc[s] \notin {"respond", "answered", "lost"} => record[s] = s
        /\ answers[s].code = 201 =>
             StillAdmissible(s, answers[s].id) /\ answers[s].id \in Requests
        /\ record[s] \in Requests
    BY AdmissibleStays DEF AnswersAreAdmissible, AnswerIds
  <1>1. CASE pc'[s] = pc[s] /\ record'[s] = record[s] /\ answers'[s] = answers[s]
    BY <1>1, <1>a
  <1>2. CASE s # r
    <2>1. pc'[s] = pc[s] /\ record'[s] = record[s] /\ answers'[s] = answers[s]
      BY <1>2
      DEF SubmitStep, FindExisting, FindNothing, ManifestMissing,
          ManifestFound, Create, CreateConflicts, MarkRunning, DatasetValid,
          CommitProvenance, ResearchDone, WorkRaises, Complete, Fail,
          FailRefused, Refresh, Respond, CommitRaises, ReadRaises, Committed,
          Answer, Goto, sessionVars
    <2>2. QED
      BY <1>1, <2>1
  <1>3. CASE s = r
    <2> USE <1>3 DEF At, Goto, Answer, Committed, sessionVars, tableVars
    <2>1. CASE FindExisting(r)
      <3>1. /\ pc'[s] = "respond" /\ answers'[s] = answers[s]
            /\ StillAdmissible(s, record'[s])
        BY <2>1 DEF FindExisting, WithKeyOf, StillAdmissible, Exists,
                    Lifecycle!Exists, Absent
      <3>2. QED
        BY <1>a, <3>1
    <2>2. CASE FindNothing(r) \/ ManifestFound(r) \/ Create(r)
               \/ MarkRunning(r) \/ DatasetValid(r) \/ CommitProvenance(r)
               \/ ResearchDone(r) \/ WorkRaises(r)
      <3>1. /\ pc[s] \notin {"respond", "answered", "lost"}
            /\ pc'[s] \notin {"refresh", "respond", "answered", "lost"}
            /\ record'[s] = record[s] /\ answers'[s] = answers[s]
        BY <2>2 DEF FindNothing, ManifestFound, Create, WriteCreated,
                    MarkRunning, WriteRunning, DatasetValid, CommitProvenance,
                    WriteProvenance, ResearchDone, WorkRaises
      <3>2. QED
        BY <1>a, <3>1
    <2>3. CASE Complete(r) \/ Fail(r)
      <3>1. /\ pc[s] \notin {"respond", "answered", "lost"}
            /\ pc'[s] = "refresh" /\ rows'[s] \in {"COMPLETED", "FAILED"}
            /\ record'[s] = record[s] /\ answers'[s] = answers[s]
        BY <2>3 DEF Complete, WriteCompleted, Fail, WriteFailed, WriteRow
      <3>2. StillAdmissible(s, record'[s])
        BY <1>a, <3>1 DEF StillAdmissible, Absent, Lifecycle!Absent
      <3>3. QED
        BY <1>a, <3>1, <3>2
    <2>4. CASE Refresh(r)
      <3>1. /\ pc[s] \in {"created", "refresh"}
            /\ pc'[s] = IF pc[s] = "created" THEN "mark_running" ELSE "respond"
            /\ record'[s] = record[s] /\ answers'[s] = answers[s]
        BY <2>4 DEF Refresh
      <3>2. QED
        BY <1>a, <3>1
    <2>5. CASE Respond(r)
      <3>1. /\ pc[s] = "respond" /\ pc'[s] = "answered"
            /\ answers'[s].id = record[s] /\ record'[s] = record[s]
        BY <2>5 DEF Respond, Shown
      <3>2. QED
        BY <1>a, <3>1
    <2>6. CASE ManifestMissing(r) \/ CreateConflicts(r) \/ FailRefused(r)
               \/ ReadRaises(r)
      <3>1. pc'[s] = "answered" /\ answers'[s].code # 201
        BY <2>6 DEF ManifestMissing, CreateConflicts, FailRefused, ReadRaises,
                    Refusal
      <3>2. QED
        BY <3>1
    <2>7. CASE CommitRaises(r)
      <3>1. CASE pc'[s] = "answered" /\ answers'[s].code # 201
        BY <3>1
      <3>2. CASE pc[s] \in Guarded /\ pc'[s] = "fail" /\ answers'[s] = answers[s]
        BY <1>a, <2>7, <3>2 DEF CommitRaises, Guarded
      <3>3. QED
        BY <2>7, <3>1, <3>2 DEF CommitRaises, Refusal
    <2>8. QED
      BY <2>1, <2>2, <2>3, <2>4, <2>5, <2>6, <2>7 DEF SubmitStep
  <1>4. QED
    BY <1>2, <1>3

\* Every step keeps the keys unique and the answers admissible.
LEMMA KeyNext == KeyInvariant /\ [Next]_vars => KeyInvariant'
  <1> SUFFICES ASSUME KeyInvariant, [Next]_vars PROVE KeyInvariant'
    OBVIOUS
  <1>1. StageInvariant' /\ KeysAreUnique'
    BY StageNext, KeysNext DEF KeyInvariant
  <1>2. ASSUME NEW r \in Requests, SubmitStep(r)
        PROVE  AnswersAreAdmissible' /\ AnswerIds'
    BY <1>2, AnswersSubmit
  <1>3. ASSUME UNCHANGED <<record, answers>>,
               \A r \in Requests : pc'[r] = pc[r] \/ pc'[r] = "lost"
        PROVE  AnswersAreAdmissible' /\ AnswerIds'
    <2>1. AnswerIds'
      BY <1>3 DEF KeyInvariant, AnswerIds
    <2>2. ASSUME NEW r \in Requests
          PROVE  /\ pc'[r] \in {"refresh", "respond"} =>
                      StillAdmissible(r, record'[r])
                 /\ pc'[r] \notin {"respond", "answered", "lost"} =>
                      record'[r] = r
                 /\ answers'[r].code = 201 =>
                      StillAdmissible(r, answers'[r].id)
      <3>1. record[r] \in Requests
        BY DEF KeyInvariant, StageInvariant, Typed
      <3>2. /\ pc[r] \in {"refresh", "respond"} => Admissible(r, record[r])
            /\ pc[r] \notin {"respond", "answered", "lost"} => record[r] = r
            /\ answers[r].code = 201 =>
                 Admissible(r, answers[r].id) /\ answers[r].id \in Requests
        BY DEF KeyInvariant, AnswersAreAdmissible, AnswerIds
      <3>3. QED
        BY <1>3, <3>1, <3>2, AdmissibleStays DEF KeyInvariant
    <2>3. QED
      BY <2>1, <2>2 DEF AnswersAreAdmissible, Admissible, StillAdmissible,
                         SameKey, Exists, Lifecycle!Exists, Absent
  <1>4. ASSUME NEW q \in Readers, ViewStep(q) \/ ViewRaises(q)
        PROVE  AnswersAreAdmissible' /\ AnswerIds'
    BY <1>3, <1>4, ViewsOnlyRead DEF sessionVars
  <1>5. CASE Crash
    <2>1. \A r \in Requests : pc'[r] = pc[r] \/ pc'[r] = "lost"
      BY <1>5 DEF Crash
    <2>2. UNCHANGED <<record, answers>>
      BY <1>5 DEF Crash, sessionVars
    <2>3. QED
      BY <1>1, <1>3, <2>1, <2>2 DEF KeyInvariant
  <1>6. CASE UNCHANGED vars
    <2>1. pc' = pc /\ UNCHANGED <<record, answers>>
      BY <1>6 DEF vars
    <2>2. QED
      BY <1>1, <1>3, <2>1 DEF KeyInvariant
  <1>7. QED
    BY <1>1, <1>2, <1>4, <1>5, <1>6 DEF KeyInvariant, Next, Idle

(***************************************************************************)
(* Requests with one idempotency key are never answered with two records   *)
(* (SameKeySameRecord).                                                    *)
(***************************************************************************)
THEOREM OneRecordPerKey == Spec => []SameKeySameRecord
  <1>1. KeyInvariant => SameKeySameRecord
    <2> SUFFICES ASSUME KeyInvariant, NEW r \in Requests, NEW s \in Requests,
                        answers[r].code = 201, answers[s].code = 201,
                        SameKey(r, s)
                 PROVE  answers[r].id = answers[s].id
      BY DEF SameKeySameRecord
    <2> DEFINE e == answers[r].id
               f == answers[s].id
    <2>1. /\ e \in Requests /\ f \in Requests /\ Exists(e) /\ Exists(f)
          /\ e = r \/ SameKey(r, e)
          /\ f = s \/ SameKey(s, f)
      BY DEF KeyInvariant, AnswersAreAdmissible, AnswerIds, Admissible
    <2>2. SameKey(e, f)
      BY <2>1 DEF SameKey
    <2>3. QED
      BY <2>1, <2>2 DEF KeyInvariant, KeysAreUnique
  <1>2. QED
    BY <1>1, KeyInit, KeyNext, PTL DEF Spec

-----------------------------------------------------------------------------
(***************************************************************************)
(* What a submit request shows of its record.                              *)
(***************************************************************************)

\* Results are never deleted.
LEMMA ResultsStay ==
  ASSUME [Next]_vars
  PROVE  results \subseteq results'
  <1>1. ASSUME NEW r \in Requests, SubmitStep(r)
        PROVE  results \subseteq results'
    <2>1. CASE FindExisting(r) \/ FindNothing(r) \/ ManifestMissing(r)
               \/ ManifestFound(r) \/ CreateConflicts(r) \/ DatasetValid(r)
               \/ ResearchDone(r) \/ WorkRaises(r) \/ FailRefused(r)
               \/ Refresh(r) \/ Respond(r) \/ ReadRaises(r)
      BY <2>1 DEF FindExisting, FindNothing, ManifestMissing, ManifestFound,
                  CreateConflicts, DatasetValid, ResearchDone, WorkRaises,
                  FailRefused, Refresh, Respond, ReadRaises, tableVars
    <2>2. ASSUME Write(r) PROVE results \subseteq results'
      BY <2>2 DEF Write, WriteCreated, WriteRunning, WriteProvenance,
                  WriteCompleted, WriteFailed
    <2>3. CASE Create(r) \/ MarkRunning(r) \/ CommitProvenance(r)
               \/ Complete(r) \/ Fail(r)
      BY <2>2, <2>3 DEF Create, MarkRunning, CommitProvenance, Complete, Fail,
                        Write
    <2>4. CASE CommitRaises(r)
      BY <2>2, <2>4 DEF CommitRaises, tableVars
    <2>5. QED
      BY <1>1, <2>1, <2>3, <2>4 DEF SubmitStep
  <1>2. ASSUME NEW q \in Readers, ViewStep(q) \/ ViewRaises(q)
        PROVE  results \subseteq results'
    BY <1>2, ViewsOnlyRead DEF tableVars
  <1>3. CASE Crash \/ UNCHANGED vars
    BY <1>3 DEF Crash, vars, tableVars
  <1>4. QED
    BY <1>1, <1>2, <1>3 DEF Next, Idle

\* What EndsAreShown says of one request.
EndIsShown(r) ==
  /\ pc[r] = "refresh" => rows[r] \in Lifecycle!Terminal
  /\ pc[r] = "respond" =>
       /\ loaded[r] = "COMPLETED" => record[r] \in results
       /\ record[r] = r => loaded[r] \in Lifecycle!Terminal
  /\ answers[r].code = 201 =>
       /\ answers[r].status = "COMPLETED" => answers[r].hasResult
       /\ answers[r].id = r => answers[r].status \in Lifecycle!Terminal

\* A request that stands still, or is lost, shows what it did.
LEMMA EndStays ==
  ASSUME EndsAreShown, [Next]_vars, NEW r \in Requests,
         pc'[r] \in {pc[r], "lost", "answered"},
         pc'[r] = pc[r] => /\ record'[r] = record[r] /\ loaded'[r] = loaded[r]
                           /\ rows'[r] = rows[r],
         answers'[r] = answers[r] \/ answers'[r].code # 201
  PROVE  EndIsShown(r)'
  BY ResultsStay DEF EndsAreShown, EndIsShown

\* The steps of submit, for the request that takes them.
LEMMA EndSubmitted ==
  ASSUME KeyInvariant, EndsAreShown, [Next]_vars, NEW r \in Requests,
         SubmitStep(r)
  PROVE  EndIsShown(r)'
  <1> USE DEF KeyInvariant, StageInvariant, Typed, At, Goto, Answer, Committed,
              sessionVars, tableVars
  <1>0. EndIsShown(r)
    BY DEF EndsAreShown, EndIsShown
  <1>1. CASE FindExisting(r)
    <2>1. PICK e \in WithKeyOf(r) :
            /\ record' = [record EXCEPT ![r] = e]
            /\ loaded' = [loaded EXCEPT ![r] = rows[e]]
      BY <1>1 DEF FindExisting
    <2>2. e \in Requests /\ Exists(e) /\ rows[r] = Absent
      BY <1>1 DEF WithKeyOf, FindExisting, StageOfRequest
    <2>3. e # r
      BY <2>2 DEF Exists, Lifecycle!Exists, Absent
    <2>4. rows[e] = "COMPLETED" => e \in results
      BY <2>2 DEF CompletedHasEvidence
    <2>5. /\ record'[r] = e /\ loaded'[r] = rows[e] /\ pc'[r] = "respond"
          /\ results' = results /\ answers' = answers
      BY <1>1, <2>1, <2>2 DEF FindExisting
    <2>6. QED
      BY <1>0, <2>3, <2>4, <2>5 DEF EndIsShown
  <1>2. CASE FindNothing(r) \/ ManifestFound(r) \/ Create(r)
             \/ MarkRunning(r) \/ DatasetValid(r) \/ CommitProvenance(r)
             \/ ResearchDone(r) \/ WorkRaises(r)
    <2>1. pc'[r] \notin {"refresh", "respond"} /\ answers' = answers
      BY <1>2 DEF FindNothing, ManifestFound, Create, MarkRunning,
                  DatasetValid, CommitProvenance, ResearchDone, WorkRaises
    <2>2. QED
      BY <1>0, <2>1 DEF EndIsShown
  <1>3. CASE Complete(r) \/ Fail(r)
    <2>1. /\ pc'[r] = "refresh" /\ rows'[r] \in Lifecycle!Terminal
          /\ answers' = answers
      BY <1>3 DEF Complete, WriteCompleted, Fail, WriteFailed, WriteRow,
                  Lifecycle!Terminal
    <2>2. QED
      BY <1>0, <2>1 DEF EndIsShown
  <1>4. CASE Refresh(r)
    <2>1. CASE pc[r] = "created"
      BY <1>0, <1>4, <2>1 DEF Refresh, EndIsShown
    <2>2. CASE pc[r] = "refresh"
      <3>1. /\ pc'[r] = "respond" /\ loaded'[r] = rows[r]
            /\ record'[r] = record[r]
            /\ results' = results /\ answers' = answers
        BY <1>4, <2>2 DEF Refresh
      <3>2. rows[r] \in Lifecycle!Terminal /\ record[r] = r
        BY <1>0, <2>2 DEF EndIsShown, AnswersAreAdmissible
      <3>3. rows[r] = "COMPLETED" => r \in results
        BY DEF CompletedHasEvidence
      <3>4. QED
        BY <1>0, <3>1, <3>2, <3>3 DEF EndIsShown
    <2>3. QED
      BY <1>4, <2>1, <2>2 DEF Refresh
  <1>5. CASE Respond(r)
    <2>1. /\ pc'[r] = "answered"
          /\ answers'[r] = Shown(record[r], loaded[r], record[r] \in results)
      BY <1>5 DEF Respond
    <2>2. /\ answers'[r].id = record[r] /\ answers'[r].status = loaded[r]
          /\ answers'[r].hasResult = (record[r] \in results)
      BY <2>1 DEF Shown
    <2>3. /\ loaded[r] = "COMPLETED" => record[r] \in results
          /\ record[r] = r => loaded[r] \in Lifecycle!Terminal
      BY <1>0, <1>5 DEF EndIsShown, Respond
    <2>4. QED
      BY <2>1, <2>2, <2>3 DEF EndIsShown
  <1>6. CASE ManifestMissing(r) \/ CreateConflicts(r) \/ FailRefused(r)
             \/ ReadRaises(r)
    <2>1. pc'[r] = "answered" /\ answers'[r].code # 201
      BY <1>6 DEF ManifestMissing, CreateConflicts, FailRefused, ReadRaises,
                  Refusal
    <2>2. QED
      BY <2>1 DEF EndIsShown
  <1>7. CASE CommitRaises(r)
    <2>1. \/ pc'[r] = "fail" /\ answers' = answers
          \/ pc'[r] = "answered" /\ answers'[r].code # 201
      BY <1>7 DEF CommitRaises, Refusal
    <2>2. QED
      BY <1>0, <2>1 DEF EndIsShown
  <1>8. QED
    BY <1>1, <1>2, <1>3, <1>4, <1>5, <1>6, <1>7 DEF SubmitStep

\* A submit request changes nothing of another one.
LEMMA OthersStandStill ==
  ASSUME Typed, NEW r \in Requests, SubmitStep(r), NEW s \in Requests, s # r
  PROVE  /\ pc'[s] = pc[s] /\ record'[s] = record[s] /\ loaded'[s] = loaded[s]
         /\ answers'[s] = answers[s] /\ rows'[s] = rows[s]
  <1> USE DEF Typed, At, Goto, Answer, Committed, sessionVars, tableVars
  <1>1. CASE FindExisting(r) \/ FindNothing(r) \/ ManifestMissing(r)
             \/ ManifestFound(r) \/ CreateConflicts(r) \/ DatasetValid(r)
             \/ ResearchDone(r) \/ WorkRaises(r) \/ FailRefused(r)
             \/ Refresh(r) \/ Respond(r) \/ ReadRaises(r)
    BY <1>1 DEF FindExisting, FindNothing, ManifestMissing, ManifestFound,
                CreateConflicts, DatasetValid, ResearchDone, WorkRaises,
                FailRefused, Refresh, Respond, ReadRaises
  <1>2. ASSUME Write(r) PROVE rows'[s] = rows[s]
    BY <1>2 DEF Write, WriteCreated, WriteRunning, WriteProvenance,
                WriteCompleted, WriteFailed, WriteRow
  <1>3. CASE Create(r) \/ MarkRunning(r) \/ CommitProvenance(r)
             \/ Complete(r) \/ Fail(r)
    BY <1>2, <1>3 DEF Create, MarkRunning, CommitProvenance, Complete, Fail,
                      Write
  <1>4. CASE CommitRaises(r)
    <2>1. rows'[s] = rows[s]
      BY <1>2, <1>4 DEF CommitRaises
    <2>2. QED
      BY <1>4, <2>1 DEF CommitRaises
  <1>5. QED
    BY <1>1, <1>3, <1>4 DEF SubmitStep

\* Every step keeps what submit requests show.
LEMMA EndsNext ==
  ASSUME KeyInvariant, EndsAreShown, [Next]_vars
  PROVE  EndsAreShown'
  <1> SUFFICES ASSUME NEW s \in Requests PROVE EndIsShown(s)'
    BY DEF EndsAreShown, EndIsShown
  <1>1. ASSUME NEW r \in Requests, SubmitStep(r)
        PROVE  EndIsShown(s)'
    <2>1. CASE s = r
      BY <1>1, <2>1, EndSubmitted
    <2>2. CASE s # r
      BY <1>1, <2>2, OthersStandStill, EndStays DEF KeyInvariant, StageInvariant
    <2>3. QED
      BY <2>1, <2>2
  <1>2. ASSUME NEW q \in Readers, ViewStep(q) \/ ViewRaises(q)
        PROVE  EndIsShown(s)'
    BY <1>2, ViewsOnlyRead, EndStays DEF tableVars, sessionVars
  <1>3. CASE Crash
    <2>1. pc'[s] \in {pc[s], "lost"}
      BY <1>3 DEF Crash
    <2>2. QED
      BY <1>3, <2>1, EndStays DEF Crash, tableVars, sessionVars
  <1>4. CASE UNCHANGED vars
    BY <1>4, EndStays DEF vars
  <1>5. QED
    BY <1>1, <1>2, <1>3, <1>4 DEF Next, Idle

-----------------------------------------------------------------------------
(***************************************************************************)
(* What a reading request has loaded, and what it answers.                 *)
(***************************************************************************)
IsView(view) == DOMAIN view = DOMAIN FreshView

LEMMA ViewFields ==
  DOMAIN FreshView =
    {"at", "kind", "filter", "items", "pending", "found", "total", "code"}
  BY DEF FreshView

\* An answer given from what has been loaded.
LEMMA ReplyFields ==
  ASSUME NEW view, IsView(view), NEW code
  PROVE  /\ IsView(Reply(view, code))
         /\ Reply(view, code).at = "answered" /\ Reply(view, code).code = code
         /\ Reply(view, code).items = view.items
         /\ Reply(view, code).pending = view.pending
         /\ Reply(view, code).found = view.found
         /\ Reply(view, code).kind = view.kind
         /\ CompletedIn(Reply(view, code)) = CompletedIn(view)
  BY ViewFields DEF IsView, Reply, CompletedIn

\* A view that is sound stays so while results are added.
LEMMA SoundStays ==
  ASSUME NEW view, NEW stored, NEW more, stored \subseteq more,
         SoundView(view, stored)
  PROVE  SoundView(view, more)
  BY DEF SoundView

\* A refusal is sound whatever it was to show, if not a conflict.
LEMMA ReplySound ==
  ASSUME NEW view, IsView(view), NEW stored, NEW code,
         CompletedIn(view) \subseteq stored,
         code = 200 => CompletedIn(view) \subseteq view.found,
         code = 409 => CompletedIn(view) # DOMAIN view.items
  PROVE  IsView(Reply(view, code)) /\ SoundView(Reply(view, code), stored)
  BY ReplyFields DEF SoundView

\* What reading a row adds to a view.
LEMMA RowFields ==
  ASSUME NEW view, IsView(view), NEW kind, NEW id
  PROVE  LET v == WithRow(view, kind, id)
         IN  /\ IsView(v) /\ v.at = "results" /\ v.code = view.code
             /\ v.pending = {id} /\ v.found = view.found
             /\ DOMAIN v.items = DOMAIN view.items \cup {id}
             /\ \A i \in DOMAIN view.items : v.items[i] = view.items[i]
             /\ id \notin DOMAIN view.items => v.items[id] = rows[id]
  BY ViewFields DEF IsView, WithRow

\* Reading a row, of which the session holds none yet.
LEMMA ReadRowSound ==
  ASSUME StageInvariant, NEW q \in Readers, NEW kind, NEW id \in Requests,
         DOMAIN views = Readers, IsView(views[q]),
         SoundView(views[q], results),
         views[q].at # "answered",
         id \notin DOMAIN views[q].items,
         CompletedIn(views[q]) \subseteq views[q].found,
         ReadRow(q, kind, id)
  PROVE  IsView(views'[q]) /\ SoundView(views'[q], results)
  <1> DEFINE view == views[q]
             row  == WithRow(view, kind, id)
  <1>1. /\ IsView(row) /\ row.at = "results" /\ row.code = 0
        /\ row.pending = {id} /\ row.found = view.found
        /\ DOMAIN row.items = DOMAIN view.items \cup {id}
        /\ \A i \in DOMAIN view.items : row.items[i] = view.items[i]
        /\ row.items[id] = rows[id]
    BY RowFields DEF SoundView
  <1>2. CompletedIn(row) =
          CompletedIn(view) \cup (IF rows[id] = "COMPLETED" THEN {id} ELSE {})
    BY <1>1 DEF CompletedIn
  <1>3. rows[id] = "COMPLETED" => id \in results
    BY DEF StageInvariant, CompletedHasEvidence
  <1>4. CompletedIn(row) \subseteq results
    BY <1>2, <1>3 DEF SoundView
  <1>5. CASE ~Exists(id)
    <2> DEFINE kept == [view EXCEPT !.kind = kind]
    <2>1. /\ IsView(kept) /\ kept.items = view.items
          /\ CompletedIn(kept) = CompletedIn(view)
      BY ViewFields DEF IsView, CompletedIn
    <2>2. views'[q] = Reply(kept, 404)
      BY <1>5 DEF ReadRow, Look
    <2>3. CompletedIn(view) \subseteq results
      BY DEF SoundView
    <2> HIDE DEF kept
    <2>4. QED
      BY <2>1, <2>2, <2>3, ReplySound
  <1>6. CASE Exists(id) /\ Wanted(kind, id)
    <2>1. views'[q] = row
      BY <1>6 DEF ReadRow, Look
    <2> HIDE DEF row
    <2>2. QED
      BY <1>1, <1>2, <1>4, <2>1 DEF SoundView, view
  <1>7. CASE Exists(id) /\ ~Wanted(kind, id)
    <2>1. views'[q] = Reply(row, 409)
      BY <1>7 DEF ReadRow, Look
    <2>2. id \notin CompletedIn(row) /\ id \in DOMAIN row.items
      BY <1>1, <1>7 DEF Wanted, CompletedIn
    <2> HIDE DEF row
    <2>3. QED
      BY <1>1, <1>4, <2>1, <2>2, ReplySound
  <1>8. QED
    BY <1>5, <1>6, <1>7

\* A page shows what is committed, and a total changes nothing of it.
LEMMA ListSound ==
  ASSUME StageInvariant, NEW q \in Readers,
         DOMAIN views = Readers, IsView(views[q]),
         SoundView(views[q], results), ListPage(q) \/ ListTotal(q)
  PROVE  IsView(views'[q]) /\ SoundView(views'[q], results)
  <1>1. CASE ListPage(q)
    <2>1. PICK status :
            views'[q] = Listed([views[q] EXCEPT !.kind = "list", !.filter = status])
      BY <1>1 DEF ListPage, Look
    <2> DEFINE asked == [views[q] EXCEPT !.kind = "list", !.filter = status]
               page  == Matching(status)
    <2>2. /\ IsView(asked) /\ asked.at = "idle" /\ asked.filter = status
          /\ asked.code = 0
      BY <1>1, ViewFields DEF IsView, ListPage, Viewing, SoundView
    <2> HIDE DEF asked
    <2>3. views'[q] = [WithPage(asked) EXCEPT !.at = "count"]
      BY <2>1, <2>2 DEF Listed, asked
    <2>4. /\ IsView(views'[q]) /\ views'[q].at = "count" /\ views'[q].code = 0
          /\ views'[q].items = [id \in page |-> rows[id]]
          /\ views'[q].pending = page
      BY <2>2, <2>3, ViewFields DEF WithPage, IsView
    <2>5. \A id \in page : rows[id] = "COMPLETED" => id \in results
      BY DEF Matching, StageInvariant, CompletedHasEvidence
    <2> HIDE DEF page
    <2>6. /\ CompletedIn(views'[q]) \subseteq results
          /\ CompletedIn(views'[q]) \subseteq page
          /\ DOMAIN views'[q].items = page
      BY <2>4, <2>5 DEF CompletedIn
    <2>7. QED
      BY <2>4, <2>6 DEF SoundView
  <1>2. CASE ListTotal(q)
    <2>1. views'[q] = [WithTotal(views[q]) EXCEPT !.at = "results"]
          /\ views[q].at = "count"
      BY <1>2 DEF ListTotal, Look, Listed, Viewing
    <2>2. /\ IsView(views'[q]) /\ views'[q].at = "results"
          /\ views'[q].code = views[q].code /\ views'[q].items = views[q].items
          /\ views'[q].pending = views[q].pending
          /\ views'[q].found = views[q].found
      BY <2>1, ViewFields DEF WithTotal, IsView
    <2>3. CompletedIn(views'[q]) = CompletedIn(views[q])
      BY <2>2 DEF CompletedIn
    <2>4. QED
      BY <2>1, <2>2, <2>3 DEF SoundView
  <1>3. QED
    BY <1>1, <1>2

\* Looking for a result finds that of a COMPLETED record.
LEMMA LoadSound ==
  ASSUME NEW q \in Readers, DOMAIN views = Readers, IsView(views[q]),
         SoundView(views[q], results), LoadResult(q)
  PROVE  IsView(views'[q]) /\ SoundView(views'[q], results)
  <1> DEFINE old == views[q]
             After(id) == [old EXCEPT !.pending = @ \ {id},
                                      !.found = IF id \in results THEN @ \cup {id} ELSE @]
  <1>1. old.at = "results" /\ old.code = 0
    BY DEF LoadResult, Viewing, SoundView
  <1>2. PICK id \in old.pending :
          views'[q] = IF id \notin results /\ After(id).kind \in {"result", "compare"}
                      THEN Reply(After(id), 409) ELSE After(id)
    BY DEF LoadResult, Look
  <1> DEFINE view == After(id)
  <1>3. /\ IsView(view) /\ view.at = "results" /\ view.code = 0
        /\ view.items = old.items /\ view.pending = old.pending \ {id}
        /\ view.found = IF id \in results THEN old.found \cup {id} ELSE old.found
    BY <1>1, ViewFields DEF IsView
  <1> HIDE DEF view
  <1>4. CompletedIn(view) = CompletedIn(old)
    BY <1>3 DEF CompletedIn
  <1>5. /\ CompletedIn(old) \subseteq results
        /\ CompletedIn(old) \subseteq old.pending \cup old.found
        /\ old.pending \subseteq DOMAIN old.items
    BY <1>1 DEF SoundView
  <1>6. CompletedIn(view) \subseteq view.pending \cup view.found
    BY <1>3, <1>4, <1>5
  <1>7. CASE id \notin results /\ view.kind \in {"result", "compare"}
    <2>1. views'[q] = Reply(view, 409)
      BY <1>2, <1>7 DEF view
    <2>2. CompletedIn(view) # DOMAIN view.items
      BY <1>2, <1>3, <1>4, <1>5, <1>7
    <2>3. QED
      BY <1>3, <1>4, <1>5, <2>1, <2>2, ReplySound
  <1>8. CASE ~(id \notin results /\ view.kind \in {"result", "compare"})
    <2>1. views'[q] = view
      BY <1>2, <1>8 DEF view
    <2>2. QED
      BY <1>3, <1>4, <1>5, <1>6, <2>1 DEF SoundView
  <1>9. QED
    BY <1>7, <1>8

\* Every statement of a reading request keeps its view sound.
LEMMA ViewStepSound ==
  ASSUME StageInvariant, ViewsAreSound, NEW q \in Readers,
         ViewStep(q) \/ ViewRaises(q)
  PROVE  IsView(views'[q]) /\ SoundView(views'[q], results)
  <1>0. /\ DOMAIN views = Readers /\ IsView(views[q])
        /\ SoundView(views[q], results)
    BY DEF ViewsAreSound, IsView
  <1>1. CASE StartReading(q)
    <2>1. views[q] = FreshView
      BY <1>0, <1>1 DEF StartReading, Viewing, SoundView
    <2>2. DOMAIN views[q].items = {} /\ views[q].at = "idle"
      BY <2>1 DEF FreshView, NoRows
    <2>3. CompletedIn(views[q]) = {}
      BY <2>2 DEF CompletedIn
    <2>4. PICK kind \in Kinds \ {"list"}, id \in Requests : ReadRow(q, kind, id)
      BY <1>1 DEF StartReading
    <2>5. QED
      BY <1>0, <2>2, <2>3, <2>4, ReadRowSound
  <1>2. CASE CompareNext(q)
    <2>1. views[q].at = "results" /\ views[q].pending = {}
      BY <1>2 DEF CompareNext, Viewing
    <2>2. CompletedIn(views[q]) \subseteq views[q].found
      BY <1>0, <2>1 DEF SoundView
    <2>3. PICK id \in Requests \ DOMAIN views[q].items : ReadRow(q, "compare", id)
      BY <1>2 DEF CompareNext
    <2>4. QED
      BY <1>0, <2>1, <2>2, <2>3, ReadRowSound
  <1>3. CASE ListPage(q) \/ ListTotal(q)
    BY <1>0, <1>3, ListSound
  <1>4. CASE LoadResult(q)
    BY <1>0, <1>4, LoadSound
  <1>5. CASE ReplyView(q)
    <2>1. /\ views'[q] = Reply(views[q], 200)
          /\ views[q].at = "results" /\ views[q].pending = {}
      BY <1>0, <1>5 DEF ReplyView, Look, Viewing
    <2>2. /\ CompletedIn(views[q]) \subseteq views[q].found
          /\ CompletedIn(views[q]) \subseteq results
      BY <1>0, <2>1 DEF SoundView
    <2>3. /\ IsView(Reply(views[q], 200))
          /\ SoundView(Reply(views[q], 200), results)
      <3>1. 200 # 409
        OBVIOUS
      <3>2. QED
        BY <1>0, <2>2, <3>1, ReplySound
    <2>4. QED
      BY <2>1, <2>3
  <1>6. CASE ViewRaises(q)
    <2>1. views'[q] = Reply(views[q], 503)
      BY <1>0, <1>6 DEF ViewRaises
    <2>2. CompletedIn(views[q]) \subseteq results
      BY <1>0 DEF SoundView
    <2>3. /\ IsView(Reply(views[q], 503))
          /\ SoundView(Reply(views[q], 503), results)
      <3>1. 503 # 200 /\ 503 # 409
        OBVIOUS
      <3>2. QED
        BY <1>0, <2>2, <3>1, ReplySound
    <2>4. QED
      BY <2>1, <2>3
  <1>7. QED
    BY <1>1, <1>2, <1>3, <1>4, <1>5, <1>6 DEF ViewStep

\* A reading request changes no other one's view.
LEMMA ViewStepFrame ==
  ASSUME NEW q \in Readers, ViewStep(q) \/ ViewRaises(q)
  PROVE  \E v : views' = [views EXCEPT ![q] = v]
  <1>1. ASSUME NEW v, Look(q, v)
        PROVE  \E w : views' = [views EXCEPT ![q] = w]
    BY <1>1 DEF Look
  <1>2. CASE ViewRaises(q)
    BY <1>2 DEF ViewRaises
  <1>3. CASE StartReading(q) \/ CompareNext(q)
    BY <1>1, <1>3 DEF StartReading, CompareNext, ReadRow
  <1>4. CASE ListPage(q) \/ ListTotal(q)
    BY <1>1, <1>4 DEF ListPage, ListTotal
  <1>5. CASE LoadResult(q) \/ ReplyView(q)
    BY <1>1, <1>5 DEF LoadResult, ReplyView
  <1>6. QED
    BY <1>2, <1>3, <1>4, <1>5 DEF ViewStep

\* No view is begun at first, and no request has been answered.
LEMMA ViewsInit == Init => ViewsAreSound /\ EndsAreShown
  <1> SUFFICES ASSUME Init PROVE ViewsAreSound /\ EndsAreShown
    OBVIOUS
  <1>1. SoundView(FreshView, results)
    <2>1. /\ FreshView.at = "idle" /\ FreshView.code = 0
          /\ DOMAIN FreshView.items = {}
      BY DEF FreshView, NoRows
    <2>2. CompletedIn(FreshView) = {}
      BY <2>1 DEF CompletedIn
    <2>3. QED
      BY <2>1, <2>2 DEF SoundView
  <1>2. ViewsAreSound
    BY <1>1 DEF Init, ViewsAreSound
  <1>3. EndsAreShown
    BY DEF Init, EndsAreShown, NoAnswer
  <1>4. QED
    BY <1>2, <1>3

\* A crash loses the views that are being made.
LEMMA CrashedViewSound ==
  ASSUME ViewsAreSound, Crash, NEW q \in Readers
  PROVE  IsView(views'[q]) /\ SoundView(views'[q], results)
  <1>1. IsView(views[q]) /\ SoundView(views[q], results)
    BY DEF ViewsAreSound, IsView
  <1>2. CASE views'[q] = views[q]
    BY <1>1, <1>2
  <1>3. CASE /\ views[q].at \notin {"idle", "answered"}
             /\ views'[q] = [views[q] EXCEPT !.at = "lost"]
    <2>1. /\ IsView(views'[q]) /\ views'[q].at = "lost"
          /\ views'[q].code = views[q].code
          /\ views'[q].items = views[q].items
      BY <1>1, <1>3, ViewFields DEF IsView
    <2>2. CompletedIn(views'[q]) = CompletedIn(views[q])
      BY <2>1 DEF CompletedIn
    <2>3. QED
      BY <1>1, <1>3, <2>1, <2>2 DEF SoundView
  <1>4. QED
    BY <1>2, <1>3 DEF Crash

\* Every step keeps every view sound.
LEMMA ViewsNext ==
  ASSUME StageInvariant, ViewsAreSound, [Next]_vars
  PROVE  ViewsAreSound'
  <1>0. /\ DOMAIN views = Readers
        /\ \A q \in Readers : IsView(views[q]) /\ SoundView(views[q], results)
    BY DEF ViewsAreSound, IsView
  <1>1. ASSUME DOMAIN views' = Readers,
               \A q \in Readers : IsView(views'[q]) /\ SoundView(views'[q], results)
        PROVE  ViewsAreSound'
    <2>1. \A q \in Readers : SoundView(views'[q], results')
      BY <1>1, ResultsStay, SoundStays
    <2>2. QED
      BY <1>1, <2>1 DEF ViewsAreSound, IsView
  <1>2. ASSUME UNCHANGED views PROVE ViewsAreSound'
    BY <1>0, <1>1, <1>2
  <1>3. ASSUME NEW r \in Requests, SubmitStep(r)
        PROVE  UNCHANGED views
    BY <1>3 DEF SubmitStep, FindExisting, FindNothing, ManifestMissing,
      ManifestFound, Create, CreateConflicts, MarkRunning, DatasetValid,
      CommitProvenance, ResearchDone, WorkRaises, Complete, Fail, FailRefused,
      Refresh, Respond, CommitRaises, ReadRaises, Committed
  <1>4. ASSUME NEW q \in Readers, ViewStep(q) \/ ViewRaises(q)
        PROVE  ViewsAreSound'
    <2>1. PICK v : views' = [views EXCEPT ![q] = v]
      BY <1>4, ViewStepFrame
    <2>2. IsView(views'[q]) /\ SoundView(views'[q], results)
      BY <1>4, ViewStepSound
    <2>3. DOMAIN views' = Readers /\ \A p \in Readers \ {q} : views'[p] = views[p]
      BY <1>0, <2>1
    <2>4. QED
      BY <1>0, <1>1, <2>2, <2>3
  <1>5. CASE Crash
    <2>1. DOMAIN views' = Readers
      BY <1>5 DEF Crash
    <2>2. QED
      BY <1>1, <1>5, <2>1, CrashedViewSound
  <1>6. CASE UNCHANGED vars
    BY <1>2, <1>6 DEF vars
  <1>7. QED
    BY <1>2, <1>3, <1>4, <1>5, <1>6 DEF Next, Idle

(***************************************************************************)
(* Clients are shown how an experiment ended, and all of it                *)
(* (ClientsSeeTheEnd): no answer and no view shows a COMPLETED record      *)
(* without its result, although row and result are read by different       *)
(* statements, and a conflict is only answered of a record that was not    *)
(* COMPLETED when it was read.                                             *)
(***************************************************************************)
THEOREM EndIsSeen == Spec => []ClientsSeeTheEnd
  <1> DEFINE Inv == KeyInvariant /\ EndsAreShown /\ ViewsAreSound
  <1>1. Init => Inv
    BY KeyInit, ViewsInit
  <1>2. Inv /\ [Next]_vars => Inv'
    BY KeyNext, EndsNext, ViewsNext DEF KeyInvariant
  <1>3. Inv => ClientsSeeTheEnd
    <2> SUFFICES ASSUME Inv PROVE ClientsSeeTheEnd
      OBVIOUS
    <2>1. ASSUME NEW q \in Readers
          PROVE  /\ views[q].code = 200 =>
                      \A id \in DOMAIN views[q].items :
                        views[q].items[id] = "COMPLETED" => id \in views[q].found
                 /\ views[q].code = 409 =>
                      \E id \in DOMAIN views[q].items :
                        views[q].items[id] # "COMPLETED"
      BY DEF ViewsAreSound, SoundView, CompletedIn
    <2>2. QED
      BY <2>1 DEF ClientsSeeTheEnd, EndsAreShown
  <1> HIDE DEF Inv
  <1>4. QED
    BY <1>1, <1>2, <1>3, PTL DEF Spec
=============================================================================
