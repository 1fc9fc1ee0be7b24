--------------------------- MODULE DefenderProofs ---------------------------
(***************************************************************************)
(* Proofs about the defence, for any evidence, any alterations of it, any  *)
(* replays, and any answer of the report writer.                           *)
(***************************************************************************)
EXTENDS DefenderProperties, TLAPS, FiniteSetTheorems

\* Every verdict is the judgement of the evidence at its place.
VerdictsAreJudgements ==
  /\ top \in Selections
  /\ verdicts \in Seq({Judge(i) : i \in DOMAIN top})
  /\ Len(verdicts) <= Len(top)
  /\ \A i \in DOMAIN verdicts : verdicts[i] = Judge(i)

\* After the loop all of the evidence is judged; claims are accepted and
\* results reported only then, and only as the verdicts allow.
NarrativeFollowsVerdicts ==
  /\ pc # "replay" /\ pc # "raised" => Len(verdicts) = Len(top)
  /\ \A s \in DOMAIN accepted : pc # "replay" /\ Supported(s, accepted[s])
  /\ pc \in {"defended", "published", "refused"} => report = ReproducedIds

DefenceInvariant == VerdictsAreJudgements /\ NarrativeFollowsVerdicts

-----------------------------------------------------------------------------
\* A selection has at most TopK records of evidence.
LEMMA SelectionsAreShort ==
  ASSUME NEW t \in Selections
  PROVE  /\ Len(t) \in 0..TopK /\ DOMAIN t = 1..Len(t)
         /\ \A i \in DOMAIN t : t[i] \in Evidence
  <1>1. PICK n \in 0..TopK : t \in [1..n -> Evidence]
    BY DEF Selections
  <1>2. n \in Nat /\ Len(t) = n
    BY <1>1, DefenderAssumption
  <1>3. QED
    BY <1>1, <1>2

\* Judgements depend on the evidence and the dataset only.
LEMMA JudgementsStay ==
  ASSUME UNCHANGED <<top, dataset>>
  PROVE  /\ \A i : Judge(i)' = Judge(i)
         /\ {Judge(i) : i \in DOMAIN top}' = {Judge(i) : i \in DOMAIN top}
  <1>1. \A i : Judge(i)' = Judge(i)
    BY DEF Judge, FailedChecks, GlobalBudget, Verified, Replayed, InvalidEvidence
  <1>2. QED
    BY <1>1

\* No evidence is judged at first.
LEMMA DefenceInit == Init => DefenceInvariant
  BY SelectionsAreShort
  DEF Init, DefenceInvariant, VerdictsAreJudgements, NarrativeFollowsVerdicts

\* The loop judges the evidence in order, and all of it.
LEMMA LoopStep ==
  ASSUME DefenceInvariant, ReplayNext \/ ReplayDone
  PROVE  DefenceInvariant'
  <1> USE DEF DefenceInvariant, VerdictsAreJudgements, NarrativeFollowsVerdicts
  <1>1. CASE ReplayNext
    <2> DEFINE i == Len(verdicts) + 1
    <2>1. i \in DOMAIN top
      BY <1>1, SelectionsAreShort DEF ReplayNext
    <2>2. CASE verdicts' = Append(verdicts, Judge(i)) /\ UNCHANGED pc
      BY <1>1, <2>1, <2>2, JudgementsStay DEF ReplayNext
    <2>3. CASE pc' = "raised" /\ UNCHANGED verdicts
      BY <1>1, <2>3, JudgementsStay DEF ReplayNext
    <2>4. QED
      BY <1>1, <2>2, <2>3 DEF ReplayNext
  <1>2. CASE ReplayDone
    <2>1. Len(verdicts) = Len(top)
      BY <1>2, SelectionsAreShort, DefenderAssumption DEF ReplayDone
    <2>2. QED
      BY <1>2, <2>1, JudgementsStay DEF ReplayDone
  <1>3. QED
    BY <1>1, <1>2

\* What follows the loop leaves evidence and verdicts as they are.
LEMMA AfterLoopStep ==
  ASSUME DefenceInvariant,
         \/ WriterFails \/ NarrativeUnusable \/ Narrate \/ Report
         \/ RefuseRun \/ PublishRun
  PROVE  DefenceInvariant'
  <1> USE DEF DefenceInvariant, NarrativeFollowsVerdicts
  <1>1. /\ UNCHANGED <<top, dataset, verdicts>>
        /\ pc # "replay" /\ pc # "raised" /\ pc' # "replay"
    BY DEF WriterFails, NarrativeUnusable, Narrate, Report, RefuseRun,
           PublishRun
  <1>2. VerdictsAreJudgements'
    BY <1>1, JudgementsStay DEF VerdictsAreJudgements
  <1>3. UNCHANGED ReproducedIds /\ \A s, c : Supported(s, c)' = Supported(s, c)
    BY <1>1 DEF ReproducedIds, Supported
  <1>4. CASE NarrativeUnusable
    BY <1>1, <1>2, <1>3, <1>4 DEF NarrativeUnusable
  <1>5. CASE Narrate
    <2>1. \A s \in DOMAIN accepted' : Supported(s, accepted'[s])
      BY <1>5 DEF Narrate, Unknown, Unsupported
    <2>2. QED
      BY <1>1, <1>2, <1>3, <1>5, <2>1 DEF Narrate
  <1>6. CASE Report
    BY <1>1, <1>2, <1>3, <1>6 DEF Report
  <1>7. CASE WriterFails \/ RefuseRun \/ PublishRun
    BY <1>1, <1>2, <1>3, <1>7 DEF WriterFails, RefuseRun, PublishRun
  <1>8. QED
    BY <1>4, <1>5, <1>6, <1>7

\* The invariant holds in every reachable state.
THEOREM DefenceInvariantHolds == Spec => []DefenceInvariant
  <1>1. DefenceInvariant /\ [Next]_vars => DefenceInvariant'
    <2> SUFFICES ASSUME DefenceInvariant, [Next]_vars PROVE DefenceInvariant'
      OBVIOUS
    <2>1. CASE UNCHANGED vars
      <3>1. UNCHANGED ReproducedIds /\ \A s, c : Supported(s, c)' = Supported(s, c)
        BY <2>1 DEF ReproducedIds, Supported, vars
      <3>2. QED
        BY <2>1, <3>1, JudgementsStay
        DEF vars, DefenceInvariant, VerdictsAreJudgements, NarrativeFollowsVerdicts
    <2>2. QED
      BY <2>1, LoopStep, AfterLoopStep DEF Next, Defend, Finished
  <1>2. QED
    BY <1>1, DefenceInit, PTL DEF Spec

-----------------------------------------------------------------------------
\* Evidence passes every check just if nothing of it is altered.
LEMMA ChecksFindAlterations ==
  ASSUME top \in Selections, NEW i \in DOMAIN top
  PROVE  FailedChecks(i) = {} /\ Verified <=> Unaltered(i)
  <1>1. Len(top) <= TopK /\ top[i].altered \subseteq Provenance
    BY SelectionsAreShort, DefenderAssumption DEF Evidence
  <1>2. GlobalBudget <=> \A j \in DOMAIN top : "rank" \notin top[j].altered
    BY <1>1 DEF GlobalBudget
  <1>3. CASE ~GlobalBudget
    BY <1>2, <1>3 DEF FailedChecks, Unaltered
  <1>4. CASE GlobalBudget
    BY <1>1, <1>2, <1>4 DEF FailedChecks, Unaltered, Verified, Provenance
  <1>5. QED
    BY <1>3, <1>4

\* A replay reproduces its evidence just if it agrees in every part.
LEMMA ReplaysAreCompared ==
  ASSUME top \in Selections, NEW i \in DOMAIN top
  PROVE  Reproduces(top[i].replay) <=> ReplaysAlike(i)
  <1>1. top[i].replay \in Replay
    BY SelectionsAreShort, DefenderAssumption DEF Evidence
  <1>2. QED
    BY <1>1
    DEF Reproduces, ReplaysAlike, Mismatches, Within, Replay, Compared

\* The verdict of each kind of evidence.
LEMMA JudgementsAreRight ==
  ASSUME top \in Selections, NEW i \in DOMAIN top
  PROVE  /\ Judge(i).id = top[i].id
         /\ Judge(i).verdict = "invalid_evidence" <=> ~Unaltered(i)
         /\ Judge(i).verdict = "reproduced" <=> Unaltered(i) /\ ReplaysAlike(i)
  BY ChecksFindAlterations, ReplaysAreCompared
  DEF Judge, Replayed, InvalidEvidence

(***************************************************************************)
(* DefenderService blames provenance for what was altered, and only that.  *)
(***************************************************************************)
THEOREM BlameIsAlwaysRight == Spec => []BlameIsRight
  <1>1. DefenceInvariant => BlameIsRight
    BY JudgementsAreRight, SelectionsAreShort
    DEF DefenceInvariant, VerdictsAreJudgements, BlameIsRight
  <1>2. QED
    BY <1>1, DefenceInvariantHolds, PTL

(***************************************************************************)
(* FailureReport holds exactly the failures whose unaltered evidence the   *)
(* engine replays alike.                                                   *)
(***************************************************************************)
THEOREM ReportsAreReproduced == Spec => []ReportedIsReproduced
  <1>1. DefenceInvariant => ReportedIsReproduced
    <2> SUFFICES ASSUME DefenceInvariant,
                        pc \in {"defended", "published", "refused"}
                 PROVE  report = {top[i].id : i \in {j \in DOMAIN top :
                                    Unaltered(j) /\ ReplaysAlike(j)}}
      BY DEF ReportedIsReproduced
    <2>1. DOMAIN verdicts = DOMAIN top /\ report = ReproducedIds
      BY SelectionsAreShort
      DEF DefenceInvariant, VerdictsAreJudgements, NarrativeFollowsVerdicts
    <2>2. \A i \in DOMAIN top :
            /\ verdicts[i].id = top[i].id
            /\ verdicts[i].verdict = "reproduced" <=> Unaltered(i) /\ ReplaysAlike(i)
      BY <2>1, JudgementsAreRight DEF DefenceInvariant, VerdictsAreJudgements
    <2>3. QED
      BY <2>1, <2>2 DEF ReproducedIds
  <1>2. QED
    BY <1>1, DefenceInvariantHolds, PTL

(***************************************************************************)
(* _audit_narrative accepts a mechanism for reproduced evidence that has   *)
(* it, whatever the model answers.                                         *)
(***************************************************************************)
THEOREM ClaimsAreSupported == Spec => []AcceptedClaimsAreSupported
  <1>1. DefenceInvariant => AcceptedClaimsAreSupported
    <2> SUFFICES ASSUME DefenceInvariant, NEW s \in DOMAIN accepted,
                        accepted[s].status = "verified"
                 PROVE  /\ \E i \in DOMAIN top :
                             top[i].id = s /\ Unaltered(i) /\ ReplaysAlike(i)
                        /\ accepted[s].families \subseteq FamiliesOf[s]
      BY DEF AcceptedClaimsAreSupported
    <2>1. s \in ReproducedIds /\ accepted[s].families \subseteq FamiliesOf[s]
      BY DEF DefenceInvariant, NarrativeFollowsVerdicts, Supported
    <2>2. PICK i \in DOMAIN verdicts :
            verdicts[i].id = s /\ verdicts[i].verdict = "reproduced"
      BY <2>1 DEF ReproducedIds
    <2>3. i \in DOMAIN top /\ verdicts[i] = Judge(i)
      BY SelectionsAreShort DEF DefenceInvariant, VerdictsAreJudgements
    <2>4. QED
      BY <2>1, <2>2, <2>3, JudgementsAreRight
      DEF DefenceInvariant, VerdictsAreJudgements
  <1>2. QED
    BY <1>1, DefenceInvariantHolds, PTL

-----------------------------------------------------------------------------
\* At most TopK claims are accepted.  There is a rejection more than TopK only
\* if no claim at all is accepted, and only this may lose a defence.
NarrativeIsBounded ==
  /\ IsFiniteSet(DOMAIN accepted) /\ Cardinality(DOMAIN accepted) <= TopK
  /\ \/ rejections <= TopK
     \/ rejections = TopK + 1 /\ accepted = [s \in {} |-> {}]
  /\ OnlyInventionAborts

\* A set grows by at most one with an element.
LEMMA OneMoreIsOneMore ==
  ASSUME NEW S, NEW n \in Nat, IsFiniteSet(S), Cardinality(S) <= n, NEW x
  PROVE  IsFiniteSet(S \cup {x}) /\ Cardinality(S \cup {x}) <= n + 1
  <1>1. /\ IsFiniteSet(S \cup {x})
        /\ Cardinality(S \cup {x}) = IF x \in S THEN Cardinality(S) ELSE Cardinality(S) + 1
    BY FS_AddElement
  <1>2. Cardinality(S) \in Nat
    BY FS_CardinalityType
  <1>3. QED
    BY <1>1, <1>2

\* Evidence that fails a check fails at most five of the eight that a verdict
\* may list.
LEMMA ChecksAreFew ==
  ASSUME top \in Selections, NEW i \in DOMAIN top, FailedChecks(i) # {}
  PROVE  Cardinality(FailedChecks(i)) \in 1..8
  <1>1. FailedChecks(i) \subseteq Provenance
    BY DEF FailedChecks, Provenance
  <1>2. IsFiniteSet(Provenance) /\ Cardinality(Provenance) <= 8
    <2>1. IsFiniteSet({}) /\ Cardinality({}) <= 0
      BY FS_EmptySet
    <2>2. IsFiniteSet({} \cup {"data"}) /\ Cardinality({} \cup {"data"}) <= 0 + 1
      BY <2>1, OneMoreIsOneMore
    <2>3. /\ IsFiniteSet(({} \cup {"data"}) \cup {"config"})
          /\ Cardinality(({} \cup {"data"}) \cup {"config"}) <= 0 + 1 + 1
      BY <2>2, OneMoreIsOneMore
    <2>4. /\ IsFiniteSet({"data", "config"} \cup {"code"})
          /\ Cardinality({"data", "config"} \cup {"code"}) <= 2 + 1
      <3>1. ({} \cup {"data"}) \cup {"config"} = {"data", "config"}
        OBVIOUS
      <3>2. Cardinality({"data", "config"}) <= 2 /\ IsFiniteSet({"data", "config"})
        BY <2>3, <3>1
      <3>3. QED
        BY <3>2, OneMoreIsOneMore
    <2>5. /\ IsFiniteSet(({"data", "config"} \cup {"code"}) \cup {"identity"})
          /\ Cardinality(({"data", "config"} \cup {"code"}) \cup {"identity"}) <= 3 + 1
      BY <2>4, OneMoreIsOneMore
    <2>6. /\ IsFiniteSet((({"data", "config"} \cup {"code"}) \cup {"identity"}) \cup {"rank"})
          /\ Cardinality((({"data", "config"} \cup {"code"}) \cup {"identity"}) \cup {"rank"}) <= 4 + 1
      BY <2>5, OneMoreIsOneMore
    <2>7. (({"data", "config"} \cup {"code"}) \cup {"identity"}) \cup {"rank"} = Provenance
      BY DEF Provenance
    <2>8. IsFiniteSet(Provenance) /\ Cardinality(Provenance) <= 4 + 1
      BY <2>6, <2>7
    <2>9. QED
      BY <2>8, FS_CardinalityType
  <1>3. /\ IsFiniteSet(FailedChecks(i))
        /\ Cardinality(FailedChecks(i)) <= Cardinality(Provenance)
    BY <1>1, <1>2, FS_Subset
  <1>4. Cardinality(FailedChecks(i)) \in Nat /\ Cardinality(FailedChecks(i)) # 0
    BY <1>3, FS_CardinalityType, FS_EmptySet
  <1>5. Cardinality(Provenance) \in Nat
    BY <1>2, FS_CardinalityType
  <1>6. QED
    BY <1>2, <1>3, <1>4, <1>5

\* Every judgement meets the contract of a verdict.
LEMMA JudgementsMeetTheContract ==
  ASSUME top \in Selections, NEW i \in DOMAIN top
  PROVE  VerdictContract(Judge(i))
  <1>1. CASE FailedChecks(i) = {} /\ Verified
    <2>1. top[i].replay \in Replay
      BY SelectionsAreShort, DefenderAssumption DEF Evidence
    <2>2. Judge(i) = Replayed(i)
      BY <1>1 DEF Judge
    <2>3. CASE Reproduces(top[i].replay)
      BY <2>1, <2>2, <2>3
      DEF Replayed, VerdictContract, Reproduces, Replay, Within, NoDelta
    <2>4. CASE ~Reproduces(top[i].replay)
      <3>1. \/ Mismatches(top[i].replay) # {}
            \/ top[i].replay.valid /\ top[i].replay.delta > Within
        BY <2>1, <2>4 DEF Reproduces, Mismatches, Replay, Within
      <3>2. QED
        BY <2>1, <2>2, <2>4, <3>1
        DEF Replayed, VerdictContract, Replay, Within, NoDelta
    <2>5. QED
      BY <2>3, <2>4
  <1>2. CASE ~(FailedChecks(i) = {} /\ Verified)
    <2>1. FailedChecks(i) # {}
      BY <1>2 DEF FailedChecks
    <2>2. Judge(i) = InvalidEvidence(i)
      BY <1>2 DEF Judge
    <2>3. QED
      BY <2>1, <2>2, ChecksAreFew DEF InvalidEvidence, VerdictContract
  <1>3. QED
    BY <1>1, <1>2

\* Verdicts are of scenarios that differ, and none is verified without the
\* baseline: the report meets its contract.
LEMMA ReportsMeetTheContract ==
  ASSUME DefenceInvariant
  PROVE  ReportContract(ReproducedIds, ReproducedIds, Verified)
  <1>1. /\ Len(verdicts) \in Nat /\ DOMAIN verdicts = 1..Len(verdicts)
        /\ DOMAIN verdicts \subseteq DOMAIN top
        /\ \A i \in DOMAIN verdicts : verdicts[i] = Judge(i)
    BY SelectionsAreShort DEF DefenceInvariant, VerdictsAreJudgements
  <1>2. top \in Selections
    BY DEF DefenceInvariant, VerdictsAreJudgements
  <1>3. Cardinality(Judged) = Len(verdicts)
    <2> DEFINE f == [i \in 1..Len(verdicts) |-> verdicts[i].id]
    <2>1. \A i \in 1..Len(verdicts) : verdicts[i].id = top[i].id
      BY <1>1, <1>2, JudgementsAreRight
    <2>2. \A i, j \in 1..Len(verdicts) : f[i] = f[j] => i = j
      BY <1>1, <1>2, <2>1 DEF Selections
    <2>3. f \in Bijection(1..Len(verdicts), Judged)
      BY <1>1, <2>2 DEF Bijection, Injection, Surjection, IsInjective, Judged
    <2>4. IsFiniteSet(1..Len(verdicts)) /\ Cardinality(1..Len(verdicts)) = Len(verdicts)
      BY <1>1, FS_Interval
    <2> HIDE DEF f
    <2>5. QED
      BY <2>3, <2>4, FS_Bijection DEF ExistsBijection
  <1>4. ReproducedIds # {} => Verified
    <2> SUFFICES ASSUME NEW i \in DOMAIN verdicts, verdicts[i].verdict = "reproduced"
                 PROVE  Verified
      BY DEF ReproducedIds
    <2>1. QED
      BY <1>1, <1>2, JudgementsAreRight DEF Unaltered, Verified
  <1>5. QED
    BY <1>3, <1>4 DEF ReportContract

\* The scenarios whose claims are accepted, and the number of rejections.
Kept(batch) == DOMAIN batch \ (Unknown(batch) \cup Unsupported(batch))

Refusals(batch) ==
  Cardinality(Unknown(batch)) + Cardinality(Unsupported(batch)) + RejectOmissions(batch)

\* An answer of at most TopK claims is rejected at most TopK + 1 times, and
\* as often as that only if each of its claims is.
LEMMA AuditIsBounded ==
  ASSUME NEW batch \in Batches
  PROVE  /\ IsFiniteSet(Kept(batch)) /\ Cardinality(Kept(batch)) <= TopK
         /\ \/ Refusals(batch) <= TopK
            \/ Refusals(batch) = TopK + 1 /\ Kept(batch) = {}
  <1> DEFINE D == DOMAIN batch
             U == Unknown(batch)
             V == Unsupported(batch)
  <1>1. IsFiniteSet(D) /\ Cardinality(D) <= TopK
    BY DEF Batches
  <1>2. U \subseteq D /\ V \subseteq D /\ U \cap V = {}
    BY DEF Unknown, Unsupported
  <1>3. /\ IsFiniteSet(U) /\ IsFiniteSet(V)
        /\ IsFiniteSet(D \ (U \cup V)) /\ Cardinality(D \ (U \cup V)) <= Cardinality(D)
    BY <1>1, <1>2, FS_Subset
  <1>4. /\ Cardinality(D) \in Nat /\ Cardinality(U) \in Nat /\ Cardinality(V) \in Nat
        /\ Cardinality(D \ (U \cup V)) \in Nat /\ TopK \in Nat
    BY <1>1, <1>3, FS_CardinalityType, DefenderAssumption
  <1>5. Cardinality(U \cup V) = Cardinality(U) + Cardinality(V)
    <2>1. Cardinality(U \cap V) = 0
      BY <1>2, FS_EmptySet
    <2>2. Cardinality(U \cup V)
            = Cardinality(U) + Cardinality(V) - Cardinality(U \cap V)
      BY <1>3, FS_Union
    <2>3. QED
      BY <1>4, <2>1, <2>2
  <1>6. /\ Cardinality(U \cup V) <= Cardinality(D)
        /\ Cardinality(U \cup V) = Cardinality(D) => U \cup V = D
    BY <1>1, <1>2, FS_Subset
  <1>7. RejectOmissions(batch) \in {0, 1}
    BY DEF RejectOmissions
  <1> HIDE DEF D, U, V
  <1>8. /\ Cardinality(D \ (U \cup V)) <= TopK
        /\ \/ Cardinality(U) + Cardinality(V) + RejectOmissions(batch) <= TopK
           \/ /\ Cardinality(U) + Cardinality(V) + RejectOmissions(batch) = TopK + 1
              /\ D \ (U \cup V) = {}
    BY <1>1, <1>3, <1>4, <1>5, <1>6, <1>7
  <1>9. /\ IsFiniteSet(D \ (U \cup V)) /\ Cardinality(D \ (U \cup V)) <= TopK
        /\ \/ Cardinality(U) + Cardinality(V) + RejectOmissions(batch) <= TopK
           \/ /\ Cardinality(U) + Cardinality(V) + RejectOmissions(batch) = TopK + 1
              /\ D \ (U \cup V) = {}
    BY <1>3, <1>8
  <1>10. QED
    BY <1>9 DEF D, U, V, Kept, Refusals

\* Nothing is claimed at first.
LEMMA NarrativeInit == Init => NarrativeIsBounded
  BY FS_EmptySet, DefenderAssumption DEF Init, NarrativeIsBounded, OnlyInventionAborts

\* No judgement and no report is lost, and a publication only after an answer
\* whose every claim was rejected.
LEMMA NarrativeStep ==
  ASSUME DefenceInvariant, NarrativeIsBounded, [Next]_vars
  PROVE  NarrativeIsBounded'
  <1> USE DEF NarrativeIsBounded, OnlyInventionAborts
  <1>1. CASE ReplayNext
    <2>1. Len(verdicts) + 1 \in DOMAIN top /\ top \in Selections
      BY <1>1, SelectionsAreShort
      DEF ReplayNext, DefenceInvariant, VerdictsAreJudgements
    <2>2. VerdictContract(Judge(Len(verdicts) + 1))
      BY <2>1, JudgementsMeetTheContract
    <2>3. QED
      BY <1>1, <2>2 DEF ReplayNext
  <1>2. CASE ReplayDone \/ WriterFails \/ RefuseRun
    BY <1>2 DEF ReplayDone, WriterFails, RefuseRun
  <1>3. CASE NarrativeUnusable
    BY <1>3, DefenderAssumption DEF NarrativeUnusable
  <1>4. CASE Narrate
    <2>1. PICK batch \in Batches :
            /\ accepted' = [s \in Kept(batch) |-> batch[s]]
            /\ rejections' = Refusals(batch)
      BY <1>4 DEF Narrate, Kept, Refusals
    <2>2. Kept(batch) = {} => [s \in Kept(batch) |-> batch[s]] = [s \in {} |-> {}]
      OBVIOUS
    <2>3. DOMAIN accepted' = Kept(batch)
      BY <2>1
    <2>4. /\ IsFiniteSet(DOMAIN accepted') /\ Cardinality(DOMAIN accepted') <= TopK
          /\ \/ rejections' <= TopK
             \/ rejections' = TopK + 1 /\ accepted' = [s \in {} |-> {}]
      BY <2>1, <2>2, <2>3, AuditIsBounded
    <2>5. pc' # "raised"
      BY <1>4 DEF Narrate
    <2>6. QED
      BY <2>4, <2>5
  <1>5. CASE Report
    BY <1>5, ReportsMeetTheContract DEF Report
  <1>6. CASE PublishRun
    <2>1. Len(verdicts) <= TopK
      BY SelectionsAreShort, DefenderAssumption
      DEF DefenceInvariant, VerdictsAreJudgements
    <2>2. QED
      BY <1>6, <2>1 DEF PublishRun, ArtifactContract
  <1>7. CASE UNCHANGED vars
    BY <1>7 DEF vars
  <1>8. QED
    BY <1>1, <1>2, <1>3, <1>4, <1>5, <1>6, <1>7 DEF Next, Defend, Finished

(***************************************************************************)
(* No altered evidence, no replay and no answer loses a defence, but one   *)
(* of TopK claims that are all rejected and leave a failure unexplained.   *)
(***************************************************************************)
THEOREM OnlyRejectedAnswersAbort == Spec => []OnlyInventionAborts
  <1>1. DefenceInvariant /\ NarrativeIsBounded /\ [Next]_vars => NarrativeIsBounded'
    BY NarrativeStep
  <1>2. NarrativeIsBounded => OnlyInventionAborts
    BY DEF NarrativeIsBounded
  <1>3. QED
    BY <1>1, <1>2, NarrativeInit, DefenceInvariantHolds, PTL DEF Spec
=============================================================================
