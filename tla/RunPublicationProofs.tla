------------------------ MODULE RunPublicationProofs ------------------------
(***************************************************************************)
(* Proofs about the publication of runs, for any number of processes and   *)
(* of faults.                                                              *)
(***************************************************************************)
EXTENDS RunPublicationProperties, TLAPS

\* How many files there are.
LEMMA FilesAreCounted == Len(BundleOrder) = 7 /\ Len(RootOrder) = 6
  BY DEF BundleOrder, RootOrder

\* A directory is something.
LEMMA DirectoriesAreThere == \A d \in Directory : d # NoDir
  BY FilesAreCounted, PublicationAssumption DEF Directory

\* At first nothing is staged or published.
LEMMA PublicationInit == Init => PublicationInvariant
  BY FilesAreCounted, PublicationAssumption
  DEF Init, PublicationInvariant, TypeOK, StagedByOwner, VerifiedStays,
      PublishedWasVerified, GoodRunsGoOn, NothingIsLeft, Faultless, At, InTry,
      Unprotected, Ended, Staging

\* The check, the hidden directory and the attack.
LEMMA OutsideTry ==
  ASSUME PublicationInvariant, NEW p \in Processes,
         \/ Refuse(p) \/ MakeStaging(p) \/ MkdTemp(p) \/ EnterTry(p)
         \/ Attack(p) \/ AttackRaises(p)
  PROVE  PublicationInvariant'
  <1> USE FilesAreCounted, PublicationAssumption
      DEF PublicationInvariant, TypeOK, StagedByOwner, VerifiedStays,
          PublishedWasVerified, GoodRunsGoOn, NothingIsLeft, Faultless, At,
          Goto, Answer, Staged, Stage, BundleVerifies, RunVerifies, Directory,
          Evidence, InTry, Unprotected, Ended, Staging
  <1>1. CASE Refuse(p)
    BY <1>1 DEF Refuse
  <1>2. CASE MakeStaging(p)
    BY <1>2 DEF MakeStaging
  <1>3. CASE MkdTemp(p)
    <2>1. staging'[p] = [run |-> p, bundle |-> 0, named |-> FALSE, root |-> 0]
      BY <1>3 DEF MkdTemp
    <2>2. staging'[p] \in Directory /\ staging'[p].run = p /\ staging'[p].bundle = 0
      BY <2>1
    <2> HIDE DEF Directory
    <2>3. /\ staging'[p] # NoDir
          /\ \A o \in Processes \ {p} : staging'[o] = staging[o]
      <3>1. staging'[p] # NoDir
        BY <2>2, DirectoriesAreThere
      <3>2. \A o \in Processes \ {p} : staging'[o] = staging[o]
        BY <1>3 DEF MkdTemp
      <3>3. QED
        BY <3>1, <3>2
    <2>4. TypeOK'
      BY <1>3, <2>2, <2>3 DEF MkdTemp
    <2>5. StagedByOwner'
      BY <1>3, <2>2, <2>3 DEF MkdTemp
    <2>6. VerifiedStays'
      BY <1>3, <2>2, <2>3 DEF MkdTemp
    <2>7. PublishedWasVerified' /\ GoodRunsGoOn' /\ NothingIsLeft'
      BY <1>3, <2>2, <2>3 DEF MkdTemp
    <2>8. QED
      BY <2>4, <2>5, <2>6, <2>7
  <1>4. CASE Attack(p)
    BY <1>4 DEF Attack
  <1>5. CASE AttackRaises(p)
    BY <1>5 DEF AttackRaises
  <1>6. CASE EnterTry(p)
    BY <1>6 DEF EnterTry
  <1>7. QED
    BY <1>1, <1>2, <1>3, <1>4, <1>5, <1>6

\* write_run_artifacts: the bundle is named when it verifies.
LEMMA BundleStep ==
  ASSUME PublicationInvariant, NEW p \in Processes,
         WriteBundleFile(p) \/ VerifyBundle(p) \/ NameBundle(p) \/ DropBundle(p)
  PROVE  PublicationInvariant'
  <1> USE FilesAreCounted, PublicationAssumption
      DEF PublicationInvariant, TypeOK, StagedByOwner, VerifiedStays,
          PublishedWasVerified, GoodRunsGoOn, NothingIsLeft, Faultless, At,
          Goto, Answer, Staged, Stage, BundleVerifies, RunVerifies, Directory,
          Evidence, InTry, Unprotected, Ended, Staging
  <1>1. CASE WriteBundleFile(p)
    BY <1>1 DEF WriteBundleFile
  <1>2. CASE VerifyBundle(p)
    BY <1>2 DEF VerifyBundle
  <1>3. CASE NameBundle(p)
    <2> DEFINE d == staging[p]
    <2> HIDE DEF Directory
    <2>1. d \in Directory /\ d.run = p /\ BundleVerifies(d)
      BY <1>3 DEF NameBundle
    <2>2. staging'[p] = [d EXCEPT !.named = TRUE]
      BY <1>3 DEF NameBundle
    <2>3. /\ staging'[p] \in Directory /\ staging'[p].named
          /\ staging'[p].run = p /\ staging'[p].bundle = d.bundle
      BY <2>1, <2>2 DEF Directory
    <2>4. /\ staging'[p] # NoDir
          /\ \A o \in Processes \ {p} : staging'[o] = staging[o]
      <3>1. staging'[p] # NoDir
        BY <2>3, DirectoriesAreThere
      <3>2. \A o \in Processes \ {p} : staging'[o] = staging[o]
        BY <1>3 DEF NameBundle
      <3>3. QED
        BY <3>1, <3>2
    <2> HIDE DEF d
    <2>5. TypeOK'
      BY <1>3, <2>1, <2>3, <2>4 DEF NameBundle
    <2>6. StagedByOwner'
      BY <1>3, <2>1, <2>3, <2>4 DEF NameBundle
    <2>7. VerifiedStays'
      BY <1>3, <2>1, <2>3, <2>4 DEF NameBundle
    <2>8. PublishedWasVerified' /\ GoodRunsGoOn' /\ NothingIsLeft'
      BY <1>3, <2>1, <2>3, <2>4 DEF NameBundle
    <2>9. QED
      BY <2>5, <2>6, <2>7, <2>8
  <1>4. CASE DropBundle(p)
    BY <1>4 DEF DropBundle
  <1>5. QED
    BY <1>1, <1>2, <1>3, <1>4

\* The run is staged to the end only if the attack completed and all is reproduced.
LEMMA RunStep ==
  ASSUME PublicationInvariant, NEW p \in Processes,
         Accept(p) \/ Defend(p) \/ WriteRootFile(p) \/ VerifyRun(p)
  PROVE  PublicationInvariant'
  <1> USE FilesAreCounted, PublicationAssumption
      DEF PublicationInvariant, TypeOK, StagedByOwner, VerifiedStays,
          PublishedWasVerified, GoodRunsGoOn, NothingIsLeft, Faultless, At,
          Goto, Answer, Staged, Stage, BundleVerifies, RunVerifies, Directory,
          Evidence, InTry, Unprotected, Ended, Staging
  <1>1. CASE Accept(p)
    BY <1>1 DEF Accept
  <1>2. CASE Defend(p)
    BY <1>2 DEF Defend
  <1>3. CASE WriteRootFile(p)
    BY <1>3 DEF WriteRootFile
  <1>4. CASE VerifyRun(p)
    BY <1>4 DEF VerifyRun
  <1>5. QED
    BY <1>1, <1>2, <1>3, <1>4

\* The rename moves a verified run; what is not moved is removed.
LEMMA PublishStep ==
  ASSUME PublicationInvariant, NEW p \in Processes,
         Publish(p) \/ PublicationFails(p) \/ VerifyPublished(p) \/ Cleanup(p)
  PROVE  PublicationInvariant'
  <1> USE FilesAreCounted, PublicationAssumption
      DEF PublicationInvariant, TypeOK, StagedByOwner, VerifiedStays,
          PublishedWasVerified, GoodRunsGoOn, NothingIsLeft, Faultless, At,
          Goto, Answer, Staged, Stage, BundleVerifies, RunVerifies, Directory,
          Evidence, InTry, Unprotected, Ended, Staging
  <1>1. CASE Publish(p)
    BY <1>1 DEF Publish, CanRename
  <1>2. CASE PublicationFails(p)
    BY <1>2 DEF PublicationFails, CanRename, AfterFailedRename
  <1>3. CASE VerifyPublished(p)
    BY <1>3 DEF VerifyPublished
  <1>4. CASE Cleanup(p)
    BY <1>4 DEF Cleanup, RemoveStaging
  <1>5. QED
    BY <1>1, <1>2, <1>3, <1>4

\* A fault excuses its process from going on, and nothing else.
LEMMA FaultStep ==
  ASSUME PublicationInvariant, NEW p \in Processes,
         StatementRaises(p) \/ Interrupt(p) \/ Crash(p)
  PROVE  PublicationInvariant'
  <1> USE FilesAreCounted, PublicationAssumption
      DEF PublicationInvariant, TypeOK, StagedByOwner, VerifiedStays,
          PublishedWasVerified, GoodRunsGoOn, NothingIsLeft, Faultless, At,
          Goto, Answer, Staged, Stage, BundleVerifies, RunVerifies, Directory,
          Evidence, InTry, Unprotected, Ended, Staging
  <1>0. /\ faulted' = faulted \cup {<<p, pc[p]>>}
        /\ faults' \in 0..MaxFaults
        /\ UNCHANGED <<evidence, staging, destination>>
    BY DEF StatementRaises, Interrupt, Crash, Fault
  <1>1. ~Faultless(p)'
    <2> DEFINE fault == <<p, pc[p]>>
    <2>1. fault \in faulted' /\ fault[1] = p
      BY <1>0
    <2> HIDE DEF fault
    <2>2. QED
      BY <2>1 DEF Faultless
  <1>2. CASE StatementRaises(p)
    BY <1>0, <1>1, <1>2 DEF StatementRaises, Escape
  <1>3. CASE Interrupt(p)
    BY <1>0, <1>1, <1>3 DEF Interrupt, Escape, AfterInterrupt
  <1>4. CASE Crash(p)
    BY <1>0, <1>1, <1>4 DEF Crash
  <1>5. QED
    BY <1>2, <1>3, <1>4

\* The invariant holds in every reachable state.
THEOREM PublicationInvariantHolds == Spec => []PublicationInvariant
  <1>1. PublicationInvariant /\ [Next]_vars => PublicationInvariant'
    <2> SUFFICES ASSUME PublicationInvariant, [Next]_vars
                 PROVE  PublicationInvariant'
      OBVIOUS
    <2>1. CASE UNCHANGED vars
      BY <2>1
      DEF vars, PublicationInvariant, TypeOK, StagedByOwner, VerifiedStays,
          PublishedWasVerified, GoodRunsGoOn, NothingIsLeft, Faultless, At,
          BundleVerifies, RunVerifies
    <2>2. CASE Next
      BY <2>2, <2>1, OutsideTry, BundleStep, RunStep, PublishStep, FaultStep
      DEF Next, Step, Quiet
    <2>3. QED
      BY <2>1, <2>2
  <1>2. QED
    BY <1>1, PublicationInit, PTL DEF Spec

-----------------------------------------------------------------------------
(***************************************************************************)
(* A directory under the published name is whole, aligned and reproduced.  *)
(***************************************************************************)
THEOREM PublishedIsAlwaysWhole == Spec => []PublishedIsWhole
  <1>1. PublicationInvariant => PublishedIsWhole
    BY DEF PublicationInvariant, TypeOK, PublishedWasVerified, PublishedIsWhole,
           RunVerifies, BundleVerifies, Directory, Evidence
  <1>2. QED
    BY <1>1, PublicationInvariantHolds, PTL

(***************************************************************************)
(* run_offline_experiment answers with its own run, and a good run without *)
(* faults is lost only to one already published.                           *)
(***************************************************************************)
THEOREM AnswersAreAlwaysTrue == Spec => []AnswersAreTrue
  <1>1. PublicationInvariant => VerifiedIsOwn
    BY DEF PublicationInvariant, PublishedWasVerified, VerifiedIsOwn
  <1>2. PublicationInvariant => LostOnlyToAnother
    BY DEF PublicationInvariant, GoodRunsGoOn, LostOnlyToAnother, At
  <1>3. QED
    BY <1>1, <1>2, PublicationInvariantHolds, PTL DEF AnswersAreTrue

(***************************************************************************)
(* A process that does not die leaves its hidden directory only after a    *)
(* fault just before the try block or in the finally clause: every other   *)
(* way out of run_offline_experiment, however many faults were met before, *)
(* passes the removal (NothingIsLeft).                                     *)
(***************************************************************************)
THEOREM NothingIsEverLeft == Spec => []NothingIsLeft
  <1>1. PublicationInvariant => NothingIsLeft
    BY DEF PublicationInvariant
  <1>2. QED
    BY <1>1, PublicationInvariantHolds, PTL

-----------------------------------------------------------------------------
\* Only a rename changes what a reader of the destination finds.
LEMMA OnlyRenamePublishes ==
  ASSUME PublicationInvariant, [Next]_vars
  PROVE  \/ UNCHANGED destination
         \/ /\ destination = NoDir
            /\ destination' \in Directory
  <1>1. CASE UNCHANGED vars
    BY <1>1 DEF vars
  <1>2. ASSUME NEW p \in Processes, Publish(p)
        PROVE  destination = NoDir /\ destination' \in Directory
    BY <1>2
    DEF Publish, CanRename, Staged, PublicationInvariant, TypeOK, StagedByOwner,
        At, Staging, InTry
  <1>3. ASSUME NEW p \in Processes,
               \/ Refuse(p) \/ MakeStaging(p) \/ MkdTemp(p) \/ EnterTry(p)
               \/ Attack(p)
               \/ AttackRaises(p) \/ WriteBundleFile(p) \/ VerifyBundle(p)
               \/ NameBundle(p) \/ DropBundle(p) \/ Accept(p) \/ Defend(p)
               \/ WriteRootFile(p) \/ VerifyRun(p) \/ PublicationFails(p)
               \/ VerifyPublished(p) \/ Cleanup(p)
               \/ StatementRaises(p) \/ Interrupt(p) \/ Crash(p)
        PROVE  UNCHANGED destination
    BY <1>3
    DEF Refuse, MakeStaging, MkdTemp, EnterTry, Attack, AttackRaises, WriteBundleFile,
        VerifyBundle, NameBundle, DropBundle, Accept, Defend, WriteRootFile,
        VerifyRun, PublicationFails, VerifyPublished, Cleanup, RemoveStaging,
        StatementRaises, Interrupt, Crash
  <1>4. QED
    BY <1>1, <1>2, <1>3 DEF Next, Step, Quiet

(***************************************************************************)
(* The destination implements a write-once store.                          *)
(***************************************************************************)
THEOREM PublishedOnce == Spec => DestinationIsWriteOnce
  <1> DEFINE content == IF destination = NoDir THEN NoDir ELSE destination.run
  <1>1. Init => Store!WriteOnceInit
    BY DEF Init, Store!WriteOnceInit
  <1>2. PublicationInvariant /\ PublicationInvariant' /\ [Next]_vars =>
          [Store!WriteOnceNext]_([n \in {"destination"} |-> content])
    <2> SUFFICES ASSUME PublicationInvariant, [Next]_vars,
                        ~UNCHANGED destination
                 PROVE  Store!WriteOnceNext
      OBVIOUS
    <2>1. /\ destination = NoDir /\ destination' \in Directory
          /\ destination'.run \in Processes /\ destination' # NoDir
      BY OnlyRenamePublishes, PublicationAssumption, FilesAreCounted DEF Directory
    <2>2. Store!Publish("destination", destination'.run)
      BY <2>1 DEF Store!Publish
    <2>3. QED
      BY <2>1, <2>2 DEF Store!WriteOnceNext
  <1>3. QED
    BY <1>1, <1>2, PublicationInvariantHolds, PTL
    DEF Spec, DestinationIsWriteOnce, Store!WriteOnceSpec
=============================================================================
