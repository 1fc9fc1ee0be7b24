----------------------- MODULE HostedInvocationProofs -----------------------
(***************************************************************************)
(* Proofs about a hosted agent, for any number of calls, files, dataset    *)
(* versions and faults, and for both roles.                                *)
(***************************************************************************)
EXTENDS HostedInvocationProperties, TLAPS

\* The types: what each step assigns is of the type of its variable.
LEMMA TypeInit == Init => TypeOK
  <1> SUFFICES ASSUME Init PROVE TypeOK
    OBVIOUS
  <1>1. /\ pc \in [Calls -> Statements]
        /\ request \in [Calls -> Requests \cup {Nobody}]
        /\ reply \in [Calls -> {"none", "200", "400", "409", "413", "422", "500"}]
    BY DEF Init, Statements
  <1>2. /\ size \in [Calls -> Nat] /\ put \in [Calls -> Nat]
        /\ faulted \subseteq Calls /\ faults \in 0..MaxFaults
    BY HostedAssumption DEF Init
  <1>3. QED
    BY <1>1, <1>2 DEF Init, TypeOK

LEMMA TypeAdmission ==
  ASSUME TypeOK, NEW c \in Calls, Refuse(c) \/ Dispatch(c) \/ BuildFails(c)
  PROVE  TypeOK'
  <1> USE DEF TypeOK, Statements, Loading, Goto, Answer, Continue, hostVars, deployment,
              loadVars, storeVars, faultVars
  <1>1. CASE Refuse(c)
    BY <1>1 DEF Refuse
  <1>2. CASE Dispatch(c)
    BY <1>2 DEF Dispatch
  <1>3. CASE BuildFails(c)
    BY <1>3 DEF BuildFails
  <1>4. QED
    BY <1>1, <1>2, <1>3

LEMMA TypeLoad ==
  ASSUME TypeOK, NEW c \in Calls,
         \/ StatManifest(c) \/ ReadManifest(c) \/ StatDataset(c)
         \/ ReadDataset(c) \/ LoadFails(c) \/ Run(c) \/ RunRaises(c)
  PROVE  TypeOK'
  <1> USE HostedAssumption
      DEF TypeOK, Statements, Loading, Goto, Answer, Continue, hostVars, deployment,
          loadVars, storeVars, faultVars
  <1> object.manifest \in Versions /\ object.data \in Versions
    OBVIOUS
  <1>1. CASE StatManifest(c)
    BY <1>1 DEF StatManifest, Stat
  <1>2. CASE ReadManifest(c)
    BY <1>2 DEF ReadManifest
  <1>3. CASE StatDataset(c)
    BY <1>3 DEF StatDataset, Stat
  <1>4. CASE ReadDataset(c)
    BY <1>4 DEF ReadDataset
  <1>5. CASE LoadFails(c)
    BY <1>5 DEF LoadFails, Fault
  <1>6. CASE Run(c)
    BY <1>6 DEF Run
  <1>7. CASE RunRaises(c)
    BY <1>7 DEF RunRaises
  <1>8. QED
    BY <1>1, <1>2, <1>3, <1>4, <1>5, <1>6, <1>7

LEMMA TypeStore ==
  ASSUME TypeOK, NEW c \in Calls,
         \/ MakeDirectory(c) \/ RefusedByDirectory(c) \/ OpenFile(c)
         \/ WriteFile(c) \/ LocalFails(c) \/ RemoveFile(c)
         \/ RemoveDirectory(c) \/ RemoveFails(c)
         \/ Upload(c) \/ UploadFails(c) \/ Finish(c) \/ FinishFails(c)
  PROVE  TypeOK'
  <1> USE HostedAssumption
      DEF TypeOK, Statements, LocalWriting, At, Goto, Answer, Continue, hostVars, deployment,
          loadVars, storeVars, faultVars
  <1> put[c] \in Nat /\ put[c] + 1 \in Nat
    OBVIOUS
  <1>1. CASE MakeDirectory(c)
    BY <1>1 DEF MakeDirectory, AfterFailedMkdir
  <1>2. CASE RefusedByDirectory(c)
    BY <1>2 DEF RefusedByDirectory
  <1>3. CASE OpenFile(c)
    BY <1>3 DEF OpenFile
  <1>4. CASE WriteFile(c)
    BY <1>4 DEF WriteFile
  <1>5. CASE LocalFails(c)
    <2>1. pc' \in [Calls -> Statements] /\ UNCHANGED reply
      BY <1>5 DEF LocalFails, AfterFailedWrite
    <2>2. faulted' \subseteq Calls /\ faults' \in 0..MaxFaults
      BY <1>5 DEF LocalFails, Fault
    <2>3. QED
      BY <1>5, <2>1, <2>2 DEF LocalFails
  <1>6. CASE RemoveFile(c)
    BY <1>6 DEF RemoveFile
  <1>7. CASE RemoveDirectory(c)
    BY <1>7 DEF RemoveDirectory
  <1>8. CASE RemoveFails(c)
    BY <1>8 DEF RemoveFails, Fault
  <1>9. CASE Upload(c)
    <2>1. /\ pc' \in [Calls -> Statements]
          /\ reply' \in [Calls -> {"none", "200", "400", "409", "413", "422", "500"}]
      BY <1>9 DEF Upload
    <2>2. /\ stored' \in [Files -> Calls \cup {Torn, Nobody}]
          /\ put' \in [Calls -> Nat]
      BY <1>9 DEF Upload, Put
    <2>3. QED
      BY <1>9, <2>1, <2>2 DEF Upload
  <1>10. CASE UploadFails(c)
    <2>1. /\ pc' \in [Calls -> Statements]
          /\ reply' \in [Calls -> {"none", "200", "400", "409", "413", "422", "500"}]
      BY <1>10 DEF UploadFails
    <2>2. /\ stored' \in [Files -> Calls \cup {Torn, Nobody}]
          /\ put' \in [Calls -> Nat]
      BY <1>10 DEF UploadFails, Put
    <2>3. faulted' \subseteq Calls /\ faults' \in 0..MaxFaults
      BY <1>10 DEF UploadFails, Fault
    <2>4. QED
      BY <1>10, <2>1, <2>2, <2>3 DEF UploadFails
  <1>11. CASE Finish(c)
    BY <1>11 DEF Finish
  <1>12. CASE FinishFails(c)
    BY <1>12 DEF FinishFails, Fault
  <1>13. QED
    BY <1>1, <1>2, <1>3, <1>4, <1>5, <1>6, <1>7, <1>8, <1>9, <1>10, <1>11, <1>12

LEMMA TypeNext == TypeOK /\ [Next]_vars => TypeOK'
  <1> SUFFICES ASSUME TypeOK, [Next]_vars PROVE TypeOK'
    OBVIOUS
  <1>1. CASE Replace
    <2>1. object' \in [manifest: Versions, data: Versions]
      BY <1>1 DEF Replace, TypeOK
    <2>2. QED
      BY <1>1, <2>1, HostedAssumption DEF Replace, TypeOK, hostVars, deployment, storeVars
  <1>2. CASE Crash
    <2>1. pc' \in [Calls -> Statements]
      BY <1>2 DEF Crash, TypeOK, Statements
    <2>2. faulted' \subseteq Calls /\ faults' \in 0..MaxFaults
      BY <1>2, HostedAssumption DEF Crash, TypeOK
    <2>3. QED
      BY <1>2, <2>1, <2>2 DEF Crash, TypeOK, deployment, loadVars, storeVars
  <1>3. CASE UNCHANGED vars
    BY <1>3 DEF TypeOK, vars, hostVars, deployment, loadVars, storeVars, faultVars
  <1>4. QED
    BY <1>1, <1>2, <1>3, TypeAdmission, TypeLoad, TypeStore DEF Next, Proceed

\* At first nothing is loaded, stored or answered.
LEMMA HostedInit == Init => HostedInvariant
  <1> SUFFICES ASSUME Init PROVE HostedInvariant
    OBVIOUS
  <1> USE HostedAssumption
      DEF Init, At, Files, Statements, Loading, LocalWriting, AfterLoad, Backends
  <1>1. TypeOK
    BY TypeInit
  <1>2. AnswersEndCalls /\ LoadedAsPinned /\ AnsweredArtifactsStay
    BY DEF AnswersEndCalls, LoadedAsPinned, LoadsAsPinned, AnsweredArtifactsStay
  <1>3. DirectoryIsOwned
    BY DEF DirectoryIsOwned
  <1>4. BlobsAreInOrder
    BY DEF BlobsAreInOrder
  <1>5. QED
    BY <1>1, <1>2, <1>3, <1>4 DEF HostedInvariant

\* Admission: a request is checked before its call goes on.
LEMMA AdmissionStep ==
  ASSUME HostedInvariant, NEW c \in Calls,
         Refuse(c) \/ Dispatch(c) \/ BuildFails(c)
  PROVE  HostedInvariant'
  <1> USE HostedAssumption
      DEF HostedInvariant, TypeOK, AnswersEndCalls, LoadedAsPinned, LoadsAsPinned,
          DirectoryIsOwned, BlobsAreInOrder, AnsweredArtifactsStay, At, Files,
          Statements, Loading, LocalWriting, AfterLoad, Backends, Goto, Answer,
          Continue, hostVars, deployment, loadVars, storeVars, faultVars
  <1>1. CASE Refuse(c)
    BY <1>1 DEF Refuse
  <1>2. CASE Dispatch(c)
    <2>1. TypeOK'
      BY TypeNext DEF Next, Proceed
    <2>2. AnswersEndCalls' /\ LoadedAsPinned'
      BY <1>2 DEF Dispatch, Admits, AttackerAdmits, DefenderAdmits
    <2>3. DirectoryIsOwned'
      BY <1>2 DEF Dispatch
    <2>4. BlobsAreInOrder'
      BY <1>2 DEF Dispatch, Admits, AttackerAdmits, DefenderAdmits
    <2>5. AnsweredArtifactsStay'
      BY <1>2 DEF Dispatch, Admits, AttackerAdmits, DefenderAdmits
    <2>6. QED
      BY <2>1, <2>2, <2>3, <2>4, <2>5
  <1>3. CASE BuildFails(c)
    BY <1>3 DEF BuildFails
  <1>4. QED
    BY <1>1, <1>2, <1>3

\* A call that goes on has no answer yet.
LEMMA NoAnswerYet ==
  ASSUME TypeOK, AnswersEndCalls, NEW c \in Calls, pc[c] # "done"
  PROVE  reply[c] = "none"
  BY DEF AnswersEndCalls, At

\* What one call does leaves what the others have loaded.
LEMMA OthersStayPinned ==
  ASSUME AnswersEndCalls, LoadedAsPinned, NEW c \in Calls,
         \A d \in Calls \ {c} :
           /\ pc'[d] = pc[d] /\ reply'[d] = reply[d] /\ request'[d] = request[d]
           /\ manifest'[d] = manifest[d] /\ dataset'[d] = dataset[d],
         (reply'[c] # "none") <=> (pc'[c] = "done"), role' = role,
         LoadsAsPinned(c)'
  PROVE  AnswersEndCalls' /\ LoadedAsPinned'
  <1>1. \A d \in Calls \ {c} : LoadsAsPinned(d)'
    BY DEF LoadedAsPinned, LoadsAsPinned, At
  <1>2. AnswersEndCalls'
    BY DEF AnswersEndCalls, At
  <1>3. QED
    BY <1>1, <1>2 DEF LoadedAsPinned

\* Loading: every object is compared before the run uses it.
LEMMA LoadPins ==
  ASSUME HostedInvariant, NEW c \in Calls,
         StatManifest(c) \/ ReadManifest(c) \/ StatDataset(c) \/ ReadDataset(c)
  PROVE  AnswersEndCalls' /\ LoadedAsPinned'
  <1> reply[c] = "none"
    BY NoAnswerYet
    DEF HostedInvariant, StatManifest, ReadManifest, StatDataset, ReadDataset,
        Stat, At
  <1> USE DEF HostedInvariant, TypeOK, At, Goto, Answer, Continue, hostVars, deployment
  <1>1. \A d \in Calls \ {c} :
          /\ pc'[d] = pc[d] /\ reply'[d] = reply[d] /\ request'[d] = request[d]
          /\ manifest'[d] = manifest[d] /\ dataset'[d] = dataset[d]
    BY DEF StatManifest, ReadManifest, StatDataset, ReadDataset, Stat
  <1>2. (reply'[c] # "none") <=> (pc'[c] = "done")
    BY DEF StatManifest, ReadManifest, StatDataset, ReadDataset, Stat
  <1>3. /\ request[c] \in Requests
        /\ request[c].experiment = request[c].dataset.data
        /\ role = "defender" => request[c].execution = request[c].dataset
        /\ request' = request /\ role' = role
    BY DEF LoadedAsPinned, LoadsAsPinned, Loading, StatManifest, ReadManifest,
           StatDataset, ReadDataset, Stat
  <1>4. reply'[c] # "200"
    BY DEF StatManifest, ReadManifest, StatDataset, ReadDataset, Stat
  <1>5. CASE ReadManifest(c)
    <2>1. pc'[c] \in {"read_dataset", "stat_dataset", "done"}
          /\ manifest'[c] \in Versions
      BY <1>5 DEF ReadManifest
    <2>2. LoadsAsPinned(c)'
      BY <1>3, <1>4, <2>1 DEF LoadsAsPinned, AfterLoad, LocalWriting
    <2>3. QED
      BY <1>1, <1>2, <1>3, <2>2, OthersStayPinned
  <1>6. CASE StatDataset(c)
    <2>1. pc'[c] \in {"read_dataset", "done"} /\ manifest' = manifest
      BY <1>6 DEF StatDataset, Stat
    <2>2. manifest[c] \in Versions
      BY <1>6 DEF StatDataset, LoadedAsPinned, LoadsAsPinned
    <2>3. LoadsAsPinned(c)'
      BY <1>3, <1>4, <2>1, <2>2 DEF LoadsAsPinned, AfterLoad, LocalWriting
    <2>4. QED
      BY <1>1, <1>2, <1>3, <2>3, OthersStayPinned
  <1>7. CASE ReadDataset(c)
    <2>1. /\ manifest' = manifest
          /\ \/ pc'[c] = "done"
             \/ /\ pc'[c] = "run" /\ dataset'[c] = manifest[c]
                /\ manifest[c] = request[c].dataset.data
                /\ manifest[c] = request[c].dataset.manifest
      BY <1>7 DEF ReadDataset, DatasetIsAccepted, ReferenceIsVerified
    <2>2. LoadsAsPinned(c)'
      BY <1>3, <1>4, <2>1 DEF LoadsAsPinned, AfterLoad, LocalWriting
    <2>3. QED
      BY <1>1, <1>2, <1>3, <2>2, OthersStayPinned
  <1>8. CASE StatManifest(c)
    <2>1. pc'[c] \in {"read_manifest", "done"}
      BY <1>8 DEF StatManifest, Stat
    <2>2. LoadsAsPinned(c)'
      BY <1>3, <1>4, <2>1 DEF LoadsAsPinned, AfterLoad, LocalWriting
    <2>3. QED
      BY <1>1, <1>2, <1>3, <2>2, OthersStayPinned
  <1>9. QED
    BY <1>5, <1>6, <1>7, <1>8

\* A call that goes on loading leaves directories with their owners.
LEMMA DirectoryStaysOwned ==
  ASSUME DirectoryIsOwned, pc \in [Calls -> Statements], NEW c \in Calls,
         pc[c] = "read_manifest", UNCHANGED storeVars, UNCHANGED hostVars,
         NEW s \in {"read_dataset", "stat_dataset", "done"},
         pc' = [pc EXCEPT ![c] = s],
         \A d \in Calls : d # c => reply'[d] = reply[d]
  PROVE  DirectoryIsOwned'
  <1> DEFINE Owned(d, at, answer) ==
        /\ at # "upload"
        /\ at \in Loading \cup {"unsent", "run", "make_directory"} => put[d] = 0
        /\ at \in LocalWriting => directory = d
        /\ at \in {"open", "write"} => \A n \in Files : n <= put[d] => stored[n] = d
        /\ at = "write" => put[d] < Artifacts
        /\ directory = d => \/ at \in LocalWriting \cup {"dead"}
                            \/ at = "done" /\ answer \in {"200", "500"}
  <1> DEFINE Named == /\ \A n \in Files : stored[n] # Nobody => directory # Nobody
                     /\ \A n \in Files : stored[n] \in Calls => stored[n] = directory
  <1>1. DirectoryIsOwned <=>
          (outputs = "local" => Named /\ \A d \in Calls : Owned(d, pc[d], reply[d]))
    BY DEF DirectoryIsOwned, At
  <1>2. DirectoryIsOwned' <=>
          (outputs = "local" => Named /\ \A d \in Calls : Owned(d, pc'[d], reply'[d]))
    BY DEF DirectoryIsOwned, At, Files, storeVars, hostVars, deployment
  <1>3. outputs = "local" => Owned(c, s, reply'[c])
    BY <1>1 DEF Loading, LocalWriting
  <1>4. \A d \in Calls : pc'[d] = IF d = c THEN s ELSE pc[d]
    OBVIOUS
  <1> HIDE DEF Owned, Named
  <1>5. QED
    BY <1>1, <1>2, <1>3, <1>4

\* Loading stores nothing.
LEMMA LoadStep ==
  ASSUME HostedInvariant, NEW c \in Calls,
         \/ StatManifest(c) \/ ReadManifest(c) \/ StatDataset(c)
         \/ ReadDataset(c) \/ LoadFails(c)
  PROVE  HostedInvariant'
  <1> USE HostedAssumption
      DEF HostedInvariant, TypeOK, AnswersEndCalls, LoadedAsPinned, LoadsAsPinned,
          DirectoryIsOwned, BlobsAreInOrder, AnsweredArtifactsStay, At, Files,
          Statements, Loading, LocalWriting, AfterLoad, Backends, Goto, Answer,
          Continue, hostVars, deployment, loadVars, storeVars, faultVars
  <1>1. CASE StatManifest(c)
    <2>1. TypeOK'
      BY TypeNext DEF Next, Proceed
    <2>2. AnswersEndCalls' /\ LoadedAsPinned'
      BY <1>1, LoadPins
    <2>3. DirectoryIsOwned'
      BY <1>1 DEF StatManifest, Stat
    <2>4. BlobsAreInOrder'
      BY <1>1 DEF StatManifest, Stat
    <2>5. AnsweredArtifactsStay'
      BY <1>1 DEF StatManifest, Stat
    <2>6. QED
      BY <2>1, <2>2, <2>3, <2>4, <2>5
  <1>2. CASE ReadManifest(c)
    <2>1. TypeOK'
      BY TypeNext DEF Next, Proceed
    <2>2. AnswersEndCalls' /\ LoadedAsPinned'
      BY <1>2, LoadPins
    <2>3. DirectoryIsOwned'
      <3>1. \E s \in {"read_dataset", "stat_dataset", "done"} :
              pc' = [pc EXCEPT ![c] = s]
        BY <1>2 DEF ReadManifest
      <3>2. /\ pc[c] = "read_manifest" /\ UNCHANGED storeVars /\ UNCHANGED hostVars
            /\ \A d \in Calls : d # c => reply'[d] = reply[d]
        BY <1>2 DEF ReadManifest
      <3>3. QED
        <4>1. PICK s \in {"read_dataset", "stat_dataset", "done"} :
                pc' = [pc EXCEPT ![c] = s]
          BY <3>1
        <4> HIDE DEF HostedInvariant, TypeOK, DirectoryIsOwned, At, Loading, LocalWriting,
                     Statements, Files, storeVars, hostVars, deployment
        <4>2. DirectoryIsOwned /\ pc \in [Calls -> Statements]
          BY DEF HostedInvariant, TypeOK
        <4>3. QED
          BY <3>2, <4>1, <4>2, DirectoryStaysOwned
    <2>4. BlobsAreInOrder'
      BY <1>2 DEF ReadManifest
    <2>5. AnsweredArtifactsStay'
      BY <1>2 DEF ReadManifest
    <2>6. QED
      BY <2>1, <2>2, <2>3, <2>4, <2>5
  <1>3. CASE StatDataset(c)
    <2>1. TypeOK'
      BY TypeNext DEF Next, Proceed
    <2>2. AnswersEndCalls' /\ LoadedAsPinned'
      BY <1>3, LoadPins
    <2>3. DirectoryIsOwned'
      BY <1>3 DEF StatDataset, Stat
    <2>4. BlobsAreInOrder'
      BY <1>3 DEF StatDataset, Stat
    <2>5. AnsweredArtifactsStay'
      BY <1>3 DEF StatDataset, Stat
    <2>6. QED
      BY <2>1, <2>2, <2>3, <2>4, <2>5
  <1>4. CASE ReadDataset(c)
    <2>1. TypeOK'
      BY TypeNext DEF Next, Proceed
    <2>2. AnswersEndCalls' /\ LoadedAsPinned'
      BY <1>4, LoadPins
    <2>3. DirectoryIsOwned'
      BY <1>4 DEF ReadDataset, DatasetIsAccepted, ReferenceIsVerified
    <2>4. BlobsAreInOrder'
      BY <1>4 DEF ReadDataset, DatasetIsAccepted, ReferenceIsVerified
    <2>5. AnsweredArtifactsStay'
      BY <1>4 DEF ReadDataset, DatasetIsAccepted, ReferenceIsVerified
    <2>6. QED
      BY <2>1, <2>2, <2>3, <2>4, <2>5
  <1>5. CASE LoadFails(c)
    <2>1. TypeOK'
      BY TypeNext DEF Next, Proceed
    <2>2. AnswersEndCalls' /\ LoadedAsPinned'
      <3>1. /\ pc' = [pc EXCEPT ![c] = "done"]
            /\ \E status \in {"409", "500"} :
                 reply' = [reply EXCEPT ![c] = status]
            /\ UNCHANGED <<request, manifest, dataset, role>>
        BY <1>5 DEF LoadFails
      <3>2. /\ pc'[c] = "done" /\ reply'[c] # "none" /\ reply'[c] # "200"
            /\ \A d \in Calls \ {c} : pc'[d] = pc[d] /\ reply'[d] = reply[d]
        BY <3>1
      <3>3. LoadsAsPinned(c)'
        BY <3>2
      <3>4. AnswersEndCalls'
        BY <3>1, <3>2
      <3>5. \A d \in Calls \ {c} : LoadsAsPinned(d)'
        BY <3>1, <3>2
      <3>6. QED
        BY <3>3, <3>4, <3>5
    <2>3. DirectoryIsOwned'
      BY <1>5 DEF LoadFails, Fault
    <2>4. BlobsAreInOrder'
      BY <1>5 DEF LoadFails, Fault
    <2>5. AnsweredArtifactsStay'
      BY <1>5 DEF LoadFails, Fault
    <2>6. QED
      BY <2>1, <2>2, <2>3, <2>4, <2>5
  <1>6. QED
    BY <1>1, <1>2, <1>3, <1>4, <1>5

\* The run, which stores nothing.
LEMMA RunStep ==
  ASSUME HostedInvariant, NEW c \in Calls, Run(c) \/ RunRaises(c)
  PROVE  HostedInvariant'
  <1> USE HostedAssumption
      DEF HostedInvariant, TypeOK, AnswersEndCalls, LoadedAsPinned, LoadsAsPinned,
          DirectoryIsOwned, BlobsAreInOrder, AnsweredArtifactsStay, At, Files,
          Statements, Loading, LocalWriting, AfterLoad, Backends, Goto, Answer,
          Continue, hostVars, deployment, loadVars, storeVars, faultVars
  <1>1. CASE Run(c)
    BY <1>1 DEF Run
  <1>2. CASE RunRaises(c)
    BY <1>2 DEF RunRaises
  <1>3. QED
    BY <1>1, <1>2

\* A local publication: only the call that made the directory touches it.
LEMMA LocalStep ==
  ASSUME HostedInvariant, NEW c \in Calls,
         \/ MakeDirectory(c) \/ RefusedByDirectory(c) \/ OpenFile(c)
         \/ WriteFile(c) \/ LocalFails(c) \/ RemoveFile(c)
         \/ RemoveDirectory(c) \/ RemoveFails(c)
  PROVE  HostedInvariant'
  <1> USE HostedAssumption
      DEF HostedInvariant, TypeOK, AnswersEndCalls, LoadedAsPinned, LoadsAsPinned,
          DirectoryIsOwned, BlobsAreInOrder, AnsweredArtifactsStay, At, Files,
          Statements, Loading, LocalWriting, AfterLoad, Backends, Goto, Answer,
          Continue, hostVars, deployment, loadVars, storeVars, faultVars
  <1>1. CASE MakeDirectory(c)
    <2>1. TypeOK'
      BY TypeNext DEF Next, Proceed
    <2>2. AnswersEndCalls' /\ LoadedAsPinned'
      BY <1>1 DEF MakeDirectory, AfterFailedMkdir
    <2>3. DirectoryIsOwned'
      <3>1. CASE directory = Nobody
        <4>1. directory' = c /\ pc' = [pc EXCEPT ![c] = "open"] /\ put[c] = 0
              /\ outputs = "local"
          BY <1>1, <3>1 DEF MakeDirectory
        <4>2. UNCHANGED <<stored, put, reply, outputs>>
          BY <1>1, <3>1 DEF MakeDirectory
        <4>3. \A n \in Files : stored[n] = Nobody
          BY <3>1, <4>1
        <4>4. \A d \in Calls \ {c} : pc[d] \notin LocalWriting
          BY <3>1, <4>1
        <4>5. QED
          BY <4>1, <4>2, <4>3, <4>4
      <3>2. CASE directory # Nobody
        BY <1>1, <3>2 DEF MakeDirectory, AfterFailedMkdir
      <3>3. QED
        BY <3>1, <3>2
    <2>4. BlobsAreInOrder'
      BY <1>1 DEF MakeDirectory, AfterFailedMkdir
    <2>5. AnsweredArtifactsStay'
      BY <1>1 DEF MakeDirectory, AfterFailedMkdir
    <2>6. QED
      BY <2>1, <2>2, <2>3, <2>4, <2>5
  <1>2. CASE RefusedByDirectory(c)
    BY <1>2 DEF RefusedByDirectory
  <1>3. CASE OpenFile(c)
    <2>1. TypeOK'
      BY TypeNext DEF Next, Proceed
    <2>2. AnswersEndCalls' /\ LoadedAsPinned'
      BY <1>3 DEF OpenFile
    <2>3. DirectoryIsOwned'
      <3>1. CASE stored[put[c] + 1] = Nobody
        <4>1. /\ stored' = [stored EXCEPT ![put[c] + 1] = Torn]
              /\ pc' = [pc EXCEPT ![c] = "write"]
              /\ UNCHANGED <<directory, put, reply, outputs>>
              /\ put[c] < Artifacts /\ put[c] \in Nat /\ pc[c] = "open"
          BY <1>3, <3>1 DEF OpenFile
        <4>2. outputs = "local" => directory = c
          BY <4>1
        <4>3. \A d \in Calls \ {c} : outputs = "local" => pc[d] \notin LocalWriting
          BY <4>2
        <4>4. \A n \in Files : n <= put[c] => stored'[n] = stored[n]
          BY <4>1
        <4>5. \A n \in Files : stored'[n] = stored[n] \/ stored'[n] = Torn
          BY <4>1
        <4>6. QED
          BY <4>1, <4>2, <4>3, <4>4, <4>5
      <3>2. CASE stored[put[c] + 1] # Nobody
        BY <1>3, <3>2 DEF OpenFile
      <3>3. QED
        BY <3>1, <3>2
    <2>4. BlobsAreInOrder'
      BY <1>3 DEF OpenFile
    <2>5. AnsweredArtifactsStay'
      BY <1>3 DEF OpenFile
    <2>6. QED
      BY <2>1, <2>2, <2>3, <2>4, <2>5
  <1>4. CASE WriteFile(c)
    BY <1>4 DEF WriteFile
  <1>5. CASE LocalFails(c)
    <2>1. TypeOK'
      BY TypeNext DEF Next, Proceed
    <2>2. AnswersEndCalls' /\ LoadedAsPinned'
      BY <1>5 DEF LocalFails, Fault, AfterFailedWrite
    <2>3. DirectoryIsOwned'
      BY <1>5 DEF LocalFails, Fault, AfterFailedWrite
    <2>4. BlobsAreInOrder'
      BY <1>5 DEF LocalFails, Fault, AfterFailedWrite
    <2>5. AnsweredArtifactsStay'
      BY <1>5 DEF LocalFails, Fault, AfterFailedWrite
    <2>6. QED
      BY <2>1, <2>2, <2>3, <2>4, <2>5
  <1>6. CASE RemoveFile(c)
    BY <1>6 DEF RemoveFile
  <1>7. CASE RemoveDirectory(c)
    BY <1>7 DEF RemoveDirectory
  <1>8. CASE RemoveFails(c)
    BY <1>8 DEF RemoveFails, Fault
  <1>9. QED
    BY <1>1, <1>2, <1>3, <1>4, <1>5, <1>6, <1>7, <1>8

\* An upload: it never replaces, so the first blob decides whose they are.
LEMMA UploadStep ==
  ASSUME HostedInvariant, NEW c \in Calls, Upload(c) \/ UploadFails(c)
  PROVE  HostedInvariant'
  <1> USE HostedAssumption
      DEF HostedInvariant, TypeOK, AnswersEndCalls, LoadedAsPinned, LoadsAsPinned,
          DirectoryIsOwned, BlobsAreInOrder, AnsweredArtifactsStay, At, Files,
          Statements, Loading, LocalWriting, AfterLoad, Backends, Goto, Answer,
          Continue, hostVars, deployment, loadVars, storeVars, faultVars, Uploads, Put
  <1>1. CASE Upload(c)
    <2>1. TypeOK'
      BY TypeNext DEF Next, Proceed
    <2>2. AnswersEndCalls' /\ LoadedAsPinned'
      <3>1. reply[c] = "none"
        BY <1>1, NoAnswerYet DEF Upload
      <3>2. \A d \in Calls \ {c} :
              /\ pc'[d] = pc[d] /\ reply'[d] = reply[d] /\ request'[d] = request[d]
              /\ manifest'[d] = manifest[d] /\ dataset'[d] = dataset[d]
        BY <1>1 DEF Upload
      <3>3. /\ (reply'[c] # "none") <=> (pc'[c] = "done")
            /\ pc'[c] \in {"upload", "done"} /\ reply'[c] # "200"
            /\ UNCHANGED <<request, manifest, dataset, role>>
        BY <1>1, <3>1 DEF Upload
      <3>4. LoadsAsPinned(c) /\ pc[c] = "upload"
        BY <1>1 DEF Upload
      <3>5. LoadsAsPinned(c)'
        BY <1>1, <3>3, <3>4 DEF Upload
      <3>6. QED
        <4> HIDE DEF AnswersEndCalls, LoadedAsPinned, LoadsAsPinned
        <4>1. AnswersEndCalls /\ LoadedAsPinned
          BY DEF HostedInvariant
        <4>2. QED
          BY <3>2, <3>3, <3>5, <4>1, OthersStayPinned
    <2>3. DirectoryIsOwned'
      BY <1>1 DEF Upload
    <2>4. BlobsAreInOrder'
      <3>1. CASE stored' = stored /\ put' = put
        BY <1>1, <3>1 DEF Upload
      <3>2. CASE stored' # stored \/ put' # put
        <4>1. /\ stored' = [stored EXCEPT ![put[c] + 1] = c]
              /\ put' = [put EXCEPT ![c] = put[c] + 1]
              /\ stored[put[c] + 1] = Nobody
              /\ put[c] < Artifacts /\ put[c] \in Nat /\ outputs' = outputs
          BY <1>1, <3>2 DEF Upload
        <4>2. SUFFICES ASSUME outputs = "azure_blob"
                       PROVE  BlobsAreInOrder'
          BY <4>1
        <4>3. put[c] + 1 \in Files
          BY <4>1
        <4>4. \A d \in Calls, n \in Files : stored'[n] = d <=> n <= put'[d]
          <5> TAKE d \in Calls, n \in Files
          <5>1. stored[n] = d <=> n <= put[d]
            BY <4>2
          <5>2. CASE n = put[c] + 1
            BY <4>1, <4>3, <5>1, <5>2
          <5>3. CASE n # put[c] + 1
            BY <4>1, <5>1, <5>3
          <5>4. QED
            BY <5>2, <5>3
        <4>5. \A n \in Files : stored'[n] # Torn
          BY <4>1, <4>2
        <4>6. \A d \in Calls :
                pc'[d] \notin LocalWriting \cup {"make_directory", "refused"}
          BY <1>1, <4>2 DEF Upload
        <4>7. QED
          BY <4>4, <4>5, <4>6
      <3>3. QED
        BY <3>1, <3>2
    <2>5. AnsweredArtifactsStay'
      BY <1>1 DEF Upload
    <2>6. QED
      BY <2>1, <2>2, <2>3, <2>4, <2>5
  <1>2. CASE UploadFails(c)
    <2>1. TypeOK'
      BY TypeNext DEF Next, Proceed
    <2>2. AnswersEndCalls' /\ LoadedAsPinned'
      BY <1>2 DEF UploadFails, Fault
    <2>3. DirectoryIsOwned'
      BY <1>2 DEF UploadFails, Fault
    <2>4. BlobsAreInOrder'
      <3>1. CASE stored' = stored /\ put' = put
        BY <1>2, <3>1 DEF UploadFails, Fault
      <3>2. CASE stored' # stored \/ put' # put
        <4>1. /\ stored' = [stored EXCEPT ![put[c] + 1] = c]
              /\ put' = [put EXCEPT ![c] = put[c] + 1]
              /\ stored[put[c] + 1] = Nobody
              /\ put[c] < Artifacts /\ put[c] \in Nat /\ outputs' = outputs
          BY <1>2, <3>2 DEF UploadFails, Fault
        <4>2. SUFFICES ASSUME outputs = "azure_blob"
                       PROVE  BlobsAreInOrder'
          BY <4>1
        <4>3. put[c] + 1 \in Files
          BY <4>1
        <4>4. \A d \in Calls, n \in Files : stored'[n] = d <=> n <= put'[d]
          <5> TAKE d \in Calls, n \in Files
          <5>1. stored[n] = d <=> n <= put[d]
            BY <4>2
          <5>2. CASE n = put[c] + 1
            BY <4>1, <4>3, <5>1, <5>2
          <5>3. CASE n # put[c] + 1
            BY <4>1, <5>1, <5>3
          <5>4. QED
            BY <5>2, <5>3
        <4>5. \A n \in Files : stored'[n] # Torn
          BY <4>1, <4>2
        <4>6. \A d \in Calls :
                pc'[d] \notin LocalWriting \cup {"make_directory", "refused"}
          BY <1>2, <4>2 DEF UploadFails, Fault
        <4>7. QED
          BY <4>4, <4>5, <4>6
      <3>3. QED
        BY <3>1, <3>2
    <2>5. AnsweredArtifactsStay'
      BY <1>2 DEF UploadFails, Fault
    <2>6. QED
      BY <2>1, <2>2, <2>3, <2>4, <2>5
  <1>3. QED
    BY <1>1, <1>2

\* The end of a publication, replaced objects and the death of the process.
LEMMA FinishStep ==
  ASSUME HostedInvariant,
         \/ \E c \in Calls : Finish(c) \/ FinishFails(c)
         \/ Replace \/ Crash
  PROVE  HostedInvariant'
  <1> USE HostedAssumption
      DEF HostedInvariant, TypeOK, AnswersEndCalls, LoadedAsPinned, LoadsAsPinned,
          DirectoryIsOwned, BlobsAreInOrder, AnsweredArtifactsStay, At, Files,
          Statements, Loading, LocalWriting, AfterLoad, Backends, Goto, Answer,
          Continue, hostVars, deployment, loadVars, storeVars, faultVars
  <1>1. ASSUME NEW c \in Calls, Finish(c)
        PROVE  HostedInvariant'
    BY <1>1 DEF Finish
  <1>2. ASSUME NEW c \in Calls, FinishFails(c)
        PROVE  HostedInvariant'
    BY <1>2 DEF FinishFails, Fault
  <1>3. CASE Replace
    <2>1. TypeOK'
      BY TypeNext DEF Next, Proceed
    <2>2. AnswersEndCalls' /\ LoadedAsPinned'
      BY <1>3 DEF Replace
    <2>3. DirectoryIsOwned'
      BY <1>3 DEF Replace
    <2>4. BlobsAreInOrder'
      BY <1>3 DEF Replace
    <2>5. AnsweredArtifactsStay'
      BY <1>3 DEF Replace
    <2>6. QED
      BY <2>1, <2>2, <2>3, <2>4, <2>5
  <1>4. CASE Crash
    <2>1. TypeOK'
      BY TypeNext DEF Next, Proceed
    <2>2. AnswersEndCalls' /\ LoadedAsPinned'
      BY <1>4 DEF Crash, Active
    <2>3. DirectoryIsOwned'
      BY <1>4 DEF Crash, Active
    <2>4. BlobsAreInOrder'
      BY <1>4 DEF Crash, Active
    <2>5. AnsweredArtifactsStay'
      BY <1>4 DEF Crash, Active
    <2>6. QED
      BY <2>1, <2>2, <2>3, <2>4, <2>5
  <1>5. QED
    BY <1>1, <1>2, <1>3, <1>4

\* Every step keeps the invariant.
LEMMA HostedNext == HostedInvariant /\ [Next]_vars => HostedInvariant'
  <1> SUFFICES ASSUME HostedInvariant, [Next]_vars
               PROVE  HostedInvariant'
    OBVIOUS
  <1>1. CASE Next
    BY <1>1, AdmissionStep, LoadStep, RunStep, LocalStep, UploadStep, FinishStep
    DEF Next, Proceed
  <1>2. CASE UNCHANGED vars
    BY <1>2
    DEF HostedInvariant, TypeOK, AnswersEndCalls, LoadedAsPinned, LoadsAsPinned,
        DirectoryIsOwned, BlobsAreInOrder, AnsweredArtifactsStay, At, vars,
        hostVars, deployment, loadVars, storeVars, faultVars
  <1>3. QED
    BY <1>1, <1>2

\* So it always holds.
THEOREM HostedIsSafe == Spec => []HostedInvariant
  BY HostedInit, HostedNext, PTL DEF Spec

-----------------------------------------------------------------------------
(***************************************************************************)
(* An answer is about the dataset its experiment pins.                     *)
(***************************************************************************)
THEOREM AnswersArePinned == Spec => []AnswersAreOfThePinnedDataset
  <1>1. HostedInvariant => AnswersAreOfThePinnedDataset
    BY HostedAssumption
    DEF HostedInvariant, LoadedAsPinned, LoadsAsPinned, AnswersAreOfThePinnedDataset
  <1>2. QED
    BY <1>1, HostedIsSafe, PTL

(***************************************************************************)
(* What an answer names stays whole, whatever other calls do.              *)
(***************************************************************************)
THEOREM AnsweredArtifactsAlwaysStay == Spec => []AnsweredArtifactsStay
  BY HostedIsSafe, PTL DEF HostedInvariant

(***************************************************************************)
(* No two runs share the place of an experiment.                           *)
(***************************************************************************)
THEOREM NoMixedPublication == Spec => []ArtifactsAreOfOneRun
  <1>1. HostedInvariant => ArtifactsAreOfOneRun
    <2> SUFFICES ASSUME HostedInvariant, NEW m \in Files, NEW n \in Files,
                        stored[m] \in Calls, stored[n] \in Calls
                 PROVE  stored[m] = stored[n]
      BY DEF ArtifactsAreOfOneRun
    <2>1. CASE outputs = "local"
      BY <2>1 DEF HostedInvariant, DirectoryIsOwned
    <2>2. CASE outputs = "azure_blob"
      <3>1. /\ m <= put[stored[m]] /\ n <= put[stored[n]]
            /\ put[stored[m]] \in Nat /\ put[stored[n]] \in Nat
        BY <2>2, HostedAssumption DEF HostedInvariant, BlobsAreInOrder, TypeOK
      <3>2. 1 \in Files /\ 1 <= m /\ 1 <= n
        BY HostedAssumption DEF Files
      <3>3. 1 <= put[stored[m]] /\ 1 <= put[stored[n]]
        BY <3>1, <3>2 DEF Files
      <3>4. stored[1] = stored[m] /\ stored[1] = stored[n]
        BY <2>2, <3>2, <3>3 DEF HostedInvariant, BlobsAreInOrder
      <3>5. QED
        BY <3>4
    <2>3. QED
      BY <2>1, <2>2 DEF HostedInvariant, TypeOK, Backends
  <1>2. QED
    BY <1>1, HostedIsSafe, PTL

(***************************************************************************)
(* A failed local publication leaves nothing in the way of a retry.        *)
(***************************************************************************)
THEOREM FailuresLeaveNothing == Spec => []FailedPublicationLeavesNothing
  <1>1. HostedInvariant => FailedPublicationLeavesNothing
    BY HostedAssumption
    DEF HostedInvariant, TypeOK, DirectoryIsOwned, LocalWriting, At,
        FailedPublicationLeavesNothing
  <1>2. QED
    BY <1>1, HostedIsSafe, PTL
=============================================================================
