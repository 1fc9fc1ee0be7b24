-------------------------- MODULE HostedInvocation --------------------------
(***************************************************************************)
(* One hosted agent, an attacker or a defender: a process that answers     *)
(* POST /invocations.  Its event loop admits a request and hands it to a   *)
(* thread; the threads share one application, so that invocations of one   *)
(* experiment, concurrent ones and a client's retries, load the same       *)
(* dataset objects and publish to the same place, file by file.            *)
(*                                                                         *)
(* All calls are about one experiment: its identifier names the place they *)
(* publish to, and other experiments have other places.  A version stands  *)
(* for a manifest and for the Parquet bytes whose hash that manifest       *)
(* states; what an artifact holds is the call whose run it is of.          *)
(***************************************************************************)
EXTENDS Integers

CONSTANTS
  Calls,
  Artifacts,     \* how many files a publication has
  Versions,      \* versions of the dataset
  Size,          \* Size[v]: how many bytes a version has
  MaxSize,       \* MAX_MANIFEST_BYTES, MAX_DATASET_BYTES
  Nobody,        \* the content of what does not exist
  Torn,          \* the content of a file that was opened and not written
  MaxFaults      \* bound on replaced objects, failed calls and crashes

ASSUME HostedAssumption ==
  /\ Artifacts \in Nat \ {0}
  /\ Size \in [Versions -> Nat] /\ MaxSize \in Nat
  /\ Nobody \notin Calls \cup Versions /\ Torn \notin Calls /\ Torn # Nobody
  /\ MaxFaults \in Nat

Roles == {"attacker", "defender"}

Backends == {"local", "azure_blob"}

\* The files of a publication, in sorted order of their names.
Files == 1..Artifacts

\* The two hashes of a dataset, in a reference or in what an attack ran on.
References == [data: Versions, manifest: Versions]

\* A request as far as it pins data: the hash in the experiment, the dataset
\* reference and, for a defender, the hashes of the attack's execution.
Requests ==
  [experiment: Versions, dataset: References, execution: References \cup {Nobody}]

VARIABLES
  role,          \* which of the two agents this process is
  datasets,      \* where datasets are kept
  outputs,       \* where artifacts are kept
  object,        \* object.manifest, object.data: the stored versions
  application,   \* whether the process has built its application
  pc,            \* pc[c]: the next statement of the call
  request,       \* request[c]
  size,          \* size[c]: the size the last stat of the call has seen
  manifest,      \* manifest[c]: the manifest it has read
  dataset,       \* dataset[c]: the dataset its run computes from
  directory,     \* local: who made the target directory, or Nobody
  stored,        \* stored[n]: whose file n is, Torn or Nobody
  put,           \* put[c]: how many files the call has put
  reply,         \* reply[c]: the status of its answer, or "none"
  faulted,       \* the calls that met a fault
  faults         \* how many faults there were

deployment == <<role, datasets, outputs>>
hostVars == <<deployment, application>>
loadVars == <<object, size, manifest, dataset>>
storeVars == <<directory, stored, put>>
faultVars == <<faulted, faults>>
vars == <<hostVars, loadVars, storeVars, faultVars, pc, request, reply>>

At(c, statement) == pc[c] = statement

Goto(c, statement) == pc' = [pc EXCEPT ![c] = statement]

\* The handler returns, or one of its except clauses does.
Answer(c, status) ==
  /\ reply' = [reply EXCEPT ![c] = status]
  /\ Goto(c, "done")

Continue(c, statement) == Goto(c, statement) /\ UNCHANGED reply

Fault(c) ==
  /\ faults < MaxFaults
  /\ faults' = faults + 1
  /\ faulted' = faulted \cup {c}

-----------------------------------------------------------------------------
(***************************************************************************)
(* The request contracts.                                                  *)
(***************************************************************************)

\* AttackerHostedRequest.
AttackerAdmits(r) == r.execution = Nobody /\ r.experiment = r.dataset.data

\* DefenderHostedRequest: the attack must have run on the same dataset.
DefenderAdmits(r) == r.execution = r.dataset /\ r.experiment = r.dataset.data

Admits(r) == IF role = "attacker" THEN AttackerAdmits(r) ELSE DefenderAdmits(r)

-----------------------------------------------------------------------------
Init ==
  /\ role \in Roles /\ datasets \in Backends /\ outputs \in Backends
  /\ object \in [manifest: Versions, data: Versions]
  /\ application = FALSE
  /\ pc = [c \in Calls |-> "unsent"]
  /\ request = [c \in Calls |-> Nobody]
  /\ size = [c \in Calls |-> 0]
  /\ manifest = [c \in Calls |-> Nobody]
  /\ dataset = [c \in Calls |-> Nobody]
  /\ directory = Nobody
  /\ stored = [n \in Files |-> Nobody]
  /\ put = [c \in Calls |-> 0]
  /\ reply = [c \in Calls |-> "none"]
  /\ faulted = {} /\ faults = 0

\* A body that is too long, whose length is not a number, or that breaks the
\* contract.
Refuse(c) ==
  /\ At(c, "unsent")
  /\ \E status \in {"413", "400", "422"} : Answer(c, status)
  /\ UNCHANGED <<hostVars, loadVars, storeVars, faultVars, request>>

\* The first admitted call builds the application; there is no await between
\* the test and the assignment.
Dispatch(c) ==
  /\ At(c, "unsent")
  /\ \E r \in Requests : Admits(r) /\ request' = [request EXCEPT ![c] = r]
  /\ application' = TRUE
  /\ Continue(c, IF datasets = "local" THEN "read_manifest" ELSE "stat_manifest")
  /\ UNCHANGED <<deployment, loadVars, storeVars, faultVars>>

\* The factory raises; the next call tries it again.
BuildFails(c) ==
  /\ At(c, "unsent")
  /\ ~application
  /\ \E status \in {"422", "500"} : Answer(c, status)
  /\ UNCHANGED <<hostVars, loadVars, storeVars, faultVars, request>>

-----------------------------------------------------------------------------
(***************************************************************************)
(* dataset_store.load.  The objects may be replaced between two reads; a   *)
(* blob is asked for its size before it is downloaded.                     *)
(***************************************************************************)
Stat(c, version, statement) ==
  /\ size' = [size EXCEPT ![c] = Size[version]]
  /\ IF Size[version] >= 1 /\ Size[version] <= MaxSize
       THEN Continue(c, statement)
       ELSE Answer(c, "409")
  /\ UNCHANGED <<hostVars, object, manifest, dataset, storeVars, faultVars,
                 request>>

StatManifest(c) ==
  At(c, "stat_manifest") /\ Stat(c, object.manifest, "read_manifest")

StatDataset(c) == At(c, "stat_dataset") /\ Stat(c, object.data, "read_dataset")

\* _blob_bytes: "blob changed during download".
Downloaded(c, version) == datasets = "azure_blob" => Size[version] = size[c]

\* The blob store compares the manifest before it reads the dataset.
ManifestIsAccepted(c, version) ==
  /\ Downloaded(c, version)
  /\ datasets = "azure_blob" => version = request[c].dataset.manifest

ReadManifest(c) ==
  /\ At(c, "read_manifest")
  /\ manifest' = [manifest EXCEPT ![c] = object.manifest]
  /\ IF ManifestIsAccepted(c, object.manifest)
       THEN Continue(c, IF datasets = "local" THEN "read_dataset"
                        ELSE "stat_dataset")
       ELSE Answer(c, "409")
  /\ UNCHANGED <<hostVars, object, size, dataset, storeVars, faultVars, request>>

\* _verify_reference.
ReferenceIsVerified(c, version) ==
  /\ version = request[c].dataset.data
  /\ version = request[c].dataset.manifest

\* Fault variant: the reference is not compared with what was loaded.
DatasetIsAcceptedUnverified(c, version) ==
  Downloaded(c, version) /\ version = manifest[c]

\* The bytes have the hash the manifest states.
DatasetIsAccepted(c, version) ==
  /\ Downloaded(c, version)
  /\ version = manifest[c]
  /\ ReferenceIsVerified(c, manifest[c])

ReadDataset(c) ==
  /\ At(c, "read_dataset")
  /\ IF DatasetIsAccepted(c, object.data)
       THEN /\ dataset' = [dataset EXCEPT ![c] = object.data]
            /\ Continue(c, "run")
       ELSE Answer(c, "409") /\ UNCHANGED dataset
  /\ UNCHANGED <<hostVars, object, size, manifest, storeVars, faultVars, request>>

Loading ==
  {"stat_manifest", "read_manifest", "stat_dataset", "read_dataset"}

\* A read fails, or the container's client cannot be made, which no except
\* clause turns into 409.
LoadFails(c) ==
  /\ pc[c] \in Loading
  /\ Fault(c)
  /\ \/ Answer(c, "409")
     \/ At(c, "stat_manifest") /\ Answer(c, "500")
  /\ UNCHANGED <<hostVars, loadVars, storeVars, request>>

\* The strategy is built and the attack is run, or the evidence replayed.
Run(c) ==
  /\ At(c, "run")
  /\ Continue(c, IF outputs = "local" THEN "make_directory" ELSE "upload")
  /\ UNCHANGED <<hostVars, loadVars, storeVars, faultVars, request>>

RunRaises(c) ==
  /\ At(c, "run")
  /\ \E status \in {"422", "500"} : Answer(c, status)
  /\ UNCHANGED <<hostVars, loadVars, storeVars, faultVars, request>>

-----------------------------------------------------------------------------
(***************************************************************************)
(* LocalArtifactStore.publish.                                             *)
(***************************************************************************)

\* Fault variant: the flag is set before mkdir, and rmtree follows.
AfterFailedMkdirRemoving == "remove"

\* Fault variant: it waits for the place to become free.
AfterFailedMkdirRetrying == "make_directory"

\* What was not created is not removed.
AfterFailedMkdir == "refused"

MakeDirectory(c) ==
  /\ At(c, "make_directory")
  /\ IF directory = Nobody
       THEN directory' = c /\ Continue(c, "open")
       ELSE Continue(c, AfterFailedMkdir) /\ UNCHANGED directory
  /\ UNCHANGED <<hostVars, loadVars, stored, put, faultVars, request>>

RefusedByDirectory(c) ==
  /\ At(c, "refused")
  /\ Answer(c, "409")
  /\ UNCHANGED <<hostVars, loadVars, storeVars, faultVars, request>>

\* path.open("xb") fails if the file is there.
OpenFile(c) ==
  /\ At(c, "open")
  /\ put[c] < Artifacts
  /\ IF stored[put[c] + 1] = Nobody
       THEN /\ stored' = [stored EXCEPT ![put[c] + 1] = Torn]
            /\ Continue(c, "write")
       ELSE Continue(c, "remove") /\ UNCHANGED stored
  /\ UNCHANGED <<hostVars, loadVars, directory, put, faultVars, request>>

WriteFile(c) ==
  /\ At(c, "write")
  /\ put' = [put EXCEPT ![c] = @ + 1]
  /\ stored' = [stored EXCEPT ![put[c] + 1] = c]
  /\ Continue(c, "open")
  /\ UNCHANGED <<hostVars, loadVars, directory, faultVars, request>>

\* Fault variant: the error is raised without a cleanup.
AfterFailedWriteLeaving == "refused"

AfterFailedWrite == "remove"

\* mkdir, open, write or close raises OSError.
LocalFails(c) ==
  /\ \/ At(c, "make_directory") /\ Continue(c, "refused")
     \/ pc[c] \in {"open", "write"} /\ Continue(c, AfterFailedWrite)
  /\ Fault(c)
  /\ UNCHANGED <<hostVars, loadVars, storeVars, request>>

\* shutil.rmtree empties the directory and removes it.
RemoveFile(c) ==
  /\ At(c, "remove")
  /\ \E n \in Files :
       stored[n] # Nobody /\ stored' = [stored EXCEPT ![n] = Nobody]
  /\ UNCHANGED <<hostVars, loadVars, directory, put, faultVars, pc, request,
                 reply>>

RemoveDirectory(c) ==
  /\ At(c, "remove")
  /\ \A n \in Files : stored[n] = Nobody
  /\ directory' = Nobody
  /\ Answer(c, "409")
  /\ UNCHANGED <<hostVars, loadVars, stored, put, faultVars, request>>

\* rmtree raises an error of its own, which no except clause turns into 409.
RemoveFails(c) ==
  /\ At(c, "remove")
  /\ Fault(c)
  /\ Answer(c, "500")
  /\ UNCHANGED <<hostVars, loadVars, storeVars, request>>

-----------------------------------------------------------------------------
(***************************************************************************)
(* AzureBlobArtifactStore.publish.                                         *)
(***************************************************************************)

\* Fault variant: overwrite=True.
UploadsOver(n) == TRUE

\* overwrite=False.
Uploads(n) == stored[n] = Nobody

Put(c, n) ==
  /\ stored' = [stored EXCEPT ![n] = c]
  /\ put' = [put EXCEPT ![c] = @ + 1]

Upload(c) ==
  /\ At(c, "upload")
  /\ put[c] < Artifacts
  /\ IF Uploads(put[c] + 1)
       THEN Put(c, put[c] + 1) /\ Continue(c, "upload")
       ELSE Answer(c, "409") /\ UNCHANGED <<stored, put>>
  /\ UNCHANGED <<hostVars, loadVars, directory, faultVars, request>>

\* The upload raises, with the blob created or not; nothing is taken back.
UploadFails(c) ==
  /\ At(c, "upload")
  /\ put[c] < Artifacts
  /\ Fault(c)
  /\ \/ Uploads(put[c] + 1) /\ Put(c, put[c] + 1)
     \/ UNCHANGED <<stored, put>>
  /\ Answer(c, "409")
  /\ UNCHANGED <<hostVars, loadVars, directory, request>>

-----------------------------------------------------------------------------
\* Every file is stored: the references are returned.
Finish(c) ==
  /\ pc[c] \in {"open", "upload"}
  /\ put[c] = Artifacts
  /\ Answer(c, "200")
  /\ UNCHANGED <<hostVars, loadVars, storeVars, faultVars, request>>

\* The temporary directory of an attack cannot be removed.
FinishFails(c) ==
  /\ role = "attacker"
  /\ pc[c] \in {"open", "upload"}
  /\ put[c] = Artifacts
  /\ Fault(c)
  /\ Answer(c, "500")
  /\ UNCHANGED <<hostVars, loadVars, storeVars, request>>

\* The owner of the dataset store replaces an object.
Replace ==
  /\ faults < MaxFaults /\ faults' = faults + 1
  /\ \E v \in Versions :
       \/ object' = [object EXCEPT !.manifest = v]
       \/ object' = [object EXCEPT !.data = v]
  /\ UNCHANGED <<hostVars, size, manifest, dataset, storeVars, pc, request,
                 reply, faulted>>

\* The process dies with its threads and is started again.
Active(c) == pc[c] \notin {"unsent", "done", "dead"}

Crash ==
  /\ faults < MaxFaults /\ faults' = faults + 1
  /\ application' = FALSE
  /\ pc' = [c \in Calls |-> IF Active(c) THEN "dead" ELSE pc[c]]
  /\ faulted' = faulted \cup {c \in Calls : Active(c)}
  /\ UNCHANGED <<deployment, loadVars, storeVars, request, reply>>

\* What the thread of a call does by itself.
Proceed(c) ==
  \/ StatManifest(c) \/ ReadManifest(c) \/ StatDataset(c) \/ ReadDataset(c)
  \/ Run(c) \/ RunRaises(c)
  \/ MakeDirectory(c) \/ RefusedByDirectory(c) \/ OpenFile(c) \/ WriteFile(c)
  \/ RemoveFile(c) \/ RemoveDirectory(c)
  \/ Upload(c) \/ Finish(c)

Next ==
  \/ \E c \in Calls :
       \/ Refuse(c) \/ Dispatch(c) \/ BuildFails(c)
       \/ Proceed(c)
       \/ LoadFails(c) \/ LocalFails(c) \/ RemoveFails(c) \/ UploadFails(c)
       \/ FinishFails(c)
  \/ Replace \/ Crash

Spec == Init /\ [][Next]_vars

\* A thread that is not at its end runs on.
FairSpec == Spec /\ \A c \in Calls : WF_vars(Proceed(c))
=============================================================================
