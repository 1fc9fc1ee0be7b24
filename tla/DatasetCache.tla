--------------------------- MODULE DatasetCache ---------------------------
(***************************************************************************)
(* The dataset cache: HistoricalDataService over LocalDatasetStore.        *)
(*                                                                         *)
(* Command line processes share the cache directory and nothing else.  A   *)
(* file is created exclusively and written afterwards, so that others can  *)
(* see it empty or cut off: it is then "torn", and stays so for ever if    *)
(* its writer dies or its disk is full.  No code deletes or repairs a      *)
(* file.  A hash is modelled by what it is the hash of: a dataset file is  *)
(* named by its data and a manifest file by its query.                     *)
(***************************************************************************)
EXTENDS Naturals, FiniteSets

CONSTANTS
  Processes,   \* one call of get_or_download or of validate each
  Queries,     \* provider, symbols, period and adjustment policy
  Data,        \* canonical frames
  Acceptable,  \* Acceptable[q]: the frames that are canonical for the query
  Stamps,      \* values of retrieved_at
  NoFile, Torn,
  MaxFaults    \* bound on crashes and failed writes in a behaviour

ASSUME AcceptableAssumption == Acceptable \in [Queries -> SUBSET Data]
ASSUME FileAssumption ==
  /\ NoFile # Torn
  /\ {NoFile, Torn} \cap (Data \cup [query: Queries, data: Data, stamp: Stamps]) = {}
ASSUME CacheFaultAssumption == MaxFaults \in Nat

VARIABLES
  datasets,    \* datasets/: of each frame, NoFile, Torn or the frame
  manifests,   \* manifests/: of each query, NoFile, Torn or the manifest
  pc,          \* pc[p]: the next statement of the process
  calls,       \* calls[p]: its arguments and local variables
  faults

fileVars == <<datasets, manifests>>
vars == <<datasets, manifests, pc, calls, faults>>

\* DataManifest: the request, the content hash and the time of retrieval.
Manifest == [query: Queries, data: Data, stamp: Stamps]

ManifestFile == Manifest \cup {NoFile, Torn}

\* op: the entry point; query and the manifest put builds; read: the bytes
\* validate has read from the manifest; cached: lookup found a manifest.
Idle == [op |-> "none"]

Call == [op: {"get", "validate"}, query: Queries, built: ManifestFile,
         read: Manifest \cup {NoFile}, cached: BOOLEAN]

Begin(op, q) ==
  [op |-> op, query |-> q, built |-> NoFile, read |-> NoFile, cached |-> FALSE]

Init ==
  /\ datasets = [d \in Data |-> NoFile]
  /\ manifests = [q \in Queries |-> NoFile]
  /\ pc = [p \in Processes |-> "start"]
  /\ calls = [p \in Processes |-> Idle]
  /\ faults = 0

At(p, label) == pc[p] = label

Goto(p, label) == pc' = [pc EXCEPT ![p] = label]

Fault == faults < MaxFaults /\ faults' = faults + 1

QueryOf(p) == calls[p].query

BuiltData(p) == calls[p].built.data

\* Fault variant: put writes the manifest before the dataset.
ManifestFirst(done) ==
  CASE done = "fetch"    -> "create_manifest"
    [] done = "manifest" -> "create_dataset"
    [] done = "dataset"  -> "read_manifest"

\* The order of put: the dataset, the manifest, and validation of both.
PutOrder(done) ==
  CASE done = "fetch"    -> "create_dataset"
    [] done = "dataset"  -> "create_manifest"
    [] done = "manifest" -> "read_manifest"

AfterFetch    == PutOrder("fetch")
AfterDataset  == PutOrder("dataset")
AfterManifest == PutOrder("manifest")

-----------------------------------------------------------------------------
(***************************************************************************)
(* Entry points, lookup and the provider.                                  *)
(***************************************************************************)
StartGet(p) ==
  /\ At(p, "start")
  /\ \E q \in Queries : calls' = [calls EXCEPT ![p] = Begin("get", q)]
  /\ Goto(p, "lookup")
  /\ UNCHANGED <<fileVars, faults>>

\* data validate, baseline and attack: typer insists that the file exists.
StartValidate(p) ==
  /\ At(p, "start")
  /\ \E q \in Queries :
       /\ manifests[q] # NoFile
       /\ calls' = [calls EXCEPT ![p] = Begin("validate", q)]
  /\ Goto(p, "read_manifest")
  /\ UNCHANGED <<fileVars, faults>>

\* A file under the name of the query is a cache hit, or an error.
LookupHit(p) ==
  /\ At(p, "lookup")
  /\ manifests[QueryOf(p)] # NoFile
  /\ calls' = [calls EXCEPT ![p].cached = TRUE]
  /\ Goto(p, "read_manifest")
  /\ UNCHANGED <<fileVars, faults>>

LookupMiss(p) ==
  /\ At(p, "lookup")
  /\ manifests[QueryOf(p)] = NoFile
  /\ Goto(p, "fetch")
  /\ UNCHANGED <<fileVars, calls, faults>>

\* canonicalize_provider_data: complete, ordered, positive, in the period.
Canonical(d, q) == d \in Acceptable[q]

\* The provider fails, or what it returns is not canonical daily data.
ProviderFails(p) ==
  /\ At(p, "fetch")
  /\ Goto(p, "refused")
  /\ UNCHANGED <<fileVars, calls, faults>>

\* put hashes the frame and builds the manifest of this retrieval.
ProviderAnswers(p) ==
  /\ At(p, "fetch")
  /\ \E d \in Data, t \in Stamps :
       /\ Canonical(d, QueryOf(p))
       /\ calls' = [calls EXCEPT ![p].built =
                      [query |-> QueryOf(p), data |-> d, stamp |-> t]]
  /\ Goto(p, AfterFetch)
  /\ UNCHANGED <<fileVars, faults>>

-----------------------------------------------------------------------------
(***************************************************************************)
(* put: _write_once for the dataset and for the manifest, then validate.   *)
(***************************************************************************)

\* Fault variant: the file is opened with "wb".
OpensAnyway(file) == TRUE

\* open("xb") creates the file, or raises if there is one already ...
Opens(file) == file = NoFile

\* Fault variant: a file under the name is trusted to hold the content.
SameName(file, content) == file # NoFile

\* ... which is accepted if it holds the same bytes.
SameBytes(file, content) == file = content

\* Fault variant: a file that is being written is waited for.
WaitForWriter(p, file) ==
  \/ file = Torn /\ UNCHANGED pc
  \/ file # Torn /\ Goto(p, "refused")

\* _write_once raises: the file is incomplete, or of another retrieval.
Refuse(p, file) == Goto(p, "refused")

CreateDataset(p) ==
  /\ At(p, "create_dataset")
  /\ Opens(datasets[BuiltData(p)])
  /\ datasets' = [datasets EXCEPT ![BuiltData(p)] = Torn]
  /\ Goto(p, "write_dataset")
  /\ UNCHANGED <<manifests, calls, faults>>

WriteDataset(p) ==
  /\ At(p, "write_dataset")
  /\ datasets' = [datasets EXCEPT ![BuiltData(p)] = BuiltData(p)]
  /\ Goto(p, AfterDataset)
  /\ UNCHANGED <<manifests, calls, faults>>

CreateManifest(p) ==
  /\ At(p, "create_manifest")
  /\ Opens(manifests[QueryOf(p)])
  /\ manifests' = [manifests EXCEPT ![QueryOf(p)] = Torn]
  /\ Goto(p, "write_manifest")
  /\ UNCHANGED <<datasets, calls, faults>>

WriteManifest(p) ==
  /\ At(p, "write_manifest")
  /\ manifests' = [manifests EXCEPT ![QueryOf(p)] = calls[p].built]
  /\ Goto(p, AfterManifest)
  /\ UNCHANGED <<datasets, calls, faults>>

Collide(p, label, file, content, next) ==
  /\ At(p, label)
  /\ ~Opens(file)
  /\ \/ SameBytes(file, content) /\ Goto(p, next)
     \/ ~SameBytes(file, content) /\ Refuse(p, file)
  /\ UNCHANGED <<fileVars, calls, faults>>

CollideDataset(p) ==
  Collide(p, "create_dataset", datasets[BuiltData(p)], BuiltData(p), AfterDataset)

CollideManifest(p) ==
  Collide(p, "create_manifest", manifests[QueryOf(p)], calls[p].built,
          AfterManifest)

-----------------------------------------------------------------------------
(***************************************************************************)
(* validate: the manifest, then the dataset it names.                      *)
(***************************************************************************)

ValidManifest(file) == file \in Manifest

ReadManifest(p) ==
  LET file == manifests[QueryOf(p)]
  IN  /\ At(p, "read_manifest")
      /\ IF ValidManifest(file)
         THEN /\ calls' = [calls EXCEPT ![p].read = file]
              /\ Goto(p, "read_dataset")
         ELSE Goto(p, "refused") /\ UNCHANGED calls
      /\ UNCHANGED <<fileVars, faults>>

\* The bytes must have the hash of the manifest and be canonical data for its
\* query, which, in a cache hit, must be the query asked.
Verified(p) ==
  LET manifest == calls[p].read
  IN  /\ datasets[manifest.data] = manifest.data
      /\ Canonical(manifest.data, manifest.query)
      /\ calls[p].cached => manifest.query = QueryOf(p)

ReadDataset(p) ==
  /\ At(p, "read_dataset")
  /\ Goto(p, IF Verified(p) THEN "answered" ELSE "refused")
  /\ UNCHANGED <<fileVars, calls, faults>>

-----------------------------------------------------------------------------
(***************************************************************************)
(* Failures: nothing is cleaned up after either.                           *)
(***************************************************************************)
WriteFails(p) ==
  /\ pc[p] \in {"write_dataset", "write_manifest"}
  /\ Fault
  /\ Goto(p, "refused")
  /\ UNCHANGED <<fileVars, calls>>

Ended == {"answered", "refused", "dead"}

Crash(p) ==
  /\ pc[p] \notin Ended \cup {"start"}
  /\ Fault
  /\ Goto(p, "dead")
  /\ UNCHANGED <<fileVars, calls>>

Step(p) ==
  \/ LookupHit(p) \/ LookupMiss(p) \/ ProviderFails(p) \/ ProviderAnswers(p)
  \/ CreateDataset(p) \/ CollideDataset(p) \/ WriteDataset(p)
  \/ CreateManifest(p) \/ CollideManifest(p) \/ WriteManifest(p)
  \/ ReadManifest(p) \/ ReadDataset(p)

Quiet == (\A p \in Processes : pc[p] \in Ended) /\ UNCHANGED vars

Next ==
  \/ \E p \in Processes :
       StartGet(p) \/ StartValidate(p) \/ Step(p) \/ WriteFails(p) \/ Crash(p)
  \/ Quiet

Spec == Init /\ [][Next]_vars

\* A process that has begun goes on, and its provider returns or raises.
FairSpec == Spec /\ \A p \in Processes : WF_vars(Step(p))
=============================================================================
