------------------------- MODULE DatasetCacheProofs -------------------------
(***************************************************************************)
(* Proofs about the dataset cache, for any number of processes, queries,   *)
(* frames, crashes and failed writes, whatever the provider offers.        *)
(***************************************************************************)
EXTENDS DatasetCacheProperties, TLAPS

\* No process has begun and no file exists.
LEMMA CacheInit == Init => CacheInvariant
  BY CacheFaultAssumption, FileAssumption
  DEF Init, CacheInvariant, TypeOK, WritersAreAlone, DatasetFirst, CallsAgree,
      Manifest, ManifestFile, Labels, Ended, At, Idle

\* A process that has begun has proper arguments and local variables.
LEMMA CallsAreTyped ==
  ASSUME CacheInvariant, NEW p \in Processes, pc[p] # "start"
  PROVE  /\ calls[p] \in Call
         /\ QueryOf(p) \in Queries
  BY DEF CacheInvariant, TypeOK, CallsAgree, At, Call, QueryOf

\* Beginning, looking up and fetching leave the files as they are.
LEMMA CacheFetch ==
  ASSUME CacheInvariant, NEW p \in Processes,
         \/ StartGet(p) \/ StartValidate(p) \/ LookupHit(p) \/ LookupMiss(p)
         \/ ProviderFails(p) \/ ProviderAnswers(p)
  PROVE  CacheInvariant'
  <1> USE AcceptableAssumption, FileAssumption, CallsAreTyped
      DEF CacheInvariant, TypeOK, WritersAreAlone, DatasetFirst, CallsAgree,
          At, Goto, fileVars, Labels, Ended, QueryOf, BuiltData, Call,
          ManifestFile, Idle, Begin
  <1>1. CASE StartGet(p)
    BY <1>1 DEF StartGet
  <1>2. CASE StartValidate(p)
    BY <1>2 DEF StartValidate
  <1>3. CASE LookupHit(p)
    <2>1. /\ calls[p] \in Call /\ calls[p] # Idle
          /\ calls' = [calls EXCEPT ![p] = [calls[p] EXCEPT !.cached = TRUE]]
          /\ UNCHANGED <<fileVars, faults>>
          /\ pc[p] = "lookup" /\ pc' = [pc EXCEPT ![p] = "read_manifest"]
      BY <1>3 DEF LookupHit
    <2> DEFINE c == [calls[p] EXCEPT !.cached = TRUE]
    <2>2. c \in Call /\ c # Idle /\ c.cached
      BY <2>1
    <2>3. calls'[p] = c /\ \A o \in Processes : o # p => calls'[o] = calls[o]
      BY <2>1
    <2> HIDE DEF c
    <2>4. TypeOK'
      BY <2>1, <2>2, <2>3
    <2>5. WritersAreAlone' /\ DatasetFirst'
      BY <2>1, <2>3
    <2>6. CallsAgree'
      BY <2>1, <2>2, <2>3
    <2>7. QED
      BY <2>4, <2>5, <2>6
  <1>4. CASE LookupMiss(p) \/ ProviderFails(p)
    BY <1>4 DEF LookupMiss, ProviderFails
  <1>5. CASE ProviderAnswers(p)
    <2>1. PICK d \in Data, t \in Stamps :
         /\ Canonical(d, QueryOf(p))
         /\ calls' = [calls EXCEPT ![p].built =
                        [query |-> QueryOf(p), data |-> d, stamp |-> t]]
      BY <1>5 DEF ProviderAnswers
    <2> DEFINE m == [query |-> QueryOf(p), data |-> d, stamp |-> t]
               c == [calls[p] EXCEPT !.built = m]
    <2>2. /\ calls[p] \in Call /\ calls[p] # Idle
          /\ calls' = [calls EXCEPT ![p] = c]
          /\ UNCHANGED <<fileVars, faults>>
          /\ pc[p] = "fetch" /\ pc' = [pc EXCEPT ![p] = "create_dataset"]
      BY <1>5, <2>1 DEF ProviderAnswers, AfterFetch, PutOrder
    <2>3. /\ m \in Manifest /\ m.query = QueryOf(p)
          /\ Canonical(m.data, QueryOf(p))
      BY <2>1, <2>2 DEF Manifest
    <2> HIDE DEF m
    <2>4. c \in Call /\ c # Idle /\ c.built = m /\ c.query = calls[p].query
          /\ c.cached = calls[p].cached
      BY <2>2, <2>3
    <2>5. calls'[p] = c /\ \A o \in Processes : o # p => calls'[o] = calls[o]
      BY <2>2
    <2> HIDE DEF c
    <2>6. TypeOK'
      BY <2>2, <2>4, <2>5
    <2>7. WritersAreAlone' /\ DatasetFirst'
      BY <2>2, <2>5
    <2>8. CallsAgree'
      BY <2>2, <2>3, <2>4, <2>5
    <2>9. QED
      BY <2>6, <2>7, <2>8
  <1>6. QED
    BY <1>1, <1>2, <1>3, <1>4, <1>5

\* What fits the name of a manifest is no mark of a missing or torn file.
LEMMA FilesAreDistinct ==
  /\ NoFile # Torn
  /\ \A d \in Data : d # NoFile /\ d # Torn
  /\ \A m \in Manifest : m # NoFile /\ m # Torn /\ m.data \in Data
  BY FileAssumption DEF Manifest

\* put adds a file, or fills in the one it has added.
LEMMA CachePut ==
  ASSUME CacheInvariant, NEW p \in Processes,
         \/ CreateDataset(p) \/ CollideDataset(p) \/ WriteDataset(p)
         \/ CreateManifest(p) \/ CollideManifest(p) \/ WriteManifest(p)
  PROVE  CacheInvariant'
  <1> USE FilesAreDistinct, CallsAreTyped
      DEF CacheInvariant, TypeOK, WritersAreAlone, DatasetFirst, CallsAgree,
          At, Goto, fileVars, Labels, Ended, QueryOf, BuiltData,
          ManifestFile, AfterDataset, AfterManifest, PutOrder, Opens, Refuse,
          SameBytes
  <1>1. CASE CreateDataset(p)
    BY <1>1 DEF CreateDataset
  <1>2. CASE WriteDataset(p)
    BY <1>2 DEF WriteDataset
  <1>3. CASE CreateManifest(p)
    BY <1>3 DEF CreateManifest
  <1>4. CASE WriteManifest(p)
    BY <1>4 DEF WriteManifest
  <1>5. CASE CollideDataset(p)
    BY <1>5 DEF CollideDataset, Collide
  <1>6. CASE CollideManifest(p)
    BY <1>6 DEF CollideManifest, Collide
  <1>7. QED
    BY <1>1, <1>2, <1>3, <1>4, <1>5, <1>6

\* Validation, failures and crashes write no file.
LEMMA CacheValidate ==
  ASSUME CacheInvariant, NEW p \in Processes,
         ReadManifest(p) \/ ReadDataset(p) \/ WriteFails(p) \/ Crash(p)
  PROVE  CacheInvariant'
  <1> USE FilesAreDistinct, CallsAreTyped, CacheFaultAssumption
      DEF CacheInvariant, TypeOK, WritersAreAlone, DatasetFirst, CallsAgree,
          At, Goto, fileVars, Labels, Ended, QueryOf, BuiltData, ManifestFile
  <1>1. CASE ReadManifest(p)
    <2>1. CASE UNCHANGED calls /\ pc' = [pc EXCEPT ![p] = "refused"]
      BY <1>1, <2>1 DEF ReadManifest
    <2>2. CASE /\ manifests[QueryOf(p)] \in Manifest
               /\ calls' = [calls EXCEPT ![p].read = manifests[QueryOf(p)]]
               /\ pc' = [pc EXCEPT ![p] = "read_dataset"]
      <3> DEFINE m == manifests[QueryOf(p)]
                 c == [calls[p] EXCEPT !.read = m]
      <3>1. /\ calls[p] \in Call /\ calls[p] # Idle
            /\ calls' = [calls EXCEPT ![p] = c]
            /\ pc[p] = "read_manifest"
            /\ UNCHANGED <<fileVars, faults>>
        BY <1>1, <2>2 DEF ReadManifest
      <3>2. /\ c \in Call /\ c # Idle /\ c.read = m
            /\ c.query = calls[p].query /\ c.built = calls[p].built
            /\ c.op = calls[p].op /\ c.cached = calls[p].cached
        BY <2>2, <3>1 DEF Call, Idle
      <3>3. calls'[p] = c /\ \A o \in Processes : o # p => calls'[o] = calls[o]
        BY <3>1
      <3> HIDE DEF c
      <3>4. TypeOK'
        BY <2>2, <3>1, <3>2, <3>3
      <3>5. WritersAreAlone' /\ DatasetFirst'
        BY <2>2, <3>1, <3>3
      <3>6. CallsAgree'
        BY <2>2, <3>1, <3>2, <3>3
      <3>7. QED
        BY <3>4, <3>5, <3>6
    <2>3. QED
      BY <1>1, <2>1, <2>2 DEF ReadManifest, ValidManifest
  <1>2. CASE ReadDataset(p)
    BY <1>2 DEF ReadDataset
  <1>3. CASE WriteFails(p) \/ Crash(p)
    BY <1>3 DEF WriteFails, Crash, Fault
  <1>4. QED
    BY <1>1, <1>2, <1>3

\* Every step keeps the invariant.
LEMMA CacheNext == CacheInvariant /\ [Next]_vars => CacheInvariant'
  <1> SUFFICES ASSUME CacheInvariant, [Next]_vars PROVE CacheInvariant'
    OBVIOUS
  <1>1. ASSUME NEW p \in Processes,
               StartGet(p) \/ StartValidate(p) \/ Step(p) \/ WriteFails(p) \/ Crash(p)
        PROVE  CacheInvariant'
    BY <1>1, CacheFetch, CachePut, CacheValidate DEF Step
  <1>2. CASE UNCHANGED vars
    BY <1>2
    DEF vars, CacheInvariant, TypeOK, WritersAreAlone, DatasetFirst,
        CallsAgree, At, QueryOf, BuiltData
  <1>3. QED
    BY <1>1, <1>2 DEF Next, Quiet

\* The invariant holds in every reachable state.
THEOREM CacheInvariantHolds == Spec => []CacheInvariant
  BY CacheInit, CacheNext, PTL DEF Spec

(***************************************************************************)
(* Whoever has read a manifest finds its dataset, whatever others write    *)
(* meanwhile: get_or_download and validate never meet half an entry.       *)
(***************************************************************************)
THEOREM ManifestsAreBacked == Spec => []ReadersFindTheDataset
  <1>1. CacheInvariant => ReadersFindTheDataset
    BY CallsAreTyped, FilesAreDistinct
    DEF CacheInvariant, ReadersFindTheDataset, DatasetFirst, CallsAgree,
        Verified, At, TypeOK, QueryOf
  <1>2. QED
    BY <1>1, CacheInvariantHolds, PTL

(***************************************************************************)
(* A download is answered with what it downloaded, and all that            *)
(* get_or_download or validate return for one query is the same dataset.   *)
(***************************************************************************)
THEOREM AnswersAgree == Spec => []AnswersAreOfOneDownload
  <1>1. CacheInvariant => DownloadIsAnswered
    BY CallsAreTyped
    DEF CacheInvariant, DownloadIsAnswered, CallsAgree, At, QueryOf
  <1>2. CacheInvariant => OneDatasetPerQuery
    BY DEF CacheInvariant, OneDatasetPerQuery, CallsAgree, At, QueryOf
  <1>3. QED
    BY <1>1, <1>2, CacheInvariantHolds, PTL DEF AnswersAreOfOneDownload

-----------------------------------------------------------------------------
(***************************************************************************)
(* Refinement: only writing a manifest changes what can be read, and it is *)
(* then published, because its name was taken by an unreadable file.       *)
(***************************************************************************)
LEMMA ReadableStep ==
  ASSUME CacheInvariant, [Next]_vars
  PROVE  [Cache!WriteOnceNext]_Readable
  <1>1. ASSUME UNCHANGED manifests
        PROVE  UNCHANGED Readable
    BY <1>1 DEF Readable
  <1>2. ASSUME NEW p \in Processes, CreateManifest(p)
        PROVE  UNCHANGED Readable
    BY <1>2, CallsAreTyped, FilesAreDistinct
    DEF CreateManifest, Opens, Readable, CacheInvariant, TypeOK, At
  <1>3. ASSUME NEW p \in Processes, WriteManifest(p)
        PROVE  Cache!Publish(QueryOf(p), calls[p].built)
    BY <1>3, CallsAreTyped, FilesAreDistinct
    DEF WriteManifest, Cache!Publish, Readable, CacheInvariant, TypeOK, At,
        WritersAreAlone, CallsAgree
  <1>4. ASSUME NEW p \in Processes,
               StartGet(p) \/ StartValidate(p) \/ Step(p) \/ WriteFails(p) \/ Crash(p)
        PROVE  [Cache!WriteOnceNext]_Readable
    <2>1. CASE CreateManifest(p)
      BY <1>2, <2>1
    <2>2. CASE WriteManifest(p)
      <3>1. QueryOf(p) \in Queries /\ calls[p].built \in Manifest
        BY <2>2, CallsAreTyped
        DEF WriteManifest, At, CacheInvariant, CallsAgree
      <3>2. QED
        BY <1>3, <2>2, <3>1 DEF Cache!WriteOnceNext
    <2>3. CASE UNCHANGED manifests
      BY <1>1, <2>3
    <2>4. QED
      BY <1>4, <2>1, <2>2, <2>3
      DEF Step, StartGet, StartValidate, LookupHit, LookupMiss, ProviderFails,
          ProviderAnswers, CreateDataset, CollideDataset, WriteDataset,
          CollideManifest, Collide, ReadManifest, ReadDataset, WriteFails,
          Crash, fileVars
  <1>5. CASE UNCHANGED vars
    BY <1>1, <1>5 DEF vars
  <1>6. QED
    BY <1>4, <1>5 DEF Next, Quiet

(***************************************************************************)
(* To its readers the cache is a write-once store: put never overwrites.   *)
(***************************************************************************)
THEOREM NeverOverwritten == Spec => CacheIsWriteOnce
  <1>1. Init => Cache!WriteOnceInit
    BY FilesAreDistinct DEF Init, Cache!WriteOnceInit, Readable
  <1>2. QED
    BY <1>1, ReadableStep, CacheInvariantHolds, PTL
    DEF Spec, CacheIsWriteOnce, Cache!WriteOnceSpec
=============================================================================
