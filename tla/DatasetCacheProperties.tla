----------------------- MODULE DatasetCacheProperties -----------------------
(***************************************************************************)
(* What users of the dataset cache may rely on, whoever else uses it and   *)
(* whatever files dead processes have left in it.                          *)
(***************************************************************************)
EXTENDS DatasetCache

Labels ==
  {"start", "lookup", "fetch", "create_dataset", "write_dataset",
   "create_manifest", "write_manifest", "read_manifest", "read_dataset"}
  \cup Ended

\* Types of the files and of the processes that use them.
TypeOK ==
  /\ datasets \in [Data -> Data \cup {NoFile, Torn}]
  /\ manifests \in [Queries -> ManifestFile]
  /\ pc \in [Processes -> Labels]
  /\ calls \in [Processes -> Call \cup {Idle}]
  /\ faults \in 0..MaxFaults

-----------------------------------------------------------------------------
(***************************************************************************)
(* A process that has read a manifest will find the dataset it names, of   *)
(* the query it asked for: no hit fails for a dataset that is missing or   *)
(* still being written, although the two files are written and read by     *)
(* separate steps of different processes.                                  *)
(***************************************************************************)
ReadersFindTheDataset ==
  \A p \in Processes : At(p, "read_dataset") => Verified(p)

(***************************************************************************)
(* A download that succeeds is answered with what it downloaded, also when *)
(* it collided with other writers; one that cannot be stored is refused.   *)
(***************************************************************************)
DownloadIsAnswered ==
  \A p \in Processes :
    /\ At(p, "answered")
    /\ calls[p].op = "get"
    /\ ~calls[p].cached
    => calls[p].read = calls[p].built

(***************************************************************************)
(* All that are answered for one query are answered with one dataset, that *)
(* of the first retrieval, even if the provider's prices have changed.     *)
(***************************************************************************)
OneDatasetPerQuery ==
  \A p, o \in Processes :
    /\ At(p, "answered") /\ At(o, "answered")
    /\ QueryOf(p) = QueryOf(o)
    => calls[p].read = calls[o].read

(***************************************************************************)
(* Both: answers are of one dataset per query, and of the download that    *)
(* made it (data.py, get_or_download).                                     *)
(***************************************************************************)
AnswersAreOfOneDownload == DownloadIsAnswered /\ OneDatasetPerQuery

(***************************************************************************)
(* "Existing objects are never overwritten": to whoever reads it, the      *)
(* cache is a write-once store of manifests.                               *)
(***************************************************************************)
Readable == [q \in Queries |-> IF manifests[q] \in Manifest THEN manifests[q] ELSE NoFile]

Cache == INSTANCE WriteOnce
  WITH Names <- Queries, Contents <- Manifest, Nothing <- NoFile, store <- Readable

CacheIsWriteOnce == Cache!WriteOnceSpec

(***************************************************************************)
(* Every call ends, although others die half-way: no call waits for a file *)
(* to be finished by somebody else.                                        *)
(***************************************************************************)
CallsEnd == \A p \in Processes : ~At(p, "start") ~> pc[p] \in Ended

-----------------------------------------------------------------------------
(***************************************************************************)
(* The inductive strengthening: who may be writing, and what the others    *)
(* may rely on meanwhile.                                                  *)
(***************************************************************************)

\* What a process is about to write is still torn, and is its alone.
WritersAreAlone ==
  /\ \A p \in Processes :
       /\ At(p, "write_dataset") => datasets[BuiltData(p)] = Torn
       /\ At(p, "write_manifest") => manifests[QueryOf(p)] = Torn
  /\ \A p, o \in Processes : p # o =>
       /\ At(p, "write_dataset") /\ At(o, "write_dataset") =>
            BuiltData(p) # BuiltData(o)
       /\ At(p, "write_manifest") /\ At(o, "write_manifest") =>
            QueryOf(p) # QueryOf(o)

\* A manifest follows its dataset.
DatasetFirst ==
  /\ \A p \in Processes : pc[p] \in {"create_manifest", "write_manifest"} =>
       datasets[BuiltData(p)] = BuiltData(p)
  /\ \A q \in Queries : manifests[q] \in Manifest =>
       /\ manifests[q].query = q
       /\ Canonical(manifests[q].data, q)
       /\ datasets[manifests[q].data] = manifests[q].data

\* What a process has built, stored and read agree.
CallsAgree ==
  \A p \in Processes :
    /\ At(p, "start") <=> calls[p] = Idle
    /\ pc[p] \in {"lookup", "fetch", "create_dataset", "write_dataset",
                  "create_manifest", "write_manifest"} => ~calls[p].cached
    /\ pc[p] \in {"create_dataset", "write_dataset", "create_manifest", "write_manifest"} =>
         /\ calls[p].built \in Manifest
         /\ calls[p].built.query = QueryOf(p)
         /\ Canonical(calls[p].built.data, QueryOf(p))
    /\ pc[p] \in {"read_dataset", "answered"} =>
         /\ calls[p].read \in Manifest
         /\ manifests[QueryOf(p)] = calls[p].read
    /\ pc[p] \in {"read_manifest", "read_dataset", "answered"} =>
         \/ calls[p].op = "validate"
         \/ calls[p].cached
         \/ /\ calls[p].built \in Manifest
            /\ manifests[QueryOf(p)] = calls[p].built

CacheInvariant == TypeOK /\ WritersAreAlone /\ DatasetFirst /\ CallsAgree
=============================================================================
