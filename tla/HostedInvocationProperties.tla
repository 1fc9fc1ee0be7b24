---------------------- MODULE HostedInvocationProperties ----------------------
(***************************************************************************)
(* What an answer of a hosted agent promises about the data it is of and   *)
(* about the artifacts it names.                                           *)
(***************************************************************************)
EXTENDS HostedInvocation

LocalWriting == {"open", "write", "remove"}

Statements ==
  Loading \cup LocalWriting
    \cup {"unsent", "run", "make_directory", "refused", "upload", "done", "dead"}

\* Types, for the proofs.
TypeOK ==
  /\ role \in Roles /\ datasets \in Backends /\ outputs \in Backends
  /\ object \in [manifest: Versions, data: Versions]
  /\ application \in BOOLEAN
  /\ pc \in [Calls -> Statements]
  /\ request \in [Calls -> Requests \cup {Nobody}]
  /\ size \in [Calls -> Nat]
  /\ manifest \in [Calls -> Versions \cup {Nobody}]
  /\ dataset \in [Calls -> Versions \cup {Nobody}]
  /\ directory \in Calls \cup {Nobody}
  /\ stored \in [Files -> Calls \cup {Torn, Nobody}]
  /\ put \in [Calls -> Nat]
  /\ reply \in [Calls -> {"none", "200", "400", "409", "413", "422", "500"}]
  /\ faulted \subseteq Calls
  /\ faults \in 0..MaxFaults

-----------------------------------------------------------------------------
(***************************************************************************)
(* An answer is about the dataset its experiment pins, and a defender's is *)
(* about the one its attack ran on, whatever is replaced while it loads    *)
(* and whichever store it loads from.                                      *)
(***************************************************************************)
AnswersAreOfThePinnedDataset ==
  \A c \in Calls : reply[c] = "200" =>
    /\ dataset[c] = request[c].experiment
    /\ manifest[c] = request[c].dataset.manifest
    /\ role = "defender" =>
         /\ dataset[c] = request[c].execution.data
         /\ manifest[c] = request[c].execution.manifest

(***************************************************************************)
(* The references of an answer name a whole publication of its own run,    *)
(* and go on naming it whatever other calls, cleanups and crashes do.      *)
(***************************************************************************)
AnsweredArtifactsStay ==
  \A c \in Calls : reply[c] = "200" => \A n \in Files : stored[n] = c

(***************************************************************************)
(* The place of an experiment never holds files of two runs, not even of   *)
(* publications that failed half-way and that are not cleaned up.          *)
(***************************************************************************)
ArtifactsAreOfOneRun ==
  \A m, n \in Files :
    stored[m] \in Calls /\ stored[n] \in Calls => stored[m] = stored[n]

(***************************************************************************)
(* A call whose publication failed, and which met neither a crash nor a    *)
(* second failure while it cleaned up, leaves nothing in a local store: a  *)
(* retry of it can succeed.                                                *)
(***************************************************************************)
FailedPublicationLeavesNothing ==
  \A c \in Calls :
    At(c, "done") /\ outputs = "local" /\ reply[c] = "409" =>
      directory # c /\ \A n \in Files : stored[n] # c

(***************************************************************************)
(* Every call the process has admitted is answered or dies with it.        *)
(***************************************************************************)
CallsAreAnswered ==
  \A c \in Calls : Active(c) ~> pc[c] \in {"done", "dead"}

-----------------------------------------------------------------------------
(***************************************************************************)
(* Why they hold: the inductive invariant of the proofs.                   *)
(***************************************************************************)
AfterLoad ==
  LocalWriting \cup {"run", "make_directory", "refused", "upload"}

\* A call has an answer when it is done, and only then.
AnswersEndCalls ==
  \A c \in Calls : (reply[c] # "none") <=> At(c, "done")

\* What has been loaded is what the request pins.
LoadsAsPinned(c) ==
  /\ pc[c] \in Loading \cup AfterLoad \/ reply[c] = "200" =>
       /\ request[c] \in Requests
       /\ request[c].experiment = request[c].dataset.data
       /\ role = "defender" => request[c].execution = request[c].dataset
  /\ At(c, "stat_dataset") \/ At(c, "read_dataset") => manifest[c] \in Versions
  /\ pc[c] \in AfterLoad \/ reply[c] = "200" =>
       /\ dataset[c] = manifest[c]
       /\ manifest[c] = request[c].dataset.data
       /\ manifest[c] = request[c].dataset.manifest

LoadedAsPinned == \A c \in Calls : LoadsAsPinned(c)

\* A local directory is written, and emptied, by the call that made it.
DirectoryIsOwned ==
  outputs = "local" =>
    /\ \A c \in Calls :
         /\ ~At(c, "upload")
         /\ pc[c] \in Loading \cup {"unsent", "run", "make_directory"} => put[c] = 0
         /\ pc[c] \in LocalWriting => directory = c
         /\ pc[c] \in {"open", "write"} =>
              \A n \in Files : n <= put[c] => stored[n] = c
         /\ At(c, "write") => put[c] < Artifacts
         /\ directory = c =>
              \/ pc[c] \in LocalWriting \cup {"dead"}
              \/ At(c, "done") /\ reply[c] \in {"200", "500"}
    /\ \A n \in Files : stored[n] # Nobody => directory # Nobody
    /\ \A n \in Files : stored[n] \in Calls => stored[n] = directory

\* Blobs are put in order, and only by the call that put the first.
BlobsAreInOrder ==
  outputs = "azure_blob" =>
    /\ \A c \in Calls : pc[c] \notin LocalWriting \cup {"make_directory", "refused"}
    /\ \A c \in Calls, n \in Files : stored[n] = c <=> n <= put[c]
    /\ \A n \in Files : stored[n] # Torn

HostedInvariant ==
  /\ TypeOK
  /\ AnswersEndCalls
  /\ LoadedAsPinned
  /\ DirectoryIsOwned
  /\ BlobsAreInOrder
  /\ AnsweredArtifactsStay
=============================================================================
