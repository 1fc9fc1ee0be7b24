---------------------- MODULE RunPublicationProperties ----------------------
(***************************************************************************)
(* What the published directory promises to whoever finds it, and what a   *)
(* process promises about its own run.                                     *)
(***************************************************************************)
EXTENDS RunPublication

\* Types; and only a run that came to something is staged, by its process.
TypeOK ==
  /\ pc \in [Processes -> {"start"} \cup InTry \cup Unprotected \cup Ended]
  /\ evidence \in [Processes -> Evidence \cup {"none"}]
  /\ staging \in [Processes -> Directory \cup {NoDir}]
  /\ destination \in Directory \cup {NoDir}
  /\ answer \in [Processes -> {"none", "verified", "refused", "failed"}]
  /\ faulted \subseteq Processes \X (InTry \cup Unprotected)
  /\ faults \in 0..MaxFaults
  /\ \A p \in Processes : staging[p] # NoDir =>
       /\ staging[p].run = p
       /\ staging[p].bundle > 0 => evidence[p] # "none"

-----------------------------------------------------------------------------
(***************************************************************************)
(* Whoever finds the destination finds a whole, aligned, reproduced run,   *)
(* wherever processes fail or die.                                         *)
(***************************************************************************)
PublishedIsWhole ==
  destination # NoDir =>
    /\ destination.bundle = Len(BundleOrder) /\ destination.named
    /\ destination.root = Len(RootOrder)
    /\ evidence[destination.run] = "good"

(***************************************************************************)
(* run_offline_experiment returns an index only of the run it computed.    *)
(***************************************************************************)
VerifiedIsOwn ==
  \A p \in Processes : answer[p] = "verified" =>
    destination # NoDir /\ destination.run = p

(***************************************************************************)
(* A process that does not die leaves its hidden directory behind in two   *)
(* cases only: it was interrupted after mkdtemp made the directory and     *)
(* before the try block that removes it, or the rmtree of the finally      *)
(* clause itself failed or was interrupted.  A failed attack, a failed     *)
(* write, a lost race and an interrupt anywhere in the try block leave     *)
(* nothing, also when the rmtree of write_run_artifacts failed before (a   *)
(* test asserts it of one failing write; offline.py:890-943).              *)
(***************************************************************************)
NothingIsLeft ==
  \A p \in Processes :
    At(p, "done") /\ staging[p] # NoDir =>
      \E statement \in {"enter_try", "cleanup"} : <<p, statement>> \in faulted

(***************************************************************************)
(* A good run that met no fault is lost only to a run already published.   *)
(***************************************************************************)
LostOnlyToAnother ==
  \A p \in Processes :
    At(p, "done") /\ evidence[p] = "good" /\ Faultless(p) =>
      /\ destination # NoDir
      /\ answer[p] = "failed" => destination.run # p

(***************************************************************************)
(* What run_offline_experiment tells its caller is true: a verified index  *)
(* is that of its own run, and a good run that met no fault is refused     *)
(* only for another one that is published (offline.py,                     *)
(* run_offline_experiment).                                                *)
(***************************************************************************)
AnswersAreTrue == VerifiedIsOwn /\ LostOnlyToAnother

(***************************************************************************)
(* The destination is a write-once store of runs.                          *)
(***************************************************************************)
Store ==
  INSTANCE WriteOnce WITH
    Names <- {"destination"}, Contents <- Processes, Nothing <- NoDir,
    store <- [n \in {"destination"} |->
                IF destination = NoDir THEN NoDir ELSE destination.run]

DestinationIsWriteOnce == Store!WriteOnceSpec

(***************************************************************************)
(* Every run that is begun ends, also the ones that lose the race.         *)
(***************************************************************************)
RunsEnd == \A p \in Processes : At(p, "staging") ~> pc[p] \in Ended

-----------------------------------------------------------------------------
(***************************************************************************)
(* "Run index written last inside the hidden bundle before publication"    *)
(* (ExperimentArtifact): where experiment.json is, all the others are.     *)
(***************************************************************************)
IndexIsWrittenLast ==
  \A p \in Processes : staging[p] # NoDir =>
    LET written == {BundleOrder[i] : i \in 1..staging[p].bundle}
    IN  "experiment" \in written => staging[p].bundle = Len(BundleOrder)

-----------------------------------------------------------------------------
(***************************************************************************)
(* The inductive strengthening: what each statement may take for granted.  *)
(***************************************************************************)
Staging == InTry \ {"verify_published"}

\* A hidden directory is its maker's, from mkdtemp to the rename, or to the
\* clean-up.
StagedByOwner ==
  \A p \in Processes :
    /\ pc[p] \in Staging \cup {"enter_try"} => staging[p] # NoDir
    /\ pc[p] \in {"start", "staging", "verify_published"} => staging[p] = NoDir
    /\ staging[p] # NoDir => staging[p].run = p

\* What has been verified stays so.
VerifiedStays ==
  \A p \in Processes :
    /\ pc[p] \in {"start", "staging", "enter_try", "attack"} => evidence[p] = "none"
    /\ pc[p] \in Staging \ {"attack"} => evidence[p] # "none"
    /\ evidence[p] = "none" /\ staging[p] # NoDir => staging[p].bundle = 0
    /\ At(p, "name_bundle") => BundleVerifies(staging[p])
    /\ pc[p] \in {"accept", "defend", "write_root", "publish"} =>
         staging[p].named /\ BundleVerifies(staging[p])
    /\ At(p, "publish") => RunVerifies(staging[p])

\* A published run has been verified, and its process has left the attack.
PublishedWasVerified ==
  /\ destination # NoDir =>
       /\ RunVerifies(destination)
       /\ evidence[destination.run] # "none"
       /\ pc[destination.run] \in {"verify_published", "cleanup", "done", "dead"}
  /\ \A p \in Processes :
       /\ At(p, "verify_published") => destination # NoDir /\ destination.run = p
       /\ answer[p] = "verified" =>
            /\ destination # NoDir /\ destination.run = p
            /\ pc[p] \in {"cleanup", "done", "dead"}

\* Without a fault a good run goes on until it is published or too late.
GoodRunsGoOn ==
  \A p \in Processes : Faultless(p) /\ evidence[p] = "good" =>
    /\ pc[p] \notin {"drop_bundle", "dead"}
    /\ pc[p] \in {"cleanup", "done"} =>
         /\ destination # NoDir
         /\ answer[p] # "verified" => destination.run # p

PublicationInvariant ==
  /\ TypeOK /\ StagedByOwner /\ VerifiedStays /\ PublishedWasVerified
  /\ GoodRunsGoOn /\ NothingIsLeft
=============================================================================
