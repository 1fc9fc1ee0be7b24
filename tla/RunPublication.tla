--------------------------- MODULE RunPublication ---------------------------
(***************************************************************************)
(* run_offline_experiment as it touches the file system: several processes *)
(* compute a run each, stage it in a hidden directory of their own, verify *)
(* it and rename it to one destination.  The attack bundle inside is       *)
(* staged, verified and renamed in the same way by write_run_artifacts.    *)
(*                                                                         *)
(* The content of files is what run they are of; what the attack and the   *)
(* defence came to decides which verification the content passes.          *)
(***************************************************************************)
EXTENDS Integers, Sequences

CONSTANTS
  Processes,
  NoDir,
  MaxFaults      \* bound on failed writes, failed reads, interrupts, crashes

ASSUME PublicationAssumption ==
  /\ NoDir \notin [run: Processes, bundle: 0..7, named: BOOLEAN, root: 0..6]
  /\ MaxFaults \in Nat

\* Files in the order in which they are written.
BundleOrder ==
  <<"dataset_manifest", "experiment", "failure_report", "policy",
    "proposed_scenarios", "results", "top_failures">>

RootOrder ==
  <<"defender_verdicts", "failure_report_json", "failure_report_md",
    "replay_results", "telemetry", "offline_run">>

\* What a run comes to: complete and reproduced; stopped by the deadline;
\* proposals and results that do not align; failures not reproduced; more
\* rejected claims than an artifact may hold.
Evidence == {"good", "timeout", "misaligned", "unreproduced", "overlong"}

\* A directory: whose run it holds, how many files of the bundle, whether the
\* bundle has its final name, and how many files beside it.
Directory ==
  [run: Processes, bundle: 0..Len(BundleOrder), named: BOOLEAN,
   root: 0..Len(RootOrder)]

VARIABLES
  pc,            \* pc[p]: the next statement of the process
  evidence,      \* evidence[p]: what its run came to, or "none"
  staging,       \* the hidden directory made by each process, or NoDir
  destination,   \* the published directory, or NoDir
  answer,        \* answer[p]: "none", "verified", "refused" or "failed"
  faulted,       \* which process met a fault, and at which statement
  faults         \* how many faults there were

vars == <<pc, evidence, staging, destination, answer, faulted, faults>>

At(p, statement) == pc[p] = statement

Goto(p, statement) == pc' = [pc EXCEPT ![p] = statement]

Answer(p, a) == answer' = [answer EXCEPT ![p] = a]

\* mkdtemp makes a directory that nobody else has.
Staged(p) == staging[p]

Stage(p, d) == staging' = [staging EXCEPT ![p] = d]

-----------------------------------------------------------------------------
(***************************************************************************)
(* Verification.                                                           *)
(***************************************************************************)

\* Fault variant: the records are not compared.
BundleIsComplete(d) == d.bundle = Len(BundleOrder)

\* verify_run_artifacts.
BundleVerifies(d) ==
  d.bundle = Len(BundleOrder) /\ evidence[d.run] # "misaligned"

\* verify_offline_artifacts.
RunVerifies(d) ==
  /\ d.root = Len(RootOrder)
  /\ d.named /\ BundleVerifies(d)
  /\ evidence[d.run] \notin {"timeout", "unreproduced", "overlong"}

-----------------------------------------------------------------------------
Init ==
  /\ pc = [p \in Processes |-> "start"]
  /\ evidence = [p \in Processes |-> "none"]
  /\ staging = [p \in Processes |-> NoDir]
  /\ destination = NoDir
  /\ answer = [p \in Processes |-> "none"]
  /\ faulted = {} /\ faults = 0

\* artifact_directory.exists().
Refuse(p) ==
  /\ At(p, "start")
  /\ destination # NoDir
  /\ Goto(p, "done") /\ Answer(p, "refused")
  /\ UNCHANGED <<evidence, staging, destination, faulted, faults>>

MakeStaging(p) ==
  /\ At(p, "start")
  /\ destination = NoDir
  /\ Goto(p, "staging")
  /\ UNCHANGED <<evidence, staging, destination, answer, faulted, faults>>

MkdTemp(p) ==
  /\ At(p, "staging")
  /\ Stage(p, [run |-> p, bundle |-> 0, named |-> FALSE, root |-> 0])
  /\ Goto(p, "enter_try")
  /\ UNCHANGED <<evidence, destination, answer, faulted, faults>>

\* From here on the finally clause removes the directory, and not before.
EnterTry(p) ==
  /\ At(p, "enter_try")
  /\ Goto(p, "attack")
  /\ UNCHANGED <<evidence, staging, destination, answer, faulted, faults>>

\* The attack runs; nothing is written before it ends.
Attack(p) ==
  /\ At(p, "attack")
  /\ \E e \in Evidence : evidence' = [evidence EXCEPT ![p] = e]
  /\ Goto(p, "write_bundle")
  /\ UNCHANGED <<staging, destination, answer, faulted, faults>>

\* Its proposer, or the engine, raises.
AttackRaises(p) ==
  /\ At(p, "attack")
  /\ Goto(p, "cleanup")
  /\ UNCHANGED <<evidence, staging, destination, answer, faulted, faults>>

-----------------------------------------------------------------------------
(***************************************************************************)
(* write_run_artifacts, with the bundle still under its temporary name.    *)
(***************************************************************************)
WriteBundleFile(p) ==
  /\ At(p, "write_bundle")
  /\ Staged(p).bundle < Len(BundleOrder)
  /\ Stage(p, [Staged(p) EXCEPT !.bundle = @ + 1])
  /\ UNCHANGED <<pc, evidence, destination, answer, faulted, faults>>

VerifyBundle(p) ==
  /\ At(p, "write_bundle")
  /\ Staged(p).bundle = Len(BundleOrder)
  /\ Goto(p, IF BundleVerifies(Staged(p)) THEN "name_bundle" ELSE "drop_bundle")
  /\ UNCHANGED <<evidence, staging, destination, answer, faulted, faults>>

NameBundle(p) ==
  /\ At(p, "name_bundle")
  /\ Stage(p, [Staged(p) EXCEPT !.named = TRUE])
  /\ Goto(p, "accept")
  /\ UNCHANGED <<evidence, destination, answer, faulted, faults>>

\* except Exception: the temporary bundle is removed, and the error goes on.
DropBundle(p) ==
  /\ At(p, "drop_bundle")
  /\ Stage(p, [Staged(p) EXCEPT !.bundle = 0])
  /\ Goto(p, "cleanup")
  /\ UNCHANGED <<evidence, destination, answer, faulted, faults>>

-----------------------------------------------------------------------------
(***************************************************************************)
(* The rest of the run, and its publication.                               *)
(***************************************************************************)

\* The attack must have completed, and every failure be reproduced.
Accept(p) ==
  /\ At(p, "accept")
  /\ Goto(p, IF BundleVerifies(Staged(p)) /\ evidence[p] # "timeout"
             THEN "defend" ELSE "cleanup")
  /\ UNCHANGED <<evidence, staging, destination, answer, faulted, faults>>

Defend(p) ==
  /\ At(p, "defend")
  /\ Goto(p, IF evidence[p] \in {"unreproduced", "overlong"}
             THEN "cleanup" ELSE "write_root")
  /\ UNCHANGED <<evidence, staging, destination, answer, faulted, faults>>

WriteRootFile(p) ==
  /\ At(p, "write_root")
  /\ Staged(p).root < Len(RootOrder)
  /\ Stage(p, [Staged(p) EXCEPT !.root = @ + 1])
  /\ UNCHANGED <<pc, evidence, destination, answer, faulted, faults>>

VerifyRun(p) ==
  /\ At(p, "write_root")
  /\ Staged(p).root = Len(RootOrder)
  /\ Goto(p, IF RunVerifies(Staged(p)) THEN "publish" ELSE "cleanup")
  /\ UNCHANGED <<evidence, staging, destination, answer, faulted, faults>>

\* Fault variant: whatever is there is replaced.
RenameAlways == TRUE

\* os.replace does not replace a directory that has files.
CanRename == destination = NoDir

Publish(p) ==
  /\ At(p, "publish")
  /\ CanRename
  /\ destination' = Staged(p)
  /\ Stage(p, NoDir)
  /\ Goto(p, "verify_published")
  /\ UNCHANGED <<evidence, answer, faulted, faults>>

\* Fault variant: a rename that fails is tried again.
TryAgain(p) == "publish"

\* Where a process goes whose rename fails.
AfterFailedRename(p) == "cleanup"

PublicationFails(p) ==
  /\ At(p, "publish")
  /\ ~CanRename
  /\ Goto(p, AfterFailedRename(p))
  /\ UNCHANGED <<evidence, staging, destination, answer, faulted, faults>>

VerifyPublished(p) ==
  /\ At(p, "verify_published")
  /\ IF RunVerifies(destination)
     THEN Answer(p, "verified")
     ELSE UNCHANGED answer
  /\ Goto(p, "cleanup")
  /\ UNCHANGED <<evidence, staging, destination, faulted, faults>>

\* Fault variant: it is the destination that is removed.
RemoveDestination(p) ==
  destination' = NoDir /\ UNCHANGED staging

\* shutil.rmtree(staging), if it exists.
RemoveStaging(p) ==
  Stage(p, NoDir) /\ UNCHANGED destination

\* finally: what is not published is removed.
Cleanup(p) ==
  /\ At(p, "cleanup")
  /\ RemoveStaging(p)
  /\ Goto(p, "done")
  /\ IF answer[p] = "none" THEN Answer(p, "failed") ELSE UNCHANGED answer
  /\ UNCHANGED <<evidence, faulted, faults>>

-----------------------------------------------------------------------------
(***************************************************************************)
(* Faults.                                                                 *)
(***************************************************************************)
Fault(p) ==
  /\ faults < MaxFaults
  /\ faults' = faults + 1
  /\ faulted' = faulted \cup {<<p, pc[p]>>}

Faultless(p) == \A fault \in faulted : fault[1] # p

\* An exception leaves run_offline_experiment, and what is staged stays.
Escape(p) == Goto(p, "done") /\ Answer(p, "failed")

\* A write, a verification's read, a rename or an rmtree raises OSError:
\* outside the try block, in that of write_run_artifacts, in that of the
\* run, or in the finally clause itself.
StatementRaises(p) ==
  /\ Fault(p)
  /\ \/ /\ At(p, "staging")
        /\ Escape(p)
     \/ /\ pc[p] \in {"write_bundle", "name_bundle"}
        /\ Goto(p, "drop_bundle") /\ UNCHANGED answer
     \/ /\ pc[p] \in {"drop_bundle", "accept", "defend", "write_root", "publish",
                     "verify_published"}
        /\ Goto(p, "cleanup") /\ UNCHANGED answer
     \/ /\ At(p, "cleanup") /\ staging[p] # NoDir
        /\ Escape(p)
  /\ UNCHANGED <<evidence, staging, destination>>

InTry ==
  {"attack", "write_bundle", "name_bundle", "drop_bundle", "accept", "defend",
   "write_root", "publish", "verify_published"}

\* The statements no finally clause protects: before the try block, and in
\* the clause itself.
Unprotected == {"staging", "enter_try", "cleanup"}

\* Fault variant: except Exception in place of finally.
NoUnwinding == "done"

AfterInterrupt == "cleanup"

\* KeyboardInterrupt is no Exception: only the finally clause sees it.
Interrupt(p) ==
  /\ Fault(p)
  /\ \/ /\ pc[p] \in InTry
        /\ Goto(p, AfterInterrupt) /\ UNCHANGED answer
     \/ /\ pc[p] \in Unprotected
        /\ Escape(p)
  /\ UNCHANGED <<evidence, staging, destination>>

Crash(p) ==
  /\ pc[p] \in InTry \cup Unprotected
  /\ Fault(p)
  /\ Goto(p, "dead")
  /\ UNCHANGED <<evidence, staging, destination, answer>>

-----------------------------------------------------------------------------
Step(p) ==
  \/ MkdTemp(p) \/ EnterTry(p) \/ Attack(p) \/ AttackRaises(p)
  \/ WriteBundleFile(p) \/ VerifyBundle(p) \/ NameBundle(p) \/ DropBundle(p)
  \/ Accept(p) \/ Defend(p) \/ WriteRootFile(p) \/ VerifyRun(p)
  \/ Publish(p) \/ PublicationFails(p) \/ VerifyPublished(p) \/ Cleanup(p)

Ended == {"done", "dead"}

Quiet == (\A p \in Processes : pc[p] \in Ended) /\ UNCHANGED vars

Next ==
  \/ \E p \in Processes :
       Refuse(p) \/ MakeStaging(p) \/ Step(p)
       \/ StatementRaises(p) \/ Interrupt(p) \/ Crash(p)
  \/ Quiet

Spec == Init /\ [][Next]_vars

\* A process that has begun goes on, and its attack returns or raises.
FairSpec == Spec /\ \A p \in Processes : WF_vars(Step(p))
=============================================================================
