------------------------ MODULE ExperimentLifecycle ------------------------
(***************************************************************************)
(* What the research platform promises of its experiment records: a record *)
(* is created at most once for a key, runs once, and ends once, with its   *)
(* result if and only if it ends COMPLETED.                                *)
(***************************************************************************)
CONSTANTS
  Requests,  \* submit requests; a record is named after the one that made it
  KeyOf,     \* KeyOf[r]: the idempotency key of request r, or NoKey
  NoKey

VARIABLES
  rows,      \* rows[r]: the status of the record request r made, or Absent
  results    \* the records with a stored result

lifecycleVars == <<rows, results>>

Absent == "ABSENT"

Terminal == {"COMPLETED", "FAILED"}

\* ExperimentStatus.
RecordStatuses == {"PENDING", "RUNNING"} \cup Terminal

Exists(r) == rows[r] # Absent

\* The unique column idempotency_key: any number of records may lack a key.
KeyFree(r) == KeyOf[r] = NoKey \/ \A e \in Requests : Exists(e) => KeyOf[e] # KeyOf[r]

LifecycleInit == rows = [r \in Requests |-> Absent] /\ results = {}

Move(r, from, to) == rows[r] = from /\ rows' = [rows EXCEPT ![r] = to]

LifecycleCreate(r) ==
  KeyFree(r) /\ Move(r, Absent, "PENDING") /\ UNCHANGED results

LifecycleStart(r) == Move(r, "PENDING", "RUNNING") /\ UNCHANGED results

LifecycleComplete(r) ==
  Move(r, "RUNNING", "COMPLETED") /\ results' = results \cup {r}

LifecycleFail(r) == Move(r, "RUNNING", "FAILED") /\ UNCHANGED results

LifecycleNext ==
  \E r \in Requests : \/ LifecycleCreate(r) \/ LifecycleStart(r)
                      \/ LifecycleComplete(r) \/ LifecycleFail(r)

LifecycleSpec == LifecycleInit /\ [][LifecycleNext]_lifecycleVars
=============================================================================
