------------------------- MODULE ExperimentService -------------------------
(***************************************************************************)
(* The research API over its database: ExperimentService.submit, the       *)
(* ExperimentRepository it commits through, and the handlers that read.    *)
(*                                                                         *)
(* Requests run in the threads of one server process, each with a database *)
(* session of its own; statements of different requests interleave, and a  *)
(* read sees what is committed when it runs.  The database may fail at any *)
(* commit or read (a failed commit may have been applied), and the process *)
(* may die; nothing in the code looks at old records when it starts again. *)
(***************************************************************************)
EXTENDS Naturals, FiniteSets

CONSTANTS
  Requests,    \* POST /experiments requests; a record is named after its request
  KeyOf,       \* KeyOf[r]: request.idempotency_key, or NoKey
  NoKey,
  Readers,     \* GET and compare requests
  MaxFaults    \* bound on database failures and crashes in a behaviour

ASSUME FaultAssumption == MaxFaults \in Nat

VARIABLES
  rows,        \* table experiments: the status of each record, or Absent
  provenance,  \* records with a committed dataset_provenance_hash
  results,     \* table experiment_results: the records that have a row
  pc,          \* pc[r]: the next statement of submit, or of its caller
  record,      \* record[r]: the record the request answers with
  loaded,      \* loaded[r]: record.status as the session holds it
  broken,      \* sessions whose last commit raised
  answers,     \* answers[r]: the HTTP response, or NoAnswer
  views,       \* views[q]: what a reading request has loaded so far
  faults       \* failures and crashes so far

tableVars   == <<rows, provenance, results>>
sessionVars == <<record, loaded, broken>>
vars == <<rows, provenance, results, pc, record, loaded, broken, answers,
          views, faults>>

Lifecycle == INSTANCE ExperimentLifecycle

Absent == Lifecycle!Absent
Exists(r) == Lifecycle!Exists(r)

\* HTTP answers: the status code and, on success, the record shown.
NoAnswer == [code |-> 0]

Refusal(code) == [code |-> code]

Shown(id, status, hasResult) ==
  [code |-> 201, id |-> id, status |-> status, hasResult |-> hasResult]

\* A reading request: which rows it has read, whose results it still has to
\* look for, whose it has found, and what it answers.
Kinds == {"get", "result", "compare", "list"}

NoRows == [id \in {} |-> Absent]

FreshView ==
  [at |-> "idle", kind |-> "get", filter |-> Absent, items |-> NoRows,
   pending |-> {}, found |-> {}, total |-> 0, code |-> 0]

Init ==
  /\ rows = [r \in Requests |-> Absent] /\ provenance = {} /\ results = {}
  /\ pc = [r \in Requests |-> "submit"]
  /\ record = [r \in Requests |-> r]
  /\ loaded = [r \in Requests |-> Absent] /\ broken = {}
  /\ answers = [r \in Requests |-> NoAnswer]
  /\ views = [q \in Readers |-> FreshView]
  /\ faults = 0

At(r, label) == pc[r] = label

Goto(r, label) == pc' = [pc EXCEPT ![r] = label]

Answer(r, answer) ==
  Goto(r, "answered") /\ answers' = [answers EXCEPT ![r] = answer]

Fault == faults < MaxFaults /\ faults' = faults + 1

-----------------------------------------------------------------------------
(***************************************************************************)
(* The statements of submit.                                               *)
(***************************************************************************)
SameKey(r, e) == KeyOf[r] # NoKey /\ KeyOf[e] = KeyOf[r]

\* The records with the key of the request; none if it has no key.
WithKeyOf(r) == {e \in Requests : Exists(e) /\ SameKey(r, e)}

\* get_by_key finds the key: its record is the answer, as it stands now.
FindExisting(r) ==
  /\ At(r, "submit")
  /\ \E e \in WithKeyOf(r) :
       /\ record' = [record EXCEPT ![r] = e]
       /\ loaded' = [loaded EXCEPT ![r] = rows[e]]
  /\ Goto(r, "respond")
  /\ UNCHANGED <<tableVars, broken, answers, views, faults>>

FindNothing(r) ==
  /\ At(r, "submit")
  /\ WithKeyOf(r) = {}
  /\ Goto(r, "manifest")
  /\ UNCHANGED <<tableVars, sessionVars, answers, views, faults>>

\* _safe_manifest raises before anything is written.
ManifestMissing(r) ==
  /\ At(r, "manifest")
  /\ Answer(r, Refusal(422))
  /\ UNCHANGED <<tableVars, sessionVars, views, faults>>

ManifestFound(r) ==
  /\ At(r, "manifest")
  /\ Goto(r, "create")
  /\ UNCHANGED <<tableVars, sessionVars, answers, views, faults>>

\* Fault variant: the column idempotency_key is not unique.
KeyIgnored(r) == TRUE

\* The unique column: any number of records may lack a key.
KeyFree(r) == WithKeyOf(r) = {}

WriteRow(r, status) == rows' = [rows EXCEPT ![r] = status]

\* What each commit of submit writes, by the statement that commits.
WriteCreated(r) ==
  At(r, "create") /\ KeyFree(r)
  /\ WriteRow(r, "PENDING") /\ UNCHANGED <<provenance, results>>

WriteRunning(r) ==
  At(r, "mark_running")
  /\ WriteRow(r, "RUNNING") /\ UNCHANGED <<provenance, results>>

WriteProvenance(r) ==
  At(r, "provenance")
  /\ provenance' = provenance \cup {r} /\ UNCHANGED <<rows, results>>

\* The status and the result row are one commit.
WriteCompleted(r) ==
  At(r, "complete")
  /\ WriteRow(r, "COMPLETED") /\ results' = results \cup {r}
  /\ UNCHANGED provenance

WriteFailed(r) ==
  At(r, "fail")
  /\ WriteRow(r, "FAILED") /\ UNCHANGED <<provenance, results>>

Committed(r, next) ==
  Goto(r, next) /\ UNCHANGED <<sessionVars, answers, views, faults>>

Create(r) == WriteCreated(r) /\ Committed(r, "created")

\* Another request with the key came first: the insert violates the unique
\* column, and the IntegrityError is answered as a database failure.
CreateConflicts(r) ==
  /\ At(r, "create") /\ ~KeyFree(r)
  /\ Answer(r, Refusal(503))
  /\ UNCHANGED <<tableVars, sessionVars, views, faults>>

MarkRunning(r) == WriteRunning(r) /\ Committed(r, "validate")

DatasetValid(r) ==
  At(r, "validate") /\ UNCHANGED tableVars /\ Committed(r, "provenance")

CommitProvenance(r) == WriteProvenance(r) /\ Committed(r, "research")

\* run_research_experiment and verify_hypotheses return.
ResearchDone(r) ==
  At(r, "research") /\ UNCHANGED tableVars /\ Committed(r, "complete")

\* Fault variant: an error of the research leaves submit at once.
WorkEscapes(r) ==
  /\ pc[r] \in {"validate", "research", "complete"}
  /\ Answer(r, Refusal(500))
  /\ UNCHANGED <<tableVars, sessionVars, views, faults>>

\* The dataset, the research or the dump of its result raises.
WorkRaises(r) ==
  /\ pc[r] \in {"validate", "research", "complete"}
  /\ UNCHANGED tableVars /\ Committed(r, "fail")

\* Fault variant: the status is committed before the result.
CompleteInTwo(r) ==
  \/ /\ At(r, "complete") /\ rows[r] # "COMPLETED"
     /\ WriteRow(r, "COMPLETED") /\ UNCHANGED <<provenance, results>>
     /\ Committed(r, "complete")
  \/ /\ rows[r] = "COMPLETED"
     /\ WriteCompleted(r) /\ Committed(r, "refresh")

Complete(r) == WriteCompleted(r) /\ Committed(r, "refresh")

\* Fault variant: the session is rolled back, and the record then failed.
FailAnyway(r) == WriteFailed(r) /\ Committed(r, "refresh")

\* repository.fail, in a session whose commits have all worked.
Fail(r) == r \notin broken /\ WriteFailed(r) /\ Committed(r, "refresh")

\* After a commit that raised the session refuses the next one too: fail
\* raises out of submit, and the record stays as it is.
FailRefused(r) ==
  /\ At(r, "fail") /\ r \in broken
  /\ Answer(r, Refusal(503))
  /\ UNCHANGED <<tableVars, sessionVars, views, faults>>

\* session.refresh: the record as it is committed now.
Refresh(r) ==
  /\ pc[r] \in {"created", "refresh"}
  /\ loaded' = [loaded EXCEPT ![r] = rows[r]]
  /\ Goto(r, IF At(r, "created") THEN "mark_running" ELSE "respond")
  /\ UNCHANGED <<tableVars, record, broken, answers, views, faults>>

\* ExperimentResponse.from_record looks for the result row only now.
Respond(r) ==
  /\ At(r, "respond")
  /\ Answer(r, Shown(record[r], loaded[r], record[r] \in results))
  /\ UNCHANGED <<tableVars, sessionVars, views, faults>>

(***************************************************************************)
(* The database fails.  A commit inside the try block is followed by fail; *)
(* any other failure leaves submit and is answered 503.                    *)
(***************************************************************************)
Write(r) ==
  \/ WriteCreated(r) \/ WriteRunning(r) \/ WriteProvenance(r)
  \/ WriteCompleted(r) \/ WriteFailed(r)

Guarded == {"mark_running", "provenance", "complete"}

CommitRaises(r) ==
  /\ Fault
  /\ pc[r] \in Guarded \cup {"create", "fail"} /\ r \notin broken
  /\ Write(r) \/ UNCHANGED tableVars
  /\ broken' = broken \cup {r}
  /\ IF pc[r] \in Guarded
     THEN Goto(r, "fail") /\ UNCHANGED answers
     ELSE Answer(r, Refusal(503))
  /\ UNCHANGED <<record, loaded, views>>

ReadRaises(r) ==
  /\ Fault
  /\ pc[r] \in {"submit", "created", "refresh", "respond"}
  /\ Answer(r, Refusal(503))
  /\ UNCHANGED <<tableVars, sessionVars, views>>

SubmitStep(r) ==
  \/ FindExisting(r) \/ FindNothing(r) \/ ManifestMissing(r)
  \/ ManifestFound(r) \/ Create(r) \/ CreateConflicts(r) \/ MarkRunning(r)
  \/ DatasetValid(r) \/ CommitProvenance(r) \/ ResearchDone(r)
  \/ WorkRaises(r) \/ Complete(r) \/ Fail(r) \/ FailRefused(r) \/ Refresh(r)
  \/ Respond(r) \/ CommitRaises(r) \/ ReadRaises(r)

-----------------------------------------------------------------------------
(***************************************************************************)
(* The handlers that read.  Each statement reads what is committed then;   *)
(* record.result is loaded when it is first looked at, after the row.      *)
(***************************************************************************)
Viewing(q, at) == views[q].at = at

Look(q, view) ==
  /\ views' = [views EXCEPT ![q] = view]
  /\ UNCHANGED <<tableVars, pc, sessionVars, answers, faults>>

Reply(view, code) == [view EXCEPT !.at = "answered", !.code = code]

\* get_result, get_ai_findings and compare want a COMPLETED record.
Wanted(kind, id) == kind # "get" => rows[id] = "COMPLETED"

\* The session keeps a row it has read: reading it again shows no change.
WithRow(view, kind, id) ==
  [view EXCEPT !.at = "results", !.kind = kind, !.pending = {id},
               !.items = [i \in DOMAIN @ \cup {id} |->
                            IF i \in DOMAIN @ THEN @[i] ELSE rows[i]]]

ReadRow(q, kind, id) ==
  Look(q, IF ~Exists(id) THEN Reply([views[q] EXCEPT !.kind = kind], 404)
          ELSE IF Wanted(kind, id) THEN WithRow(views[q], kind, id)
          ELSE Reply(WithRow(views[q], kind, id), 409))

StartReading(q) ==
  /\ Viewing(q, "idle")
  /\ \E kind \in Kinds \ {"list"}, id \in Requests : ReadRow(q, kind, id)

\* compare_experiments goes through its experiments one after the other.
CompareNext(q) ==
  /\ Viewing(q, "results") /\ views[q].kind = "compare"
  /\ views[q].pending = {}
  /\ \E id \in Requests \ DOMAIN views[q].items : ReadRow(q, "compare", id)

Matching(status) ==
  {id \in Requests : Exists(id) /\ (status = Absent \/ rows[id] = status)}

\* One page, long enough for every record.
WithPage(view) ==
  LET page == Matching(view.filter)
  IN  [view EXCEPT !.pending = page, !.items = [id \in page |-> rows[id]]]

WithTotal(view) ==
  [view EXCEPT !.total = Cardinality(Matching(view.filter))]

\* repository.list reads the page, and in a second statement the total.
Listed(view) ==
  IF view.at = "idle" THEN [WithPage(view) EXCEPT !.at = "count"]
                      ELSE [WithTotal(view) EXCEPT !.at = "results"]

ListPage(q) ==
  /\ Viewing(q, "idle")
  /\ \E status \in Lifecycle!RecordStatuses \cup {Absent} :
       Look(q, Listed([views[q] EXCEPT !.kind = "list", !.filter = status]))

ListTotal(q) == Viewing(q, "count") /\ Look(q, Listed(views[q]))

\* record.result: a missing row is a conflict, except for metadata.
LoadResult(q) ==
  /\ Viewing(q, "results")
  /\ \E id \in views[q].pending :
       LET view == [views[q] EXCEPT !.pending = @ \ {id},
                                    !.found = IF id \in results THEN @ \cup {id} ELSE @]
       IN  Look(q, IF id \notin results /\ view.kind \in {"result", "compare"}
                   THEN Reply(view, 409) ELSE view)

ReplyView(q) ==
  /\ Viewing(q, "results") /\ views[q].pending = {}
  /\ Look(q, Reply(views[q], 200))

ViewStep(q) ==
  \/ StartReading(q) \/ CompareNext(q) \/ ListPage(q) \/ ListTotal(q)
  \/ LoadResult(q) \/ ReplyView(q)

\* A read of a reading request raises.
ViewRaises(q) ==
  /\ Fault
  /\ ~Viewing(q, "answered") /\ ~Viewing(q, "lost")
  /\ views' = [views EXCEPT ![q] = Reply(@, 503)]
  /\ UNCHANGED <<tableVars, pc, sessionVars, answers>>

-----------------------------------------------------------------------------
\* The process dies with every request it is serving, and comes back.
Crash ==
  /\ Fault
  /\ pc' = [r \in Requests |->
              IF pc[r] \in {"submit", "answered"} THEN pc[r] ELSE "lost"]
  /\ views' = [q \in Readers |->
                 IF views[q].at \in {"idle", "answered"} THEN views[q]
                 ELSE [views[q] EXCEPT !.at = "lost"]]
  /\ UNCHANGED <<tableVars, sessionVars, answers>>

AllServed ==
  /\ \A r \in Requests : pc[r] \in {"answered", "lost"}
  /\ \A q \in Readers : views[q].at \in {"answered", "lost"}

Idle == AllServed /\ UNCHANGED vars

Next ==
  \/ \E r \in Requests : SubmitStep(r)
  \/ \E q \in Readers : ViewStep(q) \/ ViewRaises(q)
  \/ Crash
  \/ Idle

\* Every request served by a living process runs on: statements return, the
\* research ends, and a handler is given a thread.
Spec ==
  /\ Init /\ [][Next]_vars
  /\ \A r \in Requests : WF_vars(SubmitStep(r))
  /\ \A q \in Readers : WF_vars(ViewStep(q))
=============================================================================
