-------------------- MODULE ExperimentServiceProperties --------------------
(***************************************************************************)
(* What clients of the research API may rely on, whatever interleaving of  *)
(* requests, database failures and crashes they meet.                      *)
(***************************************************************************)
EXTENDS ExperimentService

Labels ==
  {"submit", "manifest", "create", "created", "mark_running", "validate",
   "provenance", "research", "complete", "fail", "refresh", "respond",
   "answered", "lost"}

Stages == Lifecycle!RecordStatuses \cup {Absent}

Answers ==
  {NoAnswer, Refusal(422), Refusal(503)} \cup
  [code: {201}, id: Requests, status: Lifecycle!RecordStatuses, hasResult: BOOLEAN]

\* Types of the tables, of the sessions and of the answers: in particular a
\* submit request is answered 201, 422 or 503, never with an internal error.
TypeOK ==
  /\ rows \in [Requests -> Stages]
  /\ provenance \subseteq Requests /\ results \subseteq Requests
  /\ pc \in [Requests -> Labels]
  /\ record \in [Requests -> Requests]
  /\ loaded \in [Requests -> Stages] /\ broken \subseteq Requests
  /\ answers \in [Requests -> Answers]
  /\ DOMAIN views = Readers
  /\ faults \in 0..MaxFaults

-----------------------------------------------------------------------------
(***************************************************************************)
(* The tables implement the promised lifecycle of an experiment record,    *)
(* through failed commits that were applied after all, and crashes.        *)
(***************************************************************************)
ImplementsLifecycle == Lifecycle!LifecycleSpec

(***************************************************************************)
(* Requests with the same idempotency key that are answered at all are     *)
(* answered with the same record, however they interleave.                 *)
(***************************************************************************)
SameKeySameRecord ==
  \A r, s \in Requests :
    /\ answers[r].code = 201 /\ answers[s].code = 201
    /\ SameKey(r, s)
    => answers[r].id = answers[s].id

(***************************************************************************)
(* A record the tables call COMPLETED carries its evidence, and only such  *)
(* a record does: a stored result, and the hash of the dataset it is from. *)
(***************************************************************************)
CompletedHasEvidence ==
  \A r \in Requests :
    /\ rows[r] = "COMPLETED" <=> r \in results
    /\ r \in results => r \in provenance

(***************************************************************************)
(* Clients are shown how an experiment ended, and all of it: nobody sees a *)
(* COMPLETED experiment without its result, although the row and the       *)
(* result are read by different statements; a request for the result       *)
(* conflicts only if the record read was not COMPLETED; and a 201 for      *)
(* one's own record never says PENDING or RUNNING.                         *)
(***************************************************************************)
ClientsSeeTheEnd ==
  /\ \A r \in Requests :
       answers[r].code = 201 =>
         /\ answers[r].status = "COMPLETED" => answers[r].hasResult
         /\ answers[r].id = r => answers[r].status \in Lifecycle!Terminal
  /\ \A q \in Readers :
       LET view == views[q]
       IN  /\ view.code = 200 =>
                \A id \in DOMAIN view.items :
                  view.items[id] = "COMPLETED" => id \in view.found
           /\ view.code = 409 =>
                \E id \in DOMAIN view.items : view.items[id] # "COMPLETED"

(***************************************************************************)
(* Unless the database fails or the process dies, every record that is     *)
(* created ends COMPLETED or FAILED.  Nothing settles the others.          *)
(***************************************************************************)
RecordsSettle ==
  \A r \in Requests :
    rows[r] \in {"PENDING", "RUNNING"} ~>
      (rows[r] \in Lifecycle!Terminal \/ faults > 0)

(***************************************************************************)
(* What the README says of retries: a request whose key has a record, with *)
(* no database failure in the way, is answered with that record.           *)
(***************************************************************************)
RetryReturnsOriginal ==
  \A r, s \in Requests :
    /\ Exists(s) /\ SameKey(r, s)
    /\ pc[r] = "answered" /\ faults = 0
    => answers[r].code = 422 \/ (answers[r].code = 201 /\ answers[r].id = s)

-----------------------------------------------------------------------------
(***************************************************************************)
(* The strengthening the safety properties above follow from.              *)
(***************************************************************************)
\* What the place of a request in submit says of the record it makes.
StageOfRequest ==
  \A r \in Requests :
    /\ pc[r] \in {"submit", "manifest", "create"} => rows[r] = Absent
    /\ pc[r] \in {"created", "mark_running"} => rows[r] = "PENDING"
    /\ pc[r] \in {"validate", "provenance", "research", "complete"} =>
         rows[r] = "RUNNING"
    /\ pc[r] \in {"research", "complete"} => r \in provenance
    /\ pc[r] = "fail" /\ r \notin broken => rows[r] = "RUNNING"

\* A key names one record.
KeysAreUnique ==
  \A e, f \in Requests : Exists(e) /\ Exists(f) /\ SameKey(e, f) => e = f

\* A request answers with a record that exists: its own or one of its key.
Admissible(r, id) == Exists(id) /\ (id = r \/ SameKey(r, id))

AnswersAreAdmissible ==
  \A r \in Requests :
    /\ pc[r] \in {"refresh", "respond"} => Admissible(r, record[r])
    /\ pc[r] \notin {"respond", "answered", "lost"} => record[r] = r
    /\ answers[r].code = 201 => Admissible(r, answers[r].id)

\* What a submit request is about to show, or has shown.
EndsAreShown ==
  \A r \in Requests :
    /\ pc[r] = "refresh" => rows[r] \in Lifecycle!Terminal
    /\ pc[r] = "respond" =>
         /\ loaded[r] = "COMPLETED" => record[r] \in results
         /\ record[r] = r => loaded[r] \in Lifecycle!Terminal
    /\ answers[r].code = 201 =>
         /\ answers[r].status = "COMPLETED" => answers[r].hasResult
         /\ answers[r].id = r => answers[r].status \in Lifecycle!Terminal

CompletedIn(view) == {id \in DOMAIN view.items : view.items[id] = "COMPLETED"}

\* A view shows no COMPLETED record without a stored result, and while it is
\* being made none whose result is neither found nor still to be looked for.
SoundView(view, stored) ==
  /\ view.at = "idle" => view = FreshView
  /\ view.at # "answered" => view.code = 0
  /\ CompletedIn(view) \subseteq stored
  /\ view.at \in {"results", "count"} =>
       /\ view.pending \subseteq DOMAIN view.items
       /\ CompletedIn(view) \subseteq view.pending \cup view.found
  /\ view.code = 200 => CompletedIn(view) \subseteq view.found
  /\ view.code = 409 => CompletedIn(view) # DOMAIN view.items

ViewsAreSound ==
  /\ DOMAIN views = Readers
  /\ \A q \in Readers : /\ DOMAIN views[q] = DOMAIN FreshView
                         /\ SoundView(views[q], results)

ServiceInvariant ==
  /\ TypeOK /\ StageOfRequest /\ CompletedHasEvidence
  /\ KeysAreUnique /\ AnswersAreAdmissible
  /\ EndsAreShown /\ ViewsAreSound
=============================================================================
