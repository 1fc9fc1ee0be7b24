# A TLA+ model of strategy-redteam-lab

The repository attacks a fixed two-asset trading strategy with stress
scenarios.  An *attacker* proposes scenarios within a budget, a deterministic
engine evaluates them, a *defender* replays the worst ones, and everything is
written down as a bundle of files that verifies itself.  A web API runs research
experiments and keeps their records in a database.  This directory models the
parts of the program that keep state or must get an order right, checks them
with TLC on small instances and proves the main facts with TLAPS.

Everything below names source files relative to the repository's `src/strategy_redteam/`.

## 1. The system

| Component | State it keeps | Operations | Talks to |
|---|---|---|---|
| Bounded attack runner (`attack.py`) | `AttackBudget` (rounds, slots, deadline), seen ids and payloads, record of proposals and evaluations, tallies, stop reason | `run_attack` and its loop body | proposer (calls), clock (reads), engine, artifact writer |
| Attacker service (`services.py`) | the adapter's slot count | `_ScenarioProposerAdapter.propose` | language model (text), runner |
| Severity ranking (`attack.py`, `artifacts.py`) | none | `_rank_top_failures`, and its recomputation in `verify_run_artifacts` | runner, verifier |
| Artifact publication (`artifacts.py`) | staging directory, published directory | `write_run_artifacts`, `verify_run_artifacts` | file system |
| Dataset store (`data.py`) | content-addressed files, manifests | `put`, `validate`, `lookup`, `get_or_download` | file system, provider |
| Defender service (`services.py`) | none across calls | replay, confirm, draft, narrate | engine, language model |
| Offline run (`offline.py`) | staging directory, deadline | `run_offline_experiment`, `verify_offline_artifacts` | attacker, defender, file system |
| Hosted invocation (`hosted.py`, `hosted_server.py`) | local or blob artifact store | `publish`, download, `invoke` | blob service, runner, defender |
| Research service (`experiment_service.py`, `persistence/`, `api/`) | tables `experiments`, `experiment_results`, one session per request | `submit`, list, get, compare, result, findings | database, HTTP clients |
| Policy (`attack.py`) | none | `AttackPolicy`, `for_strategy`, `validate_scenario` | runner, attacker service |
| Deterministic proposers (`offline.py`, `attack.py`) | none | `DeterministicOfflineScenarioClient`, `build_deterministic_candidates` | attacker service, policy |
| Stress and scenario evaluation (`stress.py`, `attack.py`) | a private copy of the returns and of the cost while one scenario is evaluated | `apply_stress_scenario`, `_evaluate_scenario` | runner, backtest, defender |
| Backtest and failure rules (`backtest.py`) | none | `run_backtest`, `evaluate_failure_rules` | evaluation, scan |
| Historical scan (`historical.py`) | candidates, groups and breach records while one history is scanned | `scan_historical_failures` | backtest |
| Strategy weights, research, product (`strategy.py`, `research.py`, `product.py`) | none | numerical analysis | research service |
| Clients, telemetry, CLI, front end, scripts | none the program reads back | I/O | everything |

What makes them hard, and what makes them correct:

* **Runner.**  The deadline may pass between any two statements, the proposer
  may return anything, and every candidate takes one of four paths through the
  loop body.  Correct: slots are settled exactly once, nothing is admitted
  twice, late evidence never counts, the stop reason is the true one, the
  published ranking is the severity ranking, and the bundle verifies itself.
* **Attacker service.**  Two counters of one budget.  Correct: they agree
  whenever the model is called, and an unusable answer costs exactly one slot.
* **Research service.**  Concurrent requests with the same key, commits that
  fail although they were applied, sessions that refuse to go on, crashes, and
  reads torn over two statements.  Correct: the tables follow the lifecycle of
  a record, evidence comes with completion, one record per key.
* **Hosted agents.**  Threads of one process share an application and publish,
  file by file, to one place per experiment; objects may be replaced between two
  reads; a cleanup may meet what another call made.  Correct: an answer is about
  the pinned data, and the artifacts it names are whole, its own, and stay.
* **Policy and proposers.**  Windows, ends and costs are checked by the policy
  and again by the engine, with different code; two proposers lay out windows by
  arithmetic on the length of the dataset.  Correct: what the policy admits, the
  engine can apply; no proposer wastes a slot or ends a run without need.
* **Engine.**  Components consume what others left, the sequence runs twice, and
  the failure rules are implemented twice, over a window and over a history.
  Correct: a stress stays in its window and is the sum of what it declares, the
  second pass meets the numbers of the first, breaches are those of the
  definitions and read no future row, both implementations agree, and every
  episode of overlapping windows is answered for once.
* **Publication and cache.**  Checks followed by renames or exclusive creation,
  crashes in between, several writers.  Correct: what has the final name is
  whole and verified, and is never replaced.

## 2. Modules

`Severity` -- the ranking as a pure algorithm.  The code sorts and slices;
the module defines the position of each rank by counting what sorts before it.

`AttackRunner` (extends `Severity`) -- `run_attack`.  `pc` names the statement
the loop is at.  One action per outcome of a statement: `StopBeforeRound`,
`StartRound`; `ProposerReturns`, `ProposerOverflows`, `ProposerExhausted`,
`ProposerFails`; `RejectCandidate`, `SkipCandidate`, `BeginEvaluation` and
`DiscardEvidence` / `RecordEvidence`, because the clock is read again after the
evaluation, or `EvaluationRaises`; `StopAfterRound`, `NextRound`,
`RoundsExhausted`; `Finish`, which ranks, verifies and publishes.  The clock is the
variable `expired`, set by `DeadlinePasses` between any two of these steps.  A run
ends in one of the places of `Over`: only "done" leaves a bundle, and three kinds of
exception nobody catches do not.  One of them is that of the budget itself, when
`BatchFits` refuses a batch or no round is left; `BudgetNeverRaises` says that it
never comes to that, whatever `ProposerReturns`.

A candidate is abstracted to its form (typed scenario, full mapping, partial
mapping, schema-invalid, unusable answer), its id, its numeric payload and
whether it has a headline.  Hashes are modelled by what they are hashes of.
The engine is a function from payloads to outcomes, the policy a set of payloads.

`AttackRunnerProperties` -- its properties and the inductive strengthening.

`AttackerService` (extends the above) -- the adapter in front of the runner:
the second slot count, the validated evidence summary, and the ways in which an
answer is unusable, overflows, or is exhausted.  Each adapter action is the
conjunction of its bookkeeping and the runner action it leads to.

`ExperimentLifecycle` -- the abstract specification of the research tables:
created at most once for a key, started, then completed with a result or failed.

`ExperimentService` -- `submit`, statement by statement, for every concurrent
request, with the commits of the repository, and the reading handlers, which
read the row and its result, or the page and its total, at different moments.
`CommitRaises` fails a commit, applied or not; `broken` is the session that
refuses the next commit; `Crash` kills the process.

`ExperimentServiceProperties` -- its properties, among them the refinement
`ImplementsLifecycle`, which maps `rows` and `results` to themselves.

`WriteOnce` -- the abstract specification shared by cache and publication: a
store in which a name goes from nothing to a content once, and stays.

`DatasetCache` -- `get_or_download`, `put` and `validate`, statement by
statement, for concurrent processes over shared files.  A file is absent, torn
(created and not finished) or whole; exclusive creation is `Opens`, the write
that follows is a step of its own, and between the two a process may die
(`Crash`) or its disk may refuse (`WriteFails`): nothing removes a torn file.
`DatasetCacheProperties` -- its properties, among them `CacheIsWriteOnce`: what
can be read of the manifests implements `WriteOnce`.

`Defender` -- `DefenderService.defend`: the checks of provenance of each failure
(`FailedChecks`), its replay (`Mismatches`, `Reproduces`), verdicts with their
contract, the audit of the language model's claims (`Supported`, `Unknown`,
`Omitted`), the report, and what `run_offline_experiment` does with it.  A client
whose exception is none of the two the audit catches ends the defence
(`WriterFails`).  Hashes and metrics are modelled by whether they agree.  `DefenderProperties` states
what a reader may rely on.

`RunPublication` -- `run_offline_experiment` around attack and defence:
the destination is looked for, a hidden staging directory is made, the seven
files of the attack's bundle and the root files are written in the code's
order, the bundle and the run are verified, and one rename publishes.  Every
statement may raise, be interrupted, or be the last of a process that dies.
The cleanup of the `except` and `finally` blocks is part of the model: it protects
the statements of `InTry`, from `EnterTry` on, and not those of `Unprotected`, among
them the removal itself, whose failure or interrupt is an exception that leaves
(`Escape`).  A removal that fails is modelled as removing nothing.
`RunPublicationProperties` -- its properties, with the refinement of `WriteOnce`.

`HostedInvocation` -- one hosted agent, whose `role` is attacker or defender:
admission of a request and the contract that pins its data (`Admits`: a reference
has the hash of the data and of the manifest, and a defender is told on which of
both the attack ran), the application built by
the first call, the dataset loaded read by read from a directory or from blobs,
and publication file by file to a directory (exclusive creation, cleanup by whom
made it) or to blobs (upload without overwriting, nothing taken back).  Objects
are replaced at any moment; reads, writes, uploads and cleanups fail, uploads
also after they were applied; the process crashes and restarts.
`HostedInvocationProperties` states what an answer promises.

`Backtest` -- the replay and the failure rules as operators.  Returns are whole
log steps, so that they compound by addition and a drawdown is a difference; a
position is held on the whole of a row or not at all.

`HistoricalScan` -- `scan_historical_failures`: `Collect` the candidates of one
configured length after another, `Select` by rank and overlap group, then build
evidence (`BuildResult`) and `Answer`, or raise where a contract refuses it.
`HistoricalScanProperties` holds it against `Backtest`.

`StressedEvaluation` (extends `Backtest`) -- `apply_stress_scenario` and
`_evaluate_scenario`: `Preflight`, `DryRun` component by component, then
`BeginEvidence` with the baseline again, `ProduceComponent` with its summaries,
`FinishTransform`, `ReplayScenario`, `JudgeScenario`; each may `Reject` with the
code's rejection code.  The coloring of a correlation target is not computed:
one asset takes its rows in another order, which keeps means and variances as
the code does; the check of preflight that a target is a correlation matrix
(`stress.py:682-689`) is left out, targets being those it accepts.
`StressedEvaluationProperties` states what a stress may do.

`AttackPolicy` (extends `StressedEvaluation`, whose windows it must agree with)
-- the contract of policies and hypotheses, `Active` (for_strategy) and `Admits`
(validate_scenario with its context).

`OfflineProposal` (extends `AttackPolicy`) -- a request under a policy; its
proposal by a model, by the client of offline runs (`ClientComponents`) or by the
grid (`GridComponents`); and the verdict: `Propose`, `Admit`, `Refuse`.  The
rounding of the code (halves to even) is in `Rounded`.
`OfflineProposalProperties` relates verdicts to preflight and to the dataset.

`Engine` -- composes scan, evaluation and proposal for one instance and one set
of theorems; they share `Backtest` and keep no state for each other.

`...Proofs` -- the theorems of the module they are named after;
`AttackRunnerProofs` has those of `AttackerService` too.
`OrdersAndSums` -- lemmas about total orders of finite sets (every element has a
place, and every place an element) and about sums over finite sets and rows
(disjoint unions, affine and reindexed terms, differences that telescope, double
sums).  A theorem of the library that takes an operator cannot be used, so
induction goes over sets there: a set of naturals that holds zero and successors
is all of them, and a family of finite sets that grows by single elements has all.
`MC...` -- the instances for TLC; `RunPublicationProperties` needs none.

Definitions whose comment begins with "Fault variant" are no part of the model:
each is the code with a plausible bug, kept to show that the property it is
paired with would notice.

## 3. Runs

| Run | Instance | What it shows |
|---|---|---|
| `MCAttackRunner` | 2 rounds of at most 2 candidates, 3 slots, top 2, eleven raw candidates | accounting, admission, stop reasons, evidence and ranking; the budget never raises |
| `MCPartialMapping` | 1 round, 1 candidate | *violation*: a partial mapping makes the bundle fail its verification |
| `MCAttackerService` | 3 rounds of at most 2 candidates, 4 slots | both counts agree; an unusable answer costs one slot; through the adapter every bundle publishes |
| `MCExperimentService` | 2 submit requests with one key, 1 reader of any kind, 2 faults | one record per key, the refinement, records settle, and what clients are shown is the whole end, also by torn reads |
| `MCIdempotentRetry` | 2 requests with one key, no fault | *violation*: the loser of the race is answered 503 |
| `MCDatasetCache` | 2 processes, 2 overlapping queries, 2 datasets, 2 faults | hits are whole and verified, all answers for a query are of one download, write-once; calls end |
| `MCDefender` | up to 2 failures, one alteration or difference each, every narrative over 2 failures and 2 invented ids | reports, verdicts, claims; only invented ids can lose a run |
| `MCNarrative` | the same | *violation*: invented ids lose a reproduced run |
| `MCRunPublication` | 2 processes, one destination, 2 faults | the published run is whole and never replaced; what callers are told is true; nothing staged is left behind but in two named cases; runs end |
| `MCHostedInvocation` | 2 calls of an agent in either role, 2 files, 2 versions of the dataset, 2 faults, each pair of stores | answers are of the pinned dataset; their artifacts are whole, of one run, and stay; a failed publication leaves nothing; calls are answered |
| `MCEngine` | 7 rows, see below | the scan, the stress, the failure rules, the policy and the proposers |
| `MCBundleIndex` | 2 processes, no fault | *violation*: the index is not written last |

**Bounds.**  The runner's limits are at most 3 rounds, 8 per round and 24 in
total.  Three slots over two rounds of two is the smallest budget in which the
second batch is cut by the total rather than by the round, a round ends with slots
left, and a duplicate may be of an earlier batch or of its own; the eleven candidates
hold two of every kind of collision (equal id, equal payload, equal severity), and
one that fails more rules than a qualifying one without qualifying.  In
the service three rounds are needed so that an unusable answer can come after a
scenario that already has its name.  Two requests race for a key, beside one
reader; two faults allow a failed commit followed by a crash.  In the cache the
provider may return the same frame for both queries and has corrected its prices
for one, so that processes collide on a dataset, on a manifest, or on both, and
two faults can tear one of each.  A failure of the defender has at most one
alteration or difference, since the checks are independent; two failures are
needed because a wrong rank of one spoils the other, and with `TopK` of two a
writer can invent as many ids as the code keeps rejections.  One process that
publishes and one that loses suffice for the race for the destination; two faults
allow a raised error followed by a cleanup that fails, or a fault in each process.
A hosted call is raced, or retried, by one other; two files are the fewest of
which one can be missing, and two faults allow an object replaced and put back, or
a write and its cleanup that both fail.  Both roles, and both kinds of store on
either side, are initial states of the one instance.  The theorems of section 5
hold for any number of processes, calls and faults.

The engine's instance has seven rows after the first, a rolling window of two (20
in the code) and history lengths of 2, 3 and 7 (20, 60, 126), so that windows
nest, and a window can overlap one that is not its neighbour.  Every history of
three kinds of day (lose two steps, win one, cash) is scanned under four sets of
rules.  Sixteen components, alone and in pairs, cover each family, each check of
preflight and windows that touch, nest and cross; `Unit`, the step of the six
markets, is a multiple of the lengths of the windows stressed, so that means and
daily shares are whole; `Ruin` is five units, so that a sum of shocks can be a
total loss.  `MCEngine` evaluates that the unit is small enough for every scenario
(`UnitIsSmallEnough`), which a theorem has as its hypothesis.  Costs are 0 or 6
steps of a limit of 30, which a multiplier of 5 reaches and one of 4 does not.
Every round, candidate and batch size of the client, and every slot of the grid
with two seeds, is proposed under six policies (ample, tight, too long for the
client, none supported, none, longest duration), two kinds of strategy and four
calendars; hypotheses keep the shape of the approved ranges in fewer rows.  Ranges
are taken in whole steps: that a float interpolated between two bounds stays
between them is not checked by the model.

**Fairness.**  None for the runner and the adapter, for which no liveness is
claimed: that the loop ends follows from its `range`, and that a call to the
proposer returns is nothing the code can enforce.  The research service: a
request that has been taken up runs on, because statements return, the research
is a bounded computation and the server gives each request a thread.  Cache and
publication: a process that has begun goes on, since it waits for nobody, and
the provider and the attack return or raise.  Hosted agents: a thread that has
taken a call runs on until it has answered or dies.  No call need ever begin, and
nothing is assumed of faults or crashes.

## 4. What the violations say

* A proposer may answer with mappings (`CandidateProposer`).  One that leaves
  out fields with defaults is accepted; its proposal then carries the hash of
  the payload as received and its evaluation the hash of the typed scenario.
  The verifier insists that they are equal, and the run, computed and ranked,
  is lost.  Candidates that come through the adapter always verify
  (`EveryBundlePublishes` in `MCAttackerService`).
* `README.md` promises that a retry with the same key returns the original
  record.  If the retry comes between the look-up and the insert of the first
  request, it is answered 503 instead; it never gets a second record.
* `tests/test_services.py` says that a failure of the report writer cannot abort
  deterministic evidence.  The audit records one rejection for each unknown id
  and one for all the omitted ones, up to `TOP_K + 1`; the artifact allows
  `TOP_K`.  A writer that answers with `TOP_K` invented ids and no real one makes
  the construction of the artifact raise, and the reproduced run is lost.
  `OnlyInventionAborts` shows that nothing else does.
* `artifacts.py` and `docs/STATUS.md` say that `experiment.json` is written
  last in the bundle.  The files are written in sorted order, and it is second.
  No reader of a published run can tell: the directory is renamed when all are
  there (`PublishedIsWhole`).

Some things that are no violations but worth knowing:

* The run is verified again after it has been published.  A read that fails there
  reports an error for a run that stays published; a retry is then refused
  because the destination exists.
* A hidden staging directory stays behind an offline run that is interrupted
  between `mkdtemp` and `try` (`offline.py:890-896`), or whose `rmtree` in the
  `finally` clause fails or is interrupted (`offline.py:941-943`).  `NothingIsLeft`
  names the two cases; a later run is not hindered, since its own directory has
  another name.
* A proposer that raises or hangs, or an evaluation whose exception is not among
  those handled, loses the evidence of all rounds so far; a report writer whose
  exception is none of the two the audit catches (`services.py:741`) loses the
  defence.
* Failures are ranked by the number of rules they break before how badly.  One that
  does not qualify may displace one that does, so that the published ranking need
  not show the results the evidence condition counts.  `EvidenceBacked` says what it
  does show.
* A hosted publication that crashes, or whose upload is applied and reported as
  failed, leaves artifacts that block every retry of the experiment.
* A loss that is only the cost of leaving the market names no position: the scan
  raises (`historical.py:297`), and a stressed scenario is refused as
  INVALID_DATA (`backtest.py:145`).
* A comment in `apply_stress_scenario` (`stress.py:829`) says that the dry run
  completes every numerical validation.  Components cannot fail after it, but
  their summaries can, for a window whose cumulative return is a total loss.
* The replay refuses a return on the first row (`backtest.py:321`).  The grid's
  inflation, volatility and correlation windows begin there, so that the policy
  admits them, preflight accepts them, and none ever enters the catalog; a
  client's gap three rows before a month that begins on the fourth row is a
  wasted slot for the same reason.
* A policy none of whose hypotheses the strategy supports is treated as one
  without hypotheses: `for_strategy` leaves none, and everything in the numeric
  envelope is admitted.  `AdmittedScenariosFit` speaks of policies that keep one.
* Both proposers ask for three dates (`from_dataset`).  With fewer than seven, the
  regime that the client lays over the first half of the dataset
  (`offline.py`, `_component`) has two rows.  A policy without hypotheses admits a
  correlation over them, and preflight, which wants three, refuses it
  (`RegimeIsTooShort`).

## 5. Proofs

Every invariant of every passing run is a theorem for every value of the constants,
and so are the three refinements (`ImplementsLifecycle`, `CacheIsWriteOnce`,
`DestinationIsWriteOnce`).  `PROJECT.json` lists which theorem states which.

Assumptions: the limits `AttackBudget` accepts, what the engine may answer, that
a scenario has an id (`BudgetAssumption`, `EngineAssumption`,
`CandidateAssumption`), what the adapter's typed scenarios are
(`AdapterAssumption`); that the bound on faults is a natural number
(`FaultAssumption`, `CacheFaultAssumption`); that a missing file is neither torn
nor whole (`FileAssumption`, `PublicationAssumption`, and with the sizes of files
`HostedAssumption`); the types of what the provider accepts and of the altered
evidence (`AcceptableAssumption`, `DefenderAssumption`); that scenarios, failure
rules, costs and markets are those the domain contracts let through
(`RowsAssumption`, `ScanAssumption`, `StressAssumption`); that policies passed
their validators (`PolicyAssumption`); and that proposers are asked within the hard
budget, over three dates at least (`SourceAssumption`).  TLC evaluates all of them.

**Runner and adapter.**

* `TypeCorrect`.  `TypeOK` is not inductive alone: that `cursor` and `slots`
  stay in range needs to know where the loop stands.  The invariant proved is
  `TypeOK /\ LoopPosition`.
* `SlotsAreAccounted`, `CompletedMeansInTime`, `StopReasonIsHonest`,
  `DuplicatesAreAlwaysExact`: each adds one conjunct of `LoopInvariant` to those
  two.  The timeout argument is `TimeoutWillStop`: a timeout in the record means
  that the flag is up, or that the run has ended with that reason.  The duplicate
  argument is `SeenIsRecorded`: the sets of ids and payloads seen are exactly those
  of the record.  `CompletedMeansInTime` states `CompletedSawNoTimeout`, which no
  run lists: it follows from `TimeoutWillStop` alone.
* `RankingIsBounded`, `EvidenceIsBacked` rest on `EvidenceInvariant`: no scenario is
  admitted twice (`AdmittedOnce`), the counts the loop keeps are those of
  the record (`FiguresRecorded`), each evaluation belongs to its proposal
  (`RecordsPaired`), and what a run publishes is computed from the record
  (`EndOfRun`).  That the ranking has as many places as there are
  failures, in order, with nothing more severe left out, follows from severity being
  a total order of the failures (ids break ties, and ids are unique), by the lemmas
  of `OrdersAndSums` on places.  `EvidenceIsBacked` is about places that qualifying
  results could fill: as many failures as those are at least as severe as a
  qualifying one, so that each such place holds a failure of `MinBreaches` breaches or
  more.  It may be one that does not qualify, and nothing stronger holds.
* `BudgetIsNeverExceeded`: the rounds started are those the loop has begun, and the
  batch asked for is never larger than `BatchFits` allows.
* `WholePayloadsPublish`: every run that ends publishes a bundle its verifier
  accepts, if no candidate is a partial mapping.  The hypothesis is needed:
  `MCPartialMapping` is the run without it.  It is a fact about candidates and not
  about states, which `MCAttackerService` meets.
* `ServicePublishes`, `SummaryIsHonest` add `AdapterInvariant`: both slot counts are
  equal after every statement, no batch of the adapter holds a mapping, a round
  feeds back no more results than it has settled, and an unusable answer stands
  alone in its round.  `ServiceImplementsRunner`: each service step is a step of the
  runner or a stutter, so the runner's invariants hold for the service as well.

**Research service.**

* `Refinement`, `CompletedMeansEvidence` rest on `StageOfRequest`: the place of
  a request in `submit` determines the status of its row, except at `fail` in a
  broken session, where the code does nothing.  That is why a lost commit
  acknowledgement cannot turn COMPLETED into FAILED.
* `OneRecordPerKey` rests on `KeysAreUnique` and `AnswersAreAdmissible`.
* `EndIsSeen` rests on `ViewsAreSound`: a view shows no COMPLETED record without a
  stored result, and while it is being made none whose result is neither found nor
  still to be looked for; results are never removed, so a torn read finds what it
  looks for.

**Cache, defender, publication, hosted agents.**

* `ManifestsAreBacked`, `AnswersAgree`, `NeverOverwritten` rest on
  `CacheInvariant`: a writer's file is torn and its own until it has finished
  it (`WritersAreAlone`), a manifest follows its dataset (`DatasetFirst`), and
  what a process has built, stored and read agree (`CallsAgree`). They hold
  for any number of processes, queries, datasets and faults.
* `BlameIsAlwaysRight`, `ReportsAreReproduced`, `ClaimsAreSupported`: the verdicts
  computed so far are those the evidence deserves, at every step of the loop;
  claims and report are then computed from them.  `TopK`, the
  alterations, the replays and the model's answers are arbitrary.
* `OnlyRejectedAnswersAbort` adds `NarrativeIsBounded`: the unknown claims of an
  answer of at most `TopK` claims are as many as that only if none is known, so the
  one rejection too many means that nothing was accepted.  It counts: the accepted
  and the refused ids are disjoint parts of a set of at most `TopK`.
* `PublishedIsAlwaysWhole`, `AnswersAreAlwaysTrue`, `NothingIsEverLeft`,
  `PublishedOnce` rest on `PublicationInvariant`
  (`PublicationInvariantHolds`): what the place of a process in the run says of its
  staging directory, and that only a whole, verified and reproduced run reaches
  the rename.  `NothingIsEverLeft` has two exceptions in its statement, each tied to
  the fault that makes it (`faulted` remembers at which statement of which process):
  what is staged by a process that is done was left by an interrupt before the `try`
  block, or by a removal that itself failed or was interrupted.
* `AnswersArePinned`, `AnsweredArtifactsAlwaysStay`, `NoMixedPublication`,
  `FailuresLeaveNothing` rest on `HostedInvariant` (`HostedIsSafe`): what has been
  loaded is what the request pins (`LoadedAsPinned`); a directory is written and
  emptied only by the call that made it (`DirectoryIsOwned`); blobs are put in
  order, and only by the call that put the first (`BlobsAreInOrder`).  That
  answered artifacts stay is part of the invariant: a cleanup removes files, and
  only ownership says that they are not those of an answer.

**Engine.**  The invariants are small, and most of each proof is about one step:
what sums, extremes and ranks over rows come to, for any number of rows.

* `StressAlwaysStaysInItsWindow` adds to the property that preflight has accepted
  every component (`PreflightPassed`), for any number of components the contract
  allows.  `DryRunAlwaysSettles` needs a history: `StagesAreSettled` says that
  there is a chain of stages, from the dataset through every component, each of
  which applies, and that the evidence stands at one of its stages.
* `StressIsAlwaysDeclared` rests on `AddsUpInvariant`: after n components the
  evidence is the dataset plus the shocks these declare, per asset, and the cost
  multiplied by the one multiplier among them.  It has a temporal hypothesis,
  `[]StepsAreWhole`: the daily share of a shock and the mean of a scaled window are
  whole steps, as they are up to rounding in the code's floats.  `UnitIsSmallEnough`
  is the same for the instance, which TLC evaluates.
* `BreachesAreAlwaysTrue` rests on `JudgedInvariant`: the curves judged are the
  replays of the returns staged.  The property compares rows and windows pair by
  pair; the code goes by running maxima, rolling losses and a variance.  The lemma
  that joins the two notions of volatility is that a variation is half the sum of the
  squared differences of all pairs (`SumOfDifferences`).
* `EpisodesAreAnsweredOnce`, `OnlyUnheldLossesAreRefused`,
  `ScanAlwaysAgreesWithBacktest` rest on `ScanInvariant`: the candidates are windows
  that fail, the selection is the ranking of all of them, the evidence is built
  from it in order.  The first is about overlap: the groups the scan makes of windows in
  order of their start are the components connected by overlap.  The second finds a
  held row in the rows of every breach that is more than a cost.  The third shows for
  every rule that a curve restarted at the window has the high water, the rolling
  losses, the variation, the first worst row and the recovery of the whole one (for
  volatility only the rule and its onset are part of the property):
  differences of equity do not change, and sums are reindexed.
* `AdmittedAlwaysFits` rests on `AdmittedFits`, which has no state: by the family
  of the hypothesis, the window contract of the policy implies that of preflight.
  The invariant only says that what is admitted kept the domain contract.
* `OfflineProposalsAlwaysFit` rests on `OfferInvariant`: what is proposed is what the
  proposer makes of the request, and the verdict is the policy's on it.  The rest is
  arithmetic: a rounded fraction of a whole is one of its parts
  (`RoundedIsAPart`), so an interpolated value is in its range (`InterpolationStays`);
  and each layout of windows, shocks and gaps stays in the dataset, in the ranges and
  in the places of its hypothesis (`ClientInflationFits`, `GridInflationFits`,
  `RebalanceFits`, `ClientComponentFits`, `GridComponentFits`).  Proving it for every
  length found the two exceptions the property now names, a cost without room
  (`FrictionIsVoid`) and a regime too short for a correlation (`RegimeIsTooShort`).

Model-checked only: liveness (`RecordsSettle`, `CallsEnd`, `RunsEnd`,
`CallsAreAnswered`), since fairness and ENABLED are out of the prover's reach.

## 6. Plan and limits

Done: the runner, the adapter, the ranking; the research service; the dataset
cache; the defender; the offline run and its publication; hosted invocations;
the engine, the policy and the deterministic proposers.  What could follow:

1. Walk-forward folds (`research.py`) and the weights of the strategies, as pure
   algorithms against a reference definition.
2. Hosted publication as a refinement of an abstract store of answers, which now is
   an invariant (`AnsweredArtifactsStay`) and no specification.

Not modelled, and why: the numerical analysis of `research.py` and `product.py`
(floating point over arrays, no state), attribution and correlations of the scan,
the coloring of a correlation target; network clients (one request, one answer,
whose possible contents are inputs of `AttackerService`); telemetry, command
line, demo, front end, scripts and migrations (I/O, formatting, schema).
