--------------------------- MODULE HistoricalScan ---------------------------
(***************************************************************************)
(* The scan of the unchanged history for windows in which the strategy     *)
(* fails: every window of the configured lengths is a candidate, of the    *)
(* windows that overlap only the most severe is kept, and evidence is      *)
(* built for the TopK best.  The scan measures its windows with code of    *)
(* its own, each as if the strategy had started with it, and raises when   *)
(* the evidence contradicts the candidate or its own contract.             *)
(***************************************************************************)
EXTENDS Backtest, Sequences

CONSTANTS
  Positions,       \* what a day can be: a return of the held assets, or Cash
  Cash,            \* a day on which nothing is held
  ExitCost,        \* cost of entering or leaving the market, in steps
  RuleSets,        \* the sets of failure rules an experiment may configure
  HistoryLengths,  \* historical_window_rows, <<20, 60, 126>> in the code
  TopK

ASSUME ScanAssumption ==
  /\ TopK \in Nat \ {0} /\ ExitCost \in Nat
  /\ Positions \ {Cash} \subseteq Int
  /\ HistoryLengths \in Seq(Nat)
  /\ \A n \in 1..Len(HistoryLengths) : HistoryLengths[n] >= WindowRows
  /\ \A failureRules \in RuleSets : FailureRuleContract(failureRules)

VARIABLES
  baseline,        \* [equity, held]: the replay the whole scan reads
  rules,           \* failure rules of the experiment
  pending,         \* window lengths whose candidates are not collected yet
  candidates,      \* failing windows of the lengths collected
  selected,        \* windows kept, the most severe first
  evidence,        \* results built so far, in that order
  scan             \* "idle", "collecting", "building", "answered" or "raised"

scanVars == <<baseline, rules, pending, candidates, selected, evidence, scan>>

Severity == INSTANCE Severity

-----------------------------------------------------------------------------
(***************************************************************************)
(* The arrays of one window, first..last of the earned rows.  Offsets      *)
(* count from 1 as the rows do.                                            *)
(***************************************************************************)
WindowWealth(equity, first, last) ==
  [k \in 1..(last - first + 1) |-> equity[first + k - 1] - equity[first - 1]]

\* Fault variant: the high of a window is only taken over its own rows.
WindowDrawdownsOfEarnings(wealth) ==
  [k \in DOMAIN wealth |-> Max({wealth[j] : j \in 1..k}) - wealth[k]]

\* The running high is at least the initial wealth of the window, 0 steps.
WindowDrawdowns(wealth) ==
  [k \in DOMAIN wealth |-> Max({0} \cup {wealth[j] : j \in 1..k}) - wealth[k]]

\* Returns of the rolling windows inside, by the offset of their first row.
RollingCompounded(wealth) ==
  [k \in 1..(Len(wealth) - WindowRows + 1) |->
     wealth[k + WindowRows - 1] - (IF k = 1 THEN 0 ELSE wealth[k - 1])]

\* Offsets of the rolling windows inside whose volatility is not zero.
VolatilityEvaluable(equity, first, wealth) ==
  {k \in DOMAIN RollingCompounded(wealth) :
     Variation(equity, first + k + WindowRows - 2) > 0}

(***************************************************************************)
(* The ranking figures of a window.                                        *)
(***************************************************************************)
Excess(rule, maximumDrawdown, worstRolling, evaluable) ==
  LET observed == CASE rule.family = "maximum_drawdown"    -> maximumDrawdown
                    [] rule.family = "rolling_20_day_loss" -> -worstRolling
                    [] OTHER                               -> SameVolatility
      breached == /\ observed > rule.threshold
                  /\ rule.family = "realized_volatility_multiple" => evaluable
  IN  IF breached THEN observed - rule.threshold ELSE 0

Candidate(equity, failureRules, first, last) ==
  LET wealth    == WindowWealth(equity, first, last)
      deepest   == Max(Range(WindowDrawdowns(wealth)))
      rolling   == Min(Range(RollingCompounded(wealth)))
      evaluable == VolatilityEvaluable(equity, first, wealth) # {}
      excess    == [rule \in failureRules |-> Excess(rule, deepest, rolling, evaluable)]
  IN  [start    |-> first,
       end      |-> last,
       severity |-> <<Cardinality({rule \in failureRules : excess[rule] > 0}),
                      Max(Range(excess)),
                      SumFunction(excess),
                      Max({deepest, 0, -wealth[Len(wealth)], -rolling})>>]

BreachCount(window) == window.severity[1]

CandidateFrame(equity, failureRules, windowRows) ==
  {window \in {Candidate(equity, failureRules, first, first + windowRows - 1) :
                 first \in 1..(Rows - windowRows + 1)} :
     BreachCount(window) > 0}

-----------------------------------------------------------------------------
(***************************************************************************)
(* Ranking and overlap.  A scenario id is historical-<rows>-<start>-<end>. *)
(***************************************************************************)
WindowLength(window) == window.end - window.start + 1

IdPrecedes(c, d) ==
  \/ WindowLength(c) < WindowLength(d)
  \/ WindowLength(c) = WindowLength(d) /\ c.start < d.start

RanksBefore(c, d) ==
  \/ Severity!KeyExceeds(c.severity, d.severity)
  \/ c.severity = d.severity /\ IdPrecedes(c, d)

\* c comes before d in the chronological order of the candidates.
Earlier(c, d) ==
  \/ c.start < d.start
  \/ c.start = d.start /\ c.end < d.end

\* Fault variant: the end of the window before, which may be a shorter one.
PriorEnd(windows, c) ==
  LET before == {d \in windows : Earlier(d, c)}
  IN  Max({0} \cup {d.end : d \in {e \in before : \A f \in before : ~Earlier(e, f)}})

PriorMaximumEnd(windows, c) ==
  Max({0} \cup {d.end : d \in {e \in windows : Earlier(e, c)}})

OverlapGroup(windows, c) ==
  Cardinality({d \in windows : /\ d = c \/ Earlier(d, c)
                               /\ d.start > PriorMaximumEnd(windows, d)})

RankAndDeduplicate(windows, topN) ==
  LET group     == [c \in windows |-> OverlapGroup(windows, c)]
      strongest == {c \in windows : \A d \in windows :
                      d # c /\ group[d] = group[c] => RanksBefore(c, d)}
      count     == Min({topN, Cardinality(strongest)})
  IN  [r \in 1..count |->
         CHOOSE c \in strongest :
           Cardinality({d \in strongest : RanksBefore(d, c)}) = r - 1]

-----------------------------------------------------------------------------
(***************************************************************************)
(* The deepest loss of a window, from its last high-water mark to its      *)
(* trough, and the first row after the trough, in the window or later,     *)
(* that regains the mark.                                                  *)
(***************************************************************************)
LossEpisode(equity, window) ==
  LET wealth    == WindowWealth(equity, window.start, window.end)
      drawdowns == WindowDrawdowns(wealth)
      trough    == FirstWorst(drawdowns)
      peakValue == Max({0} \cup {wealth[k] : k \in 1..trough})
      peaks     == {k \in 1..trough : wealth[k] = peakValue}
      after     == WindowWealth(equity, window.start, Rows)
      recovered == {k \in DOMAIN after : k > trough /\ after[k] >= peakValue}
      firstLoss == IF peaks = {} THEN 1 ELSE Max(peaks) + 1
      before    == IF firstLoss = 1 THEN 0 ELSE wealth[firstLoss - 1]
  IN  [trough       |-> trough,
       episodeFirst |-> firstLoss,
       lossStart    |-> IF peaks = {} THEN 1 ELSE Max(peaks),
       loss         |-> drawdowns[trough],
       attributed   |-> IF firstLoss > trough THEN 0 ELSE before - wealth[trough],
       recovery     |-> IF drawdowns[trough] = 0 THEN trough
                        ELSE IF recovered = {} THEN NoRow
                        ELSE Min(recovered)]

(***************************************************************************)
(* One breach record of a window: offsets of its onset and of the window   *)
(* of positions it names, and the offset its worst window is dated from.   *)
(***************************************************************************)
FailureBreach(equity, window, rule, episode) ==
  LET wealth    == WindowWealth(equity, window.start, window.end)
      drawdowns == WindowDrawdowns(wealth)
      rolling   == RollingCompounded(wealth)
      worst     == FirstWorst([k \in DOMAIN rolling |-> -rolling[k]])
      evaluable == VolatilityEvaluable(equity, window.start, wealth)
  IN  CASE rule.family = "maximum_drawdown" ->
             [rule |-> rule, observed |-> episode.loss,
              onset |-> Min({k \in DOMAIN wealth : drawdowns[k] > rule.threshold}),
              first |-> episode.episodeFirst, start |-> episode.lossStart,
              end |-> episode.trough]
        [] rule.family = "rolling_20_day_loss" ->
             [rule |-> rule, observed |-> -rolling[worst],
              onset |-> Min({k \in DOMAIN rolling : rolling[k] < -rule.threshold})
                          + WindowRows - 1,
              first |-> worst, start |-> worst, end |-> worst + WindowRows - 1]
        [] OTHER ->
             [rule |-> rule, observed |-> SameVolatility,
              onset |-> Min(evaluable) + WindowRows - 1,
              first |-> Min(evaluable), start |-> Min(evaluable),
              end |-> Min(evaluable) + WindowRows - 1]

IsBreached(equity, window, rule) ==
  LET wealth == WindowWealth(equity, window.start, window.end)
  IN  CASE rule.family = "maximum_drawdown" ->
             \E k \in DOMAIN wealth : WindowDrawdowns(wealth)[k] > rule.threshold
        [] rule.family = "rolling_20_day_loss" ->
             \E k \in DOMAIN RollingCompounded(wealth) :
               RollingCompounded(wealth)[k] < -rule.threshold
        [] OTHER ->
             /\ VolatilityEvaluable(equity, window.start, wealth) # {}
             /\ SameVolatility > rule.threshold

FailureBreaches(equity, failureRules, window, episode) ==
  {FailureBreach(equity, window, rule, episode) :
     rule \in {r \in failureRules : IsBreached(equity, window, r)}}

NamesPositions(held, window, breach) ==
  AffectsPositions(held, window.start + breach.first - 1, window.start + breach.end - 1)

\* The contracts of a breach and of the evidence of a window.
BreachContract(breach) ==
  breach.observed > breach.rule.threshold /\ breach.start <= breach.end

WindowContract(window, breaches, episode) ==
  /\ {Min({b.onset : b \in breaches}), episode.lossStart, episode.trough}
       \subseteq 1..WindowLength(window)
  /\ episode.lossStart <= episode.trough
  /\ episode.recovery # NoRow => episode.recovery >= episode.trough
  /\ episode.attributed = episode.loss

-----------------------------------------------------------------------------
(***************************************************************************)
(* The baseline is replayed once; the scan begins with it.                 *)
(***************************************************************************)
Replay(days) ==
  LET targets == [t \in 0..Rows |-> t < Rows /\ days[t + 1] # Cash]
      gross   == [t \in 1..Rows |-> IF days[t] = Cash THEN 0 ELSE days[t]]
  IN  [equity |-> EquityCurve(PortfolioReturns(gross, targets, ExitCost)),
       held   |-> EffectiveWeights(targets)]

ScanInit ==
  /\ baseline \in {Replay(days) : days \in [1..Rows -> Positions]}
  /\ rules \in RuleSets
  /\ pending = HistoryLengths
  /\ candidates = {} /\ selected = <<>> /\ evidence = <<>>
  /\ scan = "collecting"

\* The candidates of the next configured length.
Collect ==
  /\ scan = "collecting" /\ pending # <<>>
  /\ candidates' = candidates \cup CandidateFrame(baseline.equity, rules, Head(pending))
  /\ pending' = Tail(pending)
  /\ UNCHANGED <<baseline, rules, selected, evidence, scan>>

\* No window fails: the scan answers without ranking.
FindNothing ==
  /\ scan = "collecting" /\ pending = <<>> /\ candidates = {}
  /\ scan' = "answered"
  /\ UNCHANGED <<baseline, rules, pending, candidates, selected, evidence>>

Select ==
  /\ scan = "collecting" /\ pending = <<>> /\ candidates # {}
  /\ selected' = RankAndDeduplicate(candidates, TopK)
  /\ scan' = "building"
  /\ UNCHANGED <<baseline, rules, pending, candidates, evidence>>

(***************************************************************************)
(* The evidence of the next window kept, with its rank, or an exception    *)
(* that leaves the scan without an answer.                                 *)
(***************************************************************************)
BuildResult ==
  LET window   == selected[Len(evidence) + 1]
      episode  == LossEpisode(baseline.equity, window)
      breaches == FailureBreaches(baseline.equity, rules, window, episode)
      sound    == /\ \A b \in breaches : /\ NamesPositions(baseline.held, window, b)
                                         /\ BreachContract(b)
                  /\ Cardinality(breaches) = BreachCount(window)
                  /\ WindowContract(window, breaches, episode)
  IN  /\ scan = "building" /\ Len(evidence) < Len(selected)
      /\ \/ /\ sound
            /\ evidence' = Append(evidence, [window   |-> window,
                                             breaches |-> breaches,
                                             episode  |-> episode,
                                             rank     |-> Len(evidence) + 1])
            /\ UNCHANGED scan
         \/ /\ ~sound
            /\ scan' = "raised"
            /\ UNCHANGED evidence
      /\ UNCHANGED <<baseline, rules, pending, candidates, selected>>

Answer ==
  /\ scan = "building" /\ Len(evidence) = Len(selected)
  /\ scan' = "answered"
  /\ UNCHANGED <<baseline, rules, pending, candidates, selected, evidence>>

ScanNext == Collect \/ FindNothing \/ Select \/ BuildResult \/ Answer

ScanSpec == ScanInit /\ [][ScanNext]_scanVars
=============================================================================
