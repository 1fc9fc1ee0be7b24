----------------------- MODULE HistoricalScanProperties -----------------------
(***************************************************************************)
(* What the scan of history promises of its evidence.                      *)
(***************************************************************************)
EXTENDS HistoricalScan

(***************************************************************************)
(* The evidence the scan builds never contradicts the window it was chosen *)
(* for, nor its own contract: breaches are counted alike, dates lie in the *)
(* window and in order, the loss is attributed to the last step            *)
(* (historical.py, _build_result; domain.py, HistoricalWindowEvidence).    *)
(* The one history the scan cannot answer for is one with a breach whose   *)
(* rows hold no position: a loss that is only the cost of leaving the      *)
(* market.                                                                 *)
(***************************************************************************)
OnlyCostLossesAreRefused ==
  scan = "raised" =>
    LET window  == selected[Len(evidence) + 1]
        episode == LossEpisode(baseline.equity, window)
    IN  \E b \in FailureBreaches(baseline.equity, rules, window, episode) :
          \A t \in (window.start + b.first - 1)..(window.start + b.end - 1) :
            ~baseline.held[t]

\* Some candidate spans the rows t and t + 1.
Bridged(t) == \E c \in candidates : c.start <= t /\ t + 1 <= c.end

\* Two windows lie in one stretch of overlapping candidates.
SameEpisode(c, d) ==
  \A t \in Min({c.start, d.start})..(Max({c.end, d.end}) - 1) : Bridged(t)

(***************************************************************************)
(* Every stretch of overlapping failing windows is one historical episode  *)
(* (docs/STATUS.md): it is answered for by its most severe window, once,   *)
(* and left out only when TopK more severe ones are answered for           *)
(* (historical.py, _rank_and_deduplicate).                                 *)
(***************************************************************************)
OneWindowPerEpisode ==
  scan = "answered" =>
    LET results == {evidence[r].window : r \in DOMAIN evidence}
    IN  /\ \A r, q \in DOMAIN evidence :
             r < q => /\ RanksBefore(evidence[r].window, evidence[q].window)
                      /\ ~SameEpisode(evidence[r].window, evidence[q].window)
        /\ \A c \in candidates :
             \/ \E w \in results : SameEpisode(c, w) /\ (w = c \/ RanksBefore(w, c))
             \/ /\ Cardinality(results) = TopK
                /\ \A w \in results : RanksBefore(w, c)

\* The equity of a backtest that starts with a window of the history.
RestartedEquity(window) ==
  [k \in 0..WindowLength(window) |->
     baseline.equity[window.start - 1 + k] - baseline.equity[window.start - 1]]

\* Whether the scan's breach b is what the backtest e says of its window.
Agrees(b, e) ==
  /\ b.rule = e.rule /\ b.onset = e.onset
  /\ b.rule.family # "realized_volatility_multiple" =>
       /\ b.end = e.breach.end /\ b.observed = e.breach.observed
       /\ b.start = Max({1, e.breach.start})

(***************************************************************************)
(* The scan measures windows with arrays of its own.  What it says of one  *)
(* is what evaluate_failure_rules says of a backtest that starts with it:  *)
(* the same rules and onsets; for the two rules about losses the same      *)
(* worst windows and losses too, for volatility these are not compared;    *)
(* and the loss recovers on the same row if it does so within the window   *)
(* (historical.py and backtest.py).                                        *)
(***************************************************************************)
ScanAgreesWithBacktest ==
  \A r \in DOMAIN evidence :
    LET result == evidence[r]
        equity == RestartedEquity(result.window)
        told   == EvaluateFailureRules(equity, equity, rules)
    IN  /\ \A e \in told : \E b \in result.breaches : Agrees(b, e)
        /\ Cardinality(told) = Cardinality(result.breaches)
        /\ \A e \in told : e.rule.family = "maximum_drawdown" =>
             IF e.breach.recovery # NoRow
             THEN result.episode.recovery = e.breach.recovery
             ELSE result.episode.recovery \in
                    {NoRow} \cup (WindowLength(result.window) + 1)..Rows

-----------------------------------------------------------------------------
(***************************************************************************)
(* Why the scan answers as it does.                                        *)
(***************************************************************************)

\* The windows of every length that fail.
FailingWindows ==
  UNION {CandidateFrame(baseline.equity, rules, windowRows) : windowRows \in WindowRows..Rows}

\* The result that the r-th window kept must have.
ResultOf(r) ==
  LET episode == LossEpisode(baseline.equity, selected[r])
  IN  [window   |-> selected[r],
       breaches |-> FailureBreaches(baseline.equity, rules, selected[r], episode),
       episode  |-> episode,
       rank     |-> r]

\* What is collected fails, what is kept is the ranking of all of it, and the
\* evidence is that of what is kept, as far as it is built.
ScanInvariant ==
  scan # "idle" =>
    /\ scan \in {"collecting", "building", "answered", "raised"}
    /\ baseline.equity \in [0..Rows -> Int]
    /\ rules \in RuleSets
    /\ pending \in Seq(Nat) /\ \A n \in DOMAIN pending : pending[n] >= WindowRows
    /\ candidates \subseteq FailingWindows
    /\ selected = IF scan = "collecting" \/ candidates = {}
                  THEN <<>> ELSE RankAndDeduplicate(candidates, TopK)
    /\ Len(evidence) <= Len(selected)
    /\ evidence \in Seq({ResultOf(r) : r \in DOMAIN selected})
    /\ \A r \in DOMAIN evidence : evidence[r] = ResultOf(r)
    /\ scan = "answered" => Len(evidence) = Len(selected)
=============================================================================
