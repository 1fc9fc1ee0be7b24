------------------------------ MODULE Backtest ------------------------------
(***************************************************************************)
(* The replay of a strategy over one path of daily returns, and the        *)
(* evaluation of the failure rules over its equity curve: pure algorithms, *)
(* used by the scan of history and by the evaluation of a scenario.        *)
(*                                                                         *)
(* A return is a whole number of log steps, so that returns compound by    *)
(* addition: equity is a running sum, a drawdown a difference, and an      *)
(* excess is measured in steps beyond the threshold.  The rows of a path   *)
(* are 0..n; row 0 earns nothing.  numeric_tolerance is less than a step.  *)
(***************************************************************************)
EXTENDS Integers, FiniteSetsExt

CONSTANTS
  Rows,            \* earned rows of the dataset, 1..Rows
  WindowRows       \* ROLLING_WINDOW_ROWS, 20 in the code

ASSUME RowsAssumption ==
  Rows \in Nat /\ WindowRows \in Nat /\ WindowRows >= 2

\* The fourfold square of the volatility multiple of a path with itself; the
\* threshold of the volatility rule is the fourfold square of its multiple.
SameVolatility == 4

\* No row: a loss that is never recovered.
NoRow == -1

(***************************************************************************)
(* The contract of the failure rules of an experiment: one to three of     *)
(* them, no two of a family, each with a positive threshold.               *)
(***************************************************************************)
FailureRuleFamilies ==
  {"maximum_drawdown", "rolling_20_day_loss", "realized_volatility_multiple"}

FailureRuleContract(rules) ==
  /\ rules # {}
  /\ \A rule \in rules : rule.family \in FailureRuleFamilies /\ rule.threshold \in Nat \ {0}
  /\ \A r, q \in rules : r.family = q.family => r = q

(***************************************************************************)
(* The replay.  targets[t] says that the strategy wants a position at the  *)
(* close of row t; gross[t] is what a position earns on row t.  Entering   *)
(* and leaving cost `cost` steps on the row where they become effective.   *)
(***************************************************************************)
EffectiveWeights(targets) ==
  [t \in DOMAIN targets |-> t > 0 /\ targets[t - 1]]

PortfolioReturns(gross, targets, cost) ==
  LET held == EffectiveWeights(targets)
  IN  [t \in DOMAIN gross |->
         (IF held[t] THEN gross[t] ELSE 0)
           - (IF held[t] # held[t - 1] THEN cost ELSE 0)]

EquityCurve(returns) ==
  [t \in {0} \cup DOMAIN returns |-> SumFunctionOnSet(returns, 1..t)]

HighWater(equity, t) == Max({equity[s] : s \in 0..t})

Drawdown(equity, t) == HighWater(equity, t) - equity[t]

\* The rows at which a trailing window of WindowRows earned rows ends.
WindowEnds(equity) == {t \in DOMAIN equity : t >= WindowRows}

WindowStart(end) == end - WindowRows + 1

RollingReturn(equity, end) == equity[end] - equity[end - WindowRows]

(***************************************************************************)
(* The sample variance of the window that ends at end, up to a constant    *)
(* factor: only ratios, and whether it is zero, matter.                    *)
(***************************************************************************)
Variation(equity, end) ==
  LET squares == [t \in WindowStart(end)..end |->
                    (equity[t] - equity[t - 1]) * (equity[t] - equity[t - 1])]
  IN  WindowRows * SumFunctionOnSet(squares, DOMAIN squares)
        - RollingReturn(equity, end) * RollingReturn(equity, end)

\* The first row at which a magnitude, a function of rows, is greatest.
FirstWorst(magnitude) ==
  Min({t \in DOMAIN magnitude :
         \A u \in DOMAIN magnitude : magnitude[u] <= magnitude[t]})

(***************************************************************************)
(* The rows at which a rule is violated, with what may be known at them.   *)
(***************************************************************************)
Violating(equity, baseline, rule) ==
  CASE rule.family = "maximum_drawdown" ->
         {t \in DOMAIN equity : Drawdown(equity, t) > rule.threshold}
    [] rule.family = "rolling_20_day_loss" ->
         {t \in WindowEnds(equity) : RollingReturn(equity, t) < -rule.threshold}
    [] OTHER ->
         {t \in WindowEnds(equity) :
            /\ Variation(baseline, t) > 0
            /\ SameVolatility * Variation(equity, t)
                 > rule.threshold * Variation(baseline, t)}

\* Fault variant: the row at which the high before end was first reached.
FirstPeak(equity, end) ==
  Min({t \in 0..end : equity[t] = HighWater(equity, end)})

\* The last row at the high before end: the loss starts there.
LastPeak(equity, end) ==
  Max({t \in 0..end : equity[t] = HighWater(equity, end)})

DrawdownBreach(equity, rule) ==
  LET worstEnd   == FirstWorst([t \in DOMAIN equity |-> Drawdown(equity, t)])
      recoveries == {t \in DOMAIN equity :
                       t >= worstEnd /\ equity[t] >= HighWater(equity, worstEnd)}
  IN  [family   |-> rule.family,
       start    |-> LastPeak(equity, worstEnd),
       end      |-> worstEnd,
       observed |-> Drawdown(equity, worstEnd),
       recovery |-> IF recoveries = {} THEN NoRow ELSE Min(recoveries)]

RollingBreach(equity, rule) ==
  LET losses   == [t \in WindowEnds(equity) |-> -RollingReturn(equity, t)]
      worstEnd == FirstWorst(losses)
  IN  [family   |-> rule.family,
       start    |-> WindowStart(worstEnd),
       end      |-> worstEnd,
       observed |-> losses[worstEnd],
       recovery |-> NoRow]

(***************************************************************************)
(* The worst multiple is the first of the greatest ratios.  observed is    *)
(* the threshold it would just exceed.                                     *)
(***************************************************************************)
VolatilityBreach(equity, baseline, rule) ==
  LET evaluable == {t \in WindowEnds(equity) : Variation(baseline, t) > 0}
      worstEnd  == Min({t \in evaluable : \A u \in evaluable :
                          Variation(equity, u) * Variation(baseline, t)
                            <= Variation(equity, t) * Variation(baseline, u)})
  IN  [family   |-> rule.family,
       start    |-> WindowStart(worstEnd),
       end      |-> worstEnd,
       observed |-> (SameVolatility * Variation(equity, worstEnd))
                      \div Variation(baseline, worstEnd),
       recovery |-> NoRow]

BreachOf(equity, baseline, rule) ==
  CASE rule.family = "maximum_drawdown"    -> DrawdownBreach(equity, rule)
    [] rule.family = "rolling_20_day_loss" -> RollingBreach(equity, rule)
    [] OTHER                               -> VolatilityBreach(equity, baseline, rule)

EvaluateFailureRules(equity, baseline, rules) ==
  {[breach |-> BreachOf(equity, baseline, rule),
    rule   |-> rule,
    onset  |-> Min(Violating(equity, baseline, rule))] :
   rule \in {r \in rules : Violating(equity, baseline, r) # {}}}

(***************************************************************************)
(* A breach names the positions held in its window; with none the          *)
(* evaluation raises.  A position is held on one row or on none.           *)
(***************************************************************************)
AffectsPositions(held, first, last) == \E t \in first..last : held[t]
=============================================================================
