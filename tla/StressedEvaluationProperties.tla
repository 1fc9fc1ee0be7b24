--------------------- MODULE StressedEvaluationProperties ---------------------
(***************************************************************************)
(* What the evaluation of a scenario promises.                             *)
(***************************************************************************)
EXTENDS StressedEvaluation

(***************************************************************************)
(* No component changes a return outside the evaluation window that the    *)
(* scenario declares, whatever components came before it (stress.py,       *)
(* _preflight_scenario and _apply_component_sequence).                     *)
(***************************************************************************)
StressStaysInItsWindow ==
  stress # "idle" =>
    \A s \in Symbols, t \in 0..Rows :
      t \notin EvaluationRows(experiment.scenario) =>
        staged[s][t] = experiment.market[s][t]

Shocks == {"one_day_gap", "sustained_cumulative_shock"}

\* What each component adds to an asset, and the sum of it.
ShocksOf(s) ==
  [n \in DOMAIN Components |->
     IF Components[n].family \in Shocks /\ s \in Components[n].symbols
     THEN Components[n].size ELSE 0]

DeclaredShock(s) == SumFunction(ShocksOf(s))

DeclaredMultiplier ==
  LET multipliers == {Components[n].size : n \in CostComponents(experiment.scenario)}
  IN  IF multipliers = {} THEN 1 ELSE CHOOSE m \in multipliers : TRUE

(***************************************************************************)
(* Over the evaluation window an accepted stress adds to each asset        *)
(* exactly the cumulative shocks it declares, in whatever order they are   *)
(* mixed with changes of volatility and correlation, which keep the total  *)
(* (docs/SPEC.md, section 9); and it multiplies the execution cost once.   *)
(***************************************************************************)
StressIsWhatItDeclares ==
  stress \in {"replaying", "judging", "valid", "raised"} =>
    /\ \A s \in Symbols :
         LET rows == EvaluationRows(experiment.scenario)
         IN  Total(staged[s], rows)
               = Total(experiment.market[s], rows) + DeclaredShock(s)
    /\ stagedCost = experiment.cost * DeclaredMultiplier
    /\ stagedCost < CostLimit

(***************************************************************************)
(* The unit is small enough for a component: the daily share of its shock  *)
(* and the means of its window are whole numbers, as they are exact in the *)
(* code up to rounding.                                                    *)
(***************************************************************************)
WholeSteps(returns, component) ==
  LET rows == FirstRow(component)..LastRow(component)
  IN  /\ component.family = "sustained_cumulative_shock" =>
           component.size % component.rows = 0
      /\ component.family = "volatility_multiplier" =>
           \A s \in component.symbols : Total(returns[s], rows) % Cardinality(rows) = 0

StepsAreWhole ==
  stress = "producing" /\ next \in DOMAIN Components => WholeSteps(staged, Components[next])

\* What the components before the n-th multiply the cost by.
MultiplierBefore(scenario, n) ==
  LET applied == {k \in CostComponents(scenario) : k < n}
  IN  IF applied = {} THEN 1 ELSE scenario.components[CHOOSE k \in applied : TRUE].size

(***************************************************************************)
(* The strengthening of StressIsWhatItDeclares: after the first components *)
(* the evidence is what these declare.                                     *)
(***************************************************************************)
StressAddsUp ==
  /\ stress # "idle" => experiment.market \in Markets /\ experiment.cost \in Costs
  /\ stress \in {"producing", "replaying", "judging", "valid", "raised"} =>
       /\ staged \in [Symbols -> [0..Rows -> Int]]
       /\ 1..(next - 1) \subseteq DOMAIN Components
       /\ \A s \in Symbols :
            LET rows == EvaluationRows(experiment.scenario)
            IN  Total(staged[s], rows) = Total(experiment.market[s], rows)
                                           + SumFunctionOnSet(ShocksOf(s), 1..(next - 1))
       /\ stagedCost = experiment.cost * MultiplierBefore(experiment.scenario, next)
  /\ stress \in {"replaying", "judging", "valid", "raised"} => next \notin DOMAIN Components

(***************************************************************************)
(* What the failure rules judge: curves of whole steps over every row,     *)
(* because every component leaves returns of whole steps; and the breaches *)
(* kept are all they say.                                                  *)
(***************************************************************************)
JudgedAsReplayed ==
  /\ stress # "idle" =>
       /\ experiment.market \in Markets /\ experiment.cost \in Costs
       /\ experiment.rules \in StressRuleSets
       /\ staged \in [Symbols -> [0..Rows -> Int]] /\ stagedCost \in Int
       /\ equity.baseline \in [0..Rows -> Int]
  /\ stress \in {"judging", "valid", "raised"} => equity.stressed \in [0..Rows -> Int]
  /\ stress = "valid" => breaches = StressedBreaches

(***************************************************************************)
(* The dry run meets every component as the evidence will: one that it let *)
(* pass does not fail in the pass that keeps evidence (stress.py,          *)
(* apply_stress_scenario).  What may still fail there is a summary.        *)
(***************************************************************************)
DryRunSettlesComponents ==
  stress = "producing" /\ next \in DOMAIN Components =>
    Applies(staged, stagedCost, Components[next])

-----------------------------------------------------------------------------
\* The equity curve as far as row t: what is known at the close of row t.
Known(curve, t) == [u \in 0..t |-> curve[u]]

\* The squared differences of the returns of a window, pair by pair.
Spread(curve, end) ==
  LET step(t) == curve[t] - curve[t - 1]
      rows    == WindowStart(end)..end
  IN  SumFunction([pair \in rows \X rows |->
                     (step(pair[1]) - step(pair[2])) * (step(pair[1]) - step(pair[2]))])

\* The sense of a rule at row t, from its definition in docs/SPEC.md.
Fails(rule, curve, original, t) ==
  CASE rule.family = "maximum_drawdown" ->
         \E s \in 0..t : curve[s] - curve[t] > rule.threshold
    [] rule.family = "rolling_20_day_loss" ->
         t >= WindowRows /\ curve[t - WindowRows] - curve[t] > rule.threshold
    [] OTHER ->
         /\ t >= WindowRows /\ Spread(original, t) > 0
         /\ SameVolatility * Spread(curve, t) > rule.threshold * Spread(original, t)

(***************************************************************************)
(* The breaches of an accepted scenario are those of the definitions: each *)
(* rule that fails at some row has one, its onset is the first such row    *)
(* and would be the same had the history ended there, so that no future    *)
(* row is read; and the rows its worst window links compound to exactly    *)
(* the loss observed, the greatest of its kind (backtest.py,               *)
(* evaluate_failure_rules; attack.py, _linked_window_evidence).            *)
(***************************************************************************)
BreachesAreTrue ==
  stress = "valid" =>
    LET curve    == equity.stressed
        original == equity.baseline
    IN  /\ {b.rule : b \in breaches} =
             {rule \in experiment.rules : \E t \in 0..Rows : Fails(rule, curve, original, t)}
        /\ \A b \in breaches :
             LET first == LinkedStart(b.breach)
                 last  == b.breach.end
             IN  /\ Fails(b.rule, curve, original, b.onset)
                 /\ \A t \in 0..(b.onset - 1) : ~Fails(b.rule, curve, original, t)
                 /\ b.onset = Min(Violating(Known(curve, b.onset), Known(original, b.onset), b.rule))
                 /\ b.rule.family # "realized_volatility_multiple" =>
                      /\ curve[first - 1] - curve[last] = b.breach.observed
                      /\ \A s, t \in 0..Rows :
                           s <= t /\ (b.rule.family = "maximum_drawdown" \/ t - s = WindowRows) =>
                             curve[s] - curve[t] <= b.breach.observed
=============================================================================
