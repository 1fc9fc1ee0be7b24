------------------------- MODULE StressedEvaluation -------------------------
(***************************************************************************)
(* The evaluation of one scenario: preflight, a private dry run of its     *)
(* components, a second run that keeps summaries, the replay of the        *)
(* strategy on the stressed returns, and the failure rules.  Each          *)
(* component works on what the one before left.  Any step may reject the   *)
(* scenario with a typed code.                                             *)
(*                                                                         *)
(* Returns are whole log steps, in a unit small enough for the means and   *)
(* the daily shares of the components used; a return of Ruin steps down or *)
(* up is not a float above -1.  Row t of the dataset has date 2 t; an odd  *)
(* date is a day without trading.                                          *)
(***************************************************************************)
EXTENDS Backtest, Sequences

CONSTANTS
  Symbols,         \* the two assets
  Recolored,       \* the asset whose rows a correlation target rearranges
  Markets,         \* asset returns of the dataset, [Symbols -> [0..Rows -> Int]]
  TargetPaths,     \* target positions of the strategy, [0..Rows -> BOOLEAN]
  Costs,           \* transaction costs an experiment may configure
  CostLimit,       \* 10000 basis points in the code
  Ruin,
  Scenarios,       \* scenarios that satisfy the domain contract
  StressRuleSets   \* the sets of failure rules an experiment may configure

(***************************************************************************)
(* The domain contract of a scenario, which every candidate has passed     *)
(* before it gets here.  A component is a record of family, start and end  *)
(* (dates), rows, symbols and size (a shock or a multiplier).              *)
(***************************************************************************)
MaxComponents == 8       \* MAX_COMPONENTS_PER_SCENARIO

MaxDurationRows == 252   \* MAX_STRESS_DURATION_ROWS

Representable(step) == -Ruin < step /\ step < Ruin

ComponentContract(component) ==
  /\ component.family \in {"historical_window", "one_day_gap", "sustained_cumulative_shock",
                           "volatility_multiplier", "correlation_target",
                           "transaction_cost_multiplier"}
  /\ component.symbols # {} /\ component.symbols \subseteq Symbols
  /\ component.start \in Nat /\ component.end \in Nat /\ component.start <= component.end
  /\ component.family \in {"one_day_gap", "sustained_cumulative_shock"} =>
       component.size \in Int /\ Representable(component.size)
  /\ component.family \in {"volatility_multiplier", "transaction_cost_multiplier"} =>
       component.size \in Nat /\ component.size > 0
  /\ component.family = "sustained_cumulative_shock" => component.rows \in 1..MaxDurationRows

ScenarioContract(scenario) ==
  /\ scenario.start \in Nat /\ scenario.end \in Nat /\ scenario.start <= scenario.end
  /\ \E count \in 1..MaxComponents : DOMAIN scenario.components = 1..count
  /\ \A n \in DOMAIN scenario.components :
       /\ ComponentContract(scenario.components[n])
       /\ scenario.start <= scenario.components[n].start
       /\ scenario.components[n].end <= scenario.end
  /\ \A n, m \in DOMAIN scenario.components :
       scenario.components[n] = scenario.components[m] => n = m

ASSUME StressAssumption ==
  /\ IsFiniteSet(Symbols) /\ Recolored \in Symbols
  /\ Markets \subseteq [Symbols -> [0..Rows -> Int]]
  /\ Ruin \in Nat /\ CostLimit \in Nat
  /\ Costs \subseteq {cost \in 0..CostLimit : cost < CostLimit}
  /\ \A failureRules \in StressRuleSets : FailureRuleContract(failureRules)
  /\ \A scenario \in Scenarios : ScenarioContract(scenario)

VARIABLES
  experiment,      \* [market, targets, cost, rules, scenario], fixed
  staged,          \* the private copy of the asset returns
  stagedCost,      \* the execution cost that goes with it
  next,            \* the component to be applied
  equity,          \* [baseline, stressed]: equity curves of the two replays
  stress,          \* "idle", "preflight", "dry", "producing", "replaying",
                   \* "judging", "valid", "rejected" or "raised"
  code,            \* rejection code, or NoCode
  breaches         \* what the failure rules say of the stressed path

stressVars ==
  <<experiment, staged, stagedCost, next, equity, stress, code, breaches>>

NoCode == "none"

-----------------------------------------------------------------------------
(***************************************************************************)
(* Windows.                                                                *)
(***************************************************************************)
Observed(date) == date % 2 = 0 /\ date \in 0..(2 * Rows)

DatePosition(date) == date \div 2

FirstRow(component) == DatePosition(component.start)

LastRow(component) ==
  CASE component.family = "one_day_gap" -> FirstRow(component)
    [] component.family = "sustained_cumulative_shock" ->
         FirstRow(component) + component.rows - 1
    [] OTHER -> DatePosition(component.end)

EvaluationRows(scenario) ==
  DatePosition(scenario.start)..DatePosition(scenario.end)

\* The rows a component is summarized over.
ComponentRows(component, scenario) ==
  IF component.family = "transaction_cost_multiplier"
  THEN EvaluationRows(scenario)
  ELSE FirstRow(component)..LastRow(component)

MinimumRows(component) ==
  CASE component.family = "volatility_multiplier" -> 2
    [] component.family = "correlation_target"    -> 3
    [] OTHER                                      -> 1

\* Fault variant: the last row of a component is only held against the dataset.
WindowFitsTheDataset(component, scenario) ==
  /\ Observed(component.start)
  /\ component.family \in {"volatility_multiplier", "correlation_target"} =>
       Observed(component.end)
  /\ LastRow(component) - FirstRow(component) + 1 >= MinimumRows(component)
  /\ LastRow(component) <= Rows
  /\ DatePosition(scenario.start) <= FirstRow(component)

WindowFits(component, scenario) ==
  /\ Observed(component.start)
  /\ component.family \in {"volatility_multiplier", "correlation_target"} =>
       Observed(component.end)
  /\ LastRow(component) - FirstRow(component) + 1 >= MinimumRows(component)
  /\ LastRow(component) <= Rows
  /\ FirstRow(component) \in EvaluationRows(scenario)
  /\ LastRow(component) \in EvaluationRows(scenario)

CostFits(cost, component) == cost * component.size < CostLimit

\* What preflight says of one component, with the configured cost.  Targets of
\* a correlation are those its matrix test accepts: inside (-1, 1) by more than
\* the tolerance.
ComponentFault(component, scenario, cost) ==
  CASE component.family = "historical_window" -> "invalid_parameter"
    [] component.family = "transaction_cost_multiplier" ->
         IF CostFits(cost, component) THEN NoCode ELSE "invalid_parameter"
    [] OTHER -> IF WindowFits(component, scenario) THEN NoCode ELSE "invalid_window"

CostComponents(scenario) ==
  {n \in DOMAIN scenario.components :
     scenario.components[n].family = "transaction_cost_multiplier"}

(***************************************************************************)
(* The first fault in the order of the checks: the evaluation window, the  *)
(* number of cost components, then the components in their order.  With at *)
(* most one cost component, each is held against the configured cost.      *)
(***************************************************************************)
PreflightFault(scenario, cost) ==
  LET fault  == [n \in DOMAIN scenario.components |->
                   ComponentFault(scenario.components[n], scenario, cost)]
      faulty == {n \in DOMAIN fault : fault[n] # NoCode}
  IN  IF ~Observed(scenario.start) \/ ~Observed(scenario.end) THEN "invalid_window"
      ELSE IF Cardinality(CostComponents(scenario)) > 1 THEN "invalid_parameter"
      ELSE IF faulty = {} THEN NoCode
      ELSE fault[Min(faulty)]

-----------------------------------------------------------------------------
(***************************************************************************)
(* The transforms.                                                         *)
(***************************************************************************)
Total(steps, rows) == SumFunctionOnSet(steps, rows)

\* The asset does not change its return in the window.
ZeroVariance(returns, s, rows) == \A t, u \in rows : returns[s][t] = returns[s][u]

\* The returns of two assets lie on a line: their correlation is 1 or -1.
Singular(returns, s, r, rows) ==
  \A t, u, v \in rows :
    (returns[s][t] - returns[s][u]) * (returns[r][t] - returns[r][v])
      = (returns[s][t] - returns[s][v]) * (returns[r][t] - returns[r][u])

\* Fault variant: the innovations are scaled and the mean is not restored.
ScaledWithItsMean(steps, rows, t, multiplier) == multiplier * steps[t]

\* The mean of the window plus the multiplied deviation from it.
Scaled(steps, rows, t, multiplier) ==
  LET mean == Total(steps, rows) \div Cardinality(rows)
  IN  mean + multiplier * (steps[t] - mean)

(***************************************************************************)
(* The value of row t of asset s after a component.  The coloring of a     *)
(* correlation target is not computed: that one asset takes its rows in    *)
(* another order keeps the means and the variances, as the code does, and  *)
(* changes the correlation.                                                *)
(***************************************************************************)
Transformed(returns, component, s, t) ==
  LET first == FirstRow(component)
      last  == LastRow(component)
  IN  CASE component.family = "one_day_gap" -> returns[s][t] + component.size
        [] component.family = "sustained_cumulative_shock" ->
             returns[s][t] + component.size \div component.rows
        [] component.family = "volatility_multiplier" ->
             Scaled(returns[s], first..last, t, component.size)
        [] component.family = "correlation_target" ->
             IF s = Recolored THEN returns[s][first + last - t] ELSE returns[s][t]

ApplyToReturns(returns, component) ==
  IF component.family = "transaction_cost_multiplier" THEN returns
  ELSE [s \in Symbols |-> [t \in 0..Rows |->
          IF s \in component.symbols /\ t \in FirstRow(component)..LastRow(component)
          THEN Transformed(returns, component, s, t)
          ELSE returns[s][t]]]

ApplyToCost(cost, component) ==
  IF component.family = "transaction_cost_multiplier" THEN cost * component.size ELSE cost

\* The numbers of the window allow the transform and its results are returns.
Applies(returns, cost, component) ==
  LET rows == FirstRow(component)..LastRow(component)
  IN  CASE component.family = "transaction_cost_multiplier" -> CostFits(cost, component)
        [] component.family = "correlation_target" ->
             \A s, r \in Symbols :
               /\ ~ZeroVariance(returns, s, rows)
               /\ s # r => ~Singular(returns, s, r, rows)
        [] OTHER ->
             \A s \in component.symbols :
               /\ component.family = "volatility_multiplier" =>
                    ~ZeroVariance(returns, s, rows)
               /\ \A t \in rows : Representable(Transformed(returns, component, s, t))

\* The cumulative returns of a window can be summarized.
Summarizes(returns, rows) == \A s \in Symbols : Representable(Total(returns[s], rows))

-----------------------------------------------------------------------------
(***************************************************************************)
(* The replays.  The portfolio earns the sum of the assets' steps while it *)
(* holds them.                                                             *)
(***************************************************************************)
NetReturns(returns, targets, cost) ==
  PortfolioReturns([t \in 1..Rows |-> Total([s \in Symbols |-> returns[s][t]], Symbols)],
                   targets, cost)

\* The replay accepts the returns: none on the first row, no total loss.
Replays(returns, cost) ==
  /\ \A s \in Symbols : returns[s][0] = 0
  /\ \A t \in 1..Rows : -Ruin < NetReturns(returns, experiment.targets, cost)[t]

\* Fault variant: the stressed path is compared with itself.
BreachesOfItself ==
  EvaluateFailureRules(equity.stressed, equity.stressed, experiment.rules)

StressedBreaches ==
  EvaluateFailureRules(equity.stressed, equity.baseline, experiment.rules)

\* The first row whose return counts to the worst window of a breach.
LinkedStart(breach) ==
  IF breach.family = "maximum_drawdown" THEN breach.start + 1 ELSE breach.start

\* Every worst window has an earned row to be explained by.
WindowsLink(found) == \A b \in found : LinkedStart(b.breach) <= b.breach.end

-----------------------------------------------------------------------------
StressInit ==
  /\ experiment \in [market: Markets, targets: TargetPaths, cost: Costs,
                     rules: StressRuleSets, scenario: Scenarios]
  /\ equity = [baseline |-> EquityCurve(NetReturns(experiment.market, experiment.targets,
                                                   experiment.cost)),
               stressed |-> <<>>]
  /\ staged = experiment.market /\ stagedCost = experiment.cost
  /\ next = 1 /\ stress = "preflight" /\ code = NoCode /\ breaches = {}

Components == experiment.scenario.components

Reject(rejection) ==
  /\ stress' = "rejected" /\ code' = rejection
  /\ UNCHANGED <<experiment, staged, stagedCost, next, equity, breaches>>

Preflight ==
  LET fault == PreflightFault(experiment.scenario, experiment.cost)
  IN  /\ stress = "preflight"
      /\ \/ fault # NoCode /\ Reject(fault)
         \/ /\ fault = NoCode
            /\ stress' = "dry"
            /\ UNCHANGED <<experiment, staged, stagedCost, next, equity, code, breaches>>

ApplyComponent ==
  /\ staged' = ApplyToReturns(staged, Components[next])
  /\ stagedCost' = ApplyToCost(stagedCost, Components[next])
  /\ next' = next + 1
  /\ UNCHANGED <<experiment, equity, stress, code, breaches>>

DryRun ==
  /\ stress = "dry" /\ next \in DOMAIN Components
  /\ \/ Applies(staged, stagedCost, Components[next]) /\ ApplyComponent
     \/ ~Applies(staged, stagedCost, Components[next]) /\ Reject("invalid_parameter")

\* Fault variant: the evidence begins with what the dry run left.
BeginEvidenceAfterDryRun ==
  /\ stress = "dry" /\ next \notin DOMAIN Components
  /\ next' = 1 /\ stress' = "producing"
  /\ UNCHANGED <<experiment, staged, stagedCost, equity, code, breaches>>

\* The dry run is thrown away and the evidence begins with the baseline.
BeginEvidence ==
  /\ stress = "dry" /\ next \notin DOMAIN Components
  /\ \/ ~Summarizes(experiment.market, EvaluationRows(experiment.scenario))
          /\ Reject("invalid_parameter")
     \/ /\ Summarizes(experiment.market, EvaluationRows(experiment.scenario))
        /\ staged' = experiment.market /\ stagedCost' = experiment.cost
        /\ next' = 1 /\ stress' = "producing"
        /\ UNCHANGED <<experiment, equity, code, breaches>>

\* A component with its summaries before and after.
ProduceComponent ==
  LET component == Components[next]
      rows      == ComponentRows(component, experiment.scenario)
      sound     == /\ Summarizes(staged, rows)
                   /\ Applies(staged, stagedCost, component)
                   /\ Summarizes(ApplyToReturns(staged, component), rows)
  IN  /\ stress = "producing" /\ next \in DOMAIN Components
      /\ (sound /\ ApplyComponent) \/ (~sound /\ Reject("invalid_parameter"))

FinishTransform ==
  /\ stress = "producing" /\ next \notin DOMAIN Components
  /\ \/ ~Summarizes(staged, EvaluationRows(experiment.scenario))
          /\ Reject("invalid_parameter")
     \/ /\ Summarizes(staged, EvaluationRows(experiment.scenario))
        /\ stress' = "replaying"
        /\ UNCHANGED <<experiment, staged, stagedCost, next, equity, code, breaches>>

\* A replay the backtest refuses rejects the scenario.
ReplayScenario ==
  /\ stress = "replaying"
  /\ \/ ~Replays(staged, stagedCost) /\ Reject("invalid_data")
     \/ /\ Replays(staged, stagedCost)
        /\ equity' = [equity EXCEPT !.stressed =
                        EquityCurve(NetReturns(staged, experiment.targets, stagedCost))]
        /\ stress' = "judging"
        /\ UNCHANGED <<experiment, staged, stagedCost, next, code, breaches>>

(***************************************************************************)
(* So does a breach without a position.  A worst window that cannot be     *)
(* linked raises outside the handlers.                                     *)
(***************************************************************************)
JudgeScenario ==
  LET held  == EffectiveWeights(experiment.targets)
      found == StressedBreaches
      named == \A b \in found : AffectsPositions(held, b.breach.start, b.breach.end)
  IN  /\ stress = "judging"
      /\ \/ ~named /\ Reject("invalid_data")
         \/ /\ named
            /\ stress' = IF WindowsLink(found) THEN "valid" ELSE "raised"
            /\ breaches' = found
            /\ UNCHANGED <<experiment, staged, stagedCost, next, equity, code>>

StressNext ==
  \/ Preflight \/ DryRun \/ BeginEvidence \/ ProduceComponent
  \/ FinishTransform \/ ReplayScenario \/ JudgeScenario

StressSpec == StressInit /\ [][StressNext]_stressVars
=============================================================================
