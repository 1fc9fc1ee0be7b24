---------------------------- MODULE AttackPolicy ----------------------------
(***************************************************************************)
(* The attack policy: which scenarios may be evaluated.  A policy bounds   *)
(* the numbers of every component; with hypotheses, a scenario must also   *)
(* have the components of one of them, in its order, inside its own ranges *)
(* and at its places in the calendar of the dataset.                       *)
(*                                                                         *)
(* A range is [minimum, maximum, step]; a proposer takes values a whole    *)
(* number of steps from the minimum.  The two assets share the range of a  *)
(* shock.  Headlines are in AttackRunner.                                  *)
(***************************************************************************)
EXTENDS StressedEvaluation

CONSTANTS
  Policies,        \* policies an experiment may be run under:
                   \* [families, ranges, durations, hypotheses]
  Kinds            \* kinds of strategy

Contains(range, value) == range.minimum <= value /\ value <= range.maximum

Includes(range, part) ==
  Contains(range, part.minimum) /\ Contains(range, part.maximum)

RangeContract(range) ==
  /\ range.minimum \in Int /\ range.maximum \in Int /\ range.minimum <= range.maximum
  /\ range.step \in Nat \ {0} /\ (range.maximum - range.minimum) % range.step = 0

Template(hypothesis) ==
  CASE hypothesis.family = "inflation_correlation_break" ->
         <<"volatility_multiplier", "correlation_target", "sustained_cumulative_shock">>
    [] hypothesis.family = "rebalance_timing_gap"   -> <<"one_day_gap">>
    [] hypothesis.family = "volatility_regime_jump" -> <<"volatility_multiplier">>
    [] hypothesis.family = "trading_friction_break" -> <<"transaction_cost_multiplier">>

\* rebalance_offsets_rows, the same in every policy.
Offsets == <<-3, -2, -1>>

TransformFamilies ==
  {"one_day_gap", "sustained_cumulative_shock", "volatility_multiplier",
   "correlation_target", "transaction_cost_multiplier"}

\* A range keeps to the domain of the parameter it bounds.
WithinDomain(family, range) ==
  /\ RangeContract(range)
  /\ family \in {"one_day_gap", "sustained_cumulative_shock"} =>
       Representable(range.minimum) /\ Representable(range.maximum)
  /\ family \in {"volatility_multiplier", "transaction_cost_multiplier"} =>
       range.minimum > 0

(***************************************************************************)
(* The approved ranges of a hypothesis are scaled to the rows of the       *)
(* model; that a window can be stressed at all is kept.                    *)
(***************************************************************************)
HypothesisContract(hypothesis, policy) ==
  CASE hypothesis.family = "inflation_correlation_break" ->
         /\ RangeContract(hypothesis.windowRows) /\ hypothesis.windowRows.minimum >= 3
         /\ RangeContract(hypothesis.shockRows) /\ hypothesis.shockRows.minimum >= 1
         /\ RangeContract(hypothesis.correlation)
         /\ RangeContract(hypothesis.multiplier) /\ RangeContract(hypothesis.shock)
         /\ Includes(policy.ranges["correlation_target"], hypothesis.correlation)
         /\ Includes(policy.ranges["volatility_multiplier"], hypothesis.multiplier)
         /\ Includes(policy.ranges["sustained_cumulative_shock"], hypothesis.shock)
         /\ Includes(policy.durations, hypothesis.shockRows)
    [] hypothesis.family = "rebalance_timing_gap" ->
         /\ RangeContract(hypothesis.shock)
         /\ Includes(policy.ranges["one_day_gap"], hypothesis.shock)
    [] hypothesis.family = "volatility_regime_jump" ->
         /\ RangeContract(hypothesis.windowRows) /\ hypothesis.windowRows.minimum >= 2
         /\ RangeContract(hypothesis.multiplier)
         /\ Includes(policy.ranges["volatility_multiplier"], hypothesis.multiplier)
    [] hypothesis.family = "trading_friction_break" ->
         /\ RangeContract(hypothesis.multiplier)
         /\ Includes(policy.ranges["transaction_cost_multiplier"], hypothesis.multiplier)

Allowed(policy) == {policy.families[n] : n \in DOMAIN policy.families}

PolicyContract(policy) ==
  /\ policy.families \in Seq(TransformFamilies) /\ policy.families # <<>>
  /\ \A n, m \in DOMAIN policy.families :
       policy.families[n] = policy.families[m] => n = m
  /\ RangeContract(policy.durations)
  /\ policy.durations.minimum >= 1 /\ policy.durations.maximum <= MaxDurationRows
  /\ \A family \in Allowed(policy) : WithinDomain(family, policy.ranges[family])
  /\ \E count \in 0..4 : DOMAIN policy.hypotheses = 1..count
  /\ \A n \in DOMAIN policy.hypotheses :
       LET hypothesis == policy.hypotheses[n]
       IN  /\ HypothesisContract(hypothesis, policy)
           /\ \A place \in DOMAIN Template(hypothesis) :
                Template(hypothesis)[place] \in Allowed(policy)
  /\ \A n, m \in DOMAIN policy.hypotheses :
       policy.hypotheses[n].family = policy.hypotheses[m].family => n = m

ASSUME PolicyAssumption ==
  /\ Kinds \subseteq {"monthly_60_40", "external_weights"}
  /\ \A policy \in Policies : PolicyContract(policy)

-----------------------------------------------------------------------------
(***************************************************************************)
(* What a strategy can be attacked with.  No kind sizes by volatility.     *)
(***************************************************************************)
Supports(kind, hypothesis) ==
  \/ hypothesis.family \in {"inflation_correlation_break", "trading_friction_break"}
  \/ hypothesis.family = "rebalance_timing_gap" /\ kind = "monthly_60_40"

\* for_strategy: the places of the hypotheses that remain.
Active(policy, kind) ==
  {n \in DOMAIN policy.hypotheses : Supports(kind, policy.hypotheses[n])}

\* The rows at whose close the strategy rebalances.
RebalanceRows(kind, monthStarts) ==
  IF kind = "monthly_60_40" THEN {0} \cup monthStarts ELSE {}

\* The rows with turnover.
TradeRows(targets) ==
  {t \in 1..Rows : EffectiveWeights(targets)[t] # EffectiveWeights(targets)[t - 1]}

(***************************************************************************)
(* validate_scenario.  A context is [kind, monthStarts, targets, cost].    *)
(***************************************************************************)
InEnvelope(policy, component) ==
  /\ component.family \in Allowed(policy)
  /\ Contains(policy.ranges[component.family], component.size)
  /\ component.family = "sustained_cumulative_shock" =>
       Contains(policy.durations, component.rows)

Matches(hypothesis, scenario) ==
  /\ DOMAIN scenario.components = DOMAIN Template(hypothesis)
  /\ \A n \in DOMAIN scenario.components :
       scenario.components[n].family = Template(hypothesis)[n]

StructureFits(hypothesis, components) ==
  CASE hypothesis.family = "inflation_correlation_break" ->
         LET volatility  == components[1]
             correlation == components[2]
             shock       == components[3]
         IN  /\ volatility.start = correlation.start /\ volatility.end = correlation.end
             /\ volatility.symbols = Symbols /\ shock.symbols = Symbols
             /\ Contains(hypothesis.multiplier, volatility.size)
             /\ Contains(hypothesis.correlation, correlation.size)
             /\ Contains(hypothesis.shockRows, shock.rows)
             /\ Contains(hypothesis.shock, shock.size)
    [] hypothesis.family = "rebalance_timing_gap" ->
         Contains(hypothesis.shock, components[1].size)
    [] hypothesis.family = "volatility_regime_jump" ->
         /\ Contains(hypothesis.multiplier, components[1].size)
         /\ components[1].symbols = Symbols
    [] hypothesis.family = "trading_friction_break" ->
         Contains(hypothesis.multiplier, components[1].size)

WindowLasts(range, component) ==
  /\ Observed(component.start) /\ Observed(component.end)
  /\ Contains(range, LastRow(component) - FirstRow(component) + 1)

\* Fault variant: the end of the shock is held against the dataset only.
ShockEndsInTheDataset(scenario, shock) ==
  /\ Observed(shock.start)
  /\ LastRow(shock) <= Rows

ShockEnds(scenario, shock) ==
  /\ Observed(shock.start)
  /\ LastRow(shock) <= Rows
  /\ 2 * LastRow(shock) <= scenario.end

ContextFits(hypothesis, scenario, context) ==
  LET components == scenario.components
  IN  /\ Observed(scenario.start) /\ Observed(scenario.end)
      /\ CASE hypothesis.family = "inflation_correlation_break" ->
                /\ WindowLasts(hypothesis.windowRows, components[1])
                /\ ShockEnds(scenario, components[3])
           [] hypothesis.family = "rebalance_timing_gap" ->
                /\ Observed(components[1].start)
                /\ \E row \in RebalanceRows(context.kind, context.monthStarts),
                      k \in DOMAIN Offsets :
                     FirstRow(components[1]) = row + Offsets[k]
           [] hypothesis.family = "volatility_regime_jump" ->
                WindowLasts(hypothesis.windowRows, components[1])
           [] hypothesis.family = "trading_friction_break" ->
                /\ context.cost > 0 /\ CostFits(context.cost, components[1])
                /\ \E t \in TradeRows(context.targets) : t \in EvaluationRows(scenario)

\* for_strategy and validate_scenario: without hypotheses the envelope is all.
Admits(policy, scenario, context) ==
  /\ \A n \in DOMAIN scenario.components : InEnvelope(policy, scenario.components[n])
  /\ Active(policy, context.kind) # {} =>
       \E n \in Active(policy, context.kind) :
         LET hypothesis == policy.hypotheses[n]
         IN  /\ Matches(hypothesis, scenario)
             /\ StructureFits(hypothesis, scenario.components)
             /\ ContextFits(hypothesis, scenario, context)
=============================================================================
