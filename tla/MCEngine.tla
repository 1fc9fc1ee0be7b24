------------------------------ MODULE MCEngine ------------------------------
(***************************************************************************)
(* Every path of seven days that each lose two steps, win one or are spent *)
(* in cash is scanned; scenarios of one or two components are evaluated on *)
(* six markets of two assets; every place in the budget is proposed for.   *)
(***************************************************************************)
EXTENDS Engine

CONSTANTS SPY, TLT

Rule(family, threshold) == [family |-> family, threshold |-> threshold]

MCPositions == {-2, 1, Cash}

MCHistoryLengths == <<2, 3, 7>>

MCRuleSets ==
  {{Rule("maximum_drawdown", 1)},
   {Rule("rolling_20_day_loss", 1)},
   {Rule("realized_volatility_multiple", 2)},
   {Rule("maximum_drawdown", 2), Rule("rolling_20_day_loss", 1),
    Rule("realized_volatility_multiple", 3)}}

-----------------------------------------------------------------------------
\* The step of the markets, divisible by the lengths of the windows stressed.
Unit == 24

MCMarkets ==
  {[s \in Symbols |-> [t \in 0..Rows |->
      Unit * (IF t = 0 THEN 0 ELSE IF s = SPY THEN spy[t] ELSE tlt[t])]] :
   spy \in {<<1, -1, 2, -2, 1, 0, 1>>, <<1, 1, 1, 1, 1, 1, 1>>, <<-1, 1, -2, 0, 1, -1, 2>>},
   tlt \in {<<-1, 1, -2, 0, 1, -1, 2>>, <<0, 1, 0, -1, 0, -1, 1>>}}

\* Always in the market, or out of it in the middle.
MCTargetPaths ==
  {[t \in 0..Rows |-> TRUE], [t \in 0..Rows |-> t \notin 3..5]}

MCStressRuleSets ==
  {{Rule("maximum_drawdown", 2 * Unit), Rule("rolling_20_day_loss", 2 * Unit),
    Rule("realized_volatility_multiple", 5)},
   {Rule("rolling_20_day_loss", 1)}}

\* No end date, duration or symbols.
Plain(family, start, size) ==
  [family |-> family, start |-> start, end |-> start, rows |-> 0,
   symbols |-> Symbols, size |-> size]

Gap(date, size) ==
  [Plain("one_day_gap", date, size * Unit) EXCEPT !.symbols = {SPY}]

Sustained(start, rows, size) ==
  [Plain("sustained_cumulative_shock", start, size * Unit) EXCEPT !.rows = rows]

Window(family, start, end, size) ==
  [Plain(family, start, size) EXCEPT !.end = end]

MCComponents ==
  {Gap(0, -2), Gap(3, -2), Gap(6, -2), Gap(6, -4), Gap(8, 1),
   Sustained(4, 2, -2), Sustained(8, 3, -3), Sustained(12, 3, -3),
   Window("volatility_multiplier", 4, 6, 2), Window("volatility_multiplier", 4, 10, 2),
   Window("volatility_multiplier", 4, 5, 2),
   Window("correlation_target", 4, 8, 0), Window("correlation_target", 4, 6, 0),
   Plain("transaction_cost_multiplier", 4, 2), Plain("transaction_cost_multiplier", 4, 40),
   Window("historical_window", 4, 8, 0)}

\* Every scenario of these that passes the domain contract.
MCScenarios ==
  {scenario \in [start: {0, 4}, end: {7, 10, 14},
                 components: {<<c>> : c \in MCComponents}
                   \cup {<<c, d>> : c \in MCComponents, d \in MCComponents}] :
     ScenarioContract(scenario)}

(***************************************************************************)
(* The unit is small enough for each component of what preflight accepts,  *)
(* on the returns that the one before leaves: the hypothesis StepsAreWhole *)
(* of the theorem on declared stress.                                      *)
(***************************************************************************)
ASSUME UnitIsSmallEnough ==
  \A market \in MCMarkets, scenario \in MCScenarios :
    PreflightFault(scenario, 0) = NoCode =>
      LET first == scenario.components[1]
      IN  /\ WholeSteps(market, first)
          /\ Len(scenario.components) = 2 =>
               WholeSteps(ApplyToReturns(market, first), scenario.components[2])

-----------------------------------------------------------------------------
Numbers(minimum, maximum) == [minimum |-> minimum, maximum |-> maximum, step |-> 1]

Steps(minimum, maximum) ==
  [minimum |-> minimum * Unit, maximum |-> maximum * Unit, step |-> Unit]

MCRanges ==
  [family \in {"one_day_gap", "sustained_cumulative_shock", "volatility_multiplier",
               "correlation_target", "transaction_cost_multiplier"} |->
     CASE family \in {"one_day_gap", "sustained_cumulative_shock"} -> Steps(-4, -1)
       [] family = "correlation_target" -> Numbers(1, 3)
       [] OTHER -> Numbers(2, 5)]

Inflation(windowRows, shockRows) ==
  [family |-> "inflation_correlation_break", windowRows |-> windowRows,
   shockRows |-> shockRows, correlation |-> Numbers(1, 3),
   multiplier |-> Numbers(2, 4), shock |-> Steps(-4, -2)]

Rebalancing == [family |-> "rebalance_timing_gap", shock |-> Steps(-3, -1)]

VolatilityRegime ==
  [family |-> "volatility_regime_jump", windowRows |-> Numbers(2, 4),
   multiplier |-> Numbers(2, 4)]

Friction == [family |-> "trading_friction_break", multiplier |-> Numbers(2, 5)]

Policy(durations, hypotheses) ==
  [families |-> <<"one_day_gap", "sustained_cumulative_shock", "volatility_multiplier",
                  "correlation_target", "transaction_cost_multiplier">>,
   ranges |-> MCRanges, durations |-> durations, hypotheses |-> hypotheses]

(***************************************************************************)
(* With ample and with tight windows, one row too long for the client, one *)
(* that no strategy supports, and two without hypotheses, the second with  *)
(* the longest duration that fits.                                         *)
(***************************************************************************)
MCPolicies ==
  {Policy(Numbers(1, 5),
          <<Inflation(Numbers(3, 6), Numbers(1, 5)), Rebalancing, VolatilityRegime, Friction>>),
   Policy(Numbers(1, 4), <<Friction, Inflation(Numbers(4, 6), Numbers(3, 4))>>),
   Policy(Numbers(1, 4), <<Inflation(Numbers(5, 7), Numbers(3, 3)), Rebalancing>>),
   Policy(Numbers(1, 4), <<VolatilityRegime>>),
   Policy(Numbers(1, 4), <<>>),
   Policy(Numbers(7, 8), <<>>)}

MCCalendars == {{}, {2}, {3}, {2, 5, 7}}

MCAnswers ==
  {scenario \in [start: {0, 4}, end: {10, 14},
                 components:
                   {<<Window("volatility_multiplier", 4, vol, 2),
                      Window("correlation_target", 4, corr, 2),
                      Sustained(start, rows, -2)>> :
                      vol \in {6, 8, 9}, corr \in {8, 9}, start \in {8, 9, 10},
                      rows \in {1, 2, 3, 4}}
                     \cup {<<Gap(date, -2)>> : date \in {0, 3, 4, 8, 10}}
                     \cup {<<Window("volatility_multiplier", 4, 8, 2)>>}
                     \cup {<<Plain("transaction_cost_multiplier", 4, size)>> : size \in {2, 9}}] :
     ScenarioContract(scenario)}

MCSources ==
  [by: {"model"}, scenario: MCAnswers]
    \cup {source \in [by: {"client"}, round: 1..3, candidate: 1..8, batch: 1..8] :
             source.candidate <= source.batch}
    \cup [by: {"grid"}, round: 1..3, candidate: 1..8, seed: 0..1]
=============================================================================
