--------------------------- MODULE OfflineProposal ---------------------------
(***************************************************************************)
(* How a proposal comes to be evaluated.  A model client answers with any  *)
(* scenario; the two deterministic proposers build theirs from the policy, *)
(* the calendar of the dataset and their place in the budget: the client   *)
(* of offline runs, and the grid that fills the catalog of every run.  A   *)
(* proposal that cannot be built ends the run; one that the policy refuses *)
(* has used its slot.                                                      *)
(***************************************************************************)
EXTENDS AttackPolicy

CONSTANTS
  Calendars,       \* sets of rows that begin a month, without the first row
  Sources          \* where a proposal comes from: [by |-> "model", scenario],
                   \* [by |-> "client", round, candidate, batch] or
                   \* [by |-> "grid", round, candidate, seed]

MaxRounds == 3                \* MAX_ROUNDS

MaxCandidatesPerRound == 8    \* MAX_CANDIDATES_PER_ROUND

MaxTotalScenarios == 24       \* MAX_TOTAL_SCENARIOS

(***************************************************************************)
(* What else a model may answer, and what becomes of it, is in             *)
(* AttackerService.  Both proposers ask for three dates (from_dataset).    *)
(***************************************************************************)
SourceContract(source) ==
  CASE source.by = "model"  -> ScenarioContract(source.scenario)
    [] source.by = "client" ->
         /\ source.round \in 1..MaxRounds
         /\ source.batch \in 1..MaxCandidatesPerRound /\ source.candidate \in 1..source.batch
    [] source.by = "grid"   ->
         /\ source.round \in 1..MaxRounds /\ source.candidate \in 1..MaxCandidatesPerRound
         /\ source.seed \in Nat

ASSUME SourceAssumption ==
  /\ Rows >= 2
  /\ \A months \in Calendars : months \subseteq 1..Rows
  /\ \A source \in Sources : SourceContract(source)

VARIABLES
  request,         \* [policy, context, source], fixed
  proposal,        \* the scenario proposed, or NoProposal
  verdict          \* "idle", "asked", "proposed", "admitted", "refused", "raised"

proposalVars == <<request, proposal, verdict>>

NoProposal == <<>>

-----------------------------------------------------------------------------
(***************************************************************************)
(* A fraction is [of, parts].  round(whole * fraction) in the code rounds  *)
(* halves to the even neighbour.                                           *)
(***************************************************************************)
Rounded(whole, fraction) ==
  LET below == (whole * fraction.of) \div fraction.parts
      rest  == (whole * fraction.of) % fraction.parts
  IN  IF 2 * rest > fraction.parts \/ (2 * rest = fraction.parts /\ below % 2 = 1)
      THEN below + 1 ELSE below

Interpolate(range, fraction) ==
  range.minimum
    + range.step * Rounded((range.maximum - range.minimum) \div range.step, fraction)

\* From the least negative shock toward the most negative.
InterpolateAdverse(range, fraction) ==
  range.maximum
    - range.step * Rounded((range.maximum - range.minimum) \div range.step, fraction)

Least(a, b) == IF a <= b THEN a ELSE b

Greatest(a, b) == IF a <= b THEN b ELSE a

Ordinal(source) == (source.round - 1) * MaxCandidatesPerRound + source.candidate

\* The element of a set of numbers that has n smaller ones.
Nth(numbers, n) ==
  CHOOSE x \in numbers : Cardinality({y \in numbers : y < x}) = n

\* Components between rows of the dataset.
Stress(family, first, last, size) ==
  [family |-> family, start |-> 2 * first, end |-> 2 * last, rows |-> 0,
   symbols |-> Symbols, size |-> size]

GapAt(row, size) == Stress("one_day_gap", row, row, size)

\* Without an end date: its start is all the domain contract sees.
ShockFrom(row, rows, size) ==
  [Stress("sustained_cumulative_shock", row, row, size) EXCEPT !.rows = rows]

CostTimes(size) == Stress("transaction_cost_multiplier", 0, 0, size)

\* Months that begin late enough for every offset.
LateMonths(context) == {row \in context.monthStarts : row >= 3}

RebalanceGap(context, turn, size) ==
  LET months == LateMonths(context)
  IN  IF months = {} THEN NoProposal
      ELSE <<GapAt(Nth(months, turn % Cardinality(months))
                     + Offsets[(turn % Len(Offsets)) + 1], size)>>

-----------------------------------------------------------------------------
(***************************************************************************)
(* The client of offline runs.  It never stresses the first row, which has *)
(* no return; of the hypotheses it searches the first, and gives the last  *)
(* slots of a round to the others.                                         *)
(***************************************************************************)
ClientFraction(source) ==
  [of    |-> Least(4 * source.candidate + source.round - 1, 4 * source.batch),
   parts |-> 4 * source.batch]

\* Fault variant: a row is left to the shock that the window has taken.
LongestShockOverlapping(hypothesis, windowEnd) ==
  Least(hypothesis.shockRows.maximum, Rows - windowEnd + 1)

LongestShock(hypothesis, windowEnd) ==
  Least(hypothesis.shockRows.maximum, Rows - windowEnd)

ClientInflation(hypothesis, fraction) ==
  LET lastEnd   == Least(Rows - hypothesis.shockRows.minimum, hypothesis.windowRows.maximum)
      firstEnd  == hypothesis.windowRows.minimum
      windowEnd == Least(lastEnd, Greatest(firstEnd, Rows \div 2))
      shortest  == hypothesis.shockRows.minimum
      duration  == shortest
                     + Rounded(LongestShock(hypothesis, windowEnd) - shortest, fraction)
      latest    == Rows + 1 - duration
      start     == Greatest(windowEnd + 1, Rounded(latest, [of |-> 3, parts |-> 5]))
  IN  IF lastEnd < firstEnd THEN NoProposal
      ELSE <<Stress("volatility_multiplier", 1, windowEnd,
                    Interpolate(hypothesis.multiplier, fraction)),
             Stress("correlation_target", 1, windowEnd,
                    Interpolate(hypothesis.correlation, fraction)),
             ShockFrom(start, duration, InterpolateAdverse(hypothesis.shock, fraction))>>

ClientHypothesis(hypothesis, context, ordinal, fraction) ==
  CASE hypothesis.family = "inflation_correlation_break" ->
         ClientInflation(hypothesis, fraction)
    [] hypothesis.family = "rebalance_timing_gap" ->
         RebalanceGap(context, ordinal, InterpolateAdverse(hypothesis.shock, fraction))
    [] hypothesis.family = "trading_friction_break" ->
         <<CostTimes(Interpolate(hypothesis.multiplier, fraction))>>

\* One component of each family that the policy allows, in its order.
ClientComponent(policy, family, ordinal, fraction) ==
  LET range     == policy.ranges[family]
      shortest  == policy.durations.minimum
      duration  == shortest
                     + Rounded(Least(policy.durations.maximum, Rows) - shortest, fraction)
      start     == Greatest(1, Rounded(Rows + 1 - duration, [of |-> 3, parts |-> 5]))
      regimeEnd == Greatest(2, Rows \div 2)
  IN  CASE family = "one_day_gap" ->
             GapAt(1 + (ordinal % Rows), InterpolateAdverse(range, fraction))
        [] family = "sustained_cumulative_shock" ->
             ShockFrom(start, duration, InterpolateAdverse(range, fraction))
        [] family \in {"volatility_multiplier", "correlation_target"} ->
             Stress(family, 1, regimeEnd, Interpolate(range, fraction))
        [] family = "transaction_cost_multiplier" ->
             CostTimes(Interpolate(range, fraction))

DurationsFit(policy) == policy.durations.minimum <= Rows

ClientComponents(policy, context, source) ==
  LET fraction == ClientFraction(source)
      active   == Active(policy, context.kind)
      searched == Greatest(1, MaxCandidatesPerRound - Cardinality(active) + 1)
      place    == IF source.candidate <= searched THEN 0
                  ELSE Least(source.candidate - searched, Cardinality(active) - 1)
  IN  IF active # {}
      THEN ClientHypothesis(policy.hypotheses[Nth(active, place)], context, Ordinal(source),
                            IF place = 0 THEN fraction ELSE [of |-> 0, parts |-> 1])
      ELSE IF "sustained_cumulative_shock" \in Allowed(policy) /\ ~DurationsFit(policy)
      THEN NoProposal
      ELSE [n \in DOMAIN policy.families |->
              ClientComponent(policy, policy.families[n], Ordinal(source), fraction)]

-----------------------------------------------------------------------------
(***************************************************************************)
(* The seeded grid.  It takes hypotheses and families in turn; its windows *)
(* begin with the first row.                                               *)
(***************************************************************************)
GridFraction(source) == [of |-> Ordinal(source), parts |-> MaxTotalScenarios + 1]

GridInflation(hypothesis, fraction) ==
  LET shortest   == hypothesis.windowRows.minimum
      longest    == Least(hypothesis.windowRows.maximum,
                          Rows + 1 - hypothesis.shockRows.minimum)
      windowRows == shortest + Rounded(longest - shortest, fraction)
      duration   == hypothesis.shockRows.minimum
                      + Rounded(Least(hypothesis.shockRows.maximum, Rows + 1 - windowRows)
                                  - hypothesis.shockRows.minimum, fraction)
  IN  IF Rows + 1 < shortest + hypothesis.shockRows.minimum THEN NoProposal
      ELSE <<Stress("volatility_multiplier", 0, windowRows - 1,
                    Interpolate(hypothesis.multiplier, fraction)),
             Stress("correlation_target", 0, windowRows - 1,
                    Interpolate(hypothesis.correlation, fraction)),
             ShockFrom(windowRows, duration, Interpolate(hypothesis.shock, fraction))>>

GridHypothesis(hypothesis, context, turn, fraction) ==
  CASE hypothesis.family = "inflation_correlation_break" ->
         GridInflation(hypothesis, fraction)
    [] hypothesis.family = "rebalance_timing_gap" ->
         RebalanceGap(context, turn, Interpolate(hypothesis.shock, fraction))
    [] hypothesis.family = "trading_friction_break" ->
         <<CostTimes(Interpolate(hypothesis.multiplier, fraction))>>

GridComponent(policy, family, turn, fraction) ==
  LET range    == policy.ranges[family]
      shortest == policy.durations.minimum
      duration == shortest
                    + (turn % (Least(policy.durations.maximum, Rows) - shortest + 1))
  IN  CASE family = "one_day_gap" -> GapAt(1 + (turn % Rows), Interpolate(range, fraction))
        [] family = "sustained_cumulative_shock" ->
             ShockFrom(turn % (Rows + 2 - duration), duration, Interpolate(range, fraction))
        [] family \in {"volatility_multiplier", "correlation_target"} ->
             Stress(family, 0, Rows, Interpolate(range, fraction))
        [] family = "transaction_cost_multiplier" ->
             CostTimes(Interpolate(range, fraction))

GridComponents(policy, context, source) ==
  LET fraction == GridFraction(source)
      active   == Active(policy, context.kind)
      turn     == Ordinal(source) + source.seed
      family   == policy.families[((turn - 1) % Len(policy.families)) + 1]
  IN  IF active # {}
      THEN GridHypothesis(policy.hypotheses[Nth(active, (turn - 1) % Cardinality(active))],
                          context, turn, fraction)
      ELSE IF family = "sustained_cumulative_shock" /\ ~DurationsFit(policy)
      THEN NoProposal
      ELSE <<GridComponent(policy, family, turn, fraction)>>

\* Both proposers declare the whole dataset as the window of evaluation.
OverTheDataset(components) ==
  IF components = NoProposal THEN NoProposal
  ELSE [start |-> 0, end |-> 2 * Rows, components |-> components]

Proposed(policy, context, source) ==
  CASE source.by = "model"  -> source.scenario
    [] source.by = "client" -> OverTheDataset(ClientComponents(policy, context, source))
    [] source.by = "grid"   -> OverTheDataset(GridComponents(policy, context, source))

-----------------------------------------------------------------------------
ProposalInit ==
  /\ request \in [policy: Policies, source: Sources,
                  context: [kind: Kinds, monthStarts: Calendars, targets: TargetPaths,
                            cost: Costs]]
  /\ proposal = NoProposal /\ verdict = "asked"

\* A scenario that breaks the domain contract is not built either.
Propose ==
  LET scenario == Proposed(request.policy, request.context, request.source)
      built    == scenario # NoProposal /\ ScenarioContract(scenario)
  IN  /\ verdict = "asked"
      /\ \/ /\ built
            /\ proposal' = scenario /\ verdict' = "proposed"
         \/ /\ ~built
            /\ verdict' = "raised" /\ UNCHANGED proposal
      /\ UNCHANGED request

Admit ==
  /\ verdict = "proposed" /\ Admits(request.policy, proposal, request.context)
  /\ verdict' = "admitted"
  /\ UNCHANGED <<request, proposal>>

Refuse ==
  /\ verdict = "proposed" /\ ~Admits(request.policy, proposal, request.context)
  /\ verdict' = "refused"
  /\ UNCHANGED <<request, proposal>>

ProposalNext == Propose \/ Admit \/ Refuse
=============================================================================
