----------------------------- MODULE EngineProofs -----------------------------
(***************************************************************************)
(* Proofs about the deterministic engine, for any markets, scenarios,      *)
(* strategies, costs, policies and failure rules, any number of rows and   *)
(* any window lengths: the evaluation of a scenario under stress, the      *)
(* proposals of scenarios, and the scan of a history for the windows in    *)
(* which a strategy fails.                                                 *)
(***************************************************************************)
EXTENDS Engine, OrdersAndSums, FiniteSetTheorems, SequenceTheorems, TLAPS

Transforming == {"dry", "producing", "replaying", "judging", "valid", "raised"}

\* Preflight has accepted every component that is ever applied.
PreflightPassed ==
  /\ stress # "idle" =>
       /\ experiment.scenario \in Scenarios
       /\ stress \in Transforming \cup {"preflight", "rejected"}
       /\ next \in Nat \ {0}
  /\ stress \in Transforming =>
       PreflightFault(experiment.scenario, experiment.cost) = NoCode
  /\ stress = "preflight" => staged = experiment.market

WindowInvariant == PreflightPassed /\ StressStaysInItsWindow

-----------------------------------------------------------------------------
\* What preflight accepts has no component with a fault.
LEMMA AcceptedComponents ==
  ASSUME NEW scenario \in Scenarios, NEW cost,
         PreflightFault(scenario, cost) = NoCode,
         NEW n \in DOMAIN scenario.components
  PROVE  ComponentFault(scenario.components[n], scenario, cost) = NoCode
  <1> DEFINE fault  == [m \in DOMAIN scenario.components |->
                          ComponentFault(scenario.components[m], scenario, cost)]
             faulty == {m \in DOMAIN fault : fault[m] # NoCode}
  <1>1. DOMAIN fault \subseteq 1..MaxComponents
    BY StressAssumption DEF ScenarioContract, MaxComponents
  <1>2. faulty = {}
    <2>1. CASE faulty # {}
      <3>1. Min(faulty) \in faulty
        BY <1>1, <2>1, PlacesHaveEnds DEF MaxComponents
      <3>2. PreflightFault(scenario, cost) = fault[Min(faulty)]
        BY <2>1 DEF PreflightFault, NoCode
      <3>3. QED
        BY <3>1, <3>2
    <2>2. QED
      BY <2>1
  <1>3. QED
    BY <1>2

\* The rows a fitting component changes lie in the evaluation window.
LEMMA FittingRows ==
  ASSUME NEW scenario \in Scenarios, NEW component, NEW cost,
         ComponentFault(component, scenario, cost) = NoCode,
         component.family # "transaction_cost_multiplier"
  PROVE  FirstRow(component)..LastRow(component) \subseteq EvaluationRows(scenario)
  <1>1. WindowFits(component, scenario)
    BY DEF ComponentFault, NoCode
  <1>2. /\ FirstRow(component) \in EvaluationRows(scenario)
        /\ LastRow(component) \in EvaluationRows(scenario)
    BY <1>1 DEF WindowFits
  <1>3. scenario.start \in Nat /\ scenario.end \in Nat
    BY StressAssumption DEF ScenarioContract
  <1>4. DatePosition(scenario.start) \in Int /\ DatePosition(scenario.end) \in Int
    BY <1>3 DEF DatePosition
  <1>5. QED
    BY <1>2, <1>4 DEF EvaluationRows

\* One accepted component changes nothing outside the evaluation window.
LEMMA ComponentStaysInside ==
  ASSUME NEW scenario \in Scenarios, NEW component, NEW cost, NEW returns,
         ComponentFault(component, scenario, cost) = NoCode,
         NEW s \in Symbols, NEW t \in 0..Rows, t \notin EvaluationRows(scenario)
  PROVE  ApplyToReturns(returns, component)[s][t] = returns[s][t]
  <1>1. CASE component.family = "transaction_cost_multiplier"
    BY <1>1 DEF ApplyToReturns
  <1>2. CASE component.family # "transaction_cost_multiplier"
    <2>1. t \notin FirstRow(component)..LastRow(component)
      BY <1>2, FittingRows
    <2>2. QED
      BY <1>2, <2>1 DEF ApplyToReturns
  <1>3. QED
    BY <1>1, <1>2

-----------------------------------------------------------------------------
\* The engine begins with the returns of the dataset, or with no scenario.
LEMMA WindowInit == EngineInit => WindowInvariant
  BY DEF EngineInit, StressIdle, StressInit, WindowInvariant, PreflightPassed,
         StressStaysInItsWindow, Transforming

\* A component that is applied leaves the rows outside as they are.
LEMMA AppliedComponent ==
  ASSUME WindowInvariant, stress \in Transforming, next \in DOMAIN Components,
         ApplyComponent
  PROVE  WindowInvariant'
  <1> USE DEF WindowInvariant, PreflightPassed
  <1>1. /\ experiment.scenario \in Scenarios
        /\ ComponentFault(Components[next], experiment.scenario, experiment.cost) = NoCode
    BY AcceptedComponents DEF Transforming, Components
  <1>2. PreflightPassed'
    BY DEF ApplyComponent, Transforming
  <1>3. ASSUME NEW s \in Symbols, NEW t \in 0..Rows,
               t \notin EvaluationRows(experiment.scenario)
        PROVE  staged'[s][t] = experiment.market[s][t]
    BY <1>1, <1>3, ComponentStaysInside
    DEF ApplyComponent, StressStaysInItsWindow, Transforming
  <1>4. QED
    BY <1>2, <1>3 DEF ApplyComponent, StressStaysInItsWindow

\* Every step keeps the invariant.
LEMMA WindowNext ==
  ASSUME WindowInvariant, [EngineNext]_engineVars
  PROVE  WindowInvariant'
  <1> USE DEF WindowInvariant
  <1>1. CASE UNCHANGED stressVars
    BY <1>1 DEF stressVars, PreflightPassed, StressStaysInItsWindow
  <1>2. ASSUME NEW rejection, Reject(rejection), stress # "idle"
        PROVE  WindowInvariant'
    BY <1>2 DEF Reject, PreflightPassed, StressStaysInItsWindow, Transforming
  <1>3. CASE Preflight
    <2>1. CASE PreflightFault(experiment.scenario, experiment.cost) # NoCode
      BY <1>2, <1>3, <2>1 DEF Preflight
    <2>2. CASE PreflightFault(experiment.scenario, experiment.cost) = NoCode
      BY <1>3, <2>2
      DEF Preflight, PreflightPassed, StressStaysInItsWindow, Transforming
    <2>3. QED
      BY <2>1, <2>2
  <1>4. CASE DryRun
    BY <1>2, <1>4, AppliedComponent DEF DryRun, Transforming
  <1>5. CASE BeginEvidence
    <2>1. CASE Reject("invalid_parameter")
      BY <1>2, <1>5, <2>1 DEF BeginEvidence
    <2>2. CASE ~Reject("invalid_parameter")
      BY <1>5, <2>2
      DEF BeginEvidence, PreflightPassed, StressStaysInItsWindow, Transforming
    <2>3. QED
      BY <2>1, <2>2
  <1>6. CASE ProduceComponent
    BY <1>2, <1>6, AppliedComponent DEF ProduceComponent, Transforming
  <1>7. CASE FinishTransform
    <2>1. CASE Reject("invalid_parameter")
      BY <1>2, <1>7, <2>1 DEF FinishTransform
    <2>2. CASE ~Reject("invalid_parameter")
      BY <1>7, <2>2
      DEF FinishTransform, PreflightPassed, StressStaysInItsWindow, Transforming
    <2>3. QED
      BY <2>1, <2>2
  <1>8. CASE ReplayScenario
    <2>1. CASE Reject("invalid_data")
      BY <1>2, <1>8, <2>1 DEF ReplayScenario
    <2>2. CASE ~Reject("invalid_data")
      BY <1>8, <2>2
      DEF ReplayScenario, PreflightPassed, StressStaysInItsWindow, Transforming
    <2>3. QED
      BY <2>1, <2>2
  <1>9. CASE JudgeScenario
    <2>1. CASE Reject("invalid_data")
      BY <1>2, <1>9, <2>1 DEF JudgeScenario
    <2>2. CASE ~Reject("invalid_data")
      BY <1>9, <2>2
      DEF JudgeScenario, PreflightPassed, StressStaysInItsWindow, Transforming
    <2>3. QED
      BY <2>1, <2>2
  <1>10. QED
    BY <1>1, <1>3, <1>4, <1>5, <1>6, <1>7, <1>8, <1>9
    DEF EngineNext, StressNext, engineVars

(***************************************************************************)
(* No component of a scenario changes a return outside the evaluation      *)
(* window, in the dry run or in the evidence: preflight has held each of   *)
(* them against the window before the first is applied.                    *)
(***************************************************************************)
THEOREM StressAlwaysStaysInItsWindow == EngineSpec => []StressStaysInItsWindow
  <1>1. WindowInvariant => StressStaysInItsWindow
    BY DEF WindowInvariant
  <1>2. QED
    BY <1>1, WindowInit, WindowNext, PTL DEF EngineSpec

-----------------------------------------------------------------------------
(***************************************************************************)
(* The stages that the returns and the cost of a scenario go through.  A   *)
(* chain of stages begins with the dataset; a component applies to each    *)
(* stage but the last, and leads to the next.                              *)
(***************************************************************************)
Chain(stages, length) ==
  /\ stages[1] = <<experiment.market, experiment.cost>>
  /\ \A n \in 1..(length - 1) :
       /\ n \in DOMAIN Components
       /\ Applies(stages[n][1], stages[n][2], Components[n])
       /\ stages[n + 1] = <<ApplyToReturns(stages[n][1], Components[n]),
                            ApplyToCost(stages[n][2], Components[n])>>

Staged == <<staged, stagedCost>>

\* The dry run has settled the stages that the evidence goes through again.
StagesAreSettled ==
  /\ stress \in {"preflight", "dry"} =>
       \E stages : Chain(stages, next) /\ stages[next] = Staged
  /\ stress = "preflight" => next = 1
  /\ stress = "producing" =>
       \E stages : \E length \in Nat :
         /\ Chain(stages, length) /\ length \notin DOMAIN Components
         /\ next \in 1..length /\ stages[next] = Staged

SettledInvariant == PreflightPassed /\ StagesAreSettled

\* The engine begins with the only stage there is.
LEMMA SettledInit == EngineInit => SettledInvariant
  <1> SUFFICES ASSUME EngineInit PROVE SettledInvariant
    OBVIOUS
  <1>1. PreflightPassed
    BY WindowInit DEF WindowInvariant
  <1>2. CASE StressIdle
    BY <1>1, <1>2 DEF StressIdle, SettledInvariant, StagesAreSettled
  <1>3. CASE StressInit
    <2> DEFINE stages == [n \in 1..1 |-> Staged]
    <2>1. next = 1 /\ Staged = <<experiment.market, experiment.cost>>
      BY <1>3 DEF StressInit, Staged
    <2>2. Chain(stages, next) /\ stages[next] = Staged
      BY <2>1 DEF Chain
    <2>3. stress = "preflight"
      BY <1>3 DEF StressInit
    <2>4. QED
      BY <1>1, <2>1, <2>2, <2>3 DEF SettledInvariant, StagesAreSettled
  <1>4. QED
    BY <1>2, <1>3 DEF EngineInit

\* A component that applies in the dry run adds a stage.
LEMMA StageAdded ==
  ASSUME SettledInvariant, stress = "dry", next \in DOMAIN Components,
         Applies(staged, stagedCost, Components[next]), ApplyComponent
  PROVE  SettledInvariant'
  <1>1. next \in Nat \ {0} /\ next' = next + 1 /\ stress' = "dry"
        /\ UNCHANGED experiment /\ UNCHANGED Components
    BY DEF SettledInvariant, PreflightPassed, ApplyComponent, Components
  <1>2. PICK stages : Chain(stages, next) /\ stages[next] = Staged
    BY DEF SettledInvariant, StagesAreSettled
  <1> DEFINE more == [n \in 1..(next + 1) |-> IF n = next + 1 THEN Staged' ELSE stages[n]]
  <1>3. more[next'] = Staged'
    BY <1>1
  <1>4. more[1] = <<experiment.market, experiment.cost>>
    BY <1>1, <1>2 DEF Chain
  <1>5. ASSUME NEW n \in 1..next
        PROVE  /\ n \in DOMAIN Components
               /\ Applies(more[n][1], more[n][2], Components[n])
               /\ more[n + 1] = <<ApplyToReturns(more[n][1], Components[n]),
                                  ApplyToCost(more[n][2], Components[n])>>
    <2>1. CASE n = next
      <3>1. more[n] = <<staged, stagedCost>> /\ more[n + 1] = Staged'
        BY <1>1, <1>2, <2>1 DEF Staged
      <3>2. Staged' = <<ApplyToReturns(staged, Components[n]),
                        ApplyToCost(stagedCost, Components[n])>>
        BY <2>1 DEF Staged, ApplyComponent
      <3>3. more[n][1] = staged /\ more[n][2] = stagedCost
        BY <3>1
      <3>4. QED
        BY <2>1, <3>1, <3>2, <3>3
    <2>2. CASE n # next
      <3>1. n \in 1..(next - 1) /\ more[n] = stages[n] /\ more[n + 1] = stages[n + 1]
        BY <1>1, <2>2
      <3>2. QED
        BY <1>2, <3>1 DEF Chain
    <2>3. QED
      BY <2>1, <2>2
  <1>6. \E path : Chain(path, next)' /\ path[next'] = Staged'
    <2> HIDE DEF more
    <2>1. PICK path, length : path = more /\ length = next + 1
      OBVIOUS
    <2>2. 1..(length - 1) = 1..next
      BY <1>1, <2>1
    <2>3. \A n \in 1..(length - 1) :
            /\ n \in DOMAIN Components
            /\ Applies(path[n][1], path[n][2], Components[n])
            /\ path[n + 1] = <<ApplyToReturns(path[n][1], Components[n]),
                               ApplyToCost(path[n][2], Components[n])>>
      BY <1>5, <2>1, <2>2
    <2>4. Chain(path, length)
      BY <1>4, <2>1, <2>3 DEF Chain
    <2>5. Chain(path, length)'
      <3>1. experiment.market' = experiment.market /\ experiment.cost' = experiment.cost
        BY <1>1
      <3>2. Components' = Components
        BY <1>1
      <3>3. QED
        BY <2>4, <3>1, <3>2 DEF Chain
    <2>6. path[next'] = Staged'
      BY <1>3, <2>1
    <2>7. length = next'
      BY <1>1, <2>1
    <2>8. QED
      BY <2>5, <2>6, <2>7
  <1>7. PreflightPassed'
    BY <1>1 DEF SettledInvariant, PreflightPassed, ApplyComponent, Transforming
  <1>8. QED
    BY <1>1, <1>6, <1>7 DEF SettledInvariant, StagesAreSettled

\* The stages do not change while the experiment is the same.
LEMMA ChainStays ==
  ASSUME UNCHANGED experiment, NEW stages, NEW length, Chain(stages, length)
  PROVE  Chain(stages, length)'
  <1>1. experiment.market' = experiment.market /\ experiment.cost' = experiment.cost
    OBVIOUS
  <1>2. Components' = Components
    BY DEF Components
  <1>3. QED
    BY <1>1, <1>2 DEF Chain

\* A scenario that is rejected has no stage left to settle.
LEMMA SettledReject ==
  ASSUME SettledInvariant, stress # "idle", NEW rejection, Reject(rejection)
  PROVE  SettledInvariant'
  BY DEF SettledInvariant, StagesAreSettled, PreflightPassed, Reject, Transforming

\* The evidence begins where the dry run began, with its stages.
LEMMA SettledBegins ==
  ASSUME SettledInvariant, BeginEvidence, ~Reject("invalid_parameter")
  PROVE  SettledInvariant'
  <1>1. /\ stress = "dry" /\ next \notin DOMAIN Components
        /\ UNCHANGED experiment /\ next' = 1 /\ stress' = "producing"
        /\ Staged' = <<experiment.market, experiment.cost>>
    BY DEF BeginEvidence, Staged
  <1>2. PICK stages, length : Chain(stages, length) /\ length = next
    BY <1>1 DEF SettledInvariant, StagesAreSettled
  <1>3. length \in Nat /\ length > 0
    BY <1>1, <1>2 DEF SettledInvariant, PreflightPassed
  <1>4. Chain(stages, length)'
    BY <1>1, <1>2, ChainStays
  <1>5. stages[next'] = Staged'
    BY <1>1, <1>2 DEF Chain
  <1>6. length \notin DOMAIN Components'
    BY <1>1, <1>2 DEF Components
  <1>7. next' \in 1..length
    BY <1>1, <1>3
  <1>8. PreflightPassed'
    BY <1>1 DEF SettledInvariant, PreflightPassed, Transforming
  <1>9. StagesAreSettled'
    BY <1>1, <1>3, <1>4, <1>5, <1>6, <1>7 DEF StagesAreSettled
  <1>10. QED
    BY <1>8, <1>9 DEF SettledInvariant

\* The evidence meets the next stage of the dry run.
LEMMA SettledProduces ==
  ASSUME SettledInvariant, stress = "producing", next \in DOMAIN Components,
         ApplyComponent
  PROVE  SettledInvariant'
  <1>1. /\ UNCHANGED experiment /\ next' = next + 1 /\ stress' = "producing"
        /\ Staged' = <<ApplyToReturns(staged, Components[next]),
                      ApplyToCost(stagedCost, Components[next])>>
    BY DEF ApplyComponent, Staged
  <1>2. PICK stages, length :
          /\ length \in Nat /\ Chain(stages, length) /\ length \notin DOMAIN Components
          /\ next \in 1..length /\ stages[next] = Staged
    BY DEF SettledInvariant, StagesAreSettled
  <1>3. next \in 1..(length - 1) /\ next' \in 1..length
    BY <1>1, <1>2
  <1>4. stages[next'] = Staged'
    <2>1. stages[next + 1] = <<ApplyToReturns(stages[next][1], Components[next]),
                               ApplyToCost(stages[next][2], Components[next])>>
      BY <1>2, <1>3 DEF Chain
    <2>2. stages[next][1] = staged /\ stages[next][2] = stagedCost
      BY <1>2 DEF Staged
    <2>3. QED
      BY <1>1, <2>1, <2>2
  <1>5. Chain(stages, length)'
    BY <1>1, <1>2, ChainStays
  <1>6. length \notin DOMAIN Components'
    BY <1>1, <1>2 DEF Components
  <1>7. PreflightPassed'
    BY <1>1 DEF SettledInvariant, PreflightPassed, Transforming
  <1>8. StagesAreSettled'
    BY <1>1, <1>2, <1>3, <1>4, <1>5, <1>6 DEF StagesAreSettled
  <1>9. QED
    BY <1>7, <1>8 DEF SettledInvariant

\* A step that leaves the components behind has no stage to settle.
LEMMA SettledLeaves ==
  ASSUME SettledInvariant, stress \in Transforming, UNCHANGED <<experiment, next>>,
         stress' \in {"replaying", "judging", "valid", "raised"}
  PROVE  SettledInvariant'
  BY DEF SettledInvariant, StagesAreSettled, PreflightPassed, Transforming

\* Every step keeps the invariant.
LEMMA SettledNext ==
  ASSUME SettledInvariant, [EngineNext]_engineVars
  PROVE  SettledInvariant'
  <1>1. CASE UNCHANGED stressVars
    <2>1. UNCHANGED <<experiment, staged, stagedCost, next, stress>>
      BY <1>1 DEF stressVars
    <2>2. Staged' = Staged /\ Components' = Components
      BY <2>1 DEF Staged, Components
    <2>3. \A stages, length : Chain(stages, length) => Chain(stages, length)'
      BY <2>1, ChainStays
    <2>4. PreflightPassed'
      BY <2>1 DEF SettledInvariant, PreflightPassed
    <2>5. StagesAreSettled'
      BY <2>1, <2>2, <2>3 DEF SettledInvariant, StagesAreSettled
    <2>6. QED
      BY <2>4, <2>5 DEF SettledInvariant
  <1>2. CASE Preflight
    <2>1. CASE Reject(PreflightFault(experiment.scenario, experiment.cost))
      BY <1>2, <2>1, SettledReject DEF Preflight
    <2>2. CASE ~Reject(PreflightFault(experiment.scenario, experiment.cost))
      <3>1. /\ stress = "preflight" /\ stress' = "dry"
            /\ PreflightFault(experiment.scenario, experiment.cost) = NoCode
            /\ UNCHANGED <<experiment, staged, stagedCost, next>>
        BY <1>2, <2>2 DEF Preflight
      <3>2. PICK stages, length : Chain(stages, length) /\ length = next /\ stages[next] = Staged
        BY <3>1 DEF SettledInvariant, StagesAreSettled
      <3>3. Chain(stages, length)' /\ Staged' = Staged /\ length = next'
        BY <3>1, <3>2, ChainStays DEF Staged
      <3>4. PreflightPassed'
        BY <3>1 DEF SettledInvariant, PreflightPassed, Transforming
      <3>5. StagesAreSettled'
        BY <3>1, <3>2, <3>3 DEF StagesAreSettled
      <3>6. QED
        BY <3>4, <3>5 DEF SettledInvariant
    <2>3. QED
      BY <2>1, <2>2
  <1>3. CASE DryRun
    BY <1>3, StageAdded, SettledReject DEF DryRun
  <1>4. CASE BeginEvidence
    BY <1>4, SettledBegins, SettledReject DEF BeginEvidence
  <1>5. CASE ProduceComponent
    BY <1>5, SettledProduces, SettledReject DEF ProduceComponent
  <1>6. CASE FinishTransform
    BY <1>6, SettledLeaves, SettledReject DEF FinishTransform, Transforming
  <1>7. CASE ReplayScenario
    BY <1>7, SettledLeaves, SettledReject DEF ReplayScenario, Transforming
  <1>8. CASE JudgeScenario
    BY <1>8, SettledLeaves, SettledReject DEF JudgeScenario, Transforming
  <1>9. QED
    BY <1>1, <1>2, <1>3, <1>4, <1>5, <1>6, <1>7, <1>8
    DEF EngineNext, StressNext, engineVars

(***************************************************************************)
(* A component that the dry run let pass does not fail in the pass that    *)
(* keeps evidence: both go through the same stages, each of which the      *)
(* component applies to.                                                   *)
(***************************************************************************)
THEOREM DryRunAlwaysSettles == EngineSpec => []DryRunSettlesComponents
  <1>1. ASSUME SettledInvariant
        PROVE  DryRunSettlesComponents
    <2>1. SUFFICES ASSUME stress = "producing", next \in DOMAIN Components
                   PROVE  Applies(staged, stagedCost, Components[next])
      BY DEF DryRunSettlesComponents
    <2>2. PICK stages, length :
            /\ length \in Nat /\ Chain(stages, length) /\ length \notin DOMAIN Components
            /\ next \in 1..length /\ stages[next] = Staged
      BY <1>1, <2>1 DEF SettledInvariant, StagesAreSettled
    <2>3. next \in 1..(length - 1)
      BY <2>1, <2>2
    <2>4. stages[next][1] = staged /\ stages[next][2] = stagedCost
      BY <2>2 DEF Staged
    <2>5. QED
      BY <2>2, <2>3, <2>4 DEF Chain
  <1>2. QED
    BY <1>1, SettledInit, SettledNext, PTL DEF EngineSpec

-----------------------------------------------------------------------------
(***************************************************************************)
(* A proposal is admitted by the policy of its request, and kept the       *)
(* domain contract when it was made.                                       *)
(***************************************************************************)
ProposalInvariant ==
  /\ verdict # "idle" => request.policy \in Policies
  /\ verdict \in {"proposed", "admitted"} => ScenarioContract(proposal)
  /\ verdict = "admitted" => Admits(request.policy, proposal, request.context)

\* Rows are in the order of their dates.
LEMMA DatesAreInOrder ==
  ASSUME NEW a \in Nat, NEW b \in Nat, a <= b
  PROVE  /\ DatePosition(a) \in Nat /\ DatePosition(b) \in Nat
         /\ DatePosition(a) <= DatePosition(b)
         /\ a % 2 = 0 => 2 * DatePosition(a) = a
  BY DEF DatePosition

\* A component with a window of enough rows between observed dates fits.
LEMMA WindowOfEnoughRowsFits ==
  ASSUME NEW scenario, ScenarioContract(scenario), NEW n \in DOMAIN scenario.components,
         NEW component, component = scenario.components[n],
         component.family \in {"volatility_multiplier", "correlation_target"},
         Observed(component.start), Observed(component.end),
         LastRow(component) - FirstRow(component) + 1 >= 3,
         NEW cost
  PROVE  ComponentFault(component, scenario, cost) = NoCode
  <1>1. /\ scenario.start \in Nat /\ component.start \in Nat
        /\ component.end \in Nat /\ scenario.end \in Nat
        /\ scenario.start <= component.start /\ component.start <= component.end
        /\ component.end <= scenario.end
    BY DEF ScenarioContract, ComponentContract
  <1>2. FirstRow(component) = DatePosition(component.start)
        /\ LastRow(component) = DatePosition(component.end)
    BY DEF FirstRow, LastRow
  <1>3. /\ DatePosition(scenario.start) \in Nat /\ DatePosition(scenario.end) \in Nat
        /\ FirstRow(component) \in Nat /\ LastRow(component) \in Nat
        /\ DatePosition(scenario.start) <= FirstRow(component)
        /\ FirstRow(component) <= LastRow(component)
        /\ LastRow(component) <= DatePosition(scenario.end)
        /\ 2 * LastRow(component) = component.end
    BY <1>1, <1>2, DatesAreInOrder DEF Observed
  <1>4. LastRow(component) <= Rows
    BY <1>3, RowsAssumption DEF Observed
  <1>5. FirstRow(component) \in EvaluationRows(scenario)
        /\ LastRow(component) \in EvaluationRows(scenario)
    BY <1>3 DEF EvaluationRows
  <1>6. WindowFits(component, scenario)
    <2>1. MinimumRows(component) \in {2, 3}
      BY DEF MinimumRows
    <2>2. LastRow(component) - FirstRow(component) + 1 >= MinimumRows(component)
      BY <1>3, <2>1
    <2>3. QED
      BY <1>4, <1>5, <2>2 DEF WindowFits
  <1>7. QED
    BY <1>6 DEF ComponentFault

\* A shock or a gap that ends in the dataset and in the evaluation window fits.
LEMMA ShockThatEndsInTimeFits ==
  ASSUME NEW scenario, ScenarioContract(scenario), NEW n \in DOMAIN scenario.components,
         NEW component, component = scenario.components[n],
         component.family \in {"one_day_gap", "sustained_cumulative_shock"},
         Observed(component.start),
         LastRow(component) <= Rows,
         LastRow(component) <= DatePosition(scenario.end),
         NEW cost
  PROVE  ComponentFault(component, scenario, cost) = NoCode
  <1>1. /\ scenario.start \in Nat /\ component.start \in Nat /\ scenario.end \in Nat
        /\ scenario.start <= component.start /\ scenario.start <= scenario.end
    BY DEF ScenarioContract, ComponentContract
  <1>2. /\ DatePosition(scenario.start) \in Nat /\ DatePosition(scenario.end) \in Nat
        /\ FirstRow(component) \in Nat
        /\ DatePosition(scenario.start) <= FirstRow(component)
    BY <1>1, DatesAreInOrder DEF FirstRow
  <1>3. /\ LastRow(component) \in Nat
        /\ FirstRow(component) <= LastRow(component)
    <2>1. CASE component.family = "one_day_gap"
      BY <1>2, <2>1 DEF LastRow
    <2>2. CASE component.family = "sustained_cumulative_shock"
      <3>1. component.rows \in 1..MaxDurationRows
        BY <2>2 DEF ScenarioContract, ComponentContract
      <3>2. component.rows \in Nat /\ component.rows >= 1
        BY <3>1 DEF MaxDurationRows
      <3>3. QED
        BY <1>2, <2>2, <3>2 DEF LastRow
    <2>3. QED
      BY <2>1, <2>2
  <1>4. FirstRow(component) \in EvaluationRows(scenario)
        /\ LastRow(component) \in EvaluationRows(scenario)
    BY <1>2, <1>3 DEF EvaluationRows
  <1>5. LastRow(component) - FirstRow(component) + 1 >= MinimumRows(component)
    <2>1. MinimumRows(component) = 1
      BY DEF MinimumRows
    <2>2. QED
      BY <1>2, <1>3, <2>1
  <1>6. WindowFits(component, scenario)
    BY <1>4, <1>5 DEF WindowFits
  <1>7. QED
    BY <1>6 DEF ComponentFault

\* Preflight has no fault to find where no component has one.
LEMMA NoFaultToFind ==
  ASSUME NEW scenario, NEW cost, Observed(scenario.start), Observed(scenario.end),
         \A n \in DOMAIN scenario.components :
           ComponentFault(scenario.components[n], scenario, cost) = NoCode,
         \/ CostComponents(scenario) = {}
         \/ \E n : CostComponents(scenario) = {n}
  PROVE  PreflightFault(scenario, cost) = NoCode
  <1> DEFINE fault  == [m \in DOMAIN scenario.components |->
                          ComponentFault(scenario.components[m], scenario, cost)]
             faulty == {m \in DOMAIN fault : fault[m] # NoCode}
  <1>1. ~(Cardinality(CostComponents(scenario)) > 1)
    BY FS_EmptySet, FS_Singleton
  <1>2. faulty = {}
    OBVIOUS
  <1>3. QED
    BY <1>1, <1>2 DEF PreflightFault

\* A policy with hypotheses admits only what preflight accepts.
LEMMA AdmittedFits ==
  ASSUME NEW policy, PolicyContract(policy), NEW scenario, ScenarioContract(scenario),
         NEW context, Admits(policy, scenario, context), Active(policy, context.kind) # {}
  PROVE  PreflightFault(scenario, context.cost) = NoCode
  <1>1. PICK n \in Active(policy, context.kind) :
          /\ Matches(policy.hypotheses[n], scenario)
          /\ StructureFits(policy.hypotheses[n], scenario.components)
          /\ ContextFits(policy.hypotheses[n], scenario, context)
    BY DEF Admits
  <1> DEFINE hypothesis == policy.hypotheses[n]
             components == scenario.components
  <1>2. HypothesisContract(hypothesis, policy)
    BY DEF PolicyContract, Active
  <1>3. Observed(scenario.start) /\ Observed(scenario.end)
    BY <1>1 DEF ContextFits
  <1>4. CASE hypothesis.family = "inflation_correlation_break"
    <2>1. /\ DOMAIN components = 1..3
          /\ components[1].family = "volatility_multiplier"
          /\ components[2].family = "correlation_target"
          /\ components[3].family = "sustained_cumulative_shock"
      BY <1>1, <1>4 DEF Matches, Template
    <2>2. /\ hypothesis.windowRows.minimum \in Int /\ hypothesis.windowRows.minimum >= 3
      BY <1>2, <1>4 DEF HypothesisContract, RangeContract
    <2>3. /\ WindowLasts(hypothesis.windowRows, components[1])
          /\ ShockEnds(scenario, components[3])
      BY <1>1, <1>4 DEF ContextFits
    <2>4. /\ components[1].start = components[2].start
          /\ components[1].end = components[2].end
      BY <1>1, <1>4 DEF StructureFits
    <2>5. /\ FirstRow(components[1]) = FirstRow(components[2])
          /\ LastRow(components[1]) = LastRow(components[2])
      BY <2>1, <2>4 DEF FirstRow, LastRow
    <2>6. LastRow(components[1]) - FirstRow(components[1]) + 1 >= 3
      <3>1. components[1].start \in Nat /\ components[1].end \in Nat
        BY <2>1 DEF ScenarioContract, ComponentContract
      <3>2. FirstRow(components[1]) \in Nat /\ LastRow(components[1]) \in Nat
        BY <2>1, <3>1, DatesAreInOrder DEF FirstRow, LastRow
      <3>3. hypothesis.windowRows.minimum
              <= LastRow(components[1]) - FirstRow(components[1]) + 1
        BY <2>3 DEF WindowLasts, Contains
      <3>4. QED
        BY <2>2, <3>2, <3>3
    <2>7. /\ Observed(components[1].start) /\ Observed(components[1].end)
          /\ Observed(components[2].start) /\ Observed(components[2].end)
      BY <2>3, <2>4 DEF WindowLasts
    <2>8. /\ ComponentFault(components[1], scenario, context.cost) = NoCode
          /\ ComponentFault(components[2], scenario, context.cost) = NoCode
      BY <2>1, <2>5, <2>6, <2>7, WindowOfEnoughRowsFits
    <2>9. ComponentFault(components[3], scenario, context.cost) = NoCode
      <3>1. /\ Observed(components[3].start) /\ LastRow(components[3]) <= Rows
            /\ 2 * LastRow(components[3]) <= scenario.end
        BY <2>3 DEF ShockEnds
      <3>2. /\ components[3].start \in Nat /\ components[3].rows \in 1..MaxDurationRows
            /\ scenario.end \in Nat
        BY <2>1 DEF ScenarioContract, ComponentContract
      <3>3. LastRow(components[3]) \in Int
        BY <2>1, <3>2, DatesAreInOrder DEF FirstRow, LastRow, MaxDurationRows
      <3>4. LastRow(components[3]) <= DatePosition(scenario.end)
        BY <3>1, <3>2, <3>3 DEF DatePosition
      <3>5. QED
        BY <2>1, <3>1, <3>4, ShockThatEndsInTimeFits
    <2>10. CostComponents(scenario) = {}
      BY <2>1 DEF CostComponents
    <2>11. \A m \in DOMAIN components :
             ComponentFault(components[m], scenario, context.cost) = NoCode
      <3>1. \A m \in 1..3 : m = 1 \/ m = 2 \/ m = 3
        OBVIOUS
      <3>2. QED
        BY <2>1, <2>8, <2>9, <3>1
    <2>12. QED
      BY <1>3, <2>10, <2>11, NoFaultToFind
  <1>5. CASE hypothesis.family = "rebalance_timing_gap"
    <2>1. DOMAIN components = {1} /\ components[1].family = "one_day_gap"
      <3>1. DOMAIN components = DOMAIN <<"one_day_gap">>
            /\ components[1].family = "one_day_gap"
        BY <1>1, <1>5 DEF Matches, Template
      <3>2. QED
        BY <3>1
    <2>2. Observed(components[1].start)
      BY <1>1, <1>5 DEF ContextFits
    <2>3. /\ components[1].start \in Nat /\ components[1].start <= scenario.end
          /\ scenario.end \in Nat
      BY <2>1 DEF ScenarioContract, ComponentContract
    <2>4. LastRow(components[1]) = DatePosition(components[1].start)
      BY <2>1 DEF LastRow, FirstRow
    <2>5. LastRow(components[1]) <= DatePosition(scenario.end)
      BY <2>3, <2>4, DatesAreInOrder
    <2>6. LastRow(components[1]) <= Rows
      BY <2>2, <2>3, <2>4, RowsAssumption DEF Observed, DatePosition
    <2>7. ComponentFault(components[1], scenario, context.cost) = NoCode
      BY <2>1, <2>2, <2>5, <2>6, ShockThatEndsInTimeFits
    <2>8. CostComponents(scenario) = {}
      BY <2>1 DEF CostComponents
    <2>9. QED
      BY <1>3, <2>1, <2>7, <2>8, NoFaultToFind
  <1>6. CASE hypothesis.family = "trading_friction_break"
    <2>1. DOMAIN components = {1}
          /\ components[1].family = "transaction_cost_multiplier"
      <3>1. DOMAIN components = DOMAIN <<"transaction_cost_multiplier">>
            /\ components[1].family = "transaction_cost_multiplier"
        BY <1>1, <1>6 DEF Matches, Template
      <3>2. QED
        BY <3>1
    <2>2. CostFits(context.cost, components[1])
      BY <1>1, <1>6 DEF ContextFits
    <2>3. ComponentFault(components[1], scenario, context.cost) = NoCode
      BY <2>1, <2>2 DEF ComponentFault
    <2>4. CostComponents(scenario) = {1}
      BY <2>1 DEF CostComponents
    <2>5. QED
      BY <1>3, <2>1, <2>3, <2>4, NoFaultToFind
  <1>7. QED
    BY <1>4, <1>5, <1>6 DEF Active, Supports

\* A proposal is asked for under a policy of the experiment.
LEMMA ProposalInitial == EngineInit => ProposalInvariant
  BY DEF EngineInit, ProposalIdle, ProposalInit, ProposalInvariant

\* Every step keeps the invariant.
LEMMA ProposalStep ==
  ASSUME ProposalInvariant, [EngineNext]_engineVars
  PROVE  ProposalInvariant'
  <1>1. CASE UNCHANGED proposalVars
    BY <1>1 DEF proposalVars, ProposalInvariant
  <1>2. CASE Propose
    BY <1>2 DEF Propose, ProposalInvariant
  <1>3. CASE Admit
    BY <1>3 DEF Admit, ProposalInvariant
  <1>4. CASE Refuse
    BY <1>4 DEF Refuse, ProposalInvariant
  <1>5. QED
    BY <1>1, <1>2, <1>3, <1>4 DEF EngineNext, ProposalNext, engineVars

(***************************************************************************)
(* What a policy admits under one of its hypotheses, whoever proposed it,  *)
(* preflight accepts: the checks of the policy imply those of the engine   *)
(* (attack.py, validate_scenario; stress.py, _preflight_scenario).         *)
(***************************************************************************)
THEOREM AdmittedAlwaysFits == EngineSpec => []AdmittedScenariosFit
  <1>1. ProposalInvariant => AdmittedScenariosFit
    BY AdmittedFits, PolicyAssumption DEF ProposalInvariant, AdmittedScenariosFit
  <1>2. QED
    BY <1>1, ProposalInitial, ProposalStep, PTL DEF EngineSpec

-----------------------------------------------------------------------------
(***************************************************************************)
(* The arithmetic of the deterministic proposers.                          *)
(***************************************************************************)
\* A part of a whole, or all of it.
Proper(fraction) ==
  /\ fraction.of \in Nat /\ fraction.parts \in Nat /\ fraction.parts >= 1
  /\ fraction.of <= fraction.parts

\* Quotient and remainder.
LEMMA Division ==
  ASSUME NEW a \in Nat, NEW b \in Nat, b >= 1
  PROVE  /\ a \div b \in Int /\ a % b \in 0..(b - 1)
         /\ a = b * (a \div b) + (a % b)
  <1>1. a \div b \in Int
    OBVIOUS
  <1>2. a % b \in 0..(b - 1)
    OBVIOUS
  <1>3. a = b * (a \div b) + (a % b)
    OBVIOUS
  <1>4. QED
    BY <1>1, <1>2, <1>3

\* A fraction of a whole is rounded to a part of it.
LEMMA RoundedIsAPart ==
  ASSUME NEW whole \in Nat, NEW fraction, Proper(fraction)
  PROVE  Rounded(whole, fraction) \in 0..whole
  <1>1. PICK of, parts : /\ of = fraction.of /\ parts = fraction.parts
                         /\ of \in Nat /\ parts \in Nat /\ parts >= 1 /\ of <= parts
    BY DEF Proper
  <1>2. PICK product : product = whole * of
    OBVIOUS
  <1>3. PICK limit : limit = whole * parts
    OBVIOUS
  <1>4. product \in Nat /\ limit \in Nat /\ product <= limit
    BY <1>1, <1>2, <1>3
  <1>5. PICK below, rest : /\ below = product \div parts /\ rest = product % parts
    OBVIOUS
  <1>6. /\ below \in Int /\ rest \in 0..(parts - 1)
        /\ product = parts * below + rest
    <2>1. /\ product \div parts \in Int /\ product % parts \in 0..(parts - 1)
          /\ product = parts * (product \div parts) + (product % parts)
      BY ONLY <1>1, <1>4, Division
    <2>2. QED
      BY <1>5, <2>1
  <1>7. below >= 0
    <2>1. CASE below <= -1
      <3>1. parts * below <= -parts
        BY <1>1, <1>6, <2>1
      <3>2. QED
        BY <1>1, <1>4, <1>6, <3>1
    <2>2. QED
      BY <1>6, <2>1
  <1>8. below <= whole /\ (below = whole => rest = 0)
    <2>1. CASE below >= whole + 1
      <3>1. parts * below >= parts * (whole + 1)
        BY <1>1, <1>6, <2>1
      <3>2. parts * (whole + 1) = limit + parts
        <4>1. \A p, w \in Int : p * (w + 1) = w * p + p
          OBVIOUS
        <4>2. parts \in Int /\ whole \in Int
          BY <1>1
        <4>3. parts * (whole + 1) = whole * parts + parts
          BY ONLY <4>1, <4>2
        <4>4. QED
          BY <1>3, <4>3
      <3>3. QED
        BY <1>1, <1>4, <1>6, <3>1, <3>2
    <2>2. CASE below = whole
      <3>1. parts * below = limit
        BY <1>1, <1>3, <2>2
      <3>2. QED
        BY <1>1, <1>4, <1>6, <2>2, <3>1
    <2>3. QED
      BY <1>6, <2>1, <2>2
  <1>9. \/ Rounded(whole, fraction) = below
        \/ Rounded(whole, fraction) = below + 1 /\ 2 * rest >= parts
    <2>1. Rounded(whole, fraction)
            = IF 2 * rest > parts \/ (2 * rest = parts /\ below % 2 = 1)
              THEN below + 1 ELSE below
      BY <1>1, <1>2, <1>5 DEF Rounded
    <2>2. QED
      BY <1>1, <1>6, <2>1
  <1>10. CASE Rounded(whole, fraction) = below
    BY <1>6, <1>7, <1>8, <1>10
  <1>11. CASE Rounded(whole, fraction) = below + 1 /\ 2 * rest >= parts
    <2>1. rest # 0
      BY <1>1, <1>6, <1>11
    <2>2. below < whole
      BY <1>6, <1>8, <2>1
    <2>3. QED
      BY <1>6, <1>7, <1>11, <2>2
  <1>12. QED
    BY <1>9, <1>10, <1>11

\* So a span between two numbers is divided, with the longer one included.
LEMMA Between ==
  ASSUME NEW shortest \in Int, NEW longest \in Int, shortest <= longest,
         NEW fraction, Proper(fraction)
  PROVE  /\ shortest + Rounded(longest - shortest, fraction) \in Int
         /\ shortest <= shortest + Rounded(longest - shortest, fraction)
         /\ shortest + Rounded(longest - shortest, fraction) <= longest
  <1>1. PICK whole : whole = longest - shortest /\ whole \in Nat
    OBVIOUS
  <1>2. PICK part : part = Rounded(whole, fraction) /\ part \in 0..whole
    BY <1>1, RoundedIsAPart
  <1>3. QED
    BY ONLY <1>1, <1>2, shortest \in Int, longest \in Int

\* Both interpolations stay in the range.
LEMMA InterpolationStays ==
  ASSUME NEW range, RangeContract(range), NEW fraction, Proper(fraction)
  PROVE  /\ Interpolate(range, fraction) \in Int
         /\ InterpolateAdverse(range, fraction) \in Int
         /\ Contains(range, Interpolate(range, fraction))
         /\ Contains(range, InterpolateAdverse(range, fraction))
  <1>1. PICK low, high, step :
          /\ low = range.minimum /\ high = range.maximum /\ step = range.step
          /\ low \in Int /\ high \in Int /\ low <= high /\ step \in Nat /\ step >= 1
          /\ (high - low) % step = 0
    BY DEF RangeContract
  <1>2. PICK steps : steps = (high - low) \div step
    OBVIOUS
  <1>3. /\ steps \in Int /\ high - low = step * steps
    <2>1. /\ high - low \in Nat /\ (high - low) \div step \in Int
          /\ high - low = step * ((high - low) \div step) + ((high - low) % step)
      <3>1. PICK span : span = high - low /\ span \in Nat
        BY <1>1
      <3>2. /\ span \div step \in Int /\ span = step * (span \div step) + (span % step)
        BY ONLY <1>1, <3>1, Division
      <3>3. QED
        BY <3>1, <3>2
    <2>2. QED
      BY <1>1, <1>2, <2>1
  <1>4. steps \in Nat
    <2>1. CASE steps <= -1
      <3>1. step * steps <= -step
        BY <1>1, <1>3, <2>1
      <3>2. QED
        BY <1>1, <1>3, <3>1
    <2>2. QED
      BY <1>3, <2>1
  <1>5. PICK part : part = Rounded(steps, fraction) /\ part \in 0..steps
    BY <1>4, RoundedIsAPart
  <1>6. /\ step * part \in Nat /\ step * part <= step * steps
    BY <1>1, <1>4, <1>5
  <1>7. /\ Interpolate(range, fraction) = low + step * part
        /\ InterpolateAdverse(range, fraction) = high - step * part
    BY <1>1, <1>2, <1>5 DEF Interpolate, InterpolateAdverse
  <1>8. /\ low + step * part \in Int /\ high - step * part \in Int
        /\ low <= low + step * part /\ low + step * part <= high
        /\ low <= high - step * part /\ high - step * part <= high
    BY <1>1, <1>3, <1>6
  <1>9. QED
    BY <1>1, <1>7, <1>8 DEF Contains

\* The fractions of both proposers, for every place in the budget.
LEMMA FractionsAreProper ==
  /\ \A source : source.by = "client" /\ SourceContract(source) => Proper(ClientFraction(source))
  /\ \A source : source.by = "grid" /\ SourceContract(source) => Proper(GridFraction(source))
  /\ Proper([of |-> 0, parts |-> 1]) /\ Proper([of |-> 3, parts |-> 5])
  <1>1. ASSUME NEW source, source.by = "client", SourceContract(source)
        PROVE  Proper(ClientFraction(source))
    <2>1. /\ source.round \in 1..3 /\ source.batch \in 1..8
          /\ source.candidate \in 1..source.batch
      BY <1>1 DEF SourceContract, MaxRounds, MaxCandidatesPerRound
    <2>2. PICK round, batch, candidate :
            /\ round = source.round /\ batch = source.batch /\ candidate = source.candidate
            /\ round \in Nat /\ batch \in Nat /\ candidate \in Nat
            /\ round >= 1 /\ batch >= 1 /\ candidate >= 1
      BY <2>1
    <2>3. /\ Least(4 * candidate + round - 1, 4 * batch) \in Nat
          /\ Least(4 * candidate + round - 1, 4 * batch) <= 4 * batch
      BY <2>2 DEF Least
    <2>4. QED
      BY <2>2, <2>3 DEF ClientFraction, Proper
  <1>2. ASSUME NEW source, source.by = "grid", SourceContract(source)
        PROVE  Proper(GridFraction(source))
    <2>1. source.round \in 1..3 /\ source.candidate \in 1..8
      BY <1>2 DEF SourceContract, MaxRounds, MaxCandidatesPerRound
    <2>2. Ordinal(source) \in 1..24
      BY <2>1 DEF Ordinal, MaxCandidatesPerRound
    <2>3. QED
      BY <2>2 DEF GridFraction, Proper, MaxTotalScenarios
  <1>3. QED
    BY <1>1, <1>2 DEF Proper

\* The element that has n smaller ones is there for every n below the number of elements.
LEMMA NthIsTaken ==
  ASSUME NEW numbers, numbers \subseteq Nat, IsFiniteSet(numbers),
         NEW n \in Nat, n < Cardinality(numbers)
  PROVE  Nth(numbers, n) \in numbers
  <1>1. TotallyOrders(Less(numbers), numbers)
    BY DEF TotallyOrders, Less
  <1>2. n + 1 \in 1..Cardinality(numbers)
    BY FS_CardinalityType
  <1>3. PICK x \in numbers : Place(Less(numbers), numbers, x) = n + 1
    BY <1>1, <1>2, PlacesAreTaken
  <1>4. Preceding(Less(numbers), numbers, x) = {y \in numbers : y < x}
    BY DEF Preceding, Less
  <1>5. IsFiniteSet({y \in numbers : y < x})
    <2>1. {y \in numbers : y < x} \in SUBSET numbers
      OBVIOUS
    <2>2. QED
      BY <2>1, FS_Subset
  <1>6. Cardinality({y \in numbers : y < x}) \in Nat
    BY <1>5, FS_CardinalityType
  <1>7. Cardinality({y \in numbers : y < x}) = n
    BY <1>3, <1>4, <1>6 DEF Place
  <1>8. QED
    BY <1>7 DEF Nth

-----------------------------------------------------------------------------
(***************************************************************************)
(* The components of the proposers, between rows of the dataset.           *)
(***************************************************************************)

\* Between dates of the dataset, and by the domain contract.
Sound(component) ==
  /\ ComponentContract(component)
  /\ component.end <= 2 * Rows

\* A window that preflight accepts when all of the dataset is evaluated.
Placed(component) ==
  component.family # "transaction_cost_multiplier" =>
    /\ component.family # "historical_window"
    /\ Observed(component.start)
    /\ component.family \in {"volatility_multiplier", "correlation_target"} =>
         Observed(component.end)
    /\ LastRow(component) - FirstRow(component) + 1 >= MinimumRows(component)
    /\ FirstRow(component) \in 0..Rows /\ LastRow(component) \in 0..Rows

\* The date of a row is observed.
LEMMA RowsAreObserved ==
  ASSUME NEW row \in 0..Rows
  PROVE  /\ 2 * row \in Nat /\ 2 * row <= 2 * Rows
         /\ Observed(2 * row) /\ DatePosition(2 * row) = row
  <1>1. row \in Nat /\ row <= Rows /\ Rows \in Nat
    BY RowsAssumption
  <1>2. (2 * row) % 2 = 0 /\ (2 * row) \div 2 = row
    BY <1>1
  <1>3. 2 * row \in Nat /\ 2 * row <= 2 * Rows
    BY <1>1
  <1>4. 2 * row \in 0..(2 * Rows)
    BY <1>1, <1>3
  <1>5. QED
    BY <1>2, <1>3, <1>4 DEF Observed, DatePosition

LEMMA GapsAreSound ==
  ASSUME NEW row \in 0..Rows, NEW size \in Int, Representable(size)
  PROVE  /\ Sound(GapAt(row, size)) /\ Placed(GapAt(row, size))
         /\ GapAt(row, size).family = "one_day_gap" /\ GapAt(row, size).size = size
         /\ Observed(GapAt(row, size).start) /\ FirstRow(GapAt(row, size)) = row
  <1> DEFINE gap == GapAt(row, size)
  <1>1. /\ gap.family = "one_day_gap" /\ gap.start = 2 * row /\ gap.end = 2 * row
        /\ gap.symbols = Symbols /\ gap.size = size
    BY DEF GapAt, Stress
  <1> HIDE DEF gap
  <1>2. /\ 2 * row \in Nat /\ 2 * row <= 2 * Rows /\ Observed(2 * row)
        /\ DatePosition(2 * row) = row
    BY RowsAreObserved
  <1>3. Sound(gap)
    BY <1>1, <1>2, StressAssumption DEF Sound, ComponentContract
  <1>4. FirstRow(gap) = row /\ LastRow(gap) = row /\ MinimumRows(gap) = 1
    BY <1>1, <1>2 DEF FirstRow, LastRow, MinimumRows
  <1>5. Placed(gap)
    BY <1>1, <1>2, <1>4, RowsAssumption DEF Placed
  <1>6. QED
    BY <1>1, <1>2, <1>3, <1>4, <1>5 DEF gap

LEMMA ShocksAreSound ==
  ASSUME NEW row \in 0..Rows, NEW rows \in 1..MaxDurationRows, row + rows - 1 <= Rows,
         NEW size \in Int, Representable(size)
  PROVE  /\ Sound(ShockFrom(row, rows, size)) /\ Placed(ShockFrom(row, rows, size))
         /\ ShockFrom(row, rows, size).family = "sustained_cumulative_shock"
         /\ ShockFrom(row, rows, size).size = size
         /\ ShockFrom(row, rows, size).rows = rows
         /\ ShockFrom(row, rows, size).symbols = Symbols
         /\ Observed(ShockFrom(row, rows, size).start)
         /\ FirstRow(ShockFrom(row, rows, size)) = row
         /\ LastRow(ShockFrom(row, rows, size)) \in 0..Rows
  <1> DEFINE shock == ShockFrom(row, rows, size)
  <1>1. /\ shock.family = "sustained_cumulative_shock"
        /\ shock.start = 2 * row /\ shock.end = 2 * row /\ shock.rows = rows
        /\ shock.symbols = Symbols /\ shock.size = size
    BY DEF ShockFrom, Stress
  <1> HIDE DEF shock
  <1>2. /\ 2 * row \in Nat /\ 2 * row <= 2 * Rows /\ Observed(2 * row)
        /\ DatePosition(2 * row) = row
    BY RowsAreObserved
  <1>3. Sound(shock)
    BY <1>1, <1>2, StressAssumption DEF Sound, ComponentContract
  <1>4. FirstRow(shock) = row /\ LastRow(shock) = row + rows - 1 /\ MinimumRows(shock) = 1
    BY <1>1, <1>2 DEF FirstRow, LastRow, MinimumRows
  <1>5. rows \in Nat /\ rows >= 1 /\ row \in Nat /\ Rows \in Nat
    BY RowsAssumption DEF MaxDurationRows
  <1>6. row + rows - 1 \in 0..Rows /\ (row + rows - 1) - row + 1 >= 1
    BY <1>5
  <1>7. Placed(shock)
    BY <1>1, <1>2, <1>4, <1>6 DEF Placed
  <1>8. QED
    BY <1>1, <1>2, <1>3, <1>4, <1>6, <1>7 DEF shock

LEMMA RegimesAreSound ==
  ASSUME NEW family \in {"volatility_multiplier", "correlation_target"},
         NEW first \in 0..Rows, NEW last \in 0..Rows, first <= last, NEW size \in Int,
         family = "volatility_multiplier" => size > 0
  PROVE  /\ Sound(Stress(family, first, last, size))
         /\ last - first + 1 >= 3 => Placed(Stress(family, first, last, size))
         /\ family = "volatility_multiplier" /\ last - first + 1 >= 2 =>
              Placed(Stress(family, first, last, size))
         /\ Stress(family, first, last, size).family = family
         /\ Stress(family, first, last, size).size = size
         /\ Stress(family, first, last, size).symbols = Symbols
         /\ Stress(family, first, last, size).start = 2 * first
         /\ Stress(family, first, last, size).end = 2 * last
         /\ FirstRow(Stress(family, first, last, size)) = first
         /\ LastRow(Stress(family, first, last, size)) = last
  <1> DEFINE regime == Stress(family, first, last, size)
  <1>1. /\ regime.family = family /\ regime.start = 2 * first /\ regime.end = 2 * last
        /\ regime.symbols = Symbols /\ regime.size = size
    BY DEF Stress
  <1> HIDE DEF regime
  <1>2. /\ 2 * first \in Nat /\ Observed(2 * first) /\ DatePosition(2 * first) = first
        /\ 2 * last \in Nat /\ 2 * last <= 2 * Rows /\ Observed(2 * last)
        /\ DatePosition(2 * last) = last
    BY RowsAreObserved
  <1>3. Sound(regime)
    <2>1. 2 * first <= 2 * last
      BY RowsAssumption
    <2>2. QED
      BY <1>1, <1>2, <2>1, StressAssumption DEF Sound, ComponentContract
  <1>4. FirstRow(regime) = first /\ LastRow(regime) = last
    BY <1>1, <1>2 DEF FirstRow, LastRow
  <1>5. MinimumRows(regime) = IF family = "volatility_multiplier" THEN 2 ELSE 3
    BY <1>1 DEF MinimumRows
  <1>6. last - first + 1 >= 3 => last - first + 1 >= 2
    BY RowsAssumption
  <1>7. /\ last - first + 1 >= 3 => Placed(regime)
        /\ family = "volatility_multiplier" /\ last - first + 1 >= 2 => Placed(regime)
    BY <1>1, <1>2, <1>4, <1>5, <1>6 DEF Placed
  <1>8. QED
    BY <1>1, <1>3, <1>4, <1>7 DEF regime

LEMMA CostsAreSound ==
  ASSUME NEW size \in Nat, size > 0
  PROVE  /\ Sound(CostTimes(size)) /\ Placed(CostTimes(size))
         /\ CostTimes(size).family = "transaction_cost_multiplier"
         /\ CostTimes(size).size = size
  <1> DEFINE cost == CostTimes(size)
  <1>1. /\ cost.family = "transaction_cost_multiplier" /\ cost.start = 0 /\ cost.end = 0
        /\ cost.symbols = Symbols /\ cost.size = size
    BY DEF CostTimes, Stress
  <1> HIDE DEF cost
  <1>2. 0 <= 2 * Rows
    BY RowsAssumption
  <1>3. QED
    BY <1>1, <1>2, StressAssumption DEF Sound, Placed, ComponentContract, cost

\* What a policy allows keeps to the domain contract.
LEMMA EnvelopeIsInTheDomain ==
  ASSUME NEW policy, PolicyContract(policy), NEW family \in Allowed(policy),
         NEW value \in Int, Contains(policy.ranges[family], value)
  PROVE  /\ family \in {"one_day_gap", "sustained_cumulative_shock"} => Representable(value)
         /\ family \in {"volatility_multiplier", "transaction_cost_multiplier"} =>
              value \in Nat /\ value > 0
  <1>1. WithinDomain(family, policy.ranges[family])
    BY DEF PolicyContract
  <1>2. PICK low, high : /\ low = policy.ranges[family].minimum
                         /\ high = policy.ranges[family].maximum
    OBVIOUS
  <1>3. low \in Int /\ high \in Int /\ low <= value /\ value <= high
    BY <1>1, <1>2 DEF WithinDomain, RangeContract, Contains
  <1>4. CASE family \in {"one_day_gap", "sustained_cumulative_shock"}
    <2>1. Representable(low) /\ Representable(high)
      BY <1>1, <1>2, <1>4 DEF WithinDomain
    <2>2. QED
      BY <1>3, <1>4, <2>1, StressAssumption DEF Representable
  <1>5. CASE family \in {"volatility_multiplier", "transaction_cost_multiplier"}
    <2>1. low > 0
      BY <1>1, <1>2, <1>5 DEF WithinDomain
    <2>2. value \in Nat /\ value > 0
      BY <1>3, <2>1
    <2>3. QED
      BY <1>5, <2>2
  <1>6. QED
    BY <1>4, <1>5

\* Allowed families are those of transforms.
LEMMA AllowedFamilies ==
  ASSUME NEW policy, PolicyContract(policy)
  PROVE  /\ Allowed(policy) \subseteq TransformFamilies
         /\ DOMAIN policy.families = 1..Len(policy.families)
         /\ Len(policy.families) \in Nat /\ Len(policy.families) >= 1
         /\ \A n \in DOMAIN policy.families : policy.families[n] \in Allowed(policy)
  <1>1. policy.families \in Seq(TransformFamilies) /\ policy.families # <<>>
    BY DEF PolicyContract
  <1>2. QED
    BY <1>1 DEF Allowed

-----------------------------------------------------------------------------
(***************************************************************************)
(* What a proposer makes of a policy: sound components inside the          *)
(* envelope, each of a family of its own; and of a hypothesis.             *)
(***************************************************************************)
Made(policy, components) ==
  /\ \E count \in 1..MaxComponents : DOMAIN components = 1..count
  /\ \A n \in DOMAIN components :
       Sound(components[n]) /\ InEnvelope(policy, components[n])
  /\ \A n, m \in DOMAIN components : components[n].family = components[m].family => n = m

AllPlaced(components) == \A n \in DOMAIN components : Placed(components[n])

FitsHypothesis(hypothesis, components, context) ==
  /\ DOMAIN components = DOMAIN Template(hypothesis)
  /\ \A n \in DOMAIN components : components[n].family = Template(hypothesis)[n]
  /\ StructureFits(hypothesis, components)
  /\ hypothesis.family # "trading_friction_break" =>
       ContextFits(hypothesis, [start |-> 0, end |-> 2 * Rows, components |-> components],
                   context)

Answers(policy, hypothesis, components, context) ==
  /\ Made(policy, components) /\ AllPlaced(components)
  /\ FitsHypothesis(hypothesis, components, context)

\* A value of a part of a range is one of the range.
LEMMA IncludedValues ==
  ASSUME NEW range, RangeContract(range), NEW part, RangeContract(part),
         Includes(range, part), NEW value \in Int, Contains(part, value)
  PROVE  Contains(range, value)
  <1>1. PICK low, high, from, to :
          /\ low = range.minimum /\ high = range.maximum
          /\ from = part.minimum /\ to = part.maximum
    OBVIOUS
  <1>2. /\ low \in Int /\ high \in Int /\ from \in Int /\ to \in Int
        /\ low <= from /\ to <= high /\ from <= value /\ value <= to
    BY <1>1 DEF RangeContract, Includes, Contains
  <1>3. low <= value /\ value <= high
    BY <1>2
  <1>4. QED
    BY <1>1, <1>3 DEF Contains

\* The first and the last date of the dataset are observed.
LEMMA DatasetIsObserved ==
  /\ Observed(0) /\ Observed(2 * Rows) /\ DatePosition(0) = 0 /\ DatePosition(2 * Rows) = Rows
  <1>1. Rows \in Nat /\ 0 \in 0..Rows /\ Rows \in 0..Rows /\ 2 * 0 = 0
    BY RowsAssumption
  <1>2. /\ Observed(2 * 0) /\ DatePosition(2 * 0) = 0
        /\ Observed(2 * Rows) /\ DatePosition(2 * Rows) = Rows
    BY <1>1, RowsAreObserved
  <1>3. QED
    BY <1>1, <1>2

\* The stress of an inflation hypothesis: a regime, and a shock.
RegimeAndShock(plan) ==
  <<Stress("volatility_multiplier", plan.first, plan.last, plan.multiplier),
    Stress("correlation_target", plan.first, plan.last, plan.correlation),
    ShockFrom(plan.row, plan.rows, plan.size)>>

\* It keeps to the ranges of the hypothesis and to the dataset.
KeepsToRanges(hypothesis, plan) ==
  /\ plan.first \in 0..Rows /\ plan.last \in 0..Rows /\ plan.first <= plan.last
  /\ Contains(hypothesis.windowRows, plan.last - plan.first + 1)
  /\ plan.row \in 0..Rows /\ plan.rows \in Int /\ plan.row + plan.rows - 1 <= Rows
  /\ Contains(hypothesis.shockRows, plan.rows)
  /\ plan.multiplier \in Int /\ Contains(hypothesis.multiplier, plan.multiplier)
  /\ plan.correlation \in Int /\ Contains(hypothesis.correlation, plan.correlation)
  /\ plan.size \in Int /\ Contains(hypothesis.shock, plan.size)

\* Inside the ranges of the hypothesis, it fits.
LEMMA InflationFits ==
  ASSUME NEW policy, PolicyContract(policy), NEW n \in DOMAIN policy.hypotheses,
         NEW hypothesis, hypothesis = policy.hypotheses[n],
         hypothesis.family = "inflation_correlation_break", NEW context,
         NEW plan, KeepsToRanges(hypothesis, plan)
  PROVE  /\ Answers(policy, hypothesis, RegimeAndShock(plan), context)
         /\ \A m \in DOMAIN RegimeAndShock(plan) :
              FirstRow(RegimeAndShock(plan)[m]) \in {plan.first, plan.row}
  <1>a. PICK first, last, multiplier, correlation, row, rows, size :
          /\ first = plan.first /\ last = plan.last
          /\ multiplier = plan.multiplier /\ correlation = plan.correlation
          /\ row = plan.row /\ rows = plan.rows /\ size = plan.size
    OBVIOUS
  <1>b. PICK components : components = RegimeAndShock(plan)
    OBVIOUS
  <1>0. /\ first \in 0..Rows /\ last \in 0..Rows /\ first <= last
        /\ row \in 0..Rows /\ rows \in Int /\ row + rows - 1 <= Rows
        /\ multiplier \in Int /\ correlation \in Int /\ size \in Int
        /\ Contains(hypothesis.windowRows, last - first + 1)
        /\ Contains(hypothesis.shockRows, rows)
        /\ Contains(hypothesis.multiplier, multiplier)
        /\ Contains(hypothesis.correlation, correlation)
        /\ Contains(hypothesis.shock, size)
    BY <1>a DEF KeepsToRanges
  <1>1. /\ HypothesisContract(hypothesis, policy)
        /\ \A place \in DOMAIN Template(hypothesis) :
             Template(hypothesis)[place] \in Allowed(policy)
    BY DEF PolicyContract
  <1>2. Template(hypothesis) = <<"volatility_multiplier", "correlation_target",
                                 "sustained_cumulative_shock">>
    BY DEF Template
  <1>3. /\ "volatility_multiplier" \in Allowed(policy)
        /\ "correlation_target" \in Allowed(policy)
        /\ "sustained_cumulative_shock" \in Allowed(policy)
    BY <1>1, <1>2
  <1>4. /\ RangeContract(hypothesis.windowRows) /\ hypothesis.windowRows.minimum >= 3
        /\ RangeContract(hypothesis.shockRows) /\ hypothesis.shockRows.minimum >= 1
        /\ RangeContract(hypothesis.correlation)
        /\ RangeContract(hypothesis.multiplier) /\ RangeContract(hypothesis.shock)
        /\ Includes(policy.ranges["correlation_target"], hypothesis.correlation)
        /\ Includes(policy.ranges["volatility_multiplier"], hypothesis.multiplier)
        /\ Includes(policy.ranges["sustained_cumulative_shock"], hypothesis.shock)
        /\ Includes(policy.durations, hypothesis.shockRows)
    BY <1>1 DEF HypothesisContract
  <1>5. /\ RangeContract(policy.durations) /\ policy.durations.maximum <= MaxDurationRows
        /\ RangeContract(policy.ranges["volatility_multiplier"])
        /\ RangeContract(policy.ranges["correlation_target"])
        /\ RangeContract(policy.ranges["sustained_cumulative_shock"])
    BY <1>3 DEF PolicyContract, WithinDomain
  <1>6. /\ Contains(policy.ranges["volatility_multiplier"], multiplier)
        /\ Contains(policy.ranges["correlation_target"], correlation)
        /\ Contains(policy.ranges["sustained_cumulative_shock"], size)
        /\ Contains(policy.durations, rows)
    BY <1>0, <1>4, <1>5, IncludedValues
  <1>7. multiplier > 0 /\ Representable(size)
    BY <1>0, <1>3, <1>6, EnvelopeIsInTheDomain
  <1>8. rows \in 1..MaxDurationRows
    <2>1. PICK from, to : from = hypothesis.shockRows.minimum /\ to = policy.durations.maximum
      OBVIOUS
    <2>2. from \in Int /\ from >= 1 /\ from <= rows /\ to \in Int /\ rows <= to /\ to <= 252
      BY <1>0, <1>4, <1>5, <1>6, <2>1 DEF RangeContract, Contains, MaxDurationRows
    <2>3. rows \in 1..252
      BY <1>0, <2>2
    <2>4. QED
      BY ONLY <2>3 DEF MaxDurationRows
  <1>9. last - first + 1 >= 3
    <2>1. PICK from : from = hypothesis.windowRows.minimum
      OBVIOUS
    <2>2. from \in Int /\ from >= 3 /\ from <= last - first + 1
      BY <1>0, <1>4, <2>1 DEF RangeContract, Contains
    <2>3. QED
      BY <1>0, <2>2, RowsAssumption
  <1> DEFINE volatility  == Stress("volatility_multiplier", first, last, multiplier)
             correlating == Stress("correlation_target", first, last, correlation)
             shock       == ShockFrom(row, rows, size)
  <1>10. /\ Sound(volatility) /\ Placed(volatility)
         /\ volatility.family = "volatility_multiplier" /\ volatility.size = multiplier
         /\ volatility.symbols = Symbols
         /\ volatility.start = 2 * first /\ volatility.end = 2 * last
         /\ FirstRow(volatility) = first /\ LastRow(volatility) = last
    BY <1>0, <1>7, <1>9, RegimesAreSound
  <1>11. /\ Sound(correlating) /\ Placed(correlating)
         /\ correlating.family = "correlation_target" /\ correlating.size = correlation
         /\ correlating.start = 2 * first /\ correlating.end = 2 * last
         /\ FirstRow(correlating) = first
    BY <1>0, <1>9, RegimesAreSound
  <1>12. /\ Sound(shock) /\ Placed(shock)
         /\ shock.family = "sustained_cumulative_shock" /\ shock.size = size
         /\ shock.rows = rows /\ shock.symbols = Symbols /\ Observed(shock.start)
         /\ FirstRow(shock) = row /\ LastRow(shock) \in 0..Rows
    BY <1>0, <1>7, <1>8, ShocksAreSound
  <1>13. /\ DOMAIN components = 1..3 /\ components[1] = volatility
         /\ components[2] = correlating /\ components[3] = shock
    BY <1>a, <1>b DEF RegimeAndShock
  <1> HIDE DEF volatility, correlating, shock
  <1>14. \A place \in 1..3 : place = 1 \/ place = 2 \/ place = 3
    OBVIOUS
  <1>15. /\ InEnvelope(policy, volatility) /\ InEnvelope(policy, correlating)
         /\ InEnvelope(policy, shock)
    BY <1>3, <1>6, <1>10, <1>11, <1>12 DEF InEnvelope
  <1>16. Made(policy, components)
    <2>1. 3 \in 1..MaxComponents
      BY DEF MaxComponents
    <2>2. \E count \in 1..MaxComponents : DOMAIN components = 1..count
      BY <1>13, <2>1
    <2>3. \A m \in DOMAIN components :
            Sound(components[m]) /\ InEnvelope(policy, components[m])
      BY <1>10, <1>11, <1>12, <1>13, <1>14, <1>15
    <2>4. \A m, k \in DOMAIN components : components[m].family = components[k].family => m = k
      BY <1>10, <1>11, <1>12, <1>13, <1>14
    <2>5. QED
      BY <2>2, <2>3, <2>4 DEF Made
  <1>17. AllPlaced(components)
    BY <1>10, <1>11, <1>12, <1>13, <1>14 DEF AllPlaced
  <1>18. FitsHypothesis(hypothesis, components, context)
    <2>1. DOMAIN components = DOMAIN Template(hypothesis)
      BY <1>2, <1>13
    <2>2. \A m \in DOMAIN components : components[m].family = Template(hypothesis)[m]
      BY <1>2, <1>10, <1>11, <1>12, <1>13, <1>14
    <2>3. StructureFits(hypothesis, components)
      BY <1>0, <1>10, <1>11, <1>12, <1>13 DEF StructureFits
    <2> DEFINE scenario == [start |-> 0, end |-> 2 * Rows, components |-> components]
    <2>4. /\ Observed(scenario.start) /\ Observed(scenario.end)
          /\ scenario.components = components /\ scenario.end = 2 * Rows
      BY DatasetIsObserved
    <2>5. Observed(2 * first) /\ Observed(2 * last)
      BY <1>0, RowsAreObserved
    <2>6. WindowLasts(hypothesis.windowRows, components[1])
      <3>1. Contains(hypothesis.windowRows, LastRow(components[1]) - FirstRow(components[1]) + 1)
        BY <1>0, <1>10, <1>13
      <3>2. QED
        BY <1>10, <1>13, <2>5, <3>1 DEF WindowLasts
    <2>7. ShockEnds(scenario, components[3])
      <3>1. LastRow(shock) <= Rows /\ 2 * LastRow(shock) <= 2 * Rows
        BY <1>12, RowsAssumption
      <3>2. QED
        BY <1>12, <1>13, <2>4, <3>1 DEF ShockEnds
    <2>8. ContextFits(hypothesis, scenario, context)
      <3> HIDE DEF scenario
      <3>1. QED
        BY <2>4, <2>6, <2>7 DEF ContextFits
    <2>9. QED
      BY <2>1, <2>2, <2>3, <2>8 DEF FitsHypothesis
  <1>19. \A m \in DOMAIN components : FirstRow(components[m]) \in {first, row}
    BY <1>10, <1>11, <1>12, <1>13, <1>14
  <1>20. Answers(policy, hypothesis, components, context)
    BY <1>16, <1>17, <1>18 DEF Answers
  <1>21. QED
    BY <1>a, <1>b, <1>19, <1>20

\* A single component of an allowed family.
LEMMA SingleIsMade ==
  ASSUME NEW policy, NEW component, Sound(component), InEnvelope(policy, component)
  PROVE  /\ Made(policy, <<component>>) /\ DOMAIN <<component>> = {1}
         /\ Placed(component) => AllPlaced(<<component>>)
  <1>1. DOMAIN <<component>> = 1..1 /\ <<component>>[1] = component /\ 1..1 = {1}
    OBVIOUS
  <1>2. 1 \in 1..MaxComponents
    BY DEF MaxComponents
  <1>3. QED
    BY <1>1, <1>2 DEF Made, AllPlaced

\* A gap that far before the close at which the strategy rebalances.
LEMMA GapFits ==
  ASSUME NEW policy, PolicyContract(policy), NEW n \in DOMAIN policy.hypotheses,
         NEW hypothesis, hypothesis = policy.hypotheses[n],
         hypothesis.family = "rebalance_timing_gap",
         NEW context, NEW month \in RebalanceRows(context.kind, context.monthStarts),
         NEW k \in DOMAIN Offsets, month + Offsets[k] \in 0..Rows,
         NEW size \in Int, Contains(hypothesis.shock, size), NEW components,
         components = <<GapAt(month + Offsets[k], size)>>
  PROVE  /\ Made(policy, components) /\ AllPlaced(components)
         /\ FitsHypothesis(hypothesis, components, context)
         /\ DOMAIN components = {1} /\ components[1].family = "one_day_gap"
         /\ FirstRow(components[1]) = month + Offsets[k]
  <1>1. /\ HypothesisContract(hypothesis, policy)
        /\ \A place \in DOMAIN Template(hypothesis) :
             Template(hypothesis)[place] \in Allowed(policy)
    BY DEF PolicyContract
  <1>2. Template(hypothesis) = <<"one_day_gap">>
    BY DEF Template
  <1>3. "one_day_gap" \in Allowed(policy)
    BY <1>1, <1>2
  <1>4. /\ RangeContract(hypothesis.shock)
        /\ Includes(policy.ranges["one_day_gap"], hypothesis.shock)
    BY <1>1 DEF HypothesisContract
  <1>5. RangeContract(policy.ranges["one_day_gap"])
    BY <1>3 DEF PolicyContract, WithinDomain
  <1>6. Contains(policy.ranges["one_day_gap"], size)
    BY <1>4, <1>5, IncludedValues
  <1>7. Representable(size)
    BY <1>3, <1>6, EnvelopeIsInTheDomain
  <1> DEFINE gap == GapAt(month + Offsets[k], size)
  <1>8. /\ Sound(gap) /\ Placed(gap) /\ gap.family = "one_day_gap" /\ gap.size = size
        /\ Observed(gap.start) /\ FirstRow(gap) = month + Offsets[k]
    BY <1>7, GapsAreSound
  <1>9. components = <<gap>>
    OBVIOUS
  <1> HIDE DEF gap
  <1>10. InEnvelope(policy, gap)
    BY <1>3, <1>6, <1>8 DEF InEnvelope
  <1>11. Made(policy, components) /\ AllPlaced(components) /\ DOMAIN components = {1}
    BY <1>8, <1>9, <1>10, SingleIsMade
  <1>12. components[1] = gap
    BY <1>9
  <1>13. FitsHypothesis(hypothesis, components, context)
    <2>1. DOMAIN Template(hypothesis) = {1} /\ Template(hypothesis)[1] = "one_day_gap"
      BY <1>2
    <2>2. StructureFits(hypothesis, components)
      BY <1>8, <1>12 DEF StructureFits
    <2> DEFINE scenario == [start |-> 0, end |-> 2 * Rows, components |-> components]
    <2>3. /\ Observed(scenario.start) /\ Observed(scenario.end)
          /\ scenario.components = components
      BY DatasetIsObserved
    <2>4. ContextFits(hypothesis, scenario, context)
      <3> HIDE DEF scenario
      <3>1. QED
        BY <1>8, <1>12, <2>3 DEF ContextFits
    <2>5. QED
      BY <1>8, <1>11, <1>12, <2>1, <2>2, <2>4 DEF FitsHypothesis
  <1>14. QED
    BY <1>8, <1>11, <1>12, <1>13

\* A multiple of the cost.
LEMMA FrictionFits ==
  ASSUME NEW policy, PolicyContract(policy), NEW n \in DOMAIN policy.hypotheses,
         NEW hypothesis, hypothesis = policy.hypotheses[n],
         hypothesis.family = "trading_friction_break", NEW context,
         NEW size \in Int, Contains(hypothesis.multiplier, size), NEW components,
         components = <<CostTimes(size)>>
  PROVE  /\ Made(policy, components) /\ AllPlaced(components)
         /\ FitsHypothesis(hypothesis, components, context)
         /\ DOMAIN components = {1}
         /\ components[1].family = "transaction_cost_multiplier"
  <1>1. /\ HypothesisContract(hypothesis, policy)
        /\ \A place \in DOMAIN Template(hypothesis) :
             Template(hypothesis)[place] \in Allowed(policy)
    BY DEF PolicyContract
  <1>2. Template(hypothesis) = <<"transaction_cost_multiplier">>
    BY DEF Template
  <1>3. "transaction_cost_multiplier" \in Allowed(policy)
    BY <1>1, <1>2
  <1>4. /\ RangeContract(hypothesis.multiplier)
        /\ Includes(policy.ranges["transaction_cost_multiplier"], hypothesis.multiplier)
    BY <1>1 DEF HypothesisContract
  <1>5. RangeContract(policy.ranges["transaction_cost_multiplier"])
    BY <1>3 DEF PolicyContract, WithinDomain
  <1>6. Contains(policy.ranges["transaction_cost_multiplier"], size)
    BY <1>4, <1>5, IncludedValues
  <1>7. size \in Nat /\ size > 0
    BY <1>3, <1>6, EnvelopeIsInTheDomain
  <1> DEFINE cost == CostTimes(size)
  <1>8. /\ Sound(cost) /\ Placed(cost) /\ cost.family = "transaction_cost_multiplier"
        /\ cost.size = size
    BY <1>7, CostsAreSound
  <1>9. components = <<cost>>
    OBVIOUS
  <1> HIDE DEF cost
  <1>10. InEnvelope(policy, cost)
    BY <1>3, <1>6, <1>8 DEF InEnvelope
  <1>11. Made(policy, components) /\ AllPlaced(components) /\ DOMAIN components = {1}
    BY <1>8, <1>9, <1>10, SingleIsMade
  <1>12. components[1] = cost
    BY <1>9
  <1>13. FitsHypothesis(hypothesis, components, context)
    <2>1. DOMAIN Template(hypothesis) = {1}
          /\ Template(hypothesis)[1] = "transaction_cost_multiplier"
      BY <1>2
    <2>2. StructureFits(hypothesis, components)
      BY <1>8, <1>12 DEF StructureFits
    <2>3. QED
      BY <1>8, <1>11, <1>12, <2>1, <2>2 DEF FitsHypothesis
  <1>14. QED
    BY <1>8, <1>11, <1>12, <1>13

-----------------------------------------------------------------------------
(***************************************************************************)
(* The proposers, under an inflation and a rebalance hypothesis.           *)
(***************************************************************************)
\* What is made is something.
LEMMA MadeIsProposed ==
  ASSUME NEW policy, NEW components, Made(policy, components)
  PROVE  components # NoProposal
  <1>1. PICK count \in 1..MaxComponents : DOMAIN components = 1..count
    BY DEF Made
  <1>2. 1 \in DOMAIN components
    BY <1>1 DEF MaxComponents
  <1>3. QED
    BY <1>2 DEF NoProposal

\* A shock that begins at three fifths of what is left, but after the window.
LEMMA LateStart ==
  ASSUME NEW latest \in Nat, NEW earliest \in 1..latest
  PROVE  Greatest(earliest, Rounded(latest, [of |-> 3, parts |-> 5])) \in earliest..latest
  <1>1. PICK start : /\ start = Rounded(latest, [of |-> 3, parts |-> 5])
                     /\ start \in 0..latest
    BY FractionsAreProper, RoundedIsAPart
  <1>2. Greatest(earliest, start) \in earliest..latest
    BY <1>1 DEF Greatest
  <1>3. QED
    BY <1>1, <1>2

LEMMA ClientInflationFits ==
  ASSUME NEW policy, PolicyContract(policy), NEW n \in DOMAIN policy.hypotheses,
         NEW hypothesis, hypothesis = policy.hypotheses[n],
         hypothesis.family = "inflation_correlation_break", NEW context,
         NEW fraction, Proper(fraction),
         NEW components, components = ClientInflation(hypothesis, fraction)
  PROVE  \/ /\ components = NoProposal
            /\ Rows < hypothesis.windowRows.minimum + hypothesis.shockRows.minimum
         \/ /\ Answers(policy, hypothesis, components, context)
            /\ \A m \in DOMAIN components : FirstRow(components[m]) > 0
  <1>1. /\ RangeContract(hypothesis.windowRows) /\ hypothesis.windowRows.minimum >= 3
        /\ RangeContract(hypothesis.shockRows) /\ hypothesis.shockRows.minimum >= 1
        /\ RangeContract(hypothesis.correlation)
        /\ RangeContract(hypothesis.multiplier) /\ RangeContract(hypothesis.shock)
    BY DEF PolicyContract, HypothesisContract
  <1>2. PICK narrow, wide, short, long :
          /\ narrow = hypothesis.windowRows.minimum /\ wide = hypothesis.windowRows.maximum
          /\ short = hypothesis.shockRows.minimum /\ long = hypothesis.shockRows.maximum
    OBVIOUS
  <1>3. /\ narrow \in Int /\ wide \in Int /\ narrow <= wide /\ narrow >= 3
        /\ short \in Int /\ long \in Int /\ short <= long /\ short >= 1 /\ Rows \in Nat
    BY <1>1, <1>2, RowsAssumption DEF RangeContract
  <1> DEFINE lastEnd   == Least(Rows - short, wide)
             windowEnd == Least(lastEnd, Greatest(narrow, Rows \div 2))
             longest   == Least(long, Rows - windowEnd)
             duration  == short + Rounded(longest - short, fraction)
             latest    == Rows + 1 - duration
             start     == Greatest(windowEnd + 1, Rounded(latest, [of |-> 3, parts |-> 5]))
             multiplier  == Interpolate(hypothesis.multiplier, fraction)
             correlation == Interpolate(hypothesis.correlation, fraction)
             size        == InterpolateAdverse(hypothesis.shock, fraction)
  <1>4. components = IF lastEnd < narrow THEN NoProposal
                     ELSE <<Stress("volatility_multiplier", 1, windowEnd, multiplier),
                            Stress("correlation_target", 1, windowEnd, correlation),
                            ShockFrom(start, duration, size)>>
    BY <1>2 DEF ClientInflation, LongestShock
  <1>5. /\ multiplier \in Int /\ Contains(hypothesis.multiplier, multiplier)
        /\ correlation \in Int /\ Contains(hypothesis.correlation, correlation)
        /\ size \in Int /\ Contains(hypothesis.shock, size)
    BY <1>1, InterpolationStays
  <1> HIDE DEF multiplier, correlation, size
  <1>6. CASE lastEnd < narrow
    <2>1. Rows - short < narrow
      BY <1>3, <1>6 DEF Least
    <2>2. Rows < narrow + short
      BY <1>3, <2>1
    <2>3. QED
      BY <1>2, <1>4, <1>6, <2>2
  <1>7. CASE ~(lastEnd < narrow)
    <2>1. /\ lastEnd \in Int /\ narrow <= lastEnd /\ lastEnd <= wide /\ lastEnd <= Rows - short
      BY <1>3, <1>7 DEF Least
    <2> HIDE DEF lastEnd
    <2>2. PICK half : half = Rows \div 2 /\ half \in Int
      BY <1>3
    <2>3. windowEnd \in Int /\ narrow <= windowEnd /\ windowEnd <= lastEnd
      BY <1>3, <2>1, <2>2 DEF Least, Greatest
    <2> HIDE DEF windowEnd
    <2>4. /\ windowEnd \in Nat /\ windowEnd >= 3 /\ windowEnd <= wide
          /\ short <= Rows - windowEnd
      BY <1>3, <2>1, <2>3
    <2>5. /\ longest \in Int /\ short <= longest /\ longest <= long
          /\ longest <= Rows - windowEnd
      BY <1>3, <2>4 DEF Least
    <2> HIDE DEF longest
    <2>6. duration \in Int /\ short <= duration /\ duration <= longest
      BY <1>3, <2>5, Between
    <2> HIDE DEF duration
    <2>7. latest \in Nat /\ windowEnd + 1 \in 1..latest
      BY <1>3, <2>4, <2>5, <2>6
    <2> HIDE DEF latest
    <2>8. start \in (windowEnd + 1)..latest
      BY <2>7, LateStart
    <2> HIDE DEF start
    <2>9. start \in 0..Rows /\ start > 0 /\ start + duration - 1 <= Rows
      BY <1>3, <2>4, <2>6, <2>7, <2>8 DEF latest
    <2>10. 1 \in 0..Rows /\ windowEnd \in 0..Rows /\ 1 <= windowEnd
      BY <1>3, <2>4
    <2>11. Contains(hypothesis.windowRows, windowEnd - 1 + 1)
      <3>1. windowEnd - 1 + 1 = windowEnd
        BY <2>4
      <3>2. QED
        BY <1>2, <2>3, <2>4, <3>1 DEF Contains
    <2>12. Contains(hypothesis.shockRows, duration)
      <3>1. duration <= long
        BY <1>3, <2>5, <2>6
      <3>2. QED
        BY <1>2, <2>6, <3>1 DEF Contains
    <2>13. components = <<Stress("volatility_multiplier", 1, windowEnd, multiplier),
                          Stress("correlation_target", 1, windowEnd, correlation),
                          ShockFrom(start, duration, size)>>
      BY <1>4, <1>7 DEF lastEnd
    <2>14. PICK plan :
             plan = [first |-> 1, last |-> windowEnd, multiplier |-> multiplier,
                     correlation |-> correlation, row |-> start, rows |-> duration,
                     size |-> size]
      OBVIOUS
    <2>15. KeepsToRanges(hypothesis, plan)
      BY <1>5, <2>6, <2>9, <2>10, <2>11, <2>12, <2>14 DEF KeepsToRanges
    <2>16. components = RegimeAndShock(plan)
      BY <2>13, <2>14 DEF RegimeAndShock
    <2>17. /\ Answers(policy, hypothesis, RegimeAndShock(plan), context)
           /\ \A m \in DOMAIN RegimeAndShock(plan) :
                FirstRow(RegimeAndShock(plan)[m]) \in {plan.first, plan.row}
      BY <2>15, InflationFits
    <2>18. QED
      BY <2>9, <2>14, <2>16, <2>17
  <1>8. QED
    BY <1>6, <1>7

LEMMA GridInflationFits ==
  ASSUME NEW policy, PolicyContract(policy), NEW n \in DOMAIN policy.hypotheses,
         NEW hypothesis, hypothesis = policy.hypotheses[n],
         hypothesis.family = "inflation_correlation_break", NEW context,
         NEW fraction, Proper(fraction),
         NEW components, components = GridInflation(hypothesis, fraction)
  PROVE  \/ /\ components = NoProposal
            /\ Rows + 1 < hypothesis.windowRows.minimum + hypothesis.shockRows.minimum
         \/ Answers(policy, hypothesis, components, context)
  <1>1. /\ RangeContract(hypothesis.windowRows) /\ hypothesis.windowRows.minimum >= 3
        /\ RangeContract(hypothesis.shockRows) /\ hypothesis.shockRows.minimum >= 1
        /\ RangeContract(hypothesis.correlation)
        /\ RangeContract(hypothesis.multiplier) /\ RangeContract(hypothesis.shock)
    BY DEF PolicyContract, HypothesisContract
  <1>2. PICK narrow, wide, short, long :
          /\ narrow = hypothesis.windowRows.minimum /\ wide = hypothesis.windowRows.maximum
          /\ short = hypothesis.shockRows.minimum /\ long = hypothesis.shockRows.maximum
    OBVIOUS
  <1>3. /\ narrow \in Int /\ wide \in Int /\ narrow <= wide /\ narrow >= 3
        /\ short \in Int /\ long \in Int /\ short <= long /\ short >= 1 /\ Rows \in Nat
    BY <1>1, <1>2, RowsAssumption DEF RangeContract
  <1> DEFINE widest   == Least(wide, Rows + 1 - short)
             width    == narrow + Rounded(widest - narrow, fraction)
             longest  == Least(long, Rows + 1 - width)
             duration == short + Rounded(longest - short, fraction)
             multiplier  == Interpolate(hypothesis.multiplier, fraction)
             correlation == Interpolate(hypothesis.correlation, fraction)
             size        == Interpolate(hypothesis.shock, fraction)
  <1>4. components = IF Rows + 1 < narrow + short THEN NoProposal
                     ELSE <<Stress("volatility_multiplier", 0, width - 1, multiplier),
                            Stress("correlation_target", 0, width - 1, correlation),
                            ShockFrom(width, duration, size)>>
    BY <1>2 DEF GridInflation
  <1>5. /\ multiplier \in Int /\ Contains(hypothesis.multiplier, multiplier)
        /\ correlation \in Int /\ Contains(hypothesis.correlation, correlation)
        /\ size \in Int /\ Contains(hypothesis.shock, size)
    BY <1>1, InterpolationStays
  <1> HIDE DEF multiplier, correlation, size
  <1>6. CASE Rows + 1 < narrow + short
    BY <1>2, <1>4, <1>6
  <1>7. CASE ~(Rows + 1 < narrow + short)
    <2>1. /\ widest \in Int /\ narrow <= widest /\ widest <= wide /\ widest <= Rows + 1 - short
      BY <1>3, <1>7 DEF Least
    <2> HIDE DEF widest
    <2>2. width \in Int /\ narrow <= width /\ width <= widest
      BY <1>3, <2>1, Between
    <2> HIDE DEF width
    <2>3. /\ width >= 3 /\ width <= wide /\ short <= Rows + 1 - width
      BY <1>3, <2>1, <2>2
    <2>4. /\ longest \in Int /\ short <= longest /\ longest <= long
          /\ longest <= Rows + 1 - width
      BY <1>3, <2>2, <2>3 DEF Least
    <2> HIDE DEF longest
    <2>5. duration \in Int /\ short <= duration /\ duration <= longest
      BY <1>3, <2>4, Between
    <2> HIDE DEF duration
    <2>6. PICK last : last = width - 1
      OBVIOUS
    <2>7. /\ 0 \in 0..Rows /\ last \in 0..Rows /\ 0 <= last /\ last - 0 + 1 = width
          /\ width \in 0..Rows /\ width + duration - 1 <= Rows
      BY <1>3, <2>2, <2>3, <2>4, <2>5, <2>6
    <2>8. Contains(hypothesis.windowRows, last - 0 + 1)
      BY <1>2, <2>2, <2>3, <2>7 DEF Contains
    <2>9. Contains(hypothesis.shockRows, duration)
      <3>1. duration <= long
        BY <1>3, <2>4, <2>5
      <3>2. QED
        BY <1>2, <2>5, <3>1 DEF Contains
    <2>10. components = <<Stress("volatility_multiplier", 0, last, multiplier),
                          Stress("correlation_target", 0, last, correlation),
                          ShockFrom(width, duration, size)>>
      BY <1>4, <1>7, <2>6
    <2>11. PICK plan :
             plan = [first |-> 0, last |-> last, multiplier |-> multiplier,
                     correlation |-> correlation, row |-> width, rows |-> duration,
                     size |-> size]
      OBVIOUS
    <2>12. KeepsToRanges(hypothesis, plan)
      BY <1>5, <2>5, <2>7, <2>8, <2>9, <2>11 DEF KeepsToRanges
    <2>13. components = RegimeAndShock(plan)
      BY <2>10, <2>11 DEF RegimeAndShock
    <2>14. Answers(policy, hypothesis, RegimeAndShock(plan), context)
      BY <2>12, InflationFits
    <2>15. QED
      BY <2>13, <2>14
  <1>8. QED
    BY <1>6, <1>7

\* A gap before one of the months that begin late enough, in their turn.
LEMMA RebalanceFits ==
  ASSUME NEW policy, PolicyContract(policy), NEW n \in DOMAIN policy.hypotheses,
         NEW hypothesis, hypothesis = policy.hypotheses[n],
         hypothesis.family = "rebalance_timing_gap",
         NEW context, context.kind = "monthly_60_40", context.monthStarts \subseteq 1..Rows,
         NEW turn \in Nat, NEW size \in Int, Contains(hypothesis.shock, size),
         NEW components, components = RebalanceGap(context, turn, size)
  PROVE  \/ components = NoProposal /\ context.monthStarts \subseteq {1, 2}
         \/ /\ Answers(policy, hypothesis, components, context)
            /\ \A m \in DOMAIN components :
                 /\ components[m].family = "one_day_gap"
                 /\ FirstRow(components[m]) > 0 \/ 3 \in context.monthStarts
  <1> DEFINE months == LateMonths(context)
             count  == Cardinality(months)
             month  == Nth(months, turn % count)
             k      == (turn % Len(Offsets)) + 1
  <1>1. months = {row \in context.monthStarts : row >= 3}
    BY DEF LateMonths
  <1>2. components = IF months = {} THEN NoProposal
                     ELSE <<GapAt(month + Offsets[k], size)>>
    BY DEF RebalanceGap
  <1>3. CASE months = {}
    <2>1. \A row \in context.monthStarts : row \in Nat /\ row >= 1 /\ ~(row >= 3)
      BY <1>1, <1>3, RowsAssumption
    <2>2. \A row \in Nat : row >= 1 /\ ~(row >= 3) => row = 1 \/ row = 2
      OBVIOUS
    <2>3. context.monthStarts \subseteq {1, 2}
      BY <2>1, <2>2
    <2>4. QED
      BY <1>2, <1>3, <2>3
  <1>4. CASE months # {}
    <2>1. months \subseteq 1..Rows
      BY <1>1
    <2>2. IsFiniteSet(months) /\ months \subseteq Nat
      <3>1. Rows \in Nat
        BY RowsAssumption
      <3>2. IsFiniteSet(months)
        BY <2>1, <3>1, SomeNumbers
      <3>3. QED
        BY <2>1, <3>1, <3>2
    <2> HIDE DEF months
    <2>3. count \in Nat /\ count # 0
      BY <1>4, <2>2, FS_CardinalityType, FS_EmptySet
    <2> HIDE DEF count
    <2>4. turn % count \in Nat /\ turn % count < count
      BY <2>3
    <2>5. month \in months
      BY <2>2, <2>4, NthIsTaken DEF count
    <2> HIDE DEF month
    <2>6. month \in context.monthStarts /\ month \in 3..Rows
      BY <1>1, <2>1, <2>5, RowsAssumption
    <2>7. Offsets = <<-3, -2, -1>> /\ Len(Offsets) = 3 /\ DOMAIN Offsets = 1..3
      BY DEF Offsets
    <2>8. k \in 1..3
      <3>1. turn % 3 \in 0..2
        OBVIOUS
      <3>2. QED
        BY <2>7, <3>1
    <2> HIDE DEF k
    <2>9. Offsets[k] \in {-3, -2, -1}
      <3>1. k = 1 \/ k = 2 \/ k = 3
        BY <2>8
      <3>2. QED
        BY <2>7, <3>1
    <2>10. month + Offsets[k] \in 0..Rows /\ (month + Offsets[k] > 0 \/ month = 3)
      <3>1. PICK offset : offset = Offsets[k] /\ offset \in {-3, -2, -1}
        BY <2>9
      <3>2. month + offset \in 0..Rows /\ (month + offset > 0 \/ month = 3)
        BY <2>6, <3>1, RowsAssumption
      <3>3. QED
        BY <3>1, <3>2
    <2>11. month \in RebalanceRows(context.kind, context.monthStarts)
      BY <2>6 DEF RebalanceRows
    <2>12. components = <<GapAt(month + Offsets[k], size)>>
      BY <1>2, <1>4 DEF k, month, count
    <2>13. k \in DOMAIN Offsets
      BY <2>7, <2>8
    <2>14. /\ Made(policy, components) /\ AllPlaced(components)
           /\ FitsHypothesis(hypothesis, components, context)
           /\ DOMAIN components = {1} /\ components[1].family = "one_day_gap"
           /\ FirstRow(components[1]) = month + Offsets[k]
      BY <2>10, <2>11, <2>12, <2>13, GapFits
    <2>15. \A m \in DOMAIN components :
             /\ components[m].family = "one_day_gap"
             /\ FirstRow(components[m]) > 0 \/ 3 \in context.monthStarts
      BY <2>6, <2>10, <2>14
    <2>16. QED
      BY <2>14, <2>15 DEF Answers
  <1>5. QED
    BY <1>3, <1>4

-----------------------------------------------------------------------------
(***************************************************************************)
(* The two proposers, under a hypothesis.                                  *)
(***************************************************************************)
\* The first row is left alone, but for a gap before a month on the fourth.
LeavesTheFirstRow(components, context) ==
  \A n \in DOMAIN components :
    \/ FirstRow(components[n]) > 0
    \/ components[n].family = "transaction_cost_multiplier"
    \/ components[n].family = "one_day_gap" /\ 3 \in context.monthStarts

\* A hypothesis needs more rows, with some before the window, or a later month.
AsksTooMuch(hypothesis, context, before) ==
  \/ /\ hypothesis.family = "inflation_correlation_break"
     /\ Rows + 1 < before + hypothesis.windowRows.minimum + hypothesis.shockRows.minimum
  \/ /\ hypothesis.family = "rebalance_timing_gap"
     /\ context.monthStarts \subseteq {1, 2}

\* An active hypothesis is one of three, and its ranges are ranges.
LEMMA ActiveHypotheses ==
  ASSUME NEW policy, PolicyContract(policy), NEW kind, NEW n \in Active(policy, kind),
         NEW hypothesis, hypothesis = policy.hypotheses[n]
  PROVE  /\ n \in DOMAIN policy.hypotheses
         /\ hypothesis.family \in {"inflation_correlation_break", "rebalance_timing_gap",
                                   "trading_friction_break"}
         /\ hypothesis.family = "rebalance_timing_gap" => kind = "monthly_60_40"
         /\ hypothesis.family = "rebalance_timing_gap" => RangeContract(hypothesis.shock)
         /\ hypothesis.family = "trading_friction_break" =>
              RangeContract(hypothesis.multiplier)
         /\ hypothesis.family = "inflation_correlation_break" =>
              /\ hypothesis.windowRows.minimum \in Int
              /\ hypothesis.shockRows.minimum \in Int
  <1>1. n \in DOMAIN policy.hypotheses /\ Supports(kind, hypothesis)
    BY DEF Active
  <1>2. HypothesisContract(hypothesis, policy)
    BY <1>1 DEF PolicyContract
  <1>3. QED
    BY <1>1, <1>2 DEF Supports, HypothesisContract, RangeContract

LEMMA ClientHypothesisFits ==
  ASSUME NEW policy, PolicyContract(policy),
         NEW context, context.monthStarts \subseteq 1..Rows,
         NEW n \in Active(policy, context.kind),
         NEW hypothesis, hypothesis = policy.hypotheses[n],
         NEW ordinal \in Nat, NEW fraction, Proper(fraction),
         NEW components, components = ClientHypothesis(hypothesis, context, ordinal, fraction)
  PROVE  \/ components = NoProposal /\ AsksTooMuch(hypothesis, context, 1)
         \/ /\ Answers(policy, hypothesis, components, context)
            /\ LeavesTheFirstRow(components, context)
  <1>1. /\ n \in DOMAIN policy.hypotheses
        /\ hypothesis.family \in {"inflation_correlation_break", "rebalance_timing_gap",
                                  "trading_friction_break"}
        /\ hypothesis.family = "rebalance_timing_gap" => context.kind = "monthly_60_40"
        /\ hypothesis.family = "rebalance_timing_gap" => RangeContract(hypothesis.shock)
        /\ hypothesis.family = "trading_friction_break" =>
             RangeContract(hypothesis.multiplier)
        /\ hypothesis.family = "inflation_correlation_break" =>
             /\ hypothesis.windowRows.minimum \in Int
             /\ hypothesis.shockRows.minimum \in Int
    BY ActiveHypotheses
  <1>2. CASE hypothesis.family = "inflation_correlation_break"
    <2>1. components = ClientInflation(hypothesis, fraction)
      BY <1>2 DEF ClientHypothesis
    <2>2. \/ /\ components = NoProposal
             /\ Rows < hypothesis.windowRows.minimum + hypothesis.shockRows.minimum
          \/ /\ Answers(policy, hypothesis, components, context)
             /\ \A m \in DOMAIN components : FirstRow(components[m]) > 0
      BY <1>1, <1>2, <2>1, ClientInflationFits
    <2>3. PICK narrow, short : /\ narrow = hypothesis.windowRows.minimum
                               /\ short = hypothesis.shockRows.minimum
                               /\ narrow \in Int /\ short \in Int
      BY <1>1, <1>2
    <2>4. Rows < narrow + short => Rows + 1 < 1 + narrow + short
      BY <2>3, RowsAssumption
    <2>5. QED
      BY <1>2, <2>2, <2>3, <2>4 DEF AsksTooMuch, LeavesTheFirstRow
  <1>3. CASE hypothesis.family = "rebalance_timing_gap"
    <2>1. PICK size : size = InterpolateAdverse(hypothesis.shock, fraction)
      OBVIOUS
    <2>2. size \in Int /\ Contains(hypothesis.shock, size)
      BY <1>1, <1>3, <2>1, InterpolationStays
    <2>3. components = RebalanceGap(context, ordinal, size)
      BY <1>3, <2>1 DEF ClientHypothesis
    <2>4. \/ components = NoProposal /\ context.monthStarts \subseteq {1, 2}
          \/ /\ Answers(policy, hypothesis, components, context)
             /\ \A m \in DOMAIN components :
                  /\ components[m].family = "one_day_gap"
                  /\ FirstRow(components[m]) > 0 \/ 3 \in context.monthStarts
      BY <1>1, <1>3, <2>2, <2>3, RebalanceFits
    <2>5. QED
      BY <1>3, <2>4 DEF AsksTooMuch, LeavesTheFirstRow
  <1>4. CASE hypothesis.family = "trading_friction_break"
    <2>1. PICK size : size = Interpolate(hypothesis.multiplier, fraction)
      OBVIOUS
    <2>2. size \in Int /\ Contains(hypothesis.multiplier, size)
      BY <1>1, <1>4, <2>1, InterpolationStays
    <2>3. components = <<CostTimes(size)>>
      BY <1>4, <2>1 DEF ClientHypothesis
    <2>4. /\ Made(policy, components) /\ AllPlaced(components)
          /\ FitsHypothesis(hypothesis, components, context)
          /\ DOMAIN components = {1}
          /\ components[1].family = "transaction_cost_multiplier"
      BY <1>1, <1>4, <2>2, <2>3, FrictionFits
    <2>5. QED
      BY <2>4 DEF Answers, LeavesTheFirstRow
  <1>5. QED
    BY <1>1, <1>2, <1>3, <1>4

LEMMA GridHypothesisFits ==
  ASSUME NEW policy, PolicyContract(policy),
         NEW context, context.monthStarts \subseteq 1..Rows,
         NEW n \in Active(policy, context.kind),
         NEW hypothesis, hypothesis = policy.hypotheses[n],
         NEW turn \in Nat, NEW fraction, Proper(fraction),
         NEW components, components = GridHypothesis(hypothesis, context, turn, fraction)
  PROVE  \/ components = NoProposal /\ AsksTooMuch(hypothesis, context, 0)
         \/ Answers(policy, hypothesis, components, context)
  <1>1. /\ n \in DOMAIN policy.hypotheses
        /\ hypothesis.family \in {"inflation_correlation_break", "rebalance_timing_gap",
                                  "trading_friction_break"}
        /\ hypothesis.family = "rebalance_timing_gap" => context.kind = "monthly_60_40"
        /\ hypothesis.family = "rebalance_timing_gap" => RangeContract(hypothesis.shock)
        /\ hypothesis.family = "trading_friction_break" =>
             RangeContract(hypothesis.multiplier)
        /\ hypothesis.family = "inflation_correlation_break" =>
             /\ hypothesis.windowRows.minimum \in Int
             /\ hypothesis.shockRows.minimum \in Int
    BY ActiveHypotheses
  <1>2. CASE hypothesis.family = "inflation_correlation_break"
    <2>1. components = GridInflation(hypothesis, fraction)
      BY <1>2 DEF GridHypothesis
    <2>2. \/ /\ components = NoProposal
             /\ Rows + 1 < hypothesis.windowRows.minimum + hypothesis.shockRows.minimum
          \/ Answers(policy, hypothesis, components, context)
      BY <1>1, <1>2, <2>1, GridInflationFits
    <2>3. PICK narrow, short : /\ narrow = hypothesis.windowRows.minimum
                               /\ short = hypothesis.shockRows.minimum
                               /\ narrow \in Int /\ short \in Int
      BY <1>1, <1>2
    <2>4. Rows + 1 < narrow + short => Rows + 1 < 0 + narrow + short
      BY <2>3, RowsAssumption
    <2>5. QED
      BY <1>2, <2>2, <2>3, <2>4 DEF AsksTooMuch
  <1>3. CASE hypothesis.family = "rebalance_timing_gap"
    <2>1. PICK size : size = Interpolate(hypothesis.shock, fraction)
      OBVIOUS
    <2>2. size \in Int /\ Contains(hypothesis.shock, size)
      BY <1>1, <1>3, <2>1, InterpolationStays
    <2>3. components = RebalanceGap(context, turn, size)
      BY <1>3, <2>1 DEF GridHypothesis
    <2>4. \/ components = NoProposal /\ context.monthStarts \subseteq {1, 2}
          \/ Answers(policy, hypothesis, components, context)
      BY <1>1, <1>3, <2>2, <2>3, RebalanceFits
    <2>5. QED
      BY <1>3, <2>4 DEF AsksTooMuch
  <1>4. CASE hypothesis.family = "trading_friction_break"
    <2>1. PICK size : size = Interpolate(hypothesis.multiplier, fraction)
      OBVIOUS
    <2>2. size \in Int /\ Contains(hypothesis.multiplier, size)
      BY <1>1, <1>4, <2>1, InterpolationStays
    <2>3. components = <<CostTimes(size)>>
      BY <1>4, <2>1 DEF GridHypothesis
    <2>4. /\ Made(policy, components) /\ AllPlaced(components)
          /\ FitsHypothesis(hypothesis, components, context)
      BY <1>1, <1>4, <2>2, <2>3, FrictionFits
    <2>5. QED
      BY <2>4 DEF Answers
  <1>5. QED
    BY <1>1, <1>2, <1>3, <1>4

-----------------------------------------------------------------------------
(***************************************************************************)
(* The two proposers, family by family.                                    *)
(***************************************************************************)
\* The durations of a policy, as far as the dataset lasts.
LEMMA DurationsLast ==
  ASSUME NEW policy, PolicyContract(policy), DurationsFit(policy)
  PROVE  /\ policy.durations.minimum \in Int /\ policy.durations.minimum >= 1
         /\ Least(policy.durations.maximum, Rows) \in Int
         /\ policy.durations.minimum <= Least(policy.durations.maximum, Rows)
         /\ \A duration \in Int :
              /\ policy.durations.minimum <= duration
              /\ duration <= Least(policy.durations.maximum, Rows)
              => /\ Contains(policy.durations, duration)
                 /\ duration \in 1..MaxDurationRows /\ duration \in 1..Rows
  <1>1. PICK low, high : low = policy.durations.minimum /\ high = policy.durations.maximum
    OBVIOUS
  <1>2. /\ low \in Int /\ high \in Int /\ low <= high /\ low >= 1 /\ high <= 252
        /\ low <= Rows /\ Rows \in Nat
    BY <1>1, RowsAssumption
       DEF PolicyContract, RangeContract, MaxDurationRows, DurationsFit
  <1>3. PICK longest : longest = Least(high, Rows)
    OBVIOUS
  <1>4. longest \in Int /\ low <= longest /\ longest <= high /\ longest <= Rows
    BY <1>2, <1>3 DEF Least
  <1>5. ASSUME NEW duration \in Int, low <= duration, duration <= longest
        PROVE  /\ Contains(policy.durations, duration)
               /\ duration \in 1..MaxDurationRows /\ duration \in 1..Rows
    <2>1. low <= duration /\ duration <= high /\ duration \in 1..252 /\ duration \in 1..Rows
      BY <1>2, <1>4, <1>5
    <2>2. QED
      BY <1>1, <2>1 DEF Contains, MaxDurationRows
  <1>6. QED
    BY <1>1, <1>2, <1>3, <1>4, <1>5

\* What makes a component of an allowed family.
Fashioned(policy, family, component) ==
  /\ Sound(component) /\ InEnvelope(policy, component) /\ component.family = family

\* A gap, a shock, a regime and a cost in the envelope.
LEMMA EnvelopedGap ==
  ASSUME NEW policy, PolicyContract(policy), "one_day_gap" \in Allowed(policy),
         NEW row \in 0..Rows, NEW size \in Int, Contains(policy.ranges["one_day_gap"], size)
  PROVE  /\ Fashioned(policy, "one_day_gap", GapAt(row, size))
         /\ Placed(GapAt(row, size)) /\ FirstRow(GapAt(row, size)) = row
  <1>1. Representable(size)
    BY EnvelopeIsInTheDomain
  <1>2. PICK gap : gap = GapAt(row, size)
    OBVIOUS
  <1>3. /\ Sound(gap) /\ Placed(gap) /\ gap.family = "one_day_gap" /\ gap.size = size
        /\ FirstRow(gap) = row
    BY <1>1, <1>2, GapsAreSound
  <1>4. QED
    BY <1>2, <1>3 DEF Fashioned, InEnvelope

LEMMA EnvelopedShock ==
  ASSUME NEW policy, PolicyContract(policy), "sustained_cumulative_shock" \in Allowed(policy),
         NEW row \in 0..Rows, NEW rows \in 1..MaxDurationRows, row + rows - 1 <= Rows,
         Contains(policy.durations, rows), NEW size \in Int,
         Contains(policy.ranges["sustained_cumulative_shock"], size)
  PROVE  /\ Fashioned(policy, "sustained_cumulative_shock", ShockFrom(row, rows, size))
         /\ Placed(ShockFrom(row, rows, size)) /\ FirstRow(ShockFrom(row, rows, size)) = row
  <1>1. Representable(size)
    BY EnvelopeIsInTheDomain
  <1>2. PICK shock : shock = ShockFrom(row, rows, size)
    OBVIOUS
  <1>3. /\ Sound(shock) /\ Placed(shock) /\ shock.family = "sustained_cumulative_shock"
        /\ shock.size = size /\ shock.rows = rows /\ FirstRow(shock) = row
    BY <1>1, <1>2, ShocksAreSound
  <1>4. QED
    BY <1>2, <1>3 DEF Fashioned, InEnvelope

LEMMA EnvelopedRegime ==
  ASSUME NEW policy, PolicyContract(policy),
         NEW family \in {"volatility_multiplier", "correlation_target"},
         family \in Allowed(policy),
         NEW first \in 0..Rows, NEW last \in 0..Rows, first + 1 <= last, NEW size \in Int,
         Contains(policy.ranges[family], size)
  PROVE  /\ Fashioned(policy, family, Stress(family, first, last, size))
         /\ FirstRow(Stress(family, first, last, size)) = first
         /\ \/ Placed(Stress(family, first, last, size))
            \/ family = "correlation_target" /\ last = first + 1
  <1>1. family = "volatility_multiplier" => size > 0
    BY EnvelopeIsInTheDomain
  <1>2. PICK regime : regime = Stress(family, first, last, size)
    OBVIOUS
  <1>3. first <= last
    BY RowsAssumption
  <1>4. /\ Sound(regime)
        /\ last - first + 1 >= 3 => Placed(regime)
        /\ family = "volatility_multiplier" /\ last - first + 1 >= 2 => Placed(regime)
        /\ regime.family = family /\ regime.size = size /\ FirstRow(regime) = first
    BY <1>1, <1>2, <1>3, RegimesAreSound
  <1>5. /\ last - first + 1 >= 2
        /\ last - first + 1 >= 3 \/ last = first + 1
    BY RowsAssumption
  <1>6. Fashioned(policy, family, regime)
    BY <1>4 DEF Fashioned, InEnvelope
  <1>7. QED
    BY <1>2, <1>4, <1>5, <1>6

LEMMA EnvelopedCost ==
  ASSUME NEW policy, PolicyContract(policy),
         "transaction_cost_multiplier" \in Allowed(policy), NEW size \in Int,
         Contains(policy.ranges["transaction_cost_multiplier"], size)
  PROVE  /\ Fashioned(policy, "transaction_cost_multiplier", CostTimes(size))
         /\ Placed(CostTimes(size))
  <1>1. size \in Nat /\ size > 0
    BY EnvelopeIsInTheDomain
  <1>2. PICK cost : cost = CostTimes(size)
    OBVIOUS
  <1>3. /\ Sound(cost) /\ Placed(cost) /\ cost.family = "transaction_cost_multiplier"
        /\ cost.size = size
    BY <1>1, <1>2, CostsAreSound
  <1>4. QED
    BY <1>2, <1>3 DEF Fashioned, InEnvelope

\* Numbers are taken in turn.
LEMMA TurnsStay ==
  ASSUME NEW turn \in Nat, NEW count \in Nat, count >= 1
  PROVE  turn % count \in Nat /\ turn % count < count
  OBVIOUS

LEMMA ClientComponentFits ==
  ASSUME NEW policy, PolicyContract(policy), NEW family \in Allowed(policy),
         family = "sustained_cumulative_shock" => DurationsFit(policy),
         NEW ordinal \in Nat, NEW fraction, Proper(fraction),
         NEW component, component = ClientComponent(policy, family, ordinal, fraction)
  PROVE  /\ Fashioned(policy, family, component)
         /\ Placed(component) \/ (family = "correlation_target" /\ Rows < 6)
         /\ FirstRow(component) > 0 \/ family = "transaction_cost_multiplier"
  <1>1. RangeContract(policy.ranges[family])
    BY DEF PolicyContract, WithinDomain
  <1>2. PICK size, adverse : /\ size = Interpolate(policy.ranges[family], fraction)
                             /\ adverse = InterpolateAdverse(policy.ranges[family], fraction)
    OBVIOUS
  <1>3. /\ size \in Int /\ Contains(policy.ranges[family], size)
        /\ adverse \in Int /\ Contains(policy.ranges[family], adverse)
    BY <1>1, <1>2, InterpolationStays
  <1>4. Rows \in Nat /\ Rows >= 2
    BY RowsAssumption, SourceAssumption
  <1>5. CASE family = "one_day_gap"
    <2>1. ordinal % Rows \in Nat /\ ordinal % Rows < Rows
      BY <1>4, TurnsStay
    <2>2. PICK row : row = 1 + (ordinal % Rows)
      OBVIOUS
    <2>3. row \in 0..Rows /\ row > 0
      BY <1>4, <2>1, <2>2
    <2>4. component = GapAt(row, adverse)
      BY <1>2, <1>5, <2>2 DEF ClientComponent
    <2>5. /\ Fashioned(policy, "one_day_gap", GapAt(row, adverse))
          /\ Placed(GapAt(row, adverse)) /\ FirstRow(GapAt(row, adverse)) = row
      BY <1>3, <1>5, <2>3, EnvelopedGap
    <2>6. Fashioned(policy, family, component) /\ Placed(component)
      BY <1>5, <2>4, <2>5
    <2>7. FirstRow(component) > 0
      BY <2>3, <2>4, <2>5
    <2>8. QED
      BY <2>6, <2>7
  <1>6. CASE family = "sustained_cumulative_shock"
    <2> DEFINE shortest == policy.durations.minimum
               longest  == Least(policy.durations.maximum, Rows)
               duration == shortest + Rounded(longest - shortest, fraction)
               start    == Greatest(1, Rounded(Rows + 1 - duration, [of |-> 3, parts |-> 5]))
    <2>1. component = ShockFrom(start, duration, adverse)
      BY <1>2, <1>6 DEF ClientComponent
    <2>2. /\ shortest \in Int /\ shortest >= 1 /\ longest \in Int /\ shortest <= longest
          /\ \A span \in Int : shortest <= span /\ span <= longest =>
               /\ Contains(policy.durations, span)
               /\ span \in 1..MaxDurationRows /\ span \in 1..Rows
      BY <1>6, DurationsLast
    <2> HIDE DEF shortest, longest
    <2>3. /\ duration \in Int /\ shortest <= duration /\ duration <= longest
      BY <2>2, Between
    <2> HIDE DEF duration
    <2>4. /\ Contains(policy.durations, duration)
          /\ duration \in 1..MaxDurationRows /\ duration \in 1..Rows
      BY <2>2, <2>3
    <2>5. PICK latest, earliest : /\ latest = Rows + 1 - duration /\ latest \in Nat
                                  /\ earliest = 1 /\ earliest \in 1..latest
      BY <1>4, <2>4
    <2>6. start \in earliest..latest
      BY <2>5, LateStart
    <2> HIDE DEF start
    <2>7. start \in 0..Rows /\ start > 0 /\ start + duration - 1 <= Rows
      BY <1>4, <2>4, <2>5, <2>6
    <2>8. /\ Fashioned(policy, "sustained_cumulative_shock", ShockFrom(start, duration, adverse))
          /\ Placed(ShockFrom(start, duration, adverse))
          /\ FirstRow(ShockFrom(start, duration, adverse)) = start
      BY <1>3, <1>6, <2>4, <2>7, EnvelopedShock
    <2>9. Fashioned(policy, family, component) /\ Placed(component)
      BY <1>6, <2>1, <2>8
    <2>10. FirstRow(component) > 0
      BY <2>1, <2>7, <2>8
    <2>11. QED
      BY <2>9, <2>10
  <1>7. CASE family \in {"volatility_multiplier", "correlation_target"}
    <2>1. PICK half, last, first : /\ half = Rows \div 2 /\ last = Greatest(2, half)
                                   /\ first = 1
      OBVIOUS
    <2>2. half \in Int /\ half <= Rows /\ (Rows >= 6 => half >= 3)
      BY <1>4, <2>1
    <2>3. /\ last \in 0..Rows /\ first \in 0..Rows /\ first + 1 <= last /\ first > 0
          /\ last = first + 1 => Rows < 6
      BY <1>4, <2>1, <2>2 DEF Greatest
    <2>4. component = Stress(family, first, last, size)
      BY <1>2, <1>7, <2>1 DEF ClientComponent
    <2>5. /\ Fashioned(policy, family, Stress(family, first, last, size))
          /\ FirstRow(Stress(family, first, last, size)) = first
          /\ \/ Placed(Stress(family, first, last, size))
             \/ family = "correlation_target" /\ last = first + 1
      BY <1>3, <1>7, <2>3, EnvelopedRegime
    <2>6. Fashioned(policy, family, component)
      BY <2>4, <2>5
    <2>7. Placed(component) \/ (family = "correlation_target" /\ Rows < 6)
      BY <2>3, <2>4, <2>5
    <2>8. FirstRow(component) > 0
      BY <2>3, <2>4, <2>5
    <2>9. QED
      BY <2>6, <2>7, <2>8
  <1>8. CASE family = "transaction_cost_multiplier"
    <2>1. component = CostTimes(size)
      BY <1>2, <1>8 DEF ClientComponent
    <2>2. /\ Fashioned(policy, "transaction_cost_multiplier", CostTimes(size))
          /\ Placed(CostTimes(size))
      BY <1>3, <1>8, EnvelopedCost
    <2>3. Fashioned(policy, family, component) /\ Placed(component)
      BY <1>8, <2>1, <2>2
    <2>4. QED
      BY <1>8, <2>3
  <1>9. family \in TransformFamilies
    BY AllowedFamilies
  <1>10. QED
    BY <1>5, <1>6, <1>7, <1>8, <1>9 DEF TransformFamilies

LEMMA GridComponentFits ==
  ASSUME NEW policy, PolicyContract(policy), NEW family \in Allowed(policy),
         family = "sustained_cumulative_shock" => DurationsFit(policy),
         NEW turn \in Nat, NEW fraction, Proper(fraction),
         NEW component, component = GridComponent(policy, family, turn, fraction)
  PROVE  Fashioned(policy, family, component) /\ Placed(component)
  <1>1. RangeContract(policy.ranges[family])
    BY DEF PolicyContract, WithinDomain
  <1>2. PICK size : size = Interpolate(policy.ranges[family], fraction)
    OBVIOUS
  <1>3. size \in Int /\ Contains(policy.ranges[family], size)
    BY <1>1, <1>2, InterpolationStays
  <1>4. Rows \in Nat /\ Rows >= 2
    BY RowsAssumption, SourceAssumption
  <1>5. CASE family = "one_day_gap"
    <2>1. turn % Rows \in Nat /\ turn % Rows < Rows
      BY <1>4, TurnsStay
    <2>2. PICK row : row = 1 + (turn % Rows)
      OBVIOUS
    <2>3. row \in 0..Rows
      BY <1>4, <2>1, <2>2
    <2>4. component = GapAt(row, size)
      BY <1>2, <1>5, <2>2 DEF GridComponent
    <2>5. Fashioned(policy, "one_day_gap", GapAt(row, size)) /\ Placed(GapAt(row, size))
      BY <1>3, <1>5, <2>3, EnvelopedGap
    <2>6. QED
      BY <1>5, <2>4, <2>5
  <1>6. CASE family = "sustained_cumulative_shock"
    <2> DEFINE shortest == policy.durations.minimum
               longest  == Least(policy.durations.maximum, Rows)
               duration == shortest + (turn % (longest - shortest + 1))
               start    == turn % (Rows + 2 - duration)
    <2>1. component = ShockFrom(start, duration, size)
      BY <1>2, <1>6 DEF GridComponent
    <2>2. /\ shortest \in Int /\ shortest >= 1 /\ longest \in Int /\ shortest <= longest
          /\ \A span \in Int : shortest <= span /\ span <= longest =>
               /\ Contains(policy.durations, span)
               /\ span \in 1..MaxDurationRows /\ span \in 1..Rows
      BY <1>6, DurationsLast
    <2> HIDE DEF shortest, longest
    <2>3. PICK spans : spans = longest - shortest + 1 /\ spans \in Nat /\ spans >= 1
      BY <2>2
    <2>4. turn % spans \in Nat /\ turn % spans < spans
      BY <2>3, TurnsStay
    <2>5. /\ duration \in Int /\ shortest <= duration /\ duration <= longest
      <3>1. PICK extra : extra = turn % spans /\ extra \in Nat /\ extra < spans
        BY <2>4
      <3>2. duration = shortest + extra
        BY <2>3, <3>1
      <3>3. QED
        BY <2>2, <2>3, <3>1, <3>2
    <2> HIDE DEF duration
    <2>6. /\ Contains(policy.durations, duration)
          /\ duration \in 1..MaxDurationRows /\ duration \in 1..Rows
      BY <2>2, <2>5
    <2>7. PICK starts : starts = Rows + 2 - duration /\ starts \in Nat /\ starts >= 1
      BY <1>4, <2>6
    <2>8. turn % starts \in Nat /\ turn % starts < starts
      BY <2>7, TurnsStay
    <2>9. start \in Nat /\ start < starts
      BY <2>7, <2>8
    <2> HIDE DEF start
    <2>10. start \in 0..Rows /\ start + duration - 1 <= Rows
      BY <1>4, <2>6, <2>7, <2>9
    <2>11. /\ Fashioned(policy, "sustained_cumulative_shock", ShockFrom(start, duration, size))
           /\ Placed(ShockFrom(start, duration, size))
      BY <1>3, <1>6, <2>6, <2>10, EnvelopedShock
    <2>12. QED
      BY <1>6, <2>1, <2>11
  <1>7. CASE family \in {"volatility_multiplier", "correlation_target"}
    <2>1. PICK first : first = 0
      OBVIOUS
    <2>2. first \in 0..Rows /\ Rows \in 0..Rows /\ first + 1 <= Rows /\ Rows # first + 1
      BY <1>4, <2>1
    <2>3. component = Stress(family, first, Rows, size)
      BY <1>2, <1>7, <2>1 DEF GridComponent
    <2>4. /\ Fashioned(policy, family, Stress(family, first, Rows, size))
          /\ \/ Placed(Stress(family, first, Rows, size))
             \/ family = "correlation_target" /\ Rows = first + 1
      BY <1>3, <1>7, <2>2, EnvelopedRegime
    <2>5. QED
      BY <2>2, <2>3, <2>4
  <1>8. CASE family = "transaction_cost_multiplier"
    <2>1. component = CostTimes(size)
      BY <1>2, <1>8 DEF GridComponent
    <2>2. /\ Fashioned(policy, "transaction_cost_multiplier", CostTimes(size))
          /\ Placed(CostTimes(size))
      BY <1>3, <1>8, EnvelopedCost
    <2>3. QED
      BY <1>8, <2>1, <2>2
  <1>9. family \in TransformFamilies
    BY AllowedFamilies
  <1>10. QED
    BY <1>5, <1>6, <1>7, <1>8, <1>9 DEF TransformFamilies

-----------------------------------------------------------------------------
(***************************************************************************)
(* What is proposed, and what the policy and preflight say of it.          *)
(***************************************************************************)
\* The hypotheses that remain are few, and one is taken for every place.
LEMMA ActiveIsFinite ==
  ASSUME NEW policy, PolicyContract(policy), NEW kind, Active(policy, kind) # {}
  PROVE  /\ Cardinality(Active(policy, kind)) \in Nat /\ Cardinality(Active(policy, kind)) >= 1
         /\ \A place \in Nat :
              place < Cardinality(Active(policy, kind)) =>
                Nth(Active(policy, kind), place) \in Active(policy, kind)
  <1>1. PICK active : active = Active(policy, kind)
    OBVIOUS
  <1>2. PICK count \in 0..4 : DOMAIN policy.hypotheses = 1..count
    BY DEF PolicyContract
  <1>3. count \in Nat /\ active \subseteq 1..count
    BY <1>1, <1>2 DEF Active
  <1>4. IsFiniteSet(active) /\ active \subseteq Nat
    <2>1. IsFiniteSet(active)
      BY <1>3, SomeNumbers
    <2>2. QED
      BY <1>3, <2>1
  <1>5. Cardinality(active) \in Nat /\ Cardinality(active) # 0
    BY <1>1, <1>4, FS_CardinalityType, FS_EmptySet
  <1>6. \A place \in Nat : place < Cardinality(active) => Nth(active, place) \in active
    BY <1>4, NthIsTaken
  <1>7. QED
    BY <1>1, <1>5, <1>6

\* Distinct families are five at most.
LEMMA FewFamilies ==
  ASSUME NEW policy, PolicyContract(policy)
  PROVE  Len(policy.families) \in 1..MaxComponents
  <1>1. PICK families : families = policy.families
    OBVIOUS
  <1>2. /\ Len(families) \in Nat /\ Len(families) >= 1 /\ DOMAIN families = 1..Len(families)
        /\ \A n \in DOMAIN families :
             families[n] \in {"one_day_gap", "sustained_cumulative_shock",
                              "volatility_multiplier", "correlation_target",
                              "transaction_cost_multiplier"}
    BY <1>1, AllowedFamilies DEF TransformFamilies
  <1>3. \A n, m \in DOMAIN families : families[n] = families[m] => n = m
    BY <1>1 DEF PolicyContract
  <1>4. ASSUME Len(families) >= 6
        PROVE  FALSE
    <2>1. /\ 1 \in DOMAIN families /\ 2 \in DOMAIN families /\ 3 \in DOMAIN families
          /\ 4 \in DOMAIN families /\ 5 \in DOMAIN families /\ 6 \in DOMAIN families
      BY <1>2, <1>4
    <2>2. PICK a, b, c, d, e, f :
            /\ a = families[1] /\ b = families[2] /\ c = families[3]
            /\ d = families[4] /\ e = families[5] /\ f = families[6]
      OBVIOUS
    <2>3. {a, b, c, d, e, f} \subseteq
            {"one_day_gap", "sustained_cumulative_shock", "volatility_multiplier",
             "correlation_target", "transaction_cost_multiplier"}
      BY <1>2, <2>1, <2>2
    <2>4. /\ a # b /\ a # c /\ a # d /\ a # e /\ a # f
          /\ b # c /\ b # d /\ b # e /\ b # f
          /\ c # d /\ c # e /\ c # f /\ d # e /\ d # f /\ e # f
      BY <1>3, <2>1, <2>2
    <2>5. QED
      BY ONLY <2>3, <2>4
  <1>5. PICK number : number = Len(families)
    OBVIOUS
  <1>6. number \in 1..8
    <2>1. number \in Nat /\ number >= 1 /\ ~(number >= 6)
      BY <1>2, <1>4, <1>5
    <2>2. QED
      BY ONLY <2>1
  <1>7. QED
    BY <1>1, <1>5, <1>6 DEF MaxComponents

\* What a proposer offers, and the reason if it offers nothing.
Offers(policy, context, components, before) ==
  \/ /\ components = NoProposal
     /\ IF Active(policy, context.kind) # {}
        THEN \E n \in Active(policy, context.kind) :
               AsksTooMuch(policy.hypotheses[n], context, before)
        ELSE Rows < policy.durations.minimum
  \/ /\ Made(policy, components)
     /\ Active(policy, context.kind) # {} =>
          \E n \in Active(policy, context.kind) :
            Answers(policy, policy.hypotheses[n], components, context)

\* Components, each of an allowed family in turn, are made.
LEMMA AllFashioned ==
  ASSUME NEW policy, PolicyContract(policy), NEW components,
         DOMAIN components = DOMAIN policy.families,
         \A n \in DOMAIN components :
           Fashioned(policy, policy.families[n], components[n])
  PROVE  Made(policy, components)
  <1>1. Len(policy.families) \in 1..MaxComponents /\ DOMAIN components = 1..Len(policy.families)
    BY AllowedFamilies, FewFamilies
  <1>2. \A n \in DOMAIN components :
          /\ Sound(components[n]) /\ InEnvelope(policy, components[n])
          /\ components[n].family = policy.families[n]
    BY DEF Fashioned
  <1>3. \A n, m \in DOMAIN components : components[n].family = components[m].family => n = m
    BY <1>2 DEF PolicyContract
  <1>4. QED
    BY <1>1, <1>2, <1>3 DEF Made

LEMMA ClientOffers ==
  ASSUME NEW policy, PolicyContract(policy),
         NEW context, context.monthStarts \subseteq 1..Rows,
         NEW source, source.by = "client", SourceContract(source),
         NEW components, components = ClientComponents(policy, context, source)
  PROVE  /\ Offers(policy, context, components, 1)
         /\ components # NoProposal =>
              /\ AllPlaced(components) \/ RegimeIsTooShort(policy, context, source)
              /\ LeavesTheFirstRow(components, context)
  <1> DEFINE fraction == ClientFraction(source)
             active   == Active(policy, context.kind)
             count    == Cardinality(active)
             searched == Greatest(1, MaxCandidatesPerRound - count + 1)
             place    == IF source.candidate <= searched THEN 0
                         ELSE Least(source.candidate - searched, count - 1)
  <1>1. /\ source.round \in 1..3 /\ source.candidate \in 1..source.batch /\ source.batch \in 1..8
    BY DEF SourceContract, MaxRounds, MaxCandidatesPerRound
  <1>2. source.candidate \in Nat /\ Ordinal(source) \in Nat
    <2>1. PICK round, candidate : /\ round = source.round /\ candidate = source.candidate
                                  /\ round \in Nat /\ round >= 1 /\ candidate \in Nat
      BY <1>1
    <2>2. QED
      BY <2>1 DEF Ordinal, MaxCandidatesPerRound
  <1>3. Proper(fraction) /\ Proper([of |-> 0, parts |-> 1])
    BY FractionsAreProper
  <1>4. CASE active # {}
    <2>1. /\ count \in Nat /\ count >= 1
          /\ \A p \in Nat : p < count => Nth(active, p) \in active
      BY <1>4, ActiveIsFinite
    <2> HIDE DEF count
    <2>2. place \in Nat /\ place < count
      BY <1>2, <2>1 DEF Greatest, Least, MaxCandidatesPerRound
    <2> HIDE DEF place
    <2>3. PICK n : n = Nth(active, place) /\ n \in active
      BY <2>1, <2>2
    <2>4. PICK used : /\ used = IF place = 0 THEN fraction ELSE [of |-> 0, parts |-> 1]
                      /\ Proper(used)
      BY <1>3
    <2>5. components = ClientHypothesis(policy.hypotheses[n], context, Ordinal(source), used)
      BY <1>4, <2>3, <2>4 DEF ClientComponents, place, count
    <2>6. \/ components = NoProposal /\ AsksTooMuch(policy.hypotheses[n], context, 1)
          \/ /\ Answers(policy, policy.hypotheses[n], components, context)
             /\ LeavesTheFirstRow(components, context)
      BY <1>2, <2>3, <2>4, <2>5, ClientHypothesisFits
    <2>7. Offers(policy, context, components, 1)
      BY <1>4, <2>3, <2>6 DEF Offers, Answers
    <2>8. QED
      BY <2>6, <2>7 DEF Answers
  <1>5. CASE active = {}
    <2>1. CASE "sustained_cumulative_shock" \in Allowed(policy) /\ ~DurationsFit(policy)
      <3>1. components = NoProposal
        BY <1>5, <2>1 DEF ClientComponents
      <3>2. Rows < policy.durations.minimum
        <4>1. PICK low : low = policy.durations.minimum /\ low \in Int
          BY DEF PolicyContract, RangeContract
        <4>2. QED
          BY <2>1, <4>1, RowsAssumption DEF DurationsFit
      <3>3. QED
        BY <1>5, <3>1, <3>2 DEF Offers
    <2>2. CASE ~("sustained_cumulative_shock" \in Allowed(policy) /\ ~DurationsFit(policy))
      <3>1. components = [n \in DOMAIN policy.families |->
                            ClientComponent(policy, policy.families[n], Ordinal(source),
                                            fraction)]
        BY <1>5, <2>2 DEF ClientComponents
      <3>2. /\ DOMAIN components = DOMAIN policy.families
            /\ \A n \in DOMAIN components :
                 components[n] = ClientComponent(policy, policy.families[n], Ordinal(source),
                                                 fraction)
        BY <3>1
      <3>3. \A n \in DOMAIN components : policy.families[n] \in Allowed(policy)
        BY <3>2, AllowedFamilies
      <3> HIDE DEF fraction
      <3>4. ASSUME NEW n \in DOMAIN components
            PROVE  /\ Fashioned(policy, policy.families[n], components[n])
                   /\ \/ Placed(components[n])
                      \/ policy.families[n] = "correlation_target" /\ Rows < 6
                   /\ \/ FirstRow(components[n]) > 0
                      \/ policy.families[n] = "transaction_cost_multiplier"
        <4>1. PICK family, component : family = policy.families[n] /\ component = components[n]
          OBVIOUS
        <4>2. /\ family \in Allowed(policy)
              /\ component = ClientComponent(policy, family, Ordinal(source), fraction)
          BY <3>2, <3>3, <4>1
        <4>3. family = "sustained_cumulative_shock" => DurationsFit(policy)
          BY <2>2, <4>2
        <4>4. /\ Fashioned(policy, family, component)
              /\ Placed(component) \/ (family = "correlation_target" /\ Rows < 6)
              /\ FirstRow(component) > 0 \/ family = "transaction_cost_multiplier"
          BY <1>2, <1>3, <4>2, <4>3, ClientComponentFits
        <4>5. QED
          BY <4>1, <4>4
      <3>5. Made(policy, components)
        BY <3>2, <3>4, AllFashioned
      <3>6. AllPlaced(components) \/ RegimeIsTooShort(policy, context, source)
        BY <1>5, <3>3, <3>4 DEF AllPlaced, RegimeIsTooShort
      <3>7. LeavesTheFirstRow(components, context)
        BY <3>4 DEF LeavesTheFirstRow, Fashioned
      <3>8. QED
        BY <1>5, <3>5, <3>6, <3>7 DEF Offers
    <2>3. QED
      BY <2>1, <2>2
  <1>6. QED
    BY <1>4, <1>5

LEMMA GridOffers ==
  ASSUME NEW policy, PolicyContract(policy),
         NEW context, context.monthStarts \subseteq 1..Rows,
         NEW source, source.by = "grid", SourceContract(source),
         NEW components, components = GridComponents(policy, context, source)
  PROVE  /\ Offers(policy, context, components, 0)
         /\ components # NoProposal => AllPlaced(components)
  <1> DEFINE fraction == GridFraction(source)
             active   == Active(policy, context.kind)
             count    == Cardinality(active)
             turn     == Ordinal(source) + source.seed
             number   == Len(policy.families)
             k        == ((turn - 1) % number) + 1
             family   == policy.families[k]
  <1>1. turn \in Nat /\ turn - 1 \in Nat
    <2>1. /\ source.round \in 1..3 /\ source.candidate \in 1..8 /\ source.seed \in Nat
      BY DEF SourceContract, MaxRounds, MaxCandidatesPerRound
    <2>2. PICK round, candidate, seed :
            /\ round = source.round /\ candidate = source.candidate /\ seed = source.seed
            /\ round \in Nat /\ round >= 1 /\ candidate \in Nat /\ candidate >= 1
            /\ seed \in Nat
      BY <2>1
    <2>3. QED
      BY <2>2 DEF Ordinal, MaxCandidatesPerRound
  <1>2. Proper(fraction)
    BY FractionsAreProper
  <1> HIDE DEF turn
  <1>3. CASE active # {}
    <2>1. /\ count \in Nat /\ count >= 1
          /\ \A p \in Nat : p < count => Nth(active, p) \in active
      BY <1>3, ActiveIsFinite
    <2> HIDE DEF count
    <2>2. (turn - 1) % count \in Nat /\ (turn - 1) % count < count
      BY <1>1, <2>1, TurnsStay
    <2>3. PICK n : n = Nth(active, (turn - 1) % count) /\ n \in active
      BY <2>1, <2>2
    <2>4. components = GridHypothesis(policy.hypotheses[n], context, turn, fraction)
      BY <1>3, <2>3 DEF GridComponents, count, turn
    <2>5. \/ components = NoProposal /\ AsksTooMuch(policy.hypotheses[n], context, 0)
          \/ Answers(policy, policy.hypotheses[n], components, context)
      BY <1>1, <1>2, <2>3, <2>4, GridHypothesisFits
    <2>6. Offers(policy, context, components, 0)
      BY <1>3, <2>3, <2>5 DEF Offers, Answers
    <2>7. QED
      BY <2>5, <2>6 DEF Answers
  <1>4. CASE active = {}
    <2>1. /\ number \in Nat /\ number >= 1 /\ DOMAIN policy.families = 1..number
          /\ \A n \in DOMAIN policy.families : policy.families[n] \in Allowed(policy)
      BY AllowedFamilies
    <2> HIDE DEF number
    <2>2. (turn - 1) % number \in Nat /\ (turn - 1) % number < number
      BY <1>1, <2>1, TurnsStay
    <2>3. k \in 1..number
      BY <2>1, <2>2
    <2> HIDE DEF k
    <2>4. family \in Allowed(policy)
      BY <2>1, <2>3
    <2> HIDE DEF family
    <2>5. CASE family = "sustained_cumulative_shock" /\ ~DurationsFit(policy)
      <3>1. components = NoProposal
        BY <1>4, <2>5 DEF GridComponents, family, k, number, turn
      <3>2. Rows < policy.durations.minimum
        <4>1. PICK low : low = policy.durations.minimum /\ low \in Int
          BY DEF PolicyContract, RangeContract
        <4>2. QED
          BY <2>5, <4>1, RowsAssumption DEF DurationsFit
      <3>3. QED
        BY <1>4, <3>1, <3>2 DEF Offers
    <2>6. CASE ~(family = "sustained_cumulative_shock" /\ ~DurationsFit(policy))
      <3>1. PICK component : component = GridComponent(policy, family, turn, fraction)
        OBVIOUS
      <3>2. components = <<component>>
        BY <1>4, <2>6, <3>1 DEF GridComponents, family, k, number, turn
      <3>3. Fashioned(policy, family, component) /\ Placed(component)
        BY <1>1, <1>2, <2>4, <2>6, <3>1, GridComponentFits
      <3>4. Sound(component) /\ InEnvelope(policy, component)
        BY <3>3 DEF Fashioned
      <3>5. Made(policy, components) /\ AllPlaced(components)
        BY <3>2, <3>3, <3>4, SingleIsMade
      <3>6. QED
        BY <1>4, <3>5 DEF Offers
    <2>7. QED
      BY <2>5, <2>6
  <1>5. QED
    BY <1>3, <1>4

\* What is made is a scenario over the dataset that keeps the domain contract.
LEMMA OfferedScenario ==
  ASSUME NEW policy, NEW components, Made(policy, components),
         NEW scenario, scenario = OverTheDataset(components)
  PROVE  /\ scenario = [start |-> 0, end |-> 2 * Rows, components |-> components]
         /\ scenario # NoProposal /\ ScenarioContract(scenario)
  <1>1. components # NoProposal
    BY MadeIsProposed
  <1>2. scenario = [start |-> 0, end |-> 2 * Rows, components |-> components]
    BY <1>1 DEF OverTheDataset
  <1>3. /\ scenario.start = 0 /\ scenario.end = 2 * Rows /\ scenario.components = components
        /\ "start" \in DOMAIN scenario
    BY <1>2
  <1>4. scenario # NoProposal
    <2>1. DOMAIN NoProposal = {}
      BY DEF NoProposal
    <2>2. QED
      BY <1>3, <2>1
  <1>5. 2 * Rows \in Nat
    BY RowsAssumption
  <1>6. /\ scenario.start \in Nat /\ scenario.end \in Nat /\ scenario.start <= scenario.end
    BY <1>3, <1>5
  <1>7. ASSUME NEW n \in DOMAIN scenario.components
        PROVE  /\ ComponentContract(scenario.components[n])
               /\ scenario.start <= scenario.components[n].start
               /\ scenario.components[n].end <= scenario.end
    <2>1. Sound(components[n])
      BY <1>3 DEF Made
    <2>2. components[n].start \in Nat
      BY <2>1 DEF Sound, ComponentContract
    <2>3. 0 <= components[n].start
      BY <2>2
    <2>4. QED
      BY <1>3, <2>1, <2>3 DEF Sound
  <1>8. \E count \in 1..MaxComponents : DOMAIN scenario.components = 1..count
    BY <1>3 DEF Made
  <1>9. \A n, m \in DOMAIN scenario.components :
          scenario.components[n] = scenario.components[m] => n = m
    BY <1>3 DEF Made
  <1>10. ScenarioContract(scenario)
    BY <1>6, <1>7, <1>8, <1>9 DEF ScenarioContract
  <1>11. QED
    BY <1>2, <1>4, <1>10

\* Preflight finds no window to be invalid where every one is placed.
LEMMA PlacedWindowsFit ==
  ASSUME NEW policy, NEW components, Made(policy, components), AllPlaced(components),
         NEW scenario,
         scenario = [start |-> 0, end |-> 2 * Rows, components |-> components], NEW cost
  PROVE  PreflightFault(scenario, cost) # "invalid_window"
  <1> DEFINE fault  == [n \in DOMAIN scenario.components |->
                          ComponentFault(scenario.components[n], scenario, cost)]
             faulty == {n \in DOMAIN fault : fault[n] # NoCode}
  <1>1. /\ scenario.start = 0 /\ scenario.end = 2 * Rows /\ scenario.components = components
    OBVIOUS
  <1>2. /\ Observed(scenario.start) /\ Observed(scenario.end)
        /\ DatePosition(scenario.start) = 0 /\ DatePosition(scenario.end) = Rows
    BY <1>1, DatasetIsObserved
  <1>3. EvaluationRows(scenario) = 0..Rows
    BY <1>2 DEF EvaluationRows
  <1>4. ASSUME NEW n \in DOMAIN components
        PROVE  ComponentFault(components[n], scenario, cost) # "invalid_window"
    <2>1. PICK component : component = components[n]
      OBVIOUS
    <2>2. Placed(component)
      BY <2>1 DEF AllPlaced
    <2>3. CASE component.family = "transaction_cost_multiplier"
      BY <2>1, <2>3 DEF ComponentFault, NoCode
    <2>4. CASE component.family # "transaction_cost_multiplier"
      <3>1. LastRow(component) <= Rows
        BY <2>2, <2>4, RowsAssumption DEF Placed
      <3>2. WindowFits(component, scenario)
        BY <1>3, <2>2, <2>4, <3>1 DEF Placed, WindowFits
      <3>3. ComponentFault(component, scenario, cost) = NoCode
        BY <2>2, <2>4, <3>2 DEF Placed, ComponentFault
      <3>4. QED
        BY <2>1, <3>3 DEF NoCode
    <2>5. QED
      BY <2>3, <2>4
  <1>5. CASE faulty = {}
    BY <1>2, <1>5 DEF PreflightFault, NoCode
  <1>6. CASE faulty # {}
    <2>1. PICK count \in 1..MaxComponents : DOMAIN components = 1..count
      BY DEF Made
    <2>2. count \in Nat /\ faulty \subseteq 1..count
      BY <1>1, <2>1 DEF MaxComponents
    <2>3. Min(faulty) \in faulty
      <3> HIDE DEF faulty
      <3>1. QED
        BY <1>6, <2>2, PlacesHaveEnds
    <2>4. fault[Min(faulty)] # "invalid_window"
      BY <1>1, <1>4, <2>3
    <2>5. PreflightFault(scenario, cost) \in {"invalid_parameter", fault[Min(faulty)]}
      BY <1>2, <1>6 DEF PreflightFault
    <2>6. QED
      BY <2>4, <2>5
  <1>7. QED
    BY <1>5, <1>6

\* Of what is made the policy refuses friction that cannot apply, and nothing else.
LEMMA RefusedIsVoid ==
  ASSUME NEW policy, NEW context, context.cost \in Nat,
         NEW components, Made(policy, components),
         Active(policy, context.kind) # {} =>
           \E n \in Active(policy, context.kind) :
             Answers(policy, policy.hypotheses[n], components, context),
         NEW scenario,
         scenario = [start |-> 0, end |-> 2 * Rows, components |-> components],
         ~Admits(policy, scenario, context)
  PROVE  /\ {components[n].family : n \in DOMAIN components} = {"transaction_cost_multiplier"}
         /\ FrictionIsVoid(context, components[1])
  <1>1. scenario.start = 0 /\ scenario.end = 2 * Rows /\ scenario.components = components
    OBVIOUS
  <1>2. \A n \in DOMAIN scenario.components : InEnvelope(policy, scenario.components[n])
    BY <1>1 DEF Made
  <1>3. Active(policy, context.kind) # {}
    BY <1>2 DEF Admits
  <1>4. PICK n \in Active(policy, context.kind) :
          Answers(policy, policy.hypotheses[n], components, context)
    BY <1>3
  <1>5. PICK hypothesis : hypothesis = policy.hypotheses[n]
    OBVIOUS
  <1>6. FitsHypothesis(hypothesis, components, context)
    BY <1>4, <1>5 DEF Answers
  <1>7. Matches(hypothesis, scenario) /\ StructureFits(hypothesis, scenario.components)
    BY <1>1, <1>6 DEF FitsHypothesis, Matches
  <1>8. ~ContextFits(hypothesis, scenario, context)
    BY <1>2, <1>4, <1>5, <1>7 DEF Admits
  <1>9. hypothesis.family = "trading_friction_break"
    BY <1>6, <1>8 DEF FitsHypothesis
  <1>10. DOMAIN components = {1} /\ components[1].family = "transaction_cost_multiplier"
    <2>1. /\ DOMAIN Template(hypothesis) = {1}
          /\ Template(hypothesis)[1] = "transaction_cost_multiplier"
      <3>1. Template(hypothesis) = <<"transaction_cost_multiplier">>
        BY <1>9 DEF Template
      <3>2. QED
        BY <3>1
    <2>2. QED
      BY <1>6, <2>1 DEF FitsHypothesis
  <1>11. /\ Observed(scenario.start) /\ Observed(scenario.end)
         /\ DatePosition(scenario.start) = 0 /\ DatePosition(scenario.end) = Rows
    BY <1>1, DatasetIsObserved
  <1>12. EvaluationRows(scenario) = 0..Rows
    BY <1>11 DEF EvaluationRows
  <1>13. \/ ~(context.cost > 0) \/ ~CostFits(context.cost, components[1])
         \/ ~(\E t \in TradeRows(context.targets) : t \in EvaluationRows(scenario))
    BY <1>1, <1>8, <1>9, <1>11 DEF ContextFits
  <1>14. TradeRows(context.targets) \subseteq EvaluationRows(scenario)
    <2>1. TradeRows(context.targets) \subseteq 1..Rows
      BY DEF TradeRows
    <2>2. 1..Rows \subseteq 0..Rows
      BY RowsAssumption
    <2>3. QED
      BY <1>12, <2>1, <2>2
  <1>15. ~(context.cost > 0) => context.cost = 0
    OBVIOUS
  <1>16. FrictionIsVoid(context, components[1])
    BY <1>13, <1>14, <1>15 DEF FrictionIsVoid
  <1>17. QED
    BY <1>10, <1>16

(***************************************************************************)
(* The request is one of the experiment, and what became of it was decided *)
(* by the policy of the request and by the domain contract.                *)
(***************************************************************************)
RequestIsKnown ==
  /\ request.policy \in Policies /\ request.source \in Sources
  /\ request.context.monthStarts \in Calendars /\ request.context.cost \in Costs

Offer == Proposed(request.policy, request.context, request.source)

OfferInvariant ==
  /\ verdict # "idle" => RequestIsKnown
  /\ verdict \in {"proposed", "admitted", "refused"} =>
       proposal = Offer /\ Offer # NoProposal
  /\ verdict = "raised" => ~(Offer # NoProposal /\ ScenarioContract(Offer))
  /\ verdict = "refused" => ~Admits(request.policy, proposal, request.context)

LEMMA OfferInit == EngineInit => OfferInvariant
  <1>1. CASE ProposalIdle
    BY <1>1 DEF ProposalIdle, OfferInvariant
  <1>2. CASE ProposalInit
    BY <1>2 DEF ProposalInit, OfferInvariant, RequestIsKnown
  <1>3. QED
    BY <1>1, <1>2 DEF EngineInit

LEMMA OfferStep ==
  ASSUME OfferInvariant, [EngineNext]_engineVars
  PROVE  OfferInvariant'
  <1>1. CASE UNCHANGED proposalVars
    BY <1>1 DEF proposalVars, OfferInvariant, RequestIsKnown, Offer
  <1>2. CASE Propose
    BY <1>2 DEF Propose, OfferInvariant, RequestIsKnown, Offer
  <1>3. CASE Admit
    BY <1>3 DEF Admit, OfferInvariant, RequestIsKnown, Offer
  <1>4. CASE Refuse
    BY <1>4 DEF Refuse, OfferInvariant, RequestIsKnown, Offer
  <1>5. QED
    BY <1>1, <1>2, <1>3, <1>4 DEF EngineNext, ProposalNext, engineVars

\* A proposer that asks too much has a dataset that is too short.
LEMMA NothingIsOffered ==
  ASSUME NEW policy, NEW context, NEW source, NEW before,
         before = (IF source.by = "client" THEN 1 ELSE 0),
         IF Active(policy, context.kind) # {}
         THEN \E n \in Active(policy, context.kind) :
                AsksTooMuch(policy.hypotheses[n], context, before)
         ELSE Rows < policy.durations.minimum
  PROVE  DatasetIsTooShort(policy, context, source)
  BY DEF AsksTooMuch, DatasetIsTooShort, InflationNeeds

(***************************************************************************)
(* The deterministic proposers waste no slot and end no run without need,  *)
(* whatever the policy, the calendar and the place in the budget: they     *)
(* round to values inside the ranges, and to rows inside the dataset       *)
(* (attack.py, DeterministicOfflineProposer; offline.py,                   *)
(* DeterministicOfflineScenarioClient).                                    *)
(***************************************************************************)
THEOREM OfflineProposalsAlwaysFit == EngineSpec => []OfflineProposalsFit
  <1>1. OfferInvariant => OfflineProposalsFit
    <2> SUFFICES ASSUME OfferInvariant, verdict # "idle",
                        request.source.by \in {"client", "grid"}
                 PROVE  OfflineProposalsFit
      BY DEF OfflineProposalsFit
    <2>1. PICK policy, context, source :
            policy = request.policy /\ context = request.context /\ source = request.source
      OBVIOUS
    <2>2. /\ PolicyContract(policy) /\ SourceContract(source)
          /\ context.monthStarts \subseteq 1..Rows /\ context.cost \in Nat
      <3>1. RequestIsKnown
        BY DEF OfferInvariant
      <3>2. PolicyContract(policy)
        BY <2>1, <3>1, PolicyAssumption DEF RequestIsKnown
      <3>3. SourceContract(source) /\ context.monthStarts \subseteq 1..Rows
        BY <2>1, <3>1, SourceAssumption DEF RequestIsKnown
      <3>4. context.cost \in Nat
        <4>1. context.cost \in 0..CostLimit /\ CostLimit \in Nat
          BY <2>1, <3>1, StressAssumption DEF RequestIsKnown
        <4>2. QED
          BY <4>1
      <3>5. QED
        BY <3>2, <3>3, <3>4
    <2>3. PICK before : before = IF source.by = "client" THEN 1 ELSE 0
      OBVIOUS
    <2>4. PICK components :
            /\ Offer = OverTheDataset(components)
            /\ Offers(policy, context, components, before)
            /\ components # NoProposal =>
                 AllPlaced(components) \/ RegimeIsTooShort(policy, context, source)
            /\ components # NoProposal /\ source.by = "client" =>
                 LeavesTheFirstRow(components, context)
      <3>1. CASE source.by = "client"
        <4>1. PICK components : components = ClientComponents(policy, context, source)
          OBVIOUS
        <4>2. Offer = OverTheDataset(components)
          BY <2>1, <3>1, <4>1 DEF Offer, Proposed
        <4>3. /\ Offers(policy, context, components, 1)
              /\ components # NoProposal =>
                   /\ AllPlaced(components) \/ RegimeIsTooShort(policy, context, source)
                   /\ LeavesTheFirstRow(components, context)
          BY <2>2, <3>1, <4>1, ClientOffers
        <4>4. QED
          BY <2>3, <3>1, <4>2, <4>3
      <3>2. CASE source.by = "grid"
        <4>1. PICK components : components = GridComponents(policy, context, source)
          OBVIOUS
        <4>2. Offer = OverTheDataset(components)
          BY <2>1, <3>2, <4>1 DEF Offer, Proposed
        <4>3. /\ Offers(policy, context, components, 0)
              /\ components # NoProposal => AllPlaced(components)
          BY <2>2, <3>2, <4>1, GridOffers
        <4>4. QED
          BY <2>3, <3>2, <4>2, <4>3
      <3>3. QED
        BY <2>1, <3>1, <3>2
    <2>5. CASE Made(policy, components)
      <3>1. /\ Offer = [start |-> 0, end |-> 2 * Rows, components |-> components]
            /\ Offer # NoProposal /\ ScenarioContract(Offer)
        BY <2>4, <2>5, OfferedScenario
      <3>2. components # NoProposal
        BY <2>5, MadeIsProposed
      <3>3. Active(policy, context.kind) # {} =>
              \E n \in Active(policy, context.kind) :
                Answers(policy, policy.hypotheses[n], components, context)
        BY <2>4, <3>2 DEF Offers
      <3>4. verdict # "raised"
        BY <3>1 DEF OfferInvariant
      <3>5. ASSUME verdict \in {"proposed", "admitted", "refused"}
            PROVE  /\ proposal = [start |-> 0, end |-> 2 * Rows, components |-> components]
                   /\ proposal.components = components
        BY <3>1, <3>5 DEF OfferInvariant
      <3>6. ASSUME verdict = "refused"
            PROVE  /\ Families = {"transaction_cost_multiplier"}
                   /\ FrictionIsVoid(context, proposal.components[1])
        <4>1. ~Admits(policy, proposal, context)
          BY <2>1, <3>6 DEF OfferInvariant
        <4>2. /\ {components[n].family : n \in DOMAIN components}
                   = {"transaction_cost_multiplier"}
              /\ FrictionIsVoid(context, components[1])
          BY <2>2, <2>5, <3>3, <3>5, <3>6, <4>1, RefusedIsVoid
        <4>3. QED
          BY <3>5, <3>6, <4>2 DEF Families
      <3>7. ASSUME verdict = "admitted"
            PROVE  \/ PreflightFault(proposal, context.cost) # "invalid_window"
                   \/ RegimeIsTooShort(policy, context, source)
        <4>1. CASE AllPlaced(components)
          BY <2>5, <3>5, <3>7, <4>1, PlacedWindowsFit
        <4>2. QED
          BY <2>4, <3>2, <4>1
      <3>8. ASSUME verdict \in {"proposed", "admitted"}, source.by = "client"
            PROVE  \A n \in DOMAIN proposal.components :
                     \/ FirstRow(proposal.components[n]) > 0
                     \/ proposal.components[n].family = "transaction_cost_multiplier"
                     \/ proposal.components[n].family = "one_day_gap"
                          /\ 3 \in context.monthStarts
        BY <2>4, <3>2, <3>5, <3>8 DEF LeavesTheFirstRow
      <3>9. QED
        BY <2>1, <3>4, <3>6, <3>7, <3>8 DEF OfflineProposalsFit
    <2>6. CASE ~Made(policy, components)
      <3>1. /\ components = NoProposal
            /\ IF Active(policy, context.kind) # {}
               THEN \E n \in Active(policy, context.kind) :
                      AsksTooMuch(policy.hypotheses[n], context, before)
               ELSE Rows < policy.durations.minimum
        BY <2>4, <2>6 DEF Offers
      <3>2. DatasetIsTooShort(policy, context, source)
        BY <2>3, <3>1, NothingIsOffered
      <3>3. Offer = NoProposal
        BY <2>4, <3>1 DEF OverTheDataset
      <3>4. verdict \notin {"proposed", "admitted", "refused"}
        BY <3>3 DEF OfferInvariant
      <3>5. QED
        BY <2>1, <3>2, <3>4 DEF OfflineProposalsFit
    <2>7. QED
      BY <2>5, <2>6
  <1>2. QED
    BY <1>1, OfferInit, OfferStep, PTL DEF EngineSpec

-----------------------------------------------------------------------------
(***************************************************************************)
(* Lists of integers, and their greatest and least elements.               *)
(***************************************************************************)

\* A function of the first n numbers is a list of n elements.
LEMMA ListType ==
  ASSUME NEW n \in Nat, NEW S, NEW f \in [1..n -> S]
  PROVE  f \in Seq(S) /\ Len(f) = n /\ DOMAIN f = 1..n
  <1>1. f \in Seq(S)
    BY SeqDef
  <1>2. Len(f) \in Nat /\ DOMAIN f = 1..Len(f)
    BY <1>1
  <1>3. 1..Len(f) = 1..n
    BY <1>2
  <1>4. QED
    BY <1>1, <1>2, <1>3

\* So are the extremes of the values of a function.
LEMMA ValuesHaveExtremes ==
  ASSUME NEW S, IsFiniteSet(S), S # {}, NEW f \in [S -> Int]
  PROVE  /\ Max(Range(f)) \in Int /\ Min(Range(f)) \in Int
         /\ \A x \in S : f[x] <= Max(Range(f)) /\ Min(Range(f)) <= f[x]
         /\ \E x \in S : f[x] = Max(Range(f))
         /\ \E x \in S : f[x] = Min(Range(f))
  <1>1. Range(f) = {f[x] : x \in S}
    BY DEF Range
  <1>2. IsFiniteSet(Range(f)) /\ Range(f) \subseteq Int /\ Range(f) # {}
    BY <1>1, FiniteImages
  <1>3. /\ Max(Range(f)) \in Range(f) /\ \A y \in Range(f) : y <= Max(Range(f))
        /\ Min(Range(f)) \in Range(f) /\ \A y \in Range(f) : Min(Range(f)) <= y
    BY <1>2, Extremes
  <1>4. \A x \in S : f[x] \in Range(f)
    BY <1>1
  <1>5. QED
    BY <1>1, <1>2, <1>3, <1>4

\* The greatest of zero and some values, as of a running high.
LEMMA HighOfValues ==
  ASSUME NEW S, IsFiniteSet(S), NEW f, \A x \in S : f[x] \in Int
  PROVE  \E high \in Nat :
           /\ high = Max({0} \cup {f[x] : x \in S})
           /\ \A x \in S : f[x] <= high
           /\ high = 0 \/ \E x \in S : f[x] = high
  <1> DEFINE T == {f[x] : x \in S}
  <1>1. IsFiniteSet(T)
    BY FiniteImages
  <1>2. IsFiniteSet({0} \cup T)
    BY <1>1, FS_Singleton, FS_Union
  <1>3. {0} \cup T \subseteq Int /\ {0} \cup T # {}
    OBVIOUS
  <1>4. /\ Max({0} \cup T) \in {0} \cup T
        /\ \A y \in {0} \cup T : y <= Max({0} \cup T)
    <2> HIDE DEF T
    <2>1. QED
      BY <1>2, <1>3, Extremes
  <1>5. QED
    BY <1>4

-----------------------------------------------------------------------------
(***************************************************************************)
(* The replay, the arrays of a window and its ranking figures are numbers. *)
(***************************************************************************)

\* Equity is known, and a position held or not, on every row.
LEMMA ReplayType ==
  ASSUME NEW days \in [1..Rows -> Positions]
  PROVE  Replay(days).equity \in [0..Rows -> Int]
  <1> DEFINE targets == [t \in 0..Rows |-> t < Rows /\ days[t + 1] # Cash]
             gross   == [t \in 1..Rows |-> IF days[t] = Cash THEN 0 ELSE days[t]]
             returns == PortfolioReturns(gross, targets, ExitCost)
  <1>1. gross \in [1..Rows -> Int]
    BY ScanAssumption
  <1>2. returns \in [1..Rows -> Int]
    <2> HIDE DEF gross, targets
    <2>1. DOMAIN gross = 1..Rows /\ \A t \in 1..Rows : gross[t] \in Int
      BY <1>1
    <2>2. ExitCost \in Int
      BY ScanAssumption
    <2>3. QED
      BY <2>1, <2>2 DEF PortfolioReturns
  <1>3. Rows \in Nat
    BY RowsAssumption
  <1>4. {0} \cup DOMAIN returns = 0..Rows
    <2> HIDE DEF returns
    <2>1. QED
      BY <1>2, <1>3
  <1>5. \A t \in 0..Rows : SumFunctionOnSet(returns, 1..t) \in Int
    <2> HIDE DEF returns
    <2> SUFFICES ASSUME NEW t \in 0..Rows
                 PROVE  SumFunctionOnSet(returns, 1..t) \in Int
      OBVIOUS
    <2>1. IsFiniteSet(1..t)
      BY <1>3, FS_Interval
    <2>2. \A u \in 1..t : returns[u] \in Int
      BY <1>2, <1>3
    <2>3. QED
      BY <2>1, <2>2, SumType
  <1>6. Replay(days).equity = EquityCurve(returns)
    BY DEF Replay
  <1>7. QED
    BY <1>4, <1>5, <1>6 DEF EquityCurve

\* An experiment has one to three rules.
LEMMA RulesAreFinite ==
  ASSUME NEW failureRules, FailureRuleContract(failureRules)
  PROVE  IsFiniteSet(failureRules)
  <1> DEFINE f == [rule \in failureRules |-> rule.family]
  <1>1. f \in Injection(failureRules, FailureRuleFamilies)
    BY DEF FailureRuleContract, Injection, IsInjective
  <1>2. IsFiniteSet(FailureRuleFamilies)
    <2>1. IsFiniteSet({"maximum_drawdown"})
      BY FS_Singleton
    <2>2. IsFiniteSet({"maximum_drawdown"} \cup {"rolling_20_day_loss"})
      BY <2>1, FS_AddElement
    <2>3. IsFiniteSet(({"maximum_drawdown"} \cup {"rolling_20_day_loss"})
                        \cup {"realized_volatility_multiple"})
      BY <2>2, FS_AddElement
    <2>4. FailureRuleFamilies = ({"maximum_drawdown"} \cup {"rolling_20_day_loss"})
                                  \cup {"realized_volatility_multiple"}
      BY DEF FailureRuleFamilies
    <2>5. QED
      BY <2>3, <2>4
  <1>3. QED
    BY <1>1, <1>2, FS_Injection

\* Windows in which the scan can look for a failure.
IsSpan(first, last) ==
  first \in 1..Rows /\ last \in 1..Rows /\ last - first + 1 >= WindowRows

\* Earnings of a window.
LEMMA WealthType ==
  ASSUME NEW e \in [0..Rows -> Int], NEW first, NEW last, first \in 1..Rows, last \in 1..Rows
  PROVE  last - first + 1 \in Nat =>
           /\ WindowWealth(e, first, last) \in [1..(last - first + 1) -> Int]
           /\ Len(WindowWealth(e, first, last)) = last - first + 1
           /\ DOMAIN WindowWealth(e, first, last) = 1..(last - first + 1)
  <1> SUFFICES ASSUME last - first + 1 \in Nat
               PROVE  /\ WindowWealth(e, first, last) \in [1..(last - first + 1) -> Int]
                      /\ Len(WindowWealth(e, first, last)) = last - first + 1
                      /\ DOMAIN WindowWealth(e, first, last) = 1..(last - first + 1)
    OBVIOUS
  <1>1. first \in Nat /\ last \in Nat /\ first >= 1 /\ last <= Rows /\ Rows \in Nat
    BY RowsAssumption
  <1>2. \A k \in 1..(last - first + 1) : first + k - 1 \in 0..Rows /\ first - 1 \in 0..Rows
    BY <1>1
  <1>3. WindowWealth(e, first, last) \in [1..(last - first + 1) -> Int]
    <2>1. \A k \in 1..(last - first + 1) : e[first + k - 1] - e[first - 1] \in Int
      <3> SUFFICES ASSUME NEW k \in 1..(last - first + 1)
                   PROVE  e[first + k - 1] - e[first - 1] \in Int
        OBVIOUS
      <3>1. e[first + k - 1] \in Int /\ e[first - 1] \in Int
        BY <1>2
      <3>2. QED
        BY <3>1
    <2>2. QED
      BY <2>1 DEF WindowWealth
  <1>4. QED
    BY <1>3, ListType

\* A drawdown is what is lost of a running high.
LEMMA DrawdownType ==
  ASSUME NEW n \in Nat, NEW wealth \in [1..n -> Int]
  PROVE  /\ WindowDrawdowns(wealth) \in [1..n -> Nat]
         /\ \A k \in 1..n : \E high \in Nat :
              /\ high = Max({0} \cup {wealth[j] : j \in 1..k})
              /\ WindowDrawdowns(wealth)[k] = high - wealth[k]
              /\ \A j \in 1..k : wealth[j] <= high
              /\ high = 0 \/ \E j \in 1..k : wealth[j] = high
  <1>1. ASSUME NEW k \in 1..n
        PROVE  \E high \in Nat :
                 /\ high = Max({0} \cup {wealth[j] : j \in 1..k})
                 /\ WindowDrawdowns(wealth)[k] = high - wealth[k]
                 /\ \A j \in 1..k : wealth[j] <= high
                 /\ high = 0 \/ \E j \in 1..k : wealth[j] = high
    <2>1. IsFiniteSet(1..k) /\ \A j \in 1..k : wealth[j] \in Int
      BY FS_Interval
    <2>2. PICK high \in Nat :
            /\ high = Max({0} \cup {wealth[j] : j \in 1..k})
            /\ \A j \in 1..k : wealth[j] <= high
            /\ high = 0 \/ \E j \in 1..k : wealth[j] = high
      BY <2>1, HighOfValues
    <2>3. WindowDrawdowns(wealth)[k] = Max({0} \cup {wealth[j] : j \in 1..k}) - wealth[k]
      BY DEF WindowDrawdowns
    <2>4. QED
      BY <2>2, <2>3
  <1>2. \A k \in 1..n : WindowDrawdowns(wealth)[k] \in Nat
    <2> SUFFICES ASSUME NEW k \in 1..n PROVE WindowDrawdowns(wealth)[k] \in Nat
      OBVIOUS
    <2>1. PICK high \in Nat : /\ WindowDrawdowns(wealth)[k] = high - wealth[k]
                              /\ \A j \in 1..k : wealth[j] <= high
      BY <1>1
    <2>2. wealth[k] \in Int /\ wealth[k] <= high
      BY <2>1
    <2>3. QED
      BY <2>1, <2>2
  <1>3. DOMAIN WindowDrawdowns(wealth) = 1..n
    BY DEF WindowDrawdowns
  <1>4. WindowDrawdowns(wealth) = [k \in 1..n |-> WindowDrawdowns(wealth)[k]]
    BY DEF WindowDrawdowns
  <1>5. QED
    BY <1>1, <1>2, <1>4

\* The rolling windows inside.
LEMMA RollingType ==
  ASSUME NEW n \in Nat, n >= WindowRows, NEW wealth \in [1..n -> Int]
  PROVE  /\ n - WindowRows + 1 \in Nat \ {0}
         /\ RollingCompounded(wealth) \in [1..(n - WindowRows + 1) -> Int]
  <1>1. WindowRows \in Nat /\ WindowRows >= 2
    BY RowsAssumption
  <1>2. Len(wealth) = n
    BY ListType
  <1>3. \A k \in 1..(n - WindowRows + 1) :
          /\ k + WindowRows - 1 \in 1..n
          /\ k # 1 => k - 1 \in 1..n
    BY <1>1
  <1>4. \A k \in 1..(n - WindowRows + 1) :
          wealth[k + WindowRows - 1] - (IF k = 1 THEN 0 ELSE wealth[k - 1]) \in Int
    BY <1>3
  <1>5. QED
    BY <1>1, <1>2, <1>4 DEF RollingCompounded

\* An excess over a threshold.
LEMMA ExcessType ==
  ASSUME NEW failureRules, FailureRuleContract(failureRules), NEW rule \in failureRules,
         NEW deepest \in Int, NEW rolling \in Int, NEW evaluable \in BOOLEAN
  PROVE  Excess(rule, deepest, rolling, evaluable) \in Nat
  <1>1. rule.threshold \in Nat
    BY DEF FailureRuleContract
  <1>2. QED
    BY <1>1 DEF Excess, SameVolatility

Figures == Int \X Int \X Int \X Int

\* A candidate is the window it is made for, with figures to rank it by.
LEMMA CandidateType ==
  ASSUME NEW e \in [0..Rows -> Int],
         NEW failureRules, FailureRuleContract(failureRules),
         NEW first, NEW last, IsSpan(first, last)
  PROVE  /\ Candidate(e, failureRules, first, last).start = first
         /\ Candidate(e, failureRules, first, last).end = last
         /\ Candidate(e, failureRules, first, last).severity \in Figures
  <1> DEFINE n         == last - first + 1
             wealth    == WindowWealth(e, first, last)
             deepest   == Max(Range(WindowDrawdowns(wealth)))
             rolling   == Min(Range(RollingCompounded(wealth)))
             evaluable == VolatilityEvaluable(e, first, wealth) # {}
             excess    == [rule \in failureRules |-> Excess(rule, deepest, rolling, evaluable)]
             worst     == Max({deepest, 0, -wealth[Len(wealth)], -rolling})
  <1>1. Candidate(e, failureRules, first, last) =
          [start |-> first, end |-> last,
           severity |-> <<Cardinality({rule \in failureRules : excess[rule] > 0}),
                          Max(Range(excess)), SumFunction(excess), worst>>]
    BY DEF Candidate
  <1>2. n \in Nat /\ n >= WindowRows /\ n >= 1
    BY RowsAssumption DEF IsSpan
  <1>3. wealth \in [1..n -> Int] /\ Len(wealth) = n
    BY <1>2, WealthType DEF IsSpan
  <1>4. deepest \in Int
    <2>1. WindowDrawdowns(wealth) \in [1..n -> Int]
      BY <1>2, <1>3, DrawdownType
    <2>2. IsFiniteSet(1..n) /\ 1..n # {}
      BY <1>2, FS_Interval
    <2>3. QED
      BY <2>1, <2>2, ValuesHaveExtremes
  <1>5. rolling \in Int
    <2> DEFINE m == n - WindowRows + 1
    <2>1. m \in Nat /\ m >= 1 /\ RollingCompounded(wealth) \in [1..m -> Int]
      BY <1>2, <1>3, RollingType
    <2>2. IsFiniteSet(1..m) /\ 1..m # {}
      BY <2>1, FS_Interval
    <2>3. QED
      BY <2>1, <2>2, ValuesHaveExtremes
  <1>6. evaluable \in BOOLEAN
    OBVIOUS
  <1> HIDE DEF n, wealth, deepest, rolling, evaluable
  <1>7. excess \in [failureRules -> Int]
    BY <1>4, <1>5, <1>6, ExcessType
  <1>8. IsFiniteSet(failureRules) /\ failureRules # {}
    BY RulesAreFinite DEF FailureRuleContract
  <1>9. worst \in Int
    <2> DEFINE loss == -wealth[Len(wealth)]
               fall == -rolling
    <2>1. loss \in Int /\ fall \in Int
      BY <1>2, <1>3, <1>5
    <2> HIDE DEF loss, fall
    <2>2. \E x \in {deepest, 0, loss, fall} : \A y \in {deepest, 0, loss, fall} : x >= y
      BY <1>4, <2>1
    <2>3. Max({deepest, 0, loss, fall}) \in {deepest, 0, loss, fall}
      BY <2>2 DEF Max
    <2>4. Max({deepest, 0, loss, fall}) \in Int
      BY <1>4, <2>1, <2>3
    <2>5. QED
      BY <2>4 DEF loss, fall
  <1> HIDE DEF excess, worst
  <1>10. Max(Range(excess)) \in Int
    BY <1>7, <1>8, ValuesHaveExtremes
  <1>11. SumFunction(excess) \in Int
    <2>1. DOMAIN excess = failureRules /\ \A rule \in failureRules : excess[rule] \in Int
      BY <1>7
    <2>2. SumFunctionOnSet(excess, failureRules) \in Int
      BY <1>8, <2>1, SumType
    <2>3. QED
      BY <2>1, <2>2 DEF SumFunction
  <1>12. Cardinality({rule \in failureRules : excess[rule] > 0}) \in Int
    <2>1. IsFiniteSet({rule \in failureRules : excess[rule] > 0})
      BY <1>8, FS_Subset
    <2>2. QED
      BY <2>1, FS_CardinalityType
  <1>13. QED
    BY <1>1, <1>9, <1>10, <1>11, <1>12 DEF Figures
-----------------------------------------------------------------------------
(***************************************************************************)
(* Windows in chronological order, in order of severity, and in stretches  *)
(* that overlap.                                                           *)
(***************************************************************************)

\* The elements of a totally ordered set include one before all others.
LEMMA OneComesFirst ==
  ASSUME NEW R, NEW S, IsFiniteSet(S), TotallyOrders(R, S), S # {}
  PROVE  \E x \in S : \A y \in S : y # x => <<x, y>> \in R
  <1>1. Cardinality(S) \in Nat /\ Cardinality(S) # 0
    BY FS_CardinalityType, FS_EmptySet
  <1>2. \A n \in 1..Cardinality(S) : \E x \in S : Place(R, S, x) = n
    BY PlacesAreTaken
  <1>3. PICK x \in S : Place(R, S, x) = 1
    BY <1>1, <1>2
  <1>4. \A y \in S : Place(R, S, y) \in 1..Cardinality(S)
    BY PlaceType
  <1>5. \A y \in S : <<y, x>> \in R => Place(R, S, y) < Place(R, S, x)
    BY PlacesIncrease
  <1>6. \A y \in S : <<y, x>> \notin R
    BY <1>1, <1>3, <1>4, <1>5
  <1>7. QED
    BY <1>6 DEF TotallyOrders

\* Finitely many windows, each with a start, an end and figures, and no two of
\* the same rows.
WellFormed(windows) ==
  /\ IsFiniteSet(windows)
  /\ \A c \in windows : /\ c.start \in Nat \ {0} /\ c.end \in Nat /\ c.start <= c.end
                        /\ c.severity \in Figures
  /\ \A c, d \in windows : c.start = d.start /\ c.end = d.end => c = d

\* The candidates of a length are windows of it.
LEMMA FrameType ==
  ASSUME NEW e \in [0..Rows -> Int],
         NEW failureRules, FailureRuleContract(failureRules),
         NEW windowRows \in Nat, windowRows >= WindowRows,
         NEW c \in CandidateFrame(e, failureRules, windowRows)
  PROVE  /\ IsSpan(c.start, c.end)
         /\ c = Candidate(e, failureRules, c.start, c.end)
         /\ c.severity \in Figures
         /\ c.end - c.start + 1 = windowRows
         /\ BreachCount(c) > 0
  <1>1. PICK first \in 1..(Rows - windowRows + 1) :
          c = Candidate(e, failureRules, first, first + windowRows - 1)
    BY DEF CandidateFrame
  <1> DEFINE last == first + windowRows - 1
  <1>2. IsSpan(first, last) /\ last - first + 1 = windowRows
    BY RowsAssumption DEF IsSpan
  <1> HIDE DEF last
  <1>3. c = Candidate(e, failureRules, first, last)
    BY <1>1 DEF last
  <1>4. c.start = first /\ c.end = last /\ c.severity \in Figures
    BY <1>2, <1>3, CandidateType
  <1>5. QED
    BY <1>2, <1>3, <1>4 DEF CandidateFrame

\* All windows of all lengths that fail are well formed.
LEMMA FailingWindowsType ==
  ASSUME baseline.equity \in [0..Rows -> Int], FailureRuleContract(rules)
  PROVE  /\ WellFormed(FailingWindows)
         /\ \A c \in FailingWindows : /\ IsSpan(c.start, c.end) /\ BreachCount(c) > 0
                                      /\ c = Candidate(baseline.equity, rules, c.start, c.end)
  <1> DEFINE W == FailingWindows
             P == (1..Rows) \X (1..Rows)
             f == [p \in P |-> Candidate(baseline.equity, rules, p[1], p[2])]
  <1>1. \A c \in W : /\ IsSpan(c.start, c.end) /\ BreachCount(c) > 0 /\ c.severity \in Figures
                     /\ c = Candidate(baseline.equity, rules, c.start, c.end)
    <2> SUFFICES ASSUME NEW c \in W
                 PROVE  /\ IsSpan(c.start, c.end) /\ BreachCount(c) > 0
                        /\ c.severity \in Figures
                        /\ c = Candidate(baseline.equity, rules, c.start, c.end)
      OBVIOUS
    <2>1. PICK windowRows \in WindowRows..Rows :
            c \in CandidateFrame(baseline.equity, rules, windowRows)
      BY DEF FailingWindows
    <2>2. windowRows \in Nat /\ windowRows >= WindowRows
      BY RowsAssumption
    <2>3. QED
      BY <2>1, <2>2, FrameType
  <1> HIDE DEF W
  <1>2. IsFiniteSet(W)
    <2>1. IsFiniteSet(1..Rows)
      BY RowsAssumption, FS_Interval
    <2>2. IsFiniteSet(P)
      BY <2>1, FS_Product
    <2>3. IsFiniteSet({f[p] : p \in P})
      <3> HIDE DEF f, P
      <3>1. QED
        BY <2>2, FiniteImages
    <2>4. W \subseteq {f[p] : p \in P}
      <3> SUFFICES ASSUME NEW c \in W PROVE c \in {f[p] : p \in P}
        OBVIOUS
      <3>1. <<c.start, c.end>> \in P
        BY <1>1 DEF IsSpan
      <3>2. f[<<c.start, c.end>>] = c
        BY <1>1, <3>1
      <3>3. QED
        BY <3>1, <3>2
    <2>5. QED
      BY <2>3, <2>4, FS_Subset
  <1>3. \A c \in W : c.start \in Nat \ {0} /\ c.end \in Nat /\ c.start <= c.end
    BY <1>1, RowsAssumption DEF IsSpan
  <1>4. \A c, d \in W : c.start = d.start /\ c.end = d.end => c = d
    <2> SUFFICES ASSUME NEW c \in W, NEW d \in W, c.start = d.start, c.end = d.end
                 PROVE  c = d
      OBVIOUS
    <2>1. /\ c = Candidate(baseline.equity, rules, c.start, c.end)
          /\ d = Candidate(baseline.equity, rules, d.start, d.end)
      BY <1>1
    <2>2. Candidate(baseline.equity, rules, c.start, c.end)
            = Candidate(baseline.equity, rules, d.start, d.end)
      OBVIOUS
    <2>3. QED
      BY <2>1, <2>2
  <1>5. WellFormed(W)
    BY <1>1, <1>2, <1>3, <1>4 DEF WellFormed
  <1>6. QED
    BY <1>1, <1>5 DEF W

\* So is every set of some of them.
LEMMA SomeAreWellFormed ==
  ASSUME NEW windows, WellFormed(windows), NEW some, some \subseteq windows
  PROVE  WellFormed(some)
  <1>1. IsFiniteSet(some)
    BY FS_Subset DEF WellFormed
  <1>2. QED
    BY <1>1 DEF WellFormed

Chronology(windows) == {p \in windows \X windows : Earlier(p[1], p[2])}

\* Windows begin in an order, and end in one if they begin alike.
LEMMA ChronologyIsTotal ==
  ASSUME NEW windows, WellFormed(windows)
  PROVE  TotallyOrders(Chronology(windows), windows)
  <1>1. \A c, d \in windows : <<c, d>> \in Chronology(windows) <=> Earlier(c, d)
    BY DEF Chronology
  <1>2. \A c \in windows : c.start \in Nat /\ c.end \in Nat
    BY DEF WellFormed
  <1>3. \A c \in windows : ~Earlier(c, c)
    BY <1>2 DEF Earlier
  <1>4. \A c, d \in windows : c # d => Earlier(c, d) \/ Earlier(d, c)
    BY <1>2 DEF Earlier, WellFormed
  <1>5. \A c, d, f \in windows : Earlier(c, d) /\ Earlier(d, f) => Earlier(c, f)
    BY <1>2 DEF Earlier
  <1>6. QED
    BY <1>1, <1>3, <1>4, <1>5 DEF TotallyOrders

\* KeyExceeds, its four cases spelt out.
LEMMA FiguresExceed ==
  ASSUME NEW k \in Figures, NEW l \in Figures
  PROVE  Severity!KeyExceeds(k, l) <=>
           \/ k[1] > l[1]
           \/ k[1] = l[1] /\ k[2] > l[2]
           \/ k[1] = l[1] /\ k[2] = l[2] /\ k[3] > l[3]
           \/ k[1] = l[1] /\ k[2] = l[2] /\ k[3] = l[3] /\ k[4] > l[4]
  <1> DEFINE At(n) == k[n] > l[n] /\ \A m \in 1..(n - 1) : k[m] = l[m]
  <1>1. Severity!KeyExceeds(k, l) <=> At(1) \/ At(2) \/ At(3) \/ At(4)
    <2>1. \A n \in 1..4 : n = 1 \/ n = 2 \/ n = 3 \/ n = 4
      OBVIOUS
    <2>2. Severity!KeyExceeds(k, l) <=> \E n \in 1..4 : At(n)
      BY DEF Severity!KeyExceeds
    <2> HIDE DEF At
    <2>3. QED
      BY <2>1, <2>2
  <1>2. At(1) <=> k[1] > l[1]
    OBVIOUS
  <1>3. At(2) <=> k[1] = l[1] /\ k[2] > l[2]
    OBVIOUS
  <1>4. At(3) <=> k[1] = l[1] /\ k[2] = l[2] /\ k[3] > l[3]
    OBVIOUS
  <1>5. At(4) <=> k[1] = l[1] /\ k[2] = l[2] /\ k[3] = l[3] /\ k[4] > l[4]
    OBVIOUS
  <1> HIDE DEF At
  <1>6. QED
    BY <1>1, <1>2, <1>3, <1>4, <1>5

\* Figures are totally ordered.
LEMMA FiguresOrdered ==
  ASSUME NEW k \in Figures, NEW l \in Figures, NEW m \in Figures
  PROVE  /\ ~Severity!KeyExceeds(k, k)
         /\ k # l => Severity!KeyExceeds(k, l) \/ Severity!KeyExceeds(l, k)
         /\ Severity!KeyExceeds(k, l) /\ Severity!KeyExceeds(l, m) => Severity!KeyExceeds(k, m)
  <1>1. /\ k[1] \in Int /\ k[2] \in Int /\ k[3] \in Int /\ k[4] \in Int
        /\ l[1] \in Int /\ l[2] \in Int /\ l[3] \in Int /\ l[4] \in Int
        /\ m[1] \in Int /\ m[2] \in Int /\ m[3] \in Int /\ m[4] \in Int
    BY DEF Figures
  <1>2. ~Severity!KeyExceeds(k, k)
    BY <1>1, FiguresExceed
  <1>3. k # l => Severity!KeyExceeds(k, l) \/ Severity!KeyExceeds(l, k)
    <2>1. k = l <=> k[1] = l[1] /\ k[2] = l[2] /\ k[3] = l[3] /\ k[4] = l[4]
      BY DEF Figures
    <2>2. QED
      BY <1>1, <2>1, FiguresExceed
  <1>4. Severity!KeyExceeds(k, l) /\ Severity!KeyExceeds(l, m) => Severity!KeyExceeds(k, m)
    BY <1>1, FiguresExceed
  <1>5. QED
    BY <1>2, <1>3, <1>4

Ranking(windows) == {p \in windows \X windows : RanksBefore(p[1], p[2])}

\* The order of _rank_and_deduplicate is a total one.
LEMMA ScanRankingIsTotal ==
  ASSUME NEW windows, WellFormed(windows)
  PROVE  TotallyOrders(Ranking(windows), windows)
  <1> DEFINE B(c, d) == RanksBefore(c, d)
             Exceeds(c, d) == Severity!KeyExceeds(c.severity, d.severity)
             I(c, d) == IdPrecedes(c, d)
  <1>1. \A c, d \in windows : <<c, d>> \in Ranking(windows) <=> B(c, d)
    BY DEF Ranking
  <1>2. \A c, d \in windows : B(c, d) <=> Exceeds(c, d) \/ (c.severity = d.severity /\ I(c, d))
    BY DEF RanksBefore
  <1>3. \A c, d, f \in windows :
          /\ ~Exceeds(c, c)
          /\ c.severity # d.severity => Exceeds(c, d) \/ Exceeds(d, c)
          /\ Exceeds(c, d) /\ Exceeds(d, f) => Exceeds(c, f)
    BY FiguresOrdered DEF WellFormed
  <1>4. \A c, d, f \in windows :
          /\ ~I(c, c)
          /\ c # d => I(c, d) \/ I(d, c)
          /\ I(c, d) /\ I(d, f) => I(c, f)
    <2>1. \A c \in windows : c.start \in Nat /\ c.end \in Nat
      BY DEF WellFormed
    <2>2. \A c, d \in windows : c # d => c.start # d.start \/ c.end # d.end
      BY DEF WellFormed
    <2>3. QED
      BY <2>1, <2>2 DEF IdPrecedes, WindowLength
  <1>5. \A c, d, f \in windows :
          c.severity = d.severity =>
            /\ Exceeds(c, f) <=> Exceeds(d, f)
            /\ Exceeds(f, c) <=> Exceeds(f, d)
    OBVIOUS
  <1> HIDE DEF B, Exceeds, I
  <1>6. \A c \in windows : ~B(c, c)
    BY <1>2, <1>3, <1>4
  <1>7. \A c, d \in windows : c # d => B(c, d) \/ B(d, c)
    BY <1>2, <1>3, <1>4
  <1>8. \A c, d, f \in windows : B(c, d) /\ B(d, f) => B(c, f)
    BY <1>2, <1>3, <1>4, <1>5
  <1>9. QED
    BY <1>1, <1>6, <1>7, <1>8 DEF TotallyOrders

\* The greatest end of the windows before one.
LEMMA PriorEnds ==
  ASSUME NEW windows, WellFormed(windows), NEW c \in windows
  PROVE  /\ PriorMaximumEnd(windows, c) \in Nat
         /\ \A d \in windows : Earlier(d, c) => d.end <= PriorMaximumEnd(windows, c)
         /\ \/ PriorMaximumEnd(windows, c) = 0
            \/ \E d \in windows : Earlier(d, c) /\ d.end = PriorMaximumEnd(windows, c)
  <1> DEFINE before == {d \in windows : Earlier(d, c)}
             f == [d \in windows |-> d.end]
  <1>1. IsFiniteSet(before) /\ \A d \in before : f[d] \in Int
    <2>1. IsFiniteSet(before)
      BY FS_Subset DEF WellFormed
    <2>2. QED
      BY <2>1 DEF WellFormed
  <1>2. {d.end : d \in before} = {f[d] : d \in before}
    OBVIOUS
  <1>3. PriorMaximumEnd(windows, c) = Max({0} \cup {f[d] : d \in before})
    BY <1>2 DEF PriorMaximumEnd
  <1>4. PICK high \in Nat : /\ high = Max({0} \cup {f[d] : d \in before})
                            /\ \A d \in before : f[d] <= high
                            /\ high = 0 \/ \E d \in before : f[d] = high
    <2> HIDE DEF before, f
    <2>1. QED
      BY <1>1, HighOfValues
  <1>5. QED
    BY <1>3, <1>4

\* A window that begins after all windows before it have ended opens a group.
Opens(windows, d) == d.start > PriorMaximumEnd(windows, d)

Openers(windows, c) == {d \in windows : (d = c \/ Earlier(d, c)) /\ Opens(windows, d)}

\* The first row and the last row of two windows.
LEMMA SpanOfTwo ==
  ASSUME NEW a \in Int, NEW b \in Int
  PROVE  /\ Min({a, b}) = IF a <= b THEN a ELSE b
         /\ Max({a, b}) = IF a <= b THEN b ELSE a
  <1>1. \E x \in {a, b} : \A y \in {a, b} : x <= y
    OBVIOUS
  <1>2. \E x \in {a, b} : \A y \in {a, b} : x >= y
    OBVIOUS
  <1>3. /\ Min({a, b}) \in {a, b} /\ \A y \in {a, b} : Min({a, b}) <= y
        /\ Max({a, b}) \in {a, b} /\ \A y \in {a, b} : Max({a, b}) >= y
    BY <1>1, <1>2 DEF Min, Max
  <1>4. QED
    BY <1>3

\* Two windows in one episode, the earlier of which is known.
LEMMA EpisodeOfTwo ==
  ASSUME WellFormed(candidates), NEW c \in candidates, NEW d \in candidates, Earlier(c, d)
  PROVE  /\ SameEpisode(c, d) <=>
              \A t \in Int : c.start <= t /\ (t < c.end \/ t < d.end) => Bridged(t)
         /\ SameEpisode(c, d) <=> SameEpisode(d, c)
  <1>1. c.start \in Int /\ d.start \in Int /\ c.end \in Int /\ d.end \in Int
        /\ c.start <= d.start
    BY DEF WellFormed, Earlier
  <1>2. Min({c.start, d.start}) = c.start
    BY <1>1, SpanOfTwo
  <1>3. \A t \in Int : t <= Max({c.end, d.end}) - 1 <=> t < c.end \/ t < d.end
    <2>1. Max({c.end, d.end}) = IF c.end <= d.end THEN d.end ELSE c.end
      BY <1>1, SpanOfTwo
    <2>2. QED
      BY <1>1, <2>1
  <1>4. Max({c.end, d.end}) \in Int
    <2>1. Max({c.end, d.end}) = IF c.end <= d.end THEN d.end ELSE c.end
      BY <1>1, SpanOfTwo
    <2>2. QED
      BY <1>1, <2>1
  <1>5. SameEpisode(c, d) <=>
          \A t \in Int : c.start <= t /\ (t < c.end \/ t < d.end) => Bridged(t)
    <2>1. \A t \in Int : t \in Min({c.start, d.start})..(Max({c.end, d.end}) - 1)
                           <=> c.start <= t /\ (t < c.end \/ t < d.end)
      BY <1>1, <1>2, <1>3, <1>4
    <2>2. Min({c.start, d.start})..(Max({c.end, d.end}) - 1) \subseteq Int
      BY <1>1, <1>2, <1>4
    <2>3. QED
      BY <2>1, <2>2 DEF SameEpisode
  <1>6. {c.start, d.start} = {d.start, c.start} /\ {c.end, d.end} = {d.end, c.end}
    OBVIOUS
  <1>7. SameEpisode(c, d) <=> SameEpisode(d, c)
    BY <1>6 DEF SameEpisode
  <1>8. QED
    BY <1>5, <1>7

\* Nothing bridges the rows before a window that opens a group.
LEMMA OpenersSeparate ==
  ASSUME WellFormed(candidates), NEW c \in candidates, NEW d \in candidates,
         NEW h \in candidates, Opens(candidates, h), Earlier(c, h), h = d \/ Earlier(h, d)
  PROVE  ~SameEpisode(c, d)
  <1>1. \A b \in candidates : b.start \in Nat /\ b.end \in Nat /\ b.start <= b.end
    BY DEF WellFormed
  <1>2. Earlier(c, d)
    BY <1>1 DEF Earlier
  <1>3. /\ PriorMaximumEnd(candidates, h) \in Nat
        /\ \A b \in candidates : Earlier(b, h) => b.end <= PriorMaximumEnd(candidates, h)
        /\ h.start > PriorMaximumEnd(candidates, h)
    BY PriorEnds DEF Opens
  <1>4. \A b \in candidates : Earlier(b, h) => b.end < h.start
    BY <1>1, <1>3
  <1>5. h.start <= d.start
    BY <1>1 DEF Earlier
  <1>6. c.start <= h.start - 1 /\ h.start - 1 < d.end /\ h.start - 1 \in Int
    BY <1>1, <1>4, <1>5
  <1>7. ~Bridged(h.start - 1)
    <2> SUFFICES ASSUME NEW b \in candidates, b.start <= h.start - 1, h.start - 1 + 1 <= b.end
                 PROVE  FALSE
      BY DEF Bridged
    <2>1. Earlier(b, h)
      BY <1>1 DEF Earlier
    <2>2. QED
      BY <1>1, <1>4, <2>1
  <1>8. QED
    BY <1>2, <1>6, <1>7, EpisodeOfTwo

\* Where rows are not bridged some window opens a group after them.
LEMMA GapsAreOpened ==
  ASSUME WellFormed(candidates), NEW c \in candidates, NEW d \in candidates,
         Earlier(c, d), ~SameEpisode(c, d)
  PROVE  \E h \in candidates :
           Opens(candidates, h) /\ Earlier(c, h) /\ (h = d \/ Earlier(h, d))
  <1>1. \A b \in candidates : b.start \in Nat \ {0} /\ b.end \in Nat /\ b.start <= b.end
    BY DEF WellFormed
  <1>2. PICK t \in Int : c.start <= t /\ (t < c.end \/ t < d.end) /\ ~Bridged(t)
    BY EpisodeOfTwo
  <1>3. \A b \in candidates : b.start <= t => b.end <= t
    BY <1>1, <1>2 DEF Bridged
  <1> DEFINE late == {b \in candidates : b.start > t}
  <1>4. d \in late
    BY <1>1, <1>2, <1>3
  <1>5. PICK h \in late : \A b \in late : b # h => <<h, b>> \in Chronology(late)
    <2>1. WellFormed(late)
      <3>1. late \subseteq candidates
        OBVIOUS
      <3>2. QED
        BY <3>1, SomeAreWellFormed
    <2>2. IsFiniteSet(late) /\ late # {} /\ TotallyOrders(Chronology(late), late)
      BY <1>4, <2>1, ChronologyIsTotal DEF WellFormed
    <2> HIDE DEF late
    <2>3. QED
      BY <2>2, OneComesFirst
  <1>6. \A b \in late : b # h => Earlier(h, b)
    BY <1>5 DEF Chronology
  <1>7. h = d \/ Earlier(h, d)
    BY <1>4, <1>6
  <1>8. Earlier(c, h)
    BY <1>1, <1>2 DEF Earlier
  <1>9. \A b \in candidates : Earlier(b, h) => b.end <= t
    <2> SUFFICES ASSUME NEW b \in candidates, Earlier(b, h) PROVE b.end <= t
      OBVIOUS
    <2>1. CASE b.start <= t
      BY <1>3, <2>1
    <2>2. CASE ~(b.start <= t)
      <3>1. b \in late /\ (b = h \/ Earlier(h, b))
        BY <1>1, <1>6, <2>2
      <3>2. FALSE
        BY <1>1, <3>1 DEF Earlier
      <3>3. QED
        BY <3>2
    <2>3. QED
      BY <2>1, <2>2
  <1>10. Opens(candidates, h)
    <2>1. /\ PriorMaximumEnd(candidates, h) \in Nat
          /\ \/ PriorMaximumEnd(candidates, h) = 0
             \/ \E b \in candidates :
                  Earlier(b, h) /\ b.end = PriorMaximumEnd(candidates, h)
      BY PriorEnds
    <2>2. PriorMaximumEnd(candidates, h) <= t
      BY <1>1, <1>2, <1>9, <2>1
    <2>3. h.start > t /\ h.start \in Nat
      BY <1>1
    <2>4. QED
      BY <2>1, <2>2, <2>3 DEF Opens
  <1>11. QED
    BY <1>7, <1>8, <1>10

\* The groups of _rank_and_deduplicate are the stretches of windows that
\* overlap one another.
LEMMA GroupsAreEpisodes ==
  ASSUME WellFormed(candidates), NEW c \in candidates, NEW d \in candidates
  PROVE  OverlapGroup(candidates, c) = OverlapGroup(candidates, d) <=> SameEpisode(c, d)
  <1>1. \A b \in candidates : b.start \in Nat \ {0} /\ b.end \in Nat /\ b.start <= b.end
    BY DEF WellFormed
  <1>2. \A a, b, f \in candidates : Earlier(a, b) /\ Earlier(b, f) => Earlier(a, f)
    BY <1>1 DEF Earlier
  <1>3. \A a, b \in candidates : a = b \/ Earlier(a, b) \/ Earlier(b, a)
    BY <1>1 DEF Earlier, WellFormed
  <1>4. \A a \in candidates : ~Earlier(a, a)
    BY <1>1 DEF Earlier
  <1>5. \A a \in candidates :
          /\ OverlapGroup(candidates, a) = Cardinality(Openers(candidates, a))
          /\ IsFiniteSet(Openers(candidates, a))
    <2> SUFFICES ASSUME NEW a \in candidates
                 PROVE  /\ OverlapGroup(candidates, a) = Cardinality(Openers(candidates, a))
                        /\ IsFiniteSet(Openers(candidates, a))
      OBVIOUS
    <2>1. Openers(candidates, a) \subseteq candidates
      BY DEF Openers
    <2>2. IsFiniteSet(Openers(candidates, a))
      BY <2>1, FS_Subset DEF WellFormed
    <2>3. OverlapGroup(candidates, a) = Cardinality(Openers(candidates, a))
      BY DEF OverlapGroup, Openers, Opens
    <2>4. QED
      BY <2>2, <2>3
  <1>6. ASSUME NEW a \in candidates, NEW b \in candidates, Earlier(a, b)
        PROVE  /\ OverlapGroup(candidates, a) = OverlapGroup(candidates, b)
                    <=> SameEpisode(a, b)
               /\ SameEpisode(a, b) <=> SameEpisode(b, a)
    <2>1. Openers(candidates, a) \subseteq Openers(candidates, b)
      BY <1>2, <1>6 DEF Openers
    <2>2. OverlapGroup(candidates, a) = OverlapGroup(candidates, b)
            <=> Openers(candidates, a) = Openers(candidates, b)
      BY <1>5, <2>1, FS_Subset
    <2>3. Openers(candidates, a) = Openers(candidates, b) <=>
            ~\E h \in candidates :
               Opens(candidates, h) /\ Earlier(a, h) /\ (h = b \/ Earlier(h, b))
      BY <1>2, <1>3, <1>4, <1>6, <2>1 DEF Openers
    <2>4. SameEpisode(a, b) <=>
            ~\E h \in candidates :
               Opens(candidates, h) /\ Earlier(a, h) /\ (h = b \/ Earlier(h, b))
      BY <1>6, OpenersSeparate, GapsAreOpened
    <2>5. QED
      BY <1>6, <2>2, <2>3, <2>4, EpisodeOfTwo
  <1>7. CASE c = d
    <2>1. c.start \in Int /\ c.end \in Int
      BY <1>1
    <2>2. Min({c.start, d.start}) = c.start /\ Max({c.end, d.end}) = c.end
      BY <1>7, <2>1, SpanOfTwo
    <2>3. \A t \in c.start..(c.end - 1) : Bridged(t)
      BY <2>1 DEF Bridged
    <2>4. SameEpisode(c, d)
      BY <2>2, <2>3 DEF SameEpisode
    <2>5. QED
      BY <1>7, <2>4
  <1>8. QED
    BY <1>3, <1>6, <1>7
-----------------------------------------------------------------------------
(***************************************************************************)
(* The windows kept: of each group the one that ranks first, in the order  *)
(* of the ranking, as many as there is room for.                           *)
(***************************************************************************)
Strongest(windows) ==
  {c \in windows : \A d \in windows :
     d # c /\ OverlapGroup(windows, d) = OverlapGroup(windows, c) => RanksBefore(c, d)}

KeptCount(windows, topN) ==
  IF topN <= Cardinality(Strongest(windows)) THEN topN ELSE Cardinality(Strongest(windows))

\* The strongest windows can be ranked as all can.
LEMMA StrongestType ==
  ASSUME NEW windows, WellFormed(windows)
  PROVE  /\ Strongest(windows) \subseteq windows /\ WellFormed(Strongest(windows))
         /\ IsFiniteSet(Strongest(windows)) /\ Cardinality(Strongest(windows)) \in Nat
         /\ TotallyOrders(Ranking(Strongest(windows)), Strongest(windows))
  <1>1. Strongest(windows) \subseteq windows
    BY DEF Strongest
  <1>2. WellFormed(Strongest(windows))
    BY <1>1, SomeAreWellFormed
  <1>3. IsFiniteSet(Strongest(windows))
    BY <1>2 DEF WellFormed
  <1>4. QED
    BY <1>1, <1>2, <1>3, ScanRankingIsTotal, FS_CardinalityType

\* The list kept, element by element.
LEMMA KeptAreRanked ==
  ASSUME NEW windows, WellFormed(windows), NEW topN \in Nat
  PROVE  /\ KeptCount(windows, topN) \in Nat
         /\ RankAndDeduplicate(windows, topN) \in Seq(Strongest(windows))
         /\ Len(RankAndDeduplicate(windows, topN)) = KeptCount(windows, topN)
         /\ DOMAIN RankAndDeduplicate(windows, topN) = 1..KeptCount(windows, topN)
         /\ \A r \in 1..KeptCount(windows, topN) :
              /\ RankAndDeduplicate(windows, topN)[r] \in Strongest(windows)
              /\ Place(Ranking(Strongest(windows)), Strongest(windows),
                       RankAndDeduplicate(windows, topN)[r]) = r
  <1> DEFINE S     == Strongest(windows)
             count == KeptCount(windows, topN)
             kept  == RankAndDeduplicate(windows, topN)
             Best(r) == CHOOSE c \in S : Cardinality({d \in S : RanksBefore(d, c)}) = r - 1
  <1>1. /\ IsFiniteSet(S) /\ Cardinality(S) \in Nat
        /\ TotallyOrders(Ranking(S), S)
    BY StrongestType
  <1>2. count \in Nat /\ count <= Cardinality(S) /\ Min({topN, Cardinality(S)}) = count
    <2>1. topN \in Int /\ Cardinality(S) \in Int
      BY <1>1
    <2>2. Min({topN, Cardinality(S)}) = IF topN <= Cardinality(S) THEN topN ELSE Cardinality(S)
      BY <2>1, SpanOfTwo
    <2>3. QED
      BY <1>1, <2>2 DEF KeptCount
  <1>3. kept = [r \in 1..count |-> Best(r)]
    <2> DEFINE group == [c \in windows |-> OverlapGroup(windows, c)]
               T == {c \in windows : \A d \in windows :
                       d # c /\ group[d] = group[c] => RanksBefore(c, d)}
    <2>1. T = S
      BY DEF Strongest
    <2>2. kept = [r \in 1..Min({topN, Cardinality(T)}) |->
                    CHOOSE c \in T : Cardinality({d \in T : RanksBefore(d, c)}) = r - 1]
      BY DEF RankAndDeduplicate
    <2> HIDE DEF T, kept
    <2>3. QED
      BY <1>2, <2>1, <2>2
  <1>4. \A c \in S : Place(Ranking(S), S, c) = 1 + Cardinality({d \in S : RanksBefore(d, c)})
    <2> SUFFICES ASSUME NEW c \in S
                 PROVE  Preceding(Ranking(S), S, c) = {d \in S : RanksBefore(d, c)}
      BY DEF Place
    <2>1. QED
      BY DEF Preceding, Ranking
  <1> HIDE DEF S, count, kept
  <1>5. \A r \in 1..Cardinality(S) : \E c \in S : Place(Ranking(S), S, c) = r
    BY <1>1, PlacesAreTaken
  <1>6. \A c \in S : Cardinality({d \in S : RanksBefore(d, c)}) \in Nat
    <2> SUFFICES ASSUME NEW c \in S
                 PROVE  Cardinality({d \in S : RanksBefore(d, c)}) \in Nat
      OBVIOUS
    <2>1. IsFiniteSet({d \in S : RanksBefore(d, c)})
      BY <1>1, FS_Subset
    <2>2. QED
      BY <2>1, FS_CardinalityType
  <1>7. ASSUME NEW r \in 1..count
        PROVE  kept[r] \in S /\ Place(Ranking(S), S, kept[r]) = r
    <2>1. r \in 1..Cardinality(S)
      BY <1>1, <1>2
    <2>2. PICK c \in S : Place(Ranking(S), S, c) = r
      BY <1>5, <2>1
    <2>3. Cardinality({d \in S : RanksBefore(d, c)}) = r - 1
      BY <1>4, <1>6, <2>1, <2>2
    <2>4. /\ Best(r) \in S
          /\ Cardinality({d \in S : RanksBefore(d, Best(r))}) = r - 1
      BY <2>3
    <2>5. kept[r] = Best(r)
      BY <1>3
    <2>6. Place(Ranking(S), S, Best(r)) = 1 + (r - 1)
      BY <1>4, <2>4
    <2>7. QED
      BY <2>1, <2>4, <2>5, <2>6
  <1>8. kept \in [1..count -> S]
    BY <1>3, <1>7
  <1>9. kept \in Seq(S) /\ Len(kept) = count /\ DOMAIN kept = 1..count
    BY <1>2, <1>8, ListType
  <1>10. QED
    BY <1>2, <1>7, <1>9 DEF S, count, kept

\* Of those kept the earlier ranks before the later, and no two share an
\* episode.
LEMMA KeptAreApart ==
  ASSUME WellFormed(candidates), NEW topN \in Nat,
         NEW r \in 1..KeptCount(candidates, topN), NEW q \in 1..KeptCount(candidates, topN), r < q
  PROVE  LET kept == RankAndDeduplicate(candidates, topN)
         IN  RanksBefore(kept[r], kept[q]) /\ ~SameEpisode(kept[r], kept[q])
  <1> DEFINE S == Strongest(candidates)
             c == RankAndDeduplicate(candidates, topN)[r]
             d == RankAndDeduplicate(candidates, topN)[q]
  <1>1. /\ c \in S /\ Place(Ranking(S), S, c) = r
        /\ d \in S /\ Place(Ranking(S), S, d) = q
    BY KeptAreRanked
  <1>2. /\ IsFiniteSet(S) /\ TotallyOrders(Ranking(S), S) /\ S \subseteq candidates
    BY StrongestType
  <1> HIDE DEF c, d, S
  <1>3. <<c, d>> \in Ranking(S)
    BY <1>1, <1>2, PlacesOrder
  <1>4. RanksBefore(c, d) /\ ~RanksBefore(d, c) /\ c # d
    <2>1. <<d, c>> \notin Ranking(S) /\ c # d
      BY <1>1, <1>2, <1>3 DEF TotallyOrders
    <2>2. QED
      BY <1>1, <1>3, <2>1 DEF Ranking
  <1>5. c \in candidates /\ d \in candidates
    BY <1>1, <1>2
  <1>6. OverlapGroup(candidates, c) # OverlapGroup(candidates, d)
    BY <1>1, <1>4, <1>5 DEF S, Strongest
  <1>7. ~SameEpisode(c, d)
    BY <1>5, <1>6, GroupsAreEpisodes
  <1>8. QED
    BY <1>4, <1>7 DEF c, d

\* Every episode has a strongest window.
LEMMA EpisodesHaveStrongest ==
  ASSUME WellFormed(candidates), NEW c \in candidates
  PROVE  \E w \in Strongest(candidates) : SameEpisode(c, w) /\ (w = c \/ RanksBefore(w, c))
  <1> DEFINE G == {d \in candidates :
                     OverlapGroup(candidates, d) = OverlapGroup(candidates, c)}
  <1>1. c \in G /\ G \subseteq candidates
    OBVIOUS
  <1>2. WellFormed(G)
    BY <1>1, SomeAreWellFormed
  <1>3. IsFiniteSet(G) /\ TotallyOrders(Ranking(G), G) /\ G # {}
    BY <1>1, <1>2, ScanRankingIsTotal DEF WellFormed
  <1>4. PICK w \in G : \A d \in G : d # w => <<w, d>> \in Ranking(G)
    <2> HIDE DEF G
    <2>1. QED
      BY <1>3, OneComesFirst
  <1>5. \A d \in G : d # w => RanksBefore(w, d)
    BY <1>4 DEF Ranking
  <1>6. w \in Strongest(candidates)
    BY <1>1, <1>5 DEF Strongest
  <1>7. SameEpisode(c, w)
    BY <1>1, GroupsAreEpisodes
  <1>8. QED
    BY <1>1, <1>5, <1>6, <1>7

\* Every window is answered for by one of its episode, or there is no room.
LEMMA KeptAnswerForAll ==
  ASSUME WellFormed(candidates), NEW topN \in Nat, NEW c \in candidates,
         NEW kept, kept = RankAndDeduplicate(candidates, topN),
         NEW results, results = {kept[r] : r \in 1..KeptCount(candidates, topN)}
  PROVE  \/ \E w \in results : SameEpisode(c, w) /\ (w = c \/ RanksBefore(w, c))
         \/ /\ Cardinality(results) = topN
            /\ \A w \in results : RanksBefore(w, c)
  <1> DEFINE S == Strongest(candidates)
             count == KeptCount(candidates, topN)
  <1>1. PICK w \in S : SameEpisode(c, w) /\ (w = c \/ RanksBefore(w, c))
    BY EpisodesHaveStrongest
  <1>2. /\ IsFiniteSet(S) /\ TotallyOrders(Ranking(S), S) /\ S \subseteq candidates
        /\ Cardinality(S) \in Nat
    BY StrongestType
  <1>3. /\ count \in Nat
        /\ \A r \in 1..count : kept[r] \in S /\ Place(Ranking(S), S, kept[r]) = r
    BY KeptAreRanked
  <1>4. Place(Ranking(S), S, w) \in 1..Cardinality(S)
    BY <1>2, PlaceType
  <1>5. CASE Place(Ranking(S), S, w) \in 1..count
    <2> DEFINE r == Place(Ranking(S), S, w)
    <2>1. kept[r] \in S /\ Place(Ranking(S), S, kept[r]) = r
      BY <1>3, <1>5
    <2>2. kept[r] = w
      <3>1. Place(Ranking(S), S, kept[r]) = Place(Ranking(S), S, w)
        BY <2>1
      <3>2. QED
        BY <1>2, <2>1, <3>1, PlacesOrder
    <2>3. w \in results
      BY <1>5, <2>2
    <2>4. QED
      BY <1>1, <2>3
  <1>6. CASE Place(Ranking(S), S, w) \notin 1..count
    <2>1. count = topN /\ \A r \in 1..count : r < Place(Ranking(S), S, w)
      BY <1>2, <1>3, <1>4, <1>6 DEF KeptCount
    <2>2. ASSUME NEW r \in 1..count PROVE RanksBefore(kept[r], c)
      <3>1. kept[r] \in S /\ Place(Ranking(S), S, kept[r]) < Place(Ranking(S), S, w)
        BY <1>3, <2>1
      <3>2. <<kept[r], w>> \in Ranking(S)
        BY <1>2, <3>1, PlacesOrder
      <3>3. RanksBefore(kept[r], w)
        BY <3>2 DEF Ranking
      <3>4. CASE w = c
        BY <3>3, <3>4
      <3>5. CASE RanksBefore(w, c)
        <4>1. kept[r] \in candidates /\ w \in candidates
          BY <1>2, <3>1
        <4>2. <<kept[r], w>> \in Ranking(candidates) /\ <<w, c>> \in Ranking(candidates)
          BY <3>3, <3>5, <4>1 DEF Ranking
        <4>3. <<kept[r], c>> \in Ranking(candidates)
          BY <4>1, <4>2, ScanRankingIsTotal DEF TotallyOrders
        <4>4. QED
          BY <4>3 DEF Ranking
      <3>6. QED
        BY <1>1, <3>4, <3>5
    <2>3. Cardinality(results) = count
      <3> DEFINE f == [r \in 1..count |-> kept[r]]
      <3>1. \A r, q \in 1..count : f[r] = f[q] => r = q
        BY <1>3
      <3>2. \A x \in results : \E r \in 1..count : f[r] = x
        OBVIOUS
      <3>3. f \in [1..count -> results]
        OBVIOUS
      <3>4. IsFiniteSet(1..count) /\ Cardinality(1..count) = count
        BY <1>3, FS_Interval
      <3> HIDE DEF f
      <3>5. f \in Bijection(1..count, results)
        BY <3>1, <3>2, <3>3 DEF Bijection, Injection, Surjection, IsInjective
      <3>6. QED
        BY <3>4, <3>5, FS_Bijection DEF ExistsBijection
    <2>4. QED
      BY <2>1, <2>2, <2>3
  <1>7. QED
    BY <1>5, <1>6
-----------------------------------------------------------------------------
(***************************************************************************)
(* The course of the scan.                                                 *)
(***************************************************************************)

\* What is collected is well formed.
LEMMA CollectedType ==
  ASSUME ScanInvariant, scan # "idle"
  PROVE  /\ WellFormed(FailingWindows) /\ WellFormed(candidates)
         /\ FailureRuleContract(rules)
  <1>1. FailureRuleContract(rules)
    BY ScanAssumption DEF ScanInvariant
  <1>2. WellFormed(FailingWindows)
    BY <1>1, FailingWindowsType DEF ScanInvariant
  <1>3. QED
    BY <1>1, <1>2, SomeAreWellFormed DEF ScanInvariant

\* The windows kept are a list.
LEMMA SelectedType ==
  ASSUME ScanInvariant, scan # "idle"
  PROVE  /\ Len(selected) \in Nat /\ DOMAIN selected = 1..Len(selected)
         /\ selected # <<>> =>
              /\ selected = RankAndDeduplicate(candidates, TopK)
              /\ Len(selected) = KeptCount(candidates, TopK)
         /\ Len(evidence) \in Nat /\ DOMAIN evidence = 1..Len(evidence)
  <1>1. TopK \in Nat
    BY ScanAssumption
  <1>2. CASE selected = <<>>
    BY <1>2 DEF ScanInvariant
  <1>3. CASE selected # <<>>
    <2>1. selected = RankAndDeduplicate(candidates, TopK)
      BY <1>3 DEF ScanInvariant
    <2>2. WellFormed(candidates)
      BY CollectedType
    <2>3. /\ KeptCount(candidates, TopK) \in Nat
          /\ Len(selected) = KeptCount(candidates, TopK)
          /\ DOMAIN selected = 1..KeptCount(candidates, TopK)
      BY <1>1, <2>1, <2>2, KeptAreRanked
    <2>4. Len(evidence) \in Nat /\ DOMAIN evidence = 1..Len(evidence)
      BY DEF ScanInvariant
    <2>5. QED
      BY <2>1, <2>3, <2>4
  <1>4. QED
    BY <1>2, <1>3

\* Results are made of what the scan no longer changes.
LEMMA ResultsStay ==
  ASSUME UNCHANGED <<baseline, rules, selected>>
  PROVE  /\ \A r : ResultOf(r)' = ResultOf(r)
         /\ {ResultOf(r) : r \in DOMAIN selected}' = {ResultOf(r) : r \in DOMAIN selected}
         /\ FailingWindows' = FailingWindows
  <1>1. \A r : ResultOf(r)' = ResultOf(r)
    BY DEF ResultOf
  <1>2. FailingWindows' = FailingWindows
    BY DEF FailingWindows
  <1>3. QED
    BY <1>1, <1>2

\* Nothing is collected at first.
LEMMA ScanInitial == EngineInit => ScanInvariant
  <1>1. ScanIdle => ScanInvariant
    BY DEF ScanIdle, ScanInvariant
  <1>2. ASSUME ScanInit PROVE ScanInvariant
    <2>1. PICK days \in [1..Rows -> Positions] : baseline = Replay(days)
      BY <1>2 DEF ScanInit
    <2>2. baseline.equity \in [0..Rows -> Int]
      BY <2>1, ReplayType
    <2>3. pending \in Seq(Nat) /\ \A n \in DOMAIN pending : pending[n] >= WindowRows
      BY <1>2, ScanAssumption DEF ScanInit
    <2>4. QED
      BY <1>2, <2>2, <2>3 DEF ScanInit, ScanInvariant
  <1>3. QED
    BY <1>1, <1>2 DEF EngineInit

\* Candidates of a further length fail as well.
LEMMA CollectStep ==
  ASSUME ScanInvariant, Collect
  PROVE  ScanInvariant'
  <1> DEFINE h == Head(pending)
  <1>1. scan = "collecting" /\ pending # <<>>
    BY DEF Collect
  <1>2. pending \in Seq(Nat) /\ \A n \in DOMAIN pending : pending[n] >= WindowRows
    BY <1>1 DEF ScanInvariant
  <1>3. h \in Nat /\ h >= WindowRows /\ Tail(pending) \in Seq(Nat)
        /\ \A n \in DOMAIN Tail(pending) : Tail(pending)[n] >= WindowRows
    BY <1>1, <1>2
  <1>4. CandidateFrame(baseline.equity, rules, h) \subseteq FailingWindows
    <2>1. CASE h \in WindowRows..Rows
      BY <2>1 DEF FailingWindows
    <2>2. CASE h \notin WindowRows..Rows
      <3>1. 1..(Rows - h + 1) = {}
        BY <1>3, <2>2, RowsAssumption
      <3>2. QED
        BY <3>1 DEF CandidateFrame
    <2>3. QED
      BY <2>1, <2>2
  <1> HIDE DEF h
  <1>5. /\ candidates' = candidates \cup CandidateFrame(baseline.equity, rules, h)
        /\ pending' = Tail(pending)
        /\ UNCHANGED <<baseline, rules, selected, evidence, scan>>
    BY DEF Collect, h
  <1>6. QED
    BY <1>1, <1>3, <1>4, <1>5, ResultsStay DEF ScanInvariant

\* All that was collected is ranked.
LEMMA SelectStep ==
  ASSUME ScanInvariant, Select
  PROVE  ScanInvariant'
  <1>1. /\ scan = "collecting" /\ candidates # {} /\ scan' = "building"
        /\ selected' = RankAndDeduplicate(candidates, TopK)
        /\ UNCHANGED <<baseline, rules, pending, candidates, evidence>>
    BY DEF Select
  <1>2. selected = <<>> /\ Len(evidence) \in Nat /\ Len(evidence) <= Len(selected)
    BY <1>1, SelectedType DEF ScanInvariant
  <1>3. Len(evidence) = 0 /\ evidence = <<>>
    BY <1>1, <1>2 DEF ScanInvariant
  <1>4. Len(selected') \in Nat
    BY <1>1, CollectedType, KeptAreRanked, ScanAssumption
  <1>5. FailingWindows' = FailingWindows
    BY <1>1 DEF FailingWindows
  <1>6. evidence' \in Seq({ResultOf(r) : r \in DOMAIN selected}') /\ DOMAIN evidence' = {}
    BY <1>1, <1>3
  <1>7. QED
    BY <1>1, <1>3, <1>4, <1>5, <1>6 DEF ScanInvariant

\* Evidence is added for the next window kept.
LEMMA BuildStep ==
  ASSUME ScanInvariant, BuildResult
  PROVE  ScanInvariant'
  <1> DEFINE place == Len(evidence) + 1
  <1>1. /\ scan = "building" /\ Len(evidence) < Len(selected)
        /\ UNCHANGED <<baseline, rules, pending, candidates, selected>>
        /\ \/ evidence' = Append(evidence, ResultOf(place)) /\ UNCHANGED scan
           \/ UNCHANGED evidence /\ scan' = "raised"
    BY DEF BuildResult, ResultOf
  <1>2. /\ Len(selected) \in Nat /\ DOMAIN selected = 1..Len(selected)
        /\ Len(evidence) \in Nat /\ DOMAIN evidence = 1..Len(evidence)
    BY <1>1, SelectedType
  <1>3. place \in DOMAIN selected
    BY <1>1, <1>2
  <1>4. CASE evidence' = Append(evidence, ResultOf(place)) /\ UNCHANGED scan
    <2>1. evidence \in Seq({ResultOf(r) : r \in DOMAIN selected})
          /\ \A r \in DOMAIN evidence : evidence[r] = ResultOf(r)
      BY <1>1 DEF ScanInvariant
    <2>2. ResultOf(place) \in {ResultOf(r) : r \in DOMAIN selected}
      BY <1>3
    <2> HIDE DEF place
    <2>3. evidence' \in Seq({ResultOf(r) : r \in DOMAIN selected})
      BY <1>4, <2>1, <2>2
    <2>4. Len(evidence') = Len(evidence) + 1 /\ DOMAIN evidence' = 1..(Len(evidence) + 1)
          /\ evidence'[Len(evidence) + 1] = ResultOf(place)
          /\ \A r \in DOMAIN evidence : evidence'[r] = evidence[r]
      BY <1>2, <1>4, <2>1
    <2>5. \A r \in DOMAIN evidence' : evidence'[r] = ResultOf(r)
      BY <1>2, <2>1, <2>4 DEF place
    <2>6. Len(evidence') <= Len(selected')
      BY <1>1, <1>2, <2>4
    <2>7. QED
      BY <1>1, <1>4, <2>3, <2>5, <2>6, ResultsStay DEF ScanInvariant
  <1>5. CASE UNCHANGED evidence /\ scan' = "raised"
    BY <1>1, <1>5, ResultsStay DEF ScanInvariant
  <1>6. QED
    BY <1>1, <1>4, <1>5

\* Every step of the engine keeps the invariant of the scan.
LEMMA ScanStep ==
  ASSUME ScanInvariant, [EngineNext]_engineVars
  PROVE  ScanInvariant'
  <1>1. CASE UNCHANGED scanVars
    BY <1>1, ResultsStay DEF scanVars, ScanInvariant
  <1>2. CASE FindNothing
    <2>1. /\ scan = "collecting" /\ candidates = {} /\ scan' = "answered"
          /\ UNCHANGED <<baseline, rules, pending, candidates, selected, evidence>>
      BY <1>2 DEF FindNothing
    <2>2. selected = <<>> /\ Len(evidence) = Len(selected)
      <3>1. selected = <<>> /\ Len(evidence) <= Len(selected) /\ Len(evidence) \in Nat
        BY <2>1, SelectedType DEF ScanInvariant
      <3>2. QED
        BY <3>1
    <2>3. QED
      BY <2>1, <2>2, ResultsStay DEF ScanInvariant
  <1>3. CASE Answer
    BY <1>3, ResultsStay DEF Answer, ScanInvariant
  <1>4. QED
    BY <1>1, <1>2, <1>3, CollectStep, SelectStep, BuildStep
    DEF EngineNext, ScanNext, engineVars

\* The invariant of the scan holds in every reachable state.
THEOREM ScanInvariantHolds == EngineSpec => []ScanInvariant
  BY ScanInitial, ScanStep, PTL DEF EngineSpec

(***************************************************************************)
(* _rank_and_deduplicate, for any history, rules, window lengths and TopK: *)
(* each stretch of overlapping failing windows is answered for by its most *)
(* severe window, once, in the order of severity, or is outranked by TopK  *)
(* that are.                                                               *)
(***************************************************************************)
THEOREM EpisodesAreAnsweredOnce == EngineSpec => []OneWindowPerEpisode
  <1>1. ScanInvariant => OneWindowPerEpisode
    <2> SUFFICES ASSUME ScanInvariant, scan = "answered" PROVE OneWindowPerEpisode
      BY DEF OneWindowPerEpisode
    <2> DEFINE results == {evidence[r].window : r \in DOMAIN evidence}
               count   == KeptCount(candidates, TopK)
               kept    == RankAndDeduplicate(candidates, TopK)
    <2>1. /\ Len(evidence) = Len(selected) /\ DOMAIN evidence = DOMAIN selected
          /\ \A r \in DOMAIN evidence : evidence[r].window = selected[r]
      BY SelectedType DEF ScanInvariant, ResultOf
    <2>2. WellFormed(candidates) /\ TopK \in Nat
      BY CollectedType, ScanAssumption
    <2>3. CASE candidates = {}
      <3>1. DOMAIN evidence = {}
        BY <2>1, <2>3 DEF ScanInvariant
      <3>2. QED
        BY <2>3, <3>1 DEF OneWindowPerEpisode
    <2>4. CASE candidates # {}
      <3>1. selected = kept
        BY <2>4 DEF ScanInvariant
      <3>2. DOMAIN evidence = 1..count
        BY <2>1, <2>2, <3>1, KeptAreRanked
      <3>3. results = {kept[r] : r \in 1..count}
        BY <2>1, <3>1, <3>2
      <3>4. \A r, q \in DOMAIN evidence :
              r < q => /\ RanksBefore(evidence[r].window, evidence[q].window)
                       /\ ~SameEpisode(evidence[r].window, evidence[q].window)
        <4> SUFFICES ASSUME NEW r \in DOMAIN evidence, NEW q \in DOMAIN evidence, r < q
                     PROVE  /\ RanksBefore(evidence[r].window, evidence[q].window)
                            /\ ~SameEpisode(evidence[r].window, evidence[q].window)
          OBVIOUS
        <4>1. RanksBefore(kept[r], kept[q]) /\ ~SameEpisode(kept[r], kept[q])
          BY <2>2, <3>2, KeptAreApart
        <4>2. evidence[r].window = kept[r] /\ evidence[q].window = kept[q]
          BY <2>1, <3>1
        <4>3. QED
          BY <4>1, <4>2
      <3>5. \A c \in candidates :
              \/ \E w \in results : SameEpisode(c, w) /\ (w = c \/ RanksBefore(w, c))
              \/ /\ Cardinality(results) = TopK
                 /\ \A w \in results : RanksBefore(w, c)
        <4> HIDE DEF results, kept
        <4>1. kept = RankAndDeduplicate(candidates, TopK)
          BY DEF kept
        <4>2. QED
          BY <2>2, <3>3, <4>1, KeptAnswerForAll
      <3>6. QED
        BY <3>4, <3>5 DEF OneWindowPerEpisode
    <2>5. QED
      BY <2>3, <2>4
  <1>2. QED
    BY <1>1, ScanInvariantHolds, PTL
-----------------------------------------------------------------------------
(***************************************************************************)
(* The evidence of a window: its breaches, its deepest loss and contracts. *)
(***************************************************************************)

\* The first of the worst rows.
LEMMA WorstRow ==
  ASSUME NEW S, IsFiniteSet(S), S \subseteq Int, S # {}, NEW f \in [S -> Int]
  PROVE  /\ FirstWorst(f) \in S
         /\ \A u \in S : f[u] <= f[FirstWorst(f)]
         /\ \A u \in S : f[u] = f[FirstWorst(f)] => FirstWorst(f) <= u
  <1>1. PICK worst : worst = {t \in S : \A u \in S : f[u] <= f[t]}
    OBVIOUS
  <1>2. PICK x \in S : f[x] = Max(Range(f))
    BY ValuesHaveExtremes
  <1>3. \A u \in S : f[u] <= f[x]
    BY <1>2, ValuesHaveExtremes
  <1>4. worst # {} /\ worst \subseteq S
    BY <1>1, <1>3
  <1>5. IsFiniteSet(worst) /\ worst \subseteq Int
    BY <1>4, FS_Subset
  <1>6. Min(worst) \in worst /\ \A y \in worst : Min(worst) <= y
    BY <1>4, <1>5, Extremes
  <1>7. FirstWorst(f) = Min(worst)
    <2>1. DOMAIN f = S
      OBVIOUS
    <2>2. QED
      BY <1>1, <2>1 DEF FirstWorst
  <1>8. PICK w : w = Min(worst)
    OBVIOUS
  <1>9. w \in S /\ \A u \in S : f[u] <= f[w]
    BY <1>1, <1>6, <1>8
  <1>10. ASSUME NEW u \in S, f[u] = f[w] PROVE w <= u
    <2>1. u \in worst
      BY <1>1, <1>9, <1>10
    <2>2. QED
      BY <1>6, <1>8, <2>1
  <1>11. QED
    BY <1>7, <1>8, <1>9, <1>10

LEMMA FirstWorstType ==
  ASSUME NEW n \in Nat, n >= 1, NEW f \in [1..n -> Int]
  PROVE  /\ FirstWorst(f) \in 1..n
         /\ \A u \in 1..n : f[u] <= f[FirstWorst(f)]
  <1>1. IsFiniteSet(1..n) /\ 1..n \subseteq Int /\ 1..n # {}
    BY SomeNumbers
  <1>2. QED
    BY <1>1, WorstRow

\* The arrays of a window, with its length and number of rolling windows.
Measured(e, window, n, wealth, m) ==
  /\ n \in Nat /\ n >= WindowRows /\ n = WindowLength(window)
  /\ wealth = WindowWealth(e, window.start, window.end) /\ wealth \in [1..n -> Int]
  /\ m = n - WindowRows + 1 /\ m \in Nat /\ m >= 1
  /\ WindowDrawdowns(wealth) \in [1..n -> Nat]
  /\ RollingCompounded(wealth) \in [1..m -> Int]

LEMMA WindowsAreMeasured ==
  ASSUME NEW e \in [0..Rows -> Int], NEW window, IsSpan(window.start, window.end)
  PROVE  \E n, wealth, m : Measured(e, window, n, wealth, m)
  <1> DEFINE n == WindowLength(window)
             wealth == WindowWealth(e, window.start, window.end)
             m == n - WindowRows + 1
  <1>1. n \in Nat /\ n >= WindowRows /\ n = window.end - window.start + 1
    BY RowsAssumption DEF IsSpan, WindowLength
  <1>2. wealth \in [1..n -> Int]
    BY <1>1, WealthType DEF IsSpan
  <1> HIDE DEF n, wealth
  <1>3. /\ m \in Nat /\ m >= 1 /\ WindowDrawdowns(wealth) \in [1..n -> Nat]
        /\ RollingCompounded(wealth) \in [1..m -> Int]
    BY <1>1, <1>2, DrawdownType, RollingType
  <1>4. Measured(e, window, n, wealth, m)
    BY <1>1, <1>2, <1>3 DEF Measured, n, wealth
  <1>5. QED
    BY <1>4

\* The breaches of the figures are those of the arrays.
LEMMA ExcessesAreBreaches ==
  ASSUME NEW e, NEW window, NEW n, NEW wealth, NEW m, Measured(e, window, n, wealth, m),
         NEW failureRules, FailureRuleContract(failureRules), NEW rule \in failureRules
  PROVE  LET evaluable == VolatilityEvaluable(e, window.start, wealth) # {}
         IN  Excess(rule, Max(Range(WindowDrawdowns(wealth))),
                    Min(Range(RollingCompounded(wealth))), evaluable) > 0
               <=> IsBreached(e, window, rule)
  <1> DEFINE D == WindowDrawdowns(wealth)
             R == RollingCompounded(wealth)
             deepest == Max(Range(D))
             rolling == Min(Range(R))
             evaluable == VolatilityEvaluable(e, window.start, wealth) # {}
  <1>1. /\ n \in Nat /\ n >= 1 /\ m \in Nat /\ m >= 1
        /\ D \in [1..n -> Int] /\ R \in [1..m -> Int] /\ DOMAIN wealth = 1..n
        /\ wealth = WindowWealth(e, window.start, window.end)
    BY RowsAssumption DEF Measured
  <1>2. /\ rule.threshold \in Nat
        /\ rule.family \in {"maximum_drawdown", "rolling_20_day_loss",
                            "realized_volatility_multiple"}
    BY DEF FailureRuleContract, FailureRuleFamilies
  <1> HIDE DEF D, R
  <1>3. /\ deepest \in Int /\ \A k \in 1..n : D[k] <= deepest
        /\ \E k \in 1..n : D[k] = deepest
    <2>1. IsFiniteSet(1..n) /\ 1..n # {}
      BY <1>1, SomeNumbers
    <2>2. QED
      BY <1>1, <2>1, ValuesHaveExtremes
  <1>4. /\ rolling \in Int /\ \A k \in 1..m : rolling <= R[k]
        /\ \E k \in 1..m : R[k] = rolling
    <2>1. IsFiniteSet(1..m) /\ 1..m # {}
      BY <1>1, SomeNumbers
    <2>2. QED
      BY <1>1, <2>1, ValuesHaveExtremes
  <1>5. IsBreached(e, window, rule) <=>
          CASE rule.family = "maximum_drawdown"    -> \E k \in 1..n : D[k] > rule.threshold
            [] rule.family = "rolling_20_day_loss" -> \E k \in 1..m : R[k] < -rule.threshold
            [] OTHER -> evaluable /\ SameVolatility > rule.threshold
    BY <1>1 DEF IsBreached, D, R
  <1> HIDE DEF deepest, rolling, evaluable
  <1>6. Excess(rule, deepest, rolling, evaluable) > 0 <=> IsBreached(e, window, rule)
    <2>1. CASE rule.family = "maximum_drawdown"
      <3>1. Excess(rule, deepest, rolling, evaluable)
              = IF deepest > rule.threshold THEN deepest - rule.threshold ELSE 0
        BY <2>1 DEF Excess
      <3>2. IsBreached(e, window, rule) <=> deepest > rule.threshold
        BY <1>1, <1>2, <1>3, <1>5, <2>1
      <3>3. QED
        BY <1>2, <1>3, <3>1, <3>2
    <2>2. CASE rule.family = "rolling_20_day_loss"
      <3>1. Excess(rule, deepest, rolling, evaluable)
              = IF -rolling > rule.threshold THEN -rolling - rule.threshold ELSE 0
        BY <2>2 DEF Excess
      <3>2. IsBreached(e, window, rule) <=> -rolling > rule.threshold
        BY <1>1, <1>2, <1>4, <1>5, <2>2
      <3>3. QED
        BY <1>2, <1>4, <3>1, <3>2
    <2>3. CASE rule.family = "realized_volatility_multiple"
      <3>1. Excess(rule, deepest, rolling, evaluable)
              = IF SameVolatility > rule.threshold /\ evaluable
                THEN SameVolatility - rule.threshold ELSE 0
        BY <2>3 DEF Excess
      <3>2. IsBreached(e, window, rule) <=> evaluable /\ SameVolatility > rule.threshold
        BY <1>5, <2>3
      <3>3. QED
        BY <1>2, <3>1, <3>2 DEF SameVolatility
    <2>4. QED
      BY <1>2, <2>1, <2>2, <2>3
  <1>7. QED
    BY <1>6 DEF deepest, rolling, evaluable, D, R

\* The deepest loss of a window falls from its mark to its trough.
LEMMA EpisodesAreLosses ==
  ASSUME NEW e, NEW window, NEW n, NEW wealth, NEW m, Measured(e, window, n, wealth, m),
         e \in [0..Rows -> Int], IsSpan(window.start, window.end)
  PROVE  LET episode == LossEpisode(e, window)
             drawdowns == WindowDrawdowns(wealth)
         IN  /\ episode.trough \in 1..n
             /\ episode.loss = drawdowns[episode.trough]
             /\ \A k \in 1..n : drawdowns[k] <= episode.loss
             /\ episode.lossStart \in 1..episode.trough
             /\ episode.attributed = episode.loss
             /\ episode.recovery # NoRow => episode.recovery >= episode.trough
  <1> DEFINE D == WindowDrawdowns(wealth)
             trough == FirstWorst(D)
             peakValue == Max({0} \cup {wealth[k] : k \in 1..trough})
             peaks == {k \in 1..trough : wealth[k] = peakValue}
             after == WindowWealth(e, window.start, Rows)
             recovered == {k \in DOMAIN after : k > trough /\ after[k] >= peakValue}
             firstLoss == IF peaks = {} THEN 1 ELSE Max(peaks) + 1
             before == IF firstLoss = 1 THEN 0 ELSE wealth[firstLoss - 1]
             lossStart == IF peaks = {} THEN 1 ELSE Max(peaks)
             attributed == IF firstLoss > trough THEN 0 ELSE before - wealth[trough]
             recovery == IF D[trough] = 0 THEN trough
                         ELSE IF recovered = {} THEN NoRow ELSE Min(recovered)
  <1>1. /\ LossEpisode(e, window).trough = trough
        /\ LossEpisode(e, window).loss = D[trough]
        /\ LossEpisode(e, window).lossStart = lossStart
        /\ LossEpisode(e, window).attributed = attributed
        /\ LossEpisode(e, window).recovery = recovery
    BY DEF LossEpisode, Measured
  <1>2. /\ n \in Nat /\ n >= 1 /\ D \in [1..n -> Nat] /\ wealth \in [1..n -> Int]
    BY RowsAssumption DEF Measured
  <1>3. trough \in 1..n /\ \A k \in 1..n : D[k] <= D[trough]
    <2>1. D \in [1..n -> Int]
      BY <1>2
    <2> HIDE DEF D
    <2>2. QED
      BY <1>2, <2>1, FirstWorstType
  <1>4. /\ peakValue \in Nat /\ D[trough] = peakValue - wealth[trough]
        /\ peakValue = 0 \/ peaks # {}
    <2>1. PICK high \in Nat :
            /\ high = Max({0} \cup {wealth[j] : j \in 1..trough})
            /\ D[trough] = high - wealth[trough]
            /\ high = 0 \/ \E j \in 1..trough : wealth[j] = high
      BY <1>2, <1>3, DrawdownType
    <2>2. peakValue = high
      BY <2>1
    <2>3. QED
      BY <2>1, <2>2
  <1>5. peaks # {} => Max(peaks) \in 1..trough /\ wealth[Max(peaks)] = peakValue
    <2>1. trough \in Nat /\ peaks \subseteq 1..trough
      BY <1>2, <1>3
    <2>2. peaks # {} => Max(peaks) \in peaks
      <3> HIDE DEF peaks, trough
      <3>1. QED
        BY <2>1, PlacesHaveEnds
    <2>3. QED
      BY <2>2
  <1>6. recovered # {} => Min(recovered) \in recovered
    <2>1. recovered \subseteq 1..Rows /\ Rows \in Nat
      <3>1. /\ window.start \in 1..Rows /\ Rows \in 1..Rows /\ Rows \in Nat
            /\ Rows - window.start + 1 \in Nat /\ Rows - window.start + 1 <= Rows
        BY RowsAssumption DEF IsSpan
      <3>2. DOMAIN after = 1..(Rows - window.start + 1)
        BY <3>1, WealthType
      <3>3. QED
        BY <3>1, <3>2
    <2> HIDE DEF recovered
    <2>2. QED
      BY <2>1, PlacesHaveEnds
  <1>7. recovery # NoRow => recovery >= trough
    <2>1. trough \in Nat
      BY <1>2, <1>3
    <2>2. \A k \in recovered : k \in Int /\ k > trough
      <3>1. \A k \in DOMAIN after : k \in Int
        BY DEF WindowWealth
      <3>2. QED
        BY <3>1
    <2> HIDE DEF recovered, trough
    <2>3. QED
      BY <1>6, <2>1, <2>2 DEF NoRow
  <1> HIDE DEF peaks, peakValue, trough, D, recovered
  <1>8. lossStart \in 1..trough
    BY <1>2, <1>3, <1>5
  <1>9. attributed = D[trough]
    <2>1. CASE peaks = {}
      BY <1>2, <1>3, <1>4, <2>1
    <2>2. CASE peaks # {}
      <3> DEFINE p == Max(peaks)
      <3>1. p \in 1..trough /\ wealth[p] = peakValue /\ trough \in Nat
        BY <1>2, <1>3, <1>5, <2>2
      <3>2. firstLoss = p + 1 /\ p + 1 # 1 /\ (p + 1) - 1 = p
        BY <2>2, <3>1
      <3>3. before = peakValue
        BY <3>1, <3>2
      <3>4. p + 1 > trough => wealth[trough] = peakValue
        BY <3>1
      <3>5. wealth[trough] \in Int
        BY <1>2, <1>3
      <3> HIDE DEF p, before, firstLoss
      <3>6. QED
        BY <1>4, <3>2, <3>3, <3>4, <3>5
    <2>3. QED
      BY <2>1, <2>2
  <1>10. QED
    BY <1>1, <1>3, <1>7, <1>8, <1>9 DEF D

\* A breach is of its rule, begins in the window, and is more than the rule
\* allows.
LEMMA BreachesAreSound ==
  ASSUME NEW e \in [0..Rows -> Int], NEW window, IsSpan(window.start, window.end),
         NEW failureRules, FailureRuleContract(failureRules),
         NEW rule \in failureRules, IsBreached(e, window, rule),
         NEW b, b = FailureBreach(e, window, rule, LossEpisode(e, window))
  PROVE  /\ b.rule = rule
         /\ b.onset \in 1..WindowLength(window)
         /\ BreachContract(b)
  <1>1. PICK n, wealth, m : Measured(e, window, n, wealth, m)
    BY WindowsAreMeasured
  <1> DEFINE D == WindowDrawdowns(wealth)
             R == RollingCompounded(wealth)
             E == VolatilityEvaluable(e, window.start, wealth)
  <1>2. /\ n \in Nat /\ n >= 1 /\ m \in Nat /\ m >= 1 /\ n = WindowLength(window)
        /\ m = n - WindowRows + 1 /\ WindowRows \in Nat /\ WindowRows >= 2
        /\ D \in [1..n -> Nat] /\ R \in [1..m -> Int]
        /\ DOMAIN wealth = 1..n /\ DOMAIN R = 1..m
        /\ wealth = WindowWealth(e, window.start, window.end)
    BY <1>1, RowsAssumption DEF Measured
  <1>3. E \subseteq 1..m
    BY <1>2 DEF VolatilityEvaluable
  <1>4. /\ rule.threshold \in Nat
        /\ rule.family \in {"maximum_drawdown", "rolling_20_day_loss",
                            "realized_volatility_multiple"}
    BY DEF FailureRuleContract, FailureRuleFamilies
  <1> DEFINE episode == LossEpisode(e, window)
  <1>5. /\ episode.trough \in 1..n /\ \A k \in 1..n : D[k] <= episode.loss
        /\ episode.loss = D[episode.trough] /\ episode.lossStart \in 1..episode.trough
    BY <1>1, EpisodesAreLosses
  <1>6. CASE rule.family = "maximum_drawdown"
    <2> DEFINE deep == {k \in DOMAIN wealth : D[k] > rule.threshold}
    <2>1. b = [rule |-> rule, observed |-> episode.loss, onset |-> Min(deep),
               first |-> episode.episodeFirst, start |-> episode.lossStart,
               end |-> episode.trough]
      BY <1>2, <1>6 DEF FailureBreach
    <2>2. deep # {} /\ deep \subseteq 1..n
      BY <1>2, <1>6 DEF IsBreached
    <2>3. Min(deep) \in deep
      <3> HIDE DEF deep
      <3>1. QED
        BY <1>2, <2>2, PlacesHaveEnds
    <2>4. PICK k \in 1..n : D[k] > rule.threshold
      BY <2>2
    <2> HIDE DEF D, deep, episode
    <2>5. episode.loss > rule.threshold
      <3>1. D[k] <= episode.loss /\ D[k] \in Nat
        BY <1>2, <1>5, <2>4
      <3>2. episode.loss \in Nat
        BY <1>2, <1>5
      <3>3. QED
        BY <1>4, <2>4, <3>1, <3>2
    <2>6. episode.lossStart <= episode.trough
      BY <1>2, <1>5
    <2>7. Min(deep) \in 1..n
      BY <2>2, <2>3
    <2>8. /\ b.rule = rule /\ b.observed = episode.loss /\ b.onset = Min(deep)
          /\ b.start = episode.lossStart /\ b.end = episode.trough
      BY <2>1
    <2>9. BreachContract(b)
      BY <2>5, <2>6, <2>8 DEF BreachContract
    <2>10. QED
      BY <1>2, <2>7, <2>8, <2>9
  <1>7. CASE rule.family = "rolling_20_day_loss"
    <2> DEFINE losses == [k \in DOMAIN R |-> -R[k]]
               worst  == FirstWorst(losses)
               fallen == {k \in DOMAIN R : R[k] < -rule.threshold}
    <2>1. b = [rule |-> rule, observed |-> -R[worst],
               onset |-> Min(fallen) + WindowRows - 1,
               first |-> worst, start |-> worst, end |-> worst + WindowRows - 1]
      BY <1>2, <1>7 DEF FailureBreach
    <2>2. fallen # {} /\ fallen \subseteq 1..m
      BY <1>2, <1>7 DEF IsBreached
    <2>3. Min(fallen) \in fallen
      <3> HIDE DEF fallen
      <3>1. QED
        BY <1>2, <2>2, PlacesHaveEnds
    <2>4. PICK k \in 1..m : R[k] < -rule.threshold
      BY <1>2, <2>2
    <2>5. losses \in [1..m -> Int]
      <3> HIDE DEF R
      <3>1. QED
        BY <1>2
    <2>6. worst \in 1..m /\ \A u \in 1..m : losses[u] <= losses[worst]
      <3> HIDE DEF losses
      <3>1. QED
        BY <1>2, <2>5, FirstWorstType
    <2>7. -R[worst] > rule.threshold
      <3>1. losses[k] = -R[k] /\ losses[worst] = -R[worst]
        BY <1>2, <2>6
      <3>2. -R[k] <= -R[worst]
        BY <2>6, <3>1
      <3>3. R[k] \in Int /\ R[worst] \in Int
        BY <1>2, <2>6
      <3> HIDE DEF R, worst
      <3>4. QED
        BY <1>4, <2>4, <3>2, <3>3
    <2>8. Min(fallen) + WindowRows - 1 \in 1..n
      BY <1>2, <2>2, <2>3
    <2>9. worst <= worst + WindowRows - 1
      BY <1>2, <2>6
    <2> HIDE DEF R, worst, fallen
    <2>10. QED
      BY <1>2, <2>1, <2>7, <2>8, <2>9 DEF BreachContract
  <1>8. CASE rule.family = "realized_volatility_multiple"
    <2>1. b = [rule |-> rule, observed |-> SameVolatility,
               onset |-> Min(E) + WindowRows - 1,
               first |-> Min(E), start |-> Min(E), end |-> Min(E) + WindowRows - 1]
      BY <1>2, <1>8 DEF FailureBreach
    <2>2. E # {} /\ SameVolatility > rule.threshold
      BY <1>2, <1>8 DEF IsBreached
    <2> HIDE DEF E
    <2>3. Min(E) \in E
      BY <1>2, <1>3, <2>2, PlacesHaveEnds
    <2>4. Min(E) + WindowRows - 1 \in 1..n /\ Min(E) <= Min(E) + WindowRows - 1
      <3>1. Min(E) \in 1..m
        BY <1>3, <2>3
      <3>2. /\ n \in Nat /\ m \in Nat /\ m = n - WindowRows + 1
            /\ WindowRows \in Nat /\ WindowRows >= 2
        BY <1>2
      <3>3. QED
        BY <3>1, <3>2
    <2>5. QED
      BY <1>2, <2>1, <2>2, <2>4 DEF BreachContract
  <1>9. QED
    BY <1>4, <1>6, <1>7, <1>8

\* As many breaches are found as the figures count.
LEMMA BreachesAreCounted ==
  ASSUME NEW e \in [0..Rows -> Int], NEW failureRules, FailureRuleContract(failureRules),
         NEW window, IsSpan(window.start, window.end),
         window = Candidate(e, failureRules, window.start, window.end),
         NEW breaches_, breaches_ = FailureBreaches(e, failureRules, window,
                                                    LossEpisode(e, window))
  PROVE  /\ IsFiniteSet(breaches_) /\ Cardinality(breaches_) = BreachCount(window)
         /\ \A b \in breaches_ : b.onset \in 1..WindowLength(window) /\ BreachContract(b)
  <1>1. PICK n, wealth, m : Measured(e, window, n, wealth, m)
    BY WindowsAreMeasured
  <1> DEFINE deepest == Max(Range(WindowDrawdowns(wealth)))
             rolling == Min(Range(RollingCompounded(wealth)))
             evaluable == VolatilityEvaluable(e, window.start, wealth) # {}
             excess == [rule \in failureRules |-> Excess(rule, deepest, rolling, evaluable)]
             broken == {rule \in failureRules : IsBreached(e, window, rule)}
             Breach(rule) == FailureBreach(e, window, rule, LossEpisode(e, window))
             f == [rule \in broken |-> Breach(rule)]
  <1>2. BreachCount(window) = Cardinality({rule \in failureRules : excess[rule] > 0})
    <2>1. wealth = WindowWealth(e, window.start, window.end)
      BY <1>1 DEF Measured
    <2> DEFINE severity == <<Cardinality({rule \in failureRules : excess[rule] > 0}),
                             Max(Range(excess)), SumFunction(excess),
                             Max({deepest, 0, -wealth[Len(wealth)], -rolling})>>
    <2>2. Candidate(e, failureRules, window.start, window.end).severity = severity
      BY <2>1 DEF Candidate
    <2>3. window.severity = severity
      BY <2>2
    <2>4. severity[1] = Cardinality({rule \in failureRules : excess[rule] > 0})
      OBVIOUS
    <2> HIDE DEF severity
    <2>5. QED
      BY <2>3, <2>4 DEF BreachCount
  <1>3. {rule \in failureRules : excess[rule] > 0} = broken
    <2>1. \A rule \in failureRules :
            Excess(rule, deepest, rolling, evaluable) > 0 <=> IsBreached(e, window, rule)
      BY <1>1, ExcessesAreBreaches
    <2> HIDE DEF deepest, rolling, evaluable
    <2>2. QED
      BY <2>1
  <1>4. \A rule \in broken : /\ Breach(rule).rule = rule
                             /\ Breach(rule).onset \in 1..WindowLength(window)
                             /\ BreachContract(Breach(rule))
    BY BreachesAreSound
  <1>5. breaches_ = {Breach(rule) : rule \in broken}
    BY DEF FailureBreaches
  <1>6. IsFiniteSet(broken)
    <2>1. IsFiniteSet(failureRules)
      BY RulesAreFinite
    <2>2. broken \subseteq failureRules
      OBVIOUS
    <2>3. QED
      BY <2>1, <2>2, FS_Subset
  <1> HIDE DEF Breach, broken
  <1>7. f \in Bijection(broken, breaches_)
    <2>1. f \in [broken -> breaches_]
      BY <1>5
    <2>2. \A r, q \in broken : f[r] = f[q] => r = q
      BY <1>4
    <2>3. \A b \in breaches_ : \E r \in broken : f[r] = b
      BY <1>5
    <2> HIDE DEF f
    <2>4. QED
      BY <2>1, <2>2, <2>3 DEF Bijection, Injection, Surjection, IsInjective
  <1> HIDE DEF f
  <1>8. IsFiniteSet(breaches_) /\ Cardinality(breaches_) = Cardinality(broken)
    BY <1>6, <1>7, FS_Bijection DEF ExistsBijection
  <1>9. Cardinality(breaches_) = BreachCount(window)
    BY <1>2, <1>3, <1>8
  <1>10. QED
    BY <1>4, <1>5, <1>8, <1>9

\* Of what a window's evidence must meet, only the positions can fail it.
LEMMA WindowsMeetTheContract ==
  ASSUME NEW e \in [0..Rows -> Int], NEW failureRules, FailureRuleContract(failureRules),
         NEW window, IsSpan(window.start, window.end), BreachCount(window) > 0,
         window = Candidate(e, failureRules, window.start, window.end),
         NEW breaches_, breaches_ = FailureBreaches(e, failureRules, window,
                                                    LossEpisode(e, window))
  PROVE  /\ \A b \in breaches_ : BreachContract(b)
         /\ Cardinality(breaches_) = BreachCount(window)
         /\ WindowContract(window, breaches_, LossEpisode(e, window))
  <1> DEFINE episode == LossEpisode(e, window)
             onsets  == {b.onset : b \in breaches_}
             n       == WindowLength(window)
  <1>1. /\ IsFiniteSet(breaches_) /\ Cardinality(breaches_) = BreachCount(window)
        /\ \A b \in breaches_ : b.onset \in 1..n /\ BreachContract(b)
    BY BreachesAreCounted
  <1>2. n \in Nat
    BY RowsAssumption DEF IsSpan, WindowLength
  <1>3. breaches_ # {}
    <2>1. Cardinality(breaches_) # 0
      BY <1>1
    <2>2. QED
      BY <2>1, FS_EmptySet
  <1>4. Min(onsets) \in 1..n
    <2>1. onsets # {} /\ onsets \subseteq 1..n
      BY <1>1, <1>3
    <2> HIDE DEF onsets
    <2>2. Min(onsets) \in onsets
      BY <1>2, <2>1, PlacesHaveEnds
    <2>3. QED
      BY <2>1, <2>2
  <1>5. PICK k, wealth, m : Measured(e, window, k, wealth, m)
    BY WindowsAreMeasured
  <1>6. k = n
    BY <1>5 DEF Measured
  <1>7. /\ episode.trough \in 1..n /\ episode.lossStart \in 1..episode.trough
        /\ episode.attributed = episode.loss
        /\ episode.recovery # NoRow => episode.recovery >= episode.trough
    BY <1>5, <1>6, EpisodesAreLosses
  <1> HIDE DEF n, episode, onsets
  <1>8. episode.lossStart \in 1..n /\ episode.lossStart <= episode.trough
    BY <1>2, <1>7
  <1>9. WindowContract(window, breaches_, episode)
    BY <1>4, <1>7, <1>8 DEF WindowContract, n, onsets
  <1>10. QED
    BY <1>1, <1>9 DEF episode

(***************************************************************************)
(* _build_result, for any history and rules: evidence never contradicts    *)
(* the figures a window was ranked by, nor its own contract.  A scan that  *)
(* raises met a breach over rows on which no position was held.            *)
(***************************************************************************)
THEOREM OnlyUnheldLossesAreRefused == EngineSpec => []OnlyCostLossesAreRefused
  <1>1. EngineInit => OnlyCostLossesAreRefused
    BY DEF EngineInit, ScanInit, ScanIdle, OnlyCostLossesAreRefused
  <1>2. ASSUME ScanInvariant, OnlyCostLossesAreRefused, [EngineNext]_engineVars
        PROVE  OnlyCostLossesAreRefused'
    <2>1. CASE UNCHANGED scanVars
      BY <1>2, <2>1 DEF scanVars, OnlyCostLossesAreRefused
    <2>2. CASE BuildResult
      <3> DEFINE window == selected[Len(evidence) + 1]
                 episode == LossEpisode(baseline.equity, window)
                 found == FailureBreaches(baseline.equity, rules, window, episode)
      <3>1. /\ scan = "building" /\ Len(evidence) < Len(selected)
            /\ UNCHANGED <<baseline, rules, selected>>
        BY <2>2 DEF BuildResult
      <3>2. SUFFICES ASSUME scan' = "raised" PROVE OnlyCostLossesAreRefused'
        BY DEF OnlyCostLossesAreRefused
      <3>3. /\ UNCHANGED evidence
            /\ ~(/\ \A b \in found : /\ NamesPositions(baseline.held, window, b)
                                     /\ BreachContract(b)
                 /\ Cardinality(found) = BreachCount(window)
                 /\ WindowContract(window, found, episode))
        BY <2>2, <3>1, <3>2 DEF BuildResult
      <3>4. window \in FailingWindows
        <4>1. /\ Len(evidence) + 1 \in 1..Len(selected) /\ selected # <<>>
              /\ selected = RankAndDeduplicate(candidates, TopK)
              /\ Len(selected) = KeptCount(candidates, TopK)
          BY <1>2, <3>1, SelectedType
        <4>2. WellFormed(candidates) /\ TopK \in Nat
          BY <1>2, <3>1, CollectedType, ScanAssumption
        <4>3. window \in Strongest(candidates)
          BY <4>1, <4>2, KeptAreRanked
        <4>4. QED
          BY <1>2, <3>1, <4>2, <4>3, StrongestType DEF ScanInvariant
      <3>5. /\ baseline.equity \in [0..Rows -> Int] /\ FailureRuleContract(rules)
        BY <1>2, <3>1, CollectedType DEF ScanInvariant
      <3>6. /\ IsSpan(window.start, window.end) /\ BreachCount(window) > 0
            /\ window = Candidate(baseline.equity, rules, window.start, window.end)
        BY <3>4, <3>5, FailingWindowsType
      <3> HIDE DEF window
      <3>7. /\ \A b \in found : BreachContract(b)
            /\ Cardinality(found) = BreachCount(window)
            /\ WindowContract(window, found, episode)
        BY <3>5, <3>6, WindowsMeetTheContract
      <3>8. PICK b \in found : ~NamesPositions(baseline.held, window, b)
        BY <3>3, <3>7
      <3>9. \A t \in (window.start + b.first - 1)..(window.start + b.end - 1) :
              ~baseline.held[t]
        BY <3>8 DEF NamesPositions, AffectsPositions
      <3> HIDE DEF found, episode
      <3>10. QED
        BY <3>1, <3>3, <3>9 DEF OnlyCostLossesAreRefused, window, found, episode
    <2>3. CASE Collect \/ FindNothing \/ Select \/ Answer
      BY <2>3 DEF Collect, FindNothing, Select, Answer, OnlyCostLossesAreRefused
    <2>4. QED
      BY <1>2, <2>1, <2>2, <2>3 DEF EngineNext, ScanNext, engineVars
  <1>3. QED
    BY <1>1, <1>2, ScanInvariantHolds, PTL DEF EngineSpec
-----------------------------------------------------------------------------
(***************************************************************************)
(* What a component does to the total of the evaluation window.            *)
(***************************************************************************)

\* The windows of a scenario that preflight accepts.
LEMMA EvaluationRowsType ==
  ASSUME NEW scenario \in Scenarios, NEW cost, PreflightFault(scenario, cost) = NoCode
  PROVE  EvaluationRows(scenario) \subseteq 0..Rows /\ IsFiniteSet(EvaluationRows(scenario))
  <1>1. Observed(scenario.start) /\ Observed(scenario.end)
    BY DEF PreflightFault, NoCode
  <1>2. PICK first, last : first = DatePosition(scenario.start) /\ last = DatePosition(scenario.end)
    OBVIOUS
  <1>3. first \in 0..Rows /\ last \in 0..Rows
    BY <1>1, <1>2, RowsAssumption DEF Observed, DatePosition
  <1>4. EvaluationRows(scenario) = first..last
    BY <1>2 DEF EvaluationRows
  <1>5. first \in Int /\ last \in Int
    BY <1>3
  <1>6. IsFiniteSet(first..last)
    BY <1>5, FS_Interval
  <1>7. first..last \subseteq 0..Rows
    BY <1>3, RowsAssumption
  <1>8. QED
    BY <1>4, <1>6, <1>7

\* T are the rows a component changes, from the first to the last.
Changes(component, first, last, T) ==
  /\ first = FirstRow(component) /\ last = LastRow(component)
  /\ first \in 0..Rows /\ last \in 0..Rows /\ first <= last
  /\ T = first..last /\ IsFiniteSet(T) /\ Cardinality(T) = last - first + 1
  /\ component.family = "one_day_gap" => last = first
  /\ component.family = "sustained_cumulative_shock" => last = first + component.rows - 1

LEMMA ChangedRows ==
  ASSUME NEW scenario \in Scenarios, NEW cost,
         NEW component, ComponentContract(component),
         ComponentFault(component, scenario, cost) = NoCode,
         component.family # "transaction_cost_multiplier"
  PROVE  \E first, last, T : Changes(component, first, last, T)
  <1>1. WindowFits(component, scenario)
    BY DEF ComponentFault, NoCode
  <1>2. PICK first, last : first = FirstRow(component) /\ last = LastRow(component)
    OBVIOUS
  <1>3. first \in 0..Rows
    BY <1>1, <1>2, RowsAssumption DEF WindowFits, Observed, FirstRow, DatePosition
  <1>4. /\ component.family = "one_day_gap" => last = first
        /\ component.family = "sustained_cumulative_shock" =>
             last = first + component.rows - 1 /\ component.rows \in Nat
        /\ component.family \notin {"one_day_gap", "sustained_cumulative_shock"} =>
             last = component.end \div 2
    BY <1>2 DEF LastRow, DatePosition, ComponentContract, MaxDurationRows
  <1>5. component.end \in Nat
    BY DEF ComponentContract
  <1>6. last \in Int
    BY <1>3, <1>4, <1>5
  <1>7. last - first + 1 >= 1 /\ last <= Rows
    <2>1. MinimumRows(component) \in {1, 2, 3}
      BY DEF MinimumRows
    <2>2. last - first + 1 >= MinimumRows(component) /\ last <= Rows
      BY <1>1, <1>2 DEF WindowFits
    <2>3. QED
      BY <1>3, <1>6, <2>1, <2>2
  <1>8. last \in 0..Rows /\ first <= last
    BY <1>3, <1>6, <1>7, RowsAssumption
  <1>9. IsFiniteSet(first..last) /\ Cardinality(first..last) = last - first + 1
    <2>1. first \in Int /\ last \in Int /\ ~(first > last)
      BY <1>3, <1>6, <1>8
    <2>2. QED
      BY <2>1, FS_Interval
  <1>10. QED
    BY <1>2, <1>3, <1>4, <1>8, <1>9 DEF Changes

\* What a component declares for an asset.
Declared(component, s) ==
  IF component.family \in Shocks /\ s \in component.symbols THEN component.size ELSE 0

\* The numbers of a sustained shock.
LEMMA SustainedType ==
  ASSUME NEW component, ComponentContract(component),
         component.family = "sustained_cumulative_shock"
  PROVE  component.size \in Int /\ component.rows \in Nat /\ component.rows > 0
  <1>1. PICK r : r = component.rows
    OBVIOUS
  <1>2. component.size \in Int /\ r \in 1..252
    BY <1>1 DEF ComponentContract, MaxDurationRows
  <1>3. r \in Nat /\ r > 0
    BY <1>2
  <1>4. QED
    BY <1>1, <1>2, <1>3

\* A component keeps the returns whole numbers.
LEMMA TransformedType ==
  ASSUME NEW component, ComponentContract(component),
         component.family \notin {"transaction_cost_multiplier", "historical_window"},
         NEW first, NEW last, NEW T, Changes(component, first, last, T),
         NEW returns \in [Symbols -> [0..Rows -> Int]], NEW s \in Symbols, NEW t \in T
  PROVE  Transformed(returns, component, s, t) \in Int
  <1>1. /\ first \in Int /\ last \in Int /\ t \in 0..Rows /\ T = first..last
        /\ first = FirstRow(component) /\ last = LastRow(component)
    BY RowsAssumption DEF Changes
  <1>2. returns[s][t] \in Int
    BY <1>1
  <1>3. CASE component.family = "one_day_gap"
    BY <1>2, <1>3 DEF Transformed, ComponentContract
  <1>4. CASE component.family = "sustained_cumulative_shock"
    <2>1. component.size \in Int /\ component.rows \in Nat /\ component.rows > 0
      BY <1>4, SustainedType
    <2>2. component.size \div component.rows \in Int
      BY <2>1
    <2>3. QED
      BY <1>2, <1>4, <2>2 DEF Transformed
  <1>5. CASE component.family = "volatility_multiplier"
    <2>1. \A u \in T : u \in 0..Rows
      BY RowsAssumption DEF Changes
    <2>2. IsFiniteSet(T) /\ \A u \in T : returns[s][u] \in Int
      BY <2>1 DEF Changes
    <2>3. SumFunctionOnSet(returns[s], T) \in Int
      BY <2>2, SumType
    <2>4. Cardinality(T) \in Nat /\ Cardinality(T) > 0
      BY <1>1 DEF Changes
    <2>5. Transformed(returns, component, s, t) = Scaled(returns[s], T, t, component.size)
      BY <1>1, <1>5 DEF Transformed
    <2>6. component.size \in Int
      BY <1>5 DEF ComponentContract
    <2>7. QED
      BY <1>2, <2>3, <2>4, <2>5, <2>6 DEF Scaled, Total
  <1>6. CASE component.family = "correlation_target"
    <2>1. first + last - t \in 0..Rows
      <3>1. first \in 0..Rows /\ last \in 0..Rows /\ first <= t /\ t <= last
        BY <1>1 DEF Changes
      <3>2. QED
        BY <1>1, <3>1, RowsAssumption
    <2>2. returns[s][first + last - t] \in Int
      BY <2>1
    <2>3. QED
      BY <1>1, <1>2, <1>6, <2>2 DEF Transformed
  <1>7. QED
    BY <1>3, <1>4, <1>5, <1>6 DEF ComponentContract

\* f and g are the returns of an asset before and after a component.
BeforeAndAfter(f, g, component, returns, s, T) ==
  /\ returns \in [Symbols -> [0..Rows -> Int]] /\ s \in Symbols /\ f = returns[s]
  /\ \A t \in T : g[t] = IF s \in component.symbols
                      THEN Transformed(returns, component, s, t) ELSE returns[s][t]

\* Over the rows it changes, a component adds to an asset what it declares.
LEMMA TransformedTotal ==
  ASSUME NEW component, ComponentContract(component),
         component.family \notin {"transaction_cost_multiplier", "historical_window"},
         NEW first, NEW last, NEW T, Changes(component, first, last, T),
         NEW returns, WholeSteps(returns, component), NEW s, NEW f, NEW g,
         BeforeAndAfter(f, g, component, returns, s, T)
  PROVE  SumFunctionOnSet(g, T) = SumFunctionOnSet(f, T) + Declared(component, s)
  <1>1. /\ first \in Int /\ last \in Int /\ first <= last /\ T = first..last
        /\ first = FirstRow(component) /\ last = LastRow(component)
        /\ Cardinality(T) = last - first + 1
    BY RowsAssumption DEF Changes
  <1>2. IsFiniteSet(T) /\ \A t \in T : f[t] \in Int
    <2>1. \A t \in T : t \in 0..Rows
      BY RowsAssumption DEF Changes
    <2>2. \A t \in 0..Rows : f[t] \in Int
      BY DEF BeforeAndAfter
    <2>3. QED
      BY <2>1, <2>2 DEF Changes
  <1>3. PICK n, total : n = Cardinality(T) /\ total = SumFunctionOnSet(f, T)
    OBVIOUS
  <1>4. n \in Nat /\ n > 0 /\ total \in Int
    <2>1. total \in Int
      BY <1>2, <1>3, SumType
    <2>2. QED
      BY <1>1, <1>3, <2>1
  <1>5. CASE s \notin component.symbols
    <2>1. \A t \in T : f[t] = g[t]
      BY <1>5 DEF BeforeAndAfter
    <2>2. SumFunctionOnSet(f, T) = SumFunctionOnSet(g, T)
      BY <1>2, <2>1, SumsOfEquals
    <2>3. Declared(component, s) = 0
      BY <1>5 DEF Declared
    <2>4. QED
      BY <1>3, <1>4, <2>2, <2>3
  <1>6. ASSUME s \in component.symbols
        PROVE  f = returns[s] /\ \A t \in T : g[t] = Transformed(returns, component, s, t)
    BY <1>6 DEF BeforeAndAfter
  <1>7. CASE s \in component.symbols /\ component.family = "one_day_gap"
    <2>1. PICK b : b = component.size
      OBVIOUS
    <2>2. b \in Int /\ Declared(component, s) = b /\ n = 1
      BY <1>1, <1>3, <1>7, <2>1 DEF ComponentContract, Declared, Shocks, Changes
    <2>3. \A t \in T : f[t] \in Int /\ g[t] = b + 1 * f[t]
      BY <1>2, <1>6, <1>7, <2>1, <2>2 DEF Transformed
    <2>4. SumFunctionOnSet(g, T) = b * Cardinality(T) + 1 * SumFunctionOnSet(f, T)
      BY <1>2, <2>2, <2>3, SumOfAffine
    <2>5. SumFunctionOnSet(g, T) = b * n + 1 * total
      BY <1>3, <2>4
    <2>6. b * n + 1 * total = total + b
      BY <1>4, <2>2
    <2>7. QED
      BY <1>3, <2>2, <2>5, <2>6
  <1>8. CASE s \in component.symbols /\ component.family = "sustained_cumulative_shock"
    <2>1. PICK b, size : b = component.size \div component.rows /\ size = component.size
      OBVIOUS
    <2>2. size \in Int /\ component.rows = n /\ size % n = 0
      <3>1. size \in Int /\ component.rows \in Int
        BY <1>8, <2>1, SustainedType
      <3>2. last = first + component.rows - 1
        BY <1>8 DEF Changes
      <3>3. component.rows = n
        BY <1>1, <1>3, <3>1, <3>2
      <3>4. size % component.rows = 0
        BY <1>8, <2>1 DEF WholeSteps
      <3>5. QED
        BY <3>1, <3>3, <3>4
    <2>3. b \in Int /\ n * b = size
      BY <1>4, <2>1, <2>2
    <2>4. \A t \in T : f[t] \in Int /\ g[t] = b + 1 * f[t]
      BY <1>2, <1>6, <1>8, <2>1, <2>3 DEF Transformed
    <2>5. SumFunctionOnSet(g, T) = b * Cardinality(T) + 1 * SumFunctionOnSet(f, T)
      BY <1>2, <2>3, <2>4, SumOfAffine
    <2>6. Declared(component, s) = size /\ b * n = size
      BY <1>4, <1>8, <2>1, <2>3 DEF Declared, Shocks
    <2>7. QED
      BY <1>3, <1>4, <2>2, <2>5, <2>6
  <1>9. CASE s \in component.symbols /\ component.family = "volatility_multiplier"
    <2>1. PICK mean, m : mean = total \div n /\ m = component.size
      OBVIOUS
    <2>2. m \in Int /\ total % n = 0
      <3>1. m \in Int
        BY <1>9, <2>1 DEF ComponentContract
      <3>2. f = returns[s]
        BY <1>6, <1>9
      <3>3. Total(returns[s], T) % Cardinality(T) = 0
        BY <1>1, <1>9 DEF WholeSteps
      <3>4. QED
        BY <1>3, <3>1, <3>2, <3>3 DEF Total
    <2>3. mean \in Int /\ n * mean = total
      BY <1>4, <2>1, <2>2
    <2>4. PICK b : b = mean - m * mean
      OBVIOUS
    <2>5. b \in Int
      BY <2>2, <2>3, <2>4
    <2>6. \A t \in T : f[t] \in Int /\ g[t] = b + m * f[t]
      <3> SUFFICES ASSUME NEW t \in T PROVE g[t] = b + m * f[t]
        BY <1>2
      <3>1. g[t] = mean + m * (f[t] - mean)
        BY <1>1, <1>3, <1>6, <1>9, <2>1 DEF Transformed, Scaled, Total
      <3>2. PICK y : y = f[t]
        OBVIOUS
      <3>3. y \in Int
        BY <1>2, <3>2
      <3>4. m * (y - mean) = m * y - m * mean
        BY <2>2, <2>3, <3>3
      <3>5. m * y \in Int /\ m * mean \in Int
        BY <2>2, <2>3, <3>3
      <3>6. QED
        BY <2>3, <2>4, <3>1, <3>2, <3>4, <3>5
    <2>7. SumFunctionOnSet(g, T) = b * Cardinality(T) + m * SumFunctionOnSet(f, T)
      BY <1>2, <2>2, <2>5, <2>6, SumOfAffine
    <2>8. b * n + m * total = total
      <3>1. b * n = n * mean - m * (n * mean)
        BY <1>4, <2>2, <2>3, <2>4
      <3>2. m * total \in Int
        BY <1>4, <2>2
      <3>3. QED
        BY <1>4, <2>3, <3>1, <3>2
    <2>9. Declared(component, s) = 0
      BY <1>9 DEF Declared, Shocks
    <2>10. QED
      BY <1>3, <1>4, <2>7, <2>8, <2>9
  <1>10. CASE s \in component.symbols /\ component.family = "correlation_target"
    <2>1. Declared(component, s) = 0
      BY <1>10 DEF Declared, Shocks
    <2>2. CASE s = Recolored
      <3>1. PICK sum : sum = first + last
        OBVIOUS
      <3>2. sum \in Int /\ T \subseteq Int
        BY <1>1, <3>1
      <3>3. \A t \in T : sum - t \in T
        <4>1. T = first..last /\ first \in Int /\ last \in Int
          BY <1>1
        <4>2. \A t \in first..last : (first + last) - t \in first..last
          BY <4>1
        <4>3. QED
          BY <3>1, <4>1, <4>2
      <3>4. \A t \in T : g[t] = f[sum - t]
        BY <1>1, <1>6, <1>10, <2>2, <3>1 DEF Transformed
      <3>5. \A t \in T : sum - t \in T /\ f[t] \in Int /\ g[t] = f[sum - t]
        BY <1>2, <3>3, <3>4
      <3>6. Mirrors(g, f, T, sum)
        BY <3>2, <3>5 DEF Mirrors
      <3>7. SumFunctionOnSet(g, T) = SumFunctionOnSet(f, T)
        BY <1>2, <3>6, SumOfMirrored
      <3>8. QED
        BY <1>3, <1>4, <2>1, <3>7
    <2>3. CASE s # Recolored
      <3>1. \A t \in T : f[t] = g[t]
        BY <1>6, <1>10, <2>3 DEF Transformed
      <3>2. SumFunctionOnSet(f, T) = SumFunctionOnSet(g, T)
        BY <1>2, <3>1, SumsOfEquals
      <3>3. QED
        BY <1>3, <1>4, <2>1, <3>2
    <2>4. QED
      BY <2>2, <2>3
  <1>11. QED
    BY <1>5, <1>7, <1>8, <1>9, <1>10 DEF ComponentContract

\* An accepted component adds what it declares to the total of the window.
LEMMA TotalOfComponent ==
  ASSUME NEW scenario \in Scenarios, NEW cost, PreflightFault(scenario, cost) = NoCode,
         NEW component, ComponentContract(component),
         ComponentFault(component, scenario, cost) = NoCode,
         NEW returns \in [Symbols -> [0..Rows -> Int]], WholeSteps(returns, component),
         NEW after, after = ApplyToReturns(returns, component)
  PROVE  /\ after \in [Symbols -> [0..Rows -> Int]]
         /\ \A s \in Symbols : Total(after[s], EvaluationRows(scenario))
              = Total(returns[s], EvaluationRows(scenario)) + Declared(component, s)
  <1>1. CASE component.family = "transaction_cost_multiplier"
    <2>1. after = returns
      BY <1>1 DEF ApplyToReturns
    <2>2. \A s \in Symbols : Declared(component, s) = 0
      BY <1>1 DEF Declared, Shocks
    <2>3. \A s \in Symbols : Total(returns[s], EvaluationRows(scenario)) \in Int
      <3> SUFFICES ASSUME NEW s \in Symbols
                   PROVE  Total(returns[s], EvaluationRows(scenario)) \in Int
        OBVIOUS
      <3>1. PICK W : W = EvaluationRows(scenario)
        OBVIOUS
      <3>2. IsFiniteSet(W) /\ \A t \in W : returns[s][t] \in Int
        BY <3>1, EvaluationRowsType
      <3>3. QED
        BY <3>1, <3>2, SumType DEF Total
    <2>4. QED
      BY <2>1, <2>2, <2>3
  <1>2. CASE component.family # "transaction_cost_multiplier"
    <2>1. PICK first, last, T : Changes(component, first, last, T)
      BY <1>2, ChangedRows
    <2>2. component.family # "historical_window"
      BY DEF ComponentFault, NoCode
    <2>3. after = [s \in Symbols |-> [t \in 0..Rows |->
                     IF s \in component.symbols /\ t \in T
                     THEN Transformed(returns, component, s, t) ELSE returns[s][t]]]
      BY <1>2, <2>1 DEF ApplyToReturns, Changes
    <2>4. \A s \in Symbols : \A t \in T : Transformed(returns, component, s, t) \in Int
      BY <1>2, <2>1, <2>2, TransformedType
    <2>5. \A s \in Symbols : \A t \in 0..Rows : returns[s][t] \in Int
      OBVIOUS
    <2>6. after \in [Symbols -> [0..Rows -> Int]]
      BY <2>3, <2>4, <2>5
    <2>7. ASSUME NEW s \in Symbols
          PROVE  Total(after[s], EvaluationRows(scenario))
                   = Total(returns[s], EvaluationRows(scenario)) + Declared(component, s)
      <3>1. PICK f, g, W, d :
              /\ f = returns[s] /\ g = after[s] /\ W = EvaluationRows(scenario)
              /\ d = Declared(component, s)
        OBVIOUS
      <3>2. f \in [0..Rows -> Int] /\ g \in [0..Rows -> Int]
        BY <2>6, <3>1
      <3>3. W \subseteq 0..Rows /\ IsFiniteSet(W) /\ T \in SUBSET W
        <4>1. T \subseteq W
          BY <1>2, <2>1, <3>1, FittingRows DEF Changes
        <4>2. QED
          BY <3>1, <4>1, EvaluationRowsType
      <3>4. d \in Int
        BY <3>1 DEF Declared, ComponentContract, Shocks
      <3>5. \A t \in W \ T : g[t] = f[t]
        BY <2>3, <3>1, <3>3
      <3>6. SumFunctionOnSet(g, T) = SumFunctionOnSet(f, T) + d
        <4>1. BeforeAndAfter(f, g, component, returns, s, T)
          BY <2>3, <3>1, <3>3 DEF BeforeAndAfter
        <4>2. component.family \notin {"transaction_cost_multiplier", "historical_window"}
          BY <1>2, <2>2
        <4>3. QED
          BY <2>1, <3>1, <4>1, <4>2, TransformedTotal
      <3>7. \A t \in W : f[t] \in Int /\ g[t] \in Int
        BY <3>2, <3>3
      <3>8. SumFunctionOnSet(g, W) = SumFunctionOnSet(f, W) + d
        <4>1. IsFiniteSet(W) /\ T \in SUBSET W
          BY <3>3
        <4>2. QED
          BY <4>1, <3>4, <3>5, <3>6, <3>7, SumOfChange
      <3>9. QED
        BY <3>1, <3>8 DEF Total
    <2>8. QED
      BY <2>6, <2>7
  <1>3. QED
    BY <1>1, <1>2
-----------------------------------------------------------------------------
(***************************************************************************)
(* The evidence, component by component.                                   *)
(***************************************************************************)

\* The sum over the first numbers is that of one less and the last.
LEMMA SumOfFirst ==
  ASSUME NEW n \in Nat, n >= 1, NEW f, \A k \in 1..n : f[k] \in Int
  PROVE  /\ SumFunctionOnSet(f, 1..(n - 1)) \in Int
         /\ SumFunctionOnSet(f, 1..n) = f[n] + SumFunctionOnSet(f, 1..(n - 1))
  <1>1. PICK S, T : S = 1..n /\ T = 1..(n - 1)
    OBVIOUS
  <1>2. n \in S /\ T = S \ {n} /\ T \subseteq S
    BY <1>1
  <1>3. IsFiniteSet(S)
    BY <1>1, SomeNumbers
  <1>4. IsFiniteSet(T)
    BY <1>2, <1>3, FS_Subset
  <1>5. (\A k \in S : f[k] \in Int) /\ (\A k \in T : f[k] \in Int)
    BY <1>1, <1>2
  <1>6. SumFunctionOnSet(f, T) \in Int
    BY <1>4, <1>5, SumType
  <1>7. SumFunctionOnSet(f, S) = f[n] + SumFunctionOnSet(f, S \ {n})
    BY <1>2, <1>3, <1>5, SumTakesAny
  <1>8. QED
    BY <1>1, <1>2, <1>6, <1>7

\* Preflight accepts at most one component that multiplies the cost.
LEMMA CostIsMultipliedOnce ==
  ASSUME NEW scenario \in Scenarios, NEW cost, PreflightFault(scenario, cost) = NoCode,
         NEW n \in CostComponents(scenario), NEW k \in CostComponents(scenario)
  PROVE  n = k
  <1>1. PICK count \in 1..MaxComponents : DOMAIN scenario.components = 1..count
    BY StressAssumption DEF ScenarioContract
  <1>2. count \in Nat
    BY <1>1 DEF MaxComponents
  <1>3. IsFiniteSet(1..count) /\ CostComponents(scenario) \subseteq 1..count
    BY <1>1, <1>2, SomeNumbers DEF CostComponents
  <1>4. PICK S : S = CostComponents(scenario)
    OBVIOUS
  <1>5. IsFiniteSet(S) /\ n \in S /\ k \in S
    BY <1>3, <1>4, FS_Subset
  <1>6. ~(Cardinality(S) > 1)
    BY <1>4 DEF PreflightFault, NoCode
  <1>7. Cardinality(S) \in Nat /\ IsFiniteSet(S \ {n}) /\ Cardinality(S \ {n}) = Cardinality(S) - 1
    BY <1>5, FS_CardinalityType, FS_RemoveElement
  <1>8. Cardinality(S \ {n}) \in Nat
    BY <1>7, FS_CardinalityType
  <1>9. Cardinality(S \ {n}) = 0
    BY <1>6, <1>7, <1>8
  <1>10. S \ {n} = {}
    BY <1>7, <1>9, FS_EmptySet
  <1>11. QED
    BY <1>5, <1>10

\* The components of a scenario that has passed preflight.
LEMMA AcceptedScenario ==
  ASSUME PreflightPassed, stress \in Transforming
  PROVE  /\ experiment.scenario \in Scenarios
         /\ PreflightFault(experiment.scenario, experiment.cost) = NoCode
         /\ \E count \in Nat : DOMAIN Components = 1..count
         /\ \A n \in DOMAIN Components :
              /\ ComponentContract(Components[n])
              /\ ComponentFault(Components[n], experiment.scenario, experiment.cost) = NoCode
  <1>1. /\ experiment.scenario \in Scenarios
        /\ PreflightFault(experiment.scenario, experiment.cost) = NoCode
    BY DEF PreflightPassed, Transforming
  <1>2. ScenarioContract(experiment.scenario)
    BY <1>1, StressAssumption
  <1>3. PICK count \in 1..MaxComponents : DOMAIN Components = 1..count
    BY <1>2 DEF ScenarioContract, Components
  <1>4. count \in Nat
    BY <1>3 DEF MaxComponents
  <1>5. ASSUME NEW n \in DOMAIN Components
        PROVE  /\ ComponentContract(Components[n])
               /\ ComponentFault(Components[n], experiment.scenario, experiment.cost) = NoCode
    BY <1>1, <1>2, AcceptedComponents DEF Components, ScenarioContract
  <1>6. QED
    BY <1>1, <1>3, <1>4, <1>5

\* The cost is multiplied when its component is applied.
LEMMA MultiplierStep ==
  ASSUME NEW scenario \in Scenarios, NEW cost, PreflightFault(scenario, cost) = NoCode,
         NEW n \in Nat, n \in DOMAIN scenario.components,
         ComponentContract(scenario.components[n])
  PROVE  /\ scenario.components[n].family = "transaction_cost_multiplier" =>
              /\ MultiplierBefore(scenario, n) = 1
              /\ MultiplierBefore(scenario, n + 1) = scenario.components[n].size
              /\ scenario.components[n].size \in Nat
         /\ scenario.components[n].family # "transaction_cost_multiplier" =>
              MultiplierBefore(scenario, n + 1) = MultiplierBefore(scenario, n)
  <1> DEFINE Before(m) == {k \in CostComponents(scenario) : k < m}
  <1>1. \A k \in CostComponents(scenario) : k \in Int
    BY StressAssumption DEF CostComponents, ScenarioContract, MaxComponents
  <1>2. CASE scenario.components[n].family = "transaction_cost_multiplier"
    <2>1. n \in CostComponents(scenario)
      BY <1>2 DEF CostComponents
    <2>2. \A k \in CostComponents(scenario) : k = n
      BY <2>1, CostIsMultipliedOnce
    <2>3. Before(n) = {} /\ Before(n + 1) = {n}
      <3>1. ~(n < n) /\ n < n + 1
        OBVIOUS
      <3>2. Before(n) = {}
        BY <2>2, <3>1
      <3>3. Before(n + 1) = {n}
        BY <2>1, <2>2, <3>1
      <3>4. QED
        BY <3>2, <3>3
    <2>4. (CHOOSE k \in Before(n + 1) : TRUE) = n
      BY <2>3
    <2>5. MultiplierBefore(scenario, n) = 1
      BY <2>3 DEF MultiplierBefore
    <2>6. MultiplierBefore(scenario, n + 1) = scenario.components[n].size
      BY <2>3, <2>4 DEF MultiplierBefore
    <2>7. scenario.components[n].size \in Nat
      BY <1>2 DEF ComponentContract
    <2>8. QED
      BY <1>2, <2>5, <2>6, <2>7
  <1>3. CASE scenario.components[n].family # "transaction_cost_multiplier"
    <2>1. n \notin CostComponents(scenario)
      BY <1>3 DEF CostComponents
    <2>2. Before(n + 1) = Before(n)
      BY <1>1, <2>1
    <2>3. \A m : MultiplierBefore(scenario, m) =
                   IF Before(m) = {} THEN 1
                   ELSE scenario.components[CHOOSE k \in Before(m) : TRUE].size
      BY DEF MultiplierBefore
    <2> HIDE DEF Before
    <2>4. QED
      BY <1>3, <2>2, <2>3
  <1>4. QED
    BY <1>2, <1>3

\* The evidence stays what the components applied so far declare.
LEMMA ComponentAddsUp ==
  ASSUME PreflightPassed, StressAddsUp, StepsAreWhole,
         stress = "producing", next \in DOMAIN Components, ApplyComponent
  PROVE  StressAddsUp'
  <1>1. /\ UNCHANGED <<experiment, stress>> /\ next' = next + 1
        /\ staged' = ApplyToReturns(staged, Components[next])
        /\ stagedCost' = ApplyToCost(stagedCost, Components[next])
    BY DEF ApplyComponent
  <1>2. /\ experiment.scenario \in Scenarios
        /\ PreflightFault(experiment.scenario, experiment.cost) = NoCode
        /\ ComponentContract(Components[next])
        /\ ComponentFault(Components[next], experiment.scenario, experiment.cost) = NoCode
    BY AcceptedScenario DEF Transforming
  <1>3. PICK count \in Nat : DOMAIN Components = 1..count
    BY AcceptedScenario DEF Transforming
  <1>4. next \in Nat /\ next >= 1 /\ next <= count
    BY <1>3
  <1>5. /\ experiment.market \in Markets /\ experiment.cost \in Costs
        /\ staged \in [Symbols -> [0..Rows -> Int]]
        /\ stagedCost = experiment.cost * MultiplierBefore(experiment.scenario, next)
        /\ \A s \in Symbols :
             Total(staged[s], EvaluationRows(experiment.scenario))
               = Total(experiment.market[s], EvaluationRows(experiment.scenario))
                   + SumFunctionOnSet(ShocksOf(s), 1..(next - 1))
    BY DEF StressAddsUp
  <1>6. /\ staged' \in [Symbols -> [0..Rows -> Int]]
        /\ \A s \in Symbols : Total(staged'[s], EvaluationRows(experiment.scenario))
             = Total(staged[s], EvaluationRows(experiment.scenario))
                 + Declared(Components[next], s)
    <2>1. WholeSteps(staged, Components[next])
      BY DEF StepsAreWhole
    <2>2. PICK after : after = staged'
      OBVIOUS
    <2>3. QED
      BY <1>1, <1>2, <1>5, <2>1, <2>2, TotalOfComponent
  <1>7. \A s \in Symbols :
          /\ SumFunctionOnSet(ShocksOf(s), 1..(next - 1)) \in Int
          /\ SumFunctionOnSet(ShocksOf(s), 1..next)
               = Declared(Components[next], s) + SumFunctionOnSet(ShocksOf(s), 1..(next - 1))
          /\ Declared(Components[next], s) \in Int
    <2> SUFFICES ASSUME NEW s \in Symbols
                 PROVE  /\ SumFunctionOnSet(ShocksOf(s), 1..(next - 1)) \in Int
                        /\ SumFunctionOnSet(ShocksOf(s), 1..next)
                             = Declared(Components[next], s)
                                 + SumFunctionOnSet(ShocksOf(s), 1..(next - 1))
                        /\ Declared(Components[next], s) \in Int
      OBVIOUS
    <2>1. \A n \in DOMAIN Components :
            ShocksOf(s)[n] = Declared(Components[n], s)
      BY DEF ShocksOf, Declared
    <2>2. \A n \in DOMAIN Components : Declared(Components[n], s) \in Int
      BY AcceptedScenario DEF Declared, Shocks, ComponentContract, Transforming
    <2>3. \A n \in 1..next : n \in DOMAIN Components
      BY <1>3, <1>4
    <2>4. PICK f, m : f = ShocksOf(s) /\ m = next
      OBVIOUS
    <2>5. m \in Nat /\ m >= 1 /\ \A k \in 1..m : f[k] \in Int
      BY <1>4, <2>1, <2>2, <2>3, <2>4
    <2>6. /\ SumFunctionOnSet(f, 1..(m - 1)) \in Int
          /\ SumFunctionOnSet(f, 1..m) = f[m] + SumFunctionOnSet(f, 1..(m - 1))
      BY <2>5, SumOfFirst
    <2>7. QED
      BY <2>1, <2>2, <2>4, <2>6
  <1>8. \A s \in Symbols : Total(experiment.market[s], EvaluationRows(experiment.scenario)) \in Int
    <2> SUFFICES ASSUME NEW s \in Symbols
                 PROVE  Total(experiment.market[s], EvaluationRows(experiment.scenario)) \in Int
      OBVIOUS
    <2>1. experiment.market[s] \in [0..Rows -> Int]
      BY <1>5, StressAssumption
    <2>2. PICK f, W : f = experiment.market[s] /\ W = EvaluationRows(experiment.scenario)
      OBVIOUS
    <2>3. IsFiniteSet(W) /\ \A t \in W : f[t] \in Int
      BY <1>2, <2>1, <2>2, EvaluationRowsType
    <2>4. QED
      BY <2>2, <2>3, SumType DEF Total
  <1>9. \A s \in Symbols :
          Total(staged'[s], EvaluationRows(experiment.scenario))
            = Total(experiment.market[s], EvaluationRows(experiment.scenario))
                + SumFunctionOnSet(ShocksOf(s), 1..next)
    BY <1>5, <1>6, <1>7, <1>8
  <1>10. stagedCost' = experiment.cost * MultiplierBefore(experiment.scenario, next + 1)
    <2>1. PICK c, a, b : /\ c = experiment.cost
                         /\ a = MultiplierBefore(experiment.scenario, next)
                         /\ b = MultiplierBefore(experiment.scenario, next + 1)
      OBVIOUS
    <2>2. c \in Int
      <3>1. c \in {cost \in 0..CostLimit : cost < CostLimit} /\ CostLimit \in Nat
        BY <1>5, <2>1, StressAssumption
      <3>2. QED
        BY <3>1
    <2>3. Components[next] = experiment.scenario.components[next]
          /\ next \in DOMAIN experiment.scenario.components
      BY DEF Components
    <2>4. CASE Components[next].family = "transaction_cost_multiplier"
      <3>1. a = 1 /\ b = Components[next].size /\ b \in Int
        BY <1>2, <1>4, <2>1, <2>3, <2>4, MultiplierStep
      <3>2. stagedCost' = c * a * b
        BY <1>1, <1>5, <2>1, <2>4, <3>1 DEF ApplyToCost
      <3>3. c * 1 * b = c * b
        BY <2>2, <3>1
      <3>4. QED
        BY <2>1, <3>1, <3>2, <3>3
    <2>5. CASE Components[next].family # "transaction_cost_multiplier"
      <3>1. a = b
        BY <1>2, <1>4, <2>1, <2>3, <2>5, MultiplierStep
      <3>2. stagedCost' = stagedCost
        BY <1>1, <2>5 DEF ApplyToCost
      <3>3. QED
        BY <1>5, <2>1, <3>1, <3>2
    <2>6. QED
      BY <2>4, <2>5
  <1>11. 1..next \subseteq DOMAIN Components
    BY <1>3, <1>4
  <1>12. next' - 1 = next
    BY <1>1, <1>4
  <1>13. /\ Components' = Components /\ \A s : ShocksOf(s)' = ShocksOf(s)
         /\ EvaluationRows(experiment.scenario)' = EvaluationRows(experiment.scenario)
    BY <1>1 DEF Components, ShocksOf
  <1>14. stress' = "producing"
    BY <1>1
  <1>15. QED
    BY <1>1, <1>5, <1>6, <1>9, <1>10, <1>11, <1>12, <1>13, <1>14 DEF StressAddsUp

AddsUpInvariant == PreflightPassed /\ StressAddsUp

\* The engine begins with no evidence.
LEMMA AddsUpInit == EngineInit => AddsUpInvariant
  <1> SUFFICES ASSUME EngineInit PROVE AddsUpInvariant
    OBVIOUS
  <1>1. PreflightPassed
    BY WindowInit DEF WindowInvariant
  <1>2. CASE StressIdle
    BY <1>1, <1>2 DEF StressIdle, AddsUpInvariant, StressAddsUp
  <1>3. CASE StressInit
    <2>1. stress = "preflight" /\ experiment.market \in Markets /\ experiment.cost \in Costs
      BY <1>3 DEF StressInit
    <2>2. QED
      BY <1>1, <2>1 DEF AddsUpInvariant, StressAddsUp
  <1>4. QED
    BY <1>2, <1>3 DEF EngineInit

\* The evidence begins with the dataset and the configured cost.
LEMMA EvidenceBegins ==
  ASSUME PreflightPassed, StressAddsUp, stress = "dry", stress' = "producing",
         UNCHANGED experiment, next' = 1,
         staged' = experiment.market, stagedCost' = experiment.cost
  PROVE  StressAddsUp'
  <1>1. /\ experiment.market \in Markets /\ experiment.cost \in Costs
        /\ experiment.scenario \in Scenarios
        /\ PreflightFault(experiment.scenario, experiment.cost) = NoCode
    BY AcceptedScenario DEF StressAddsUp, Transforming
  <1>2. staged' \in [Symbols -> [0..Rows -> Int]]
    BY <1>1, StressAssumption
  <1>3. 1..(next' - 1) = {}
    OBVIOUS
  <1>4. MultiplierBefore(experiment.scenario, 1) = 1
    <2>1. \A k \in CostComponents(experiment.scenario) : ~(k < 1)
      BY <1>1, StressAssumption DEF CostComponents, ScenarioContract, MaxComponents
    <2>2. {k \in CostComponents(experiment.scenario) : k < 1} = {}
      BY <2>1
    <2>3. QED
      BY <2>2 DEF MultiplierBefore
  <1>5. experiment.cost = experiment.cost * 1
    <2>1. experiment.cost \in {cost \in 0..CostLimit : cost < CostLimit} /\ CostLimit \in Nat
      BY <1>1, StressAssumption
    <2>2. QED
      BY <2>1
  <1>6. \A s \in Symbols :
          Total(experiment.market[s], EvaluationRows(experiment.scenario))
            = Total(experiment.market[s], EvaluationRows(experiment.scenario))
                + SumFunctionOnSet(ShocksOf(s), {})
    <2> SUFFICES ASSUME NEW s \in Symbols
                 PROVE  Total(experiment.market[s], EvaluationRows(experiment.scenario))
                          = Total(experiment.market[s], EvaluationRows(experiment.scenario))
                              + SumFunctionOnSet(ShocksOf(s), {})
      OBVIOUS
    <2>1. experiment.market[s] \in [0..Rows -> Int]
      BY <1>1, StressAssumption
    <2>2. PICK f, W : f = experiment.market[s] /\ W = EvaluationRows(experiment.scenario)
      OBVIOUS
    <2>3. IsFiniteSet(W) /\ \A t \in W : f[t] \in Int
      BY <1>1, <2>1, <2>2, EvaluationRowsType
    <2>4. Total(f, W) \in Int
      BY <2>3, SumType DEF Total
    <2>5. SumFunctionOnSet(ShocksOf(s), {}) = 0
      BY FS_EmptySet, SumRecursion
    <2>6. QED
      BY <2>2, <2>4, <2>5
  <1>7. /\ Components' = Components /\ \A s : ShocksOf(s)' = ShocksOf(s)
        /\ EvaluationRows(experiment.scenario)' = EvaluationRows(experiment.scenario)
    BY DEF Components, ShocksOf
  <1>8. QED
    BY <1>1, <1>2, <1>3, <1>4, <1>5, <1>6, <1>7 DEF StressAddsUp

\* Where the evidence is complete or does not count, nothing is added.
LEMMA AddsUpLeaves ==
  ASSUME PreflightPassed, StressAddsUp, stress # "idle", UNCHANGED experiment,
         \/ stress' \in {"dry", "rejected"}
         \/ /\ UNCHANGED <<staged, stagedCost, next>>
            /\ stress \in {"producing", "replaying", "judging"}
            /\ stress' \in {"replaying", "judging", "valid", "raised"}
            /\ next \notin DOMAIN Components
  PROVE  StressAddsUp'
  <1>1. /\ Components' = Components /\ \A s : ShocksOf(s)' = ShocksOf(s)
        /\ EvaluationRows(experiment.scenario)' = EvaluationRows(experiment.scenario)
    BY DEF Components, ShocksOf
  <1>2. CASE stress' \in {"dry", "rejected"}
    BY <1>2 DEF StressAddsUp
  <1>3. CASE stress' \notin {"dry", "rejected"}
    BY <1>1, <1>3 DEF StressAddsUp
  <1>4. QED
    BY <1>2, <1>3

\* That preflight has passed is an invariant of its own.
LEMMA PreflightStays ==
  ASSUME PreflightPassed, [EngineNext]_engineVars
  PROVE  PreflightPassed'
  <1>1. CASE UNCHANGED stressVars
    BY <1>1 DEF stressVars, PreflightPassed
  <1>2. ASSUME NEW rejection, Reject(rejection), stress # "idle"
        PROVE  PreflightPassed'
    BY <1>2 DEF Reject, PreflightPassed, Transforming
  <1>3. CASE Preflight
    BY <1>2, <1>3 DEF Preflight, PreflightPassed, Transforming
  <1>4. CASE DryRun
    BY <1>2, <1>4 DEF DryRun, ApplyComponent, PreflightPassed, Transforming
  <1>5. CASE BeginEvidence
    BY <1>2, <1>5 DEF BeginEvidence, PreflightPassed, Transforming
  <1>6. CASE ProduceComponent
    BY <1>2, <1>6 DEF ProduceComponent, ApplyComponent, PreflightPassed, Transforming
  <1>7. CASE FinishTransform
    BY <1>2, <1>7 DEF FinishTransform, PreflightPassed, Transforming
  <1>8. CASE ReplayScenario
    BY <1>2, <1>8 DEF ReplayScenario, PreflightPassed, Transforming
  <1>9. CASE JudgeScenario
    BY <1>2, <1>9 DEF JudgeScenario, PreflightPassed, Transforming
  <1>10. QED
    BY <1>1, <1>3, <1>4, <1>5, <1>6, <1>7, <1>8, <1>9
    DEF EngineNext, StressNext, engineVars

\* Every step keeps the invariant.
LEMMA AddsUpNext ==
  ASSUME AddsUpInvariant, StepsAreWhole, [EngineNext]_engineVars
  PROVE  AddsUpInvariant'
  <1>1. PreflightPassed'
    BY PreflightStays DEF AddsUpInvariant
  <1>2. StressAddsUp'
    <2>1. CASE UNCHANGED stressVars
      <3>1. UNCHANGED <<experiment, staged, stagedCost, next, stress>>
        BY <2>1 DEF stressVars
      <3>2. /\ Components' = Components /\ \A s : ShocksOf(s)' = ShocksOf(s)
            /\ EvaluationRows(experiment.scenario)' = EvaluationRows(experiment.scenario)
        BY <3>1 DEF Components, ShocksOf
      <3>3. QED
        BY <3>1, <3>2 DEF AddsUpInvariant, StressAddsUp
    <2>2. ASSUME NEW rejection, Reject(rejection), stress # "idle"
          PROVE  StressAddsUp'
      BY <2>2, AddsUpLeaves DEF Reject, AddsUpInvariant
    <2>3. CASE Preflight
      BY <2>2, <2>3, AddsUpLeaves DEF Preflight, AddsUpInvariant
    <2>4. CASE DryRun
      <3>1. CASE Reject("invalid_parameter")
        BY <2>2, <2>4, <3>1 DEF DryRun
      <3>2. CASE ApplyComponent
        <4>1. stress = "dry" /\ stress' = "dry" /\ UNCHANGED experiment
          BY <2>4, <3>2 DEF DryRun, ApplyComponent
        <4>2. QED
          BY <4>1, AddsUpLeaves DEF AddsUpInvariant
      <3>3. QED
        BY <2>4, <3>1, <3>2 DEF DryRun
    <2>5. CASE BeginEvidence
      <3>1. CASE Reject("invalid_parameter")
        BY <2>2, <2>5, <3>1 DEF BeginEvidence
      <3>2. CASE ~Reject("invalid_parameter")
        BY <2>5, <3>2, EvidenceBegins DEF BeginEvidence, AddsUpInvariant
      <3>3. QED
        BY <3>1, <3>2
    <2>6. CASE ProduceComponent
      <3>1. CASE Reject("invalid_parameter")
        BY <2>2, <2>6, <3>1 DEF ProduceComponent
      <3>2. CASE ApplyComponent
        BY <2>6, <3>2, ComponentAddsUp DEF ProduceComponent, AddsUpInvariant
      <3>3. QED
        BY <2>6, <3>1, <3>2 DEF ProduceComponent
    <2>7. CASE FinishTransform
      <3>1. CASE Reject("invalid_parameter")
        BY <2>2, <2>7, <3>1 DEF FinishTransform
      <3>2. CASE ~Reject("invalid_parameter")
        BY <2>7, <3>2, AddsUpLeaves DEF FinishTransform, AddsUpInvariant
      <3>3. QED
        BY <3>1, <3>2
    <2>8. CASE ReplayScenario
      <3>1. CASE Reject("invalid_data")
        BY <2>2, <2>8, <3>1 DEF ReplayScenario
      <3>2. CASE ~Reject("invalid_data")
        <4>1. next \notin DOMAIN Components
          BY <2>8 DEF ReplayScenario, AddsUpInvariant, StressAddsUp
        <4>2. QED
          BY <2>8, <3>2, <4>1, AddsUpLeaves DEF ReplayScenario, AddsUpInvariant
      <3>3. QED
        BY <3>1, <3>2
    <2>9. CASE JudgeScenario
      <3>1. CASE Reject("invalid_data")
        BY <2>2, <2>9, <3>1 DEF JudgeScenario
      <3>2. CASE ~Reject("invalid_data")
        <4>1. next \notin DOMAIN Components
          BY <2>9 DEF JudgeScenario, AddsUpInvariant, StressAddsUp
        <4>2. QED
          BY <2>9, <3>2, <4>1, AddsUpLeaves DEF JudgeScenario, AddsUpInvariant
      <3>3. QED
        BY <3>1, <3>2
    <2>10. QED
      BY <2>1, <2>3, <2>4, <2>5, <2>6, <2>7, <2>8, <2>9
      DEF EngineNext, StressNext, engineVars
  <1>3. QED
    BY <1>1, <1>2 DEF AddsUpInvariant

\* When every component has been applied, all that was declared has been added.
LEMMA AllDeclared ==
  ASSUME AddsUpInvariant, stress \in {"replaying", "judging", "valid", "raised"}
  PROVE  StressIsWhatItDeclares
  <1>1. /\ experiment.scenario \in Scenarios /\ experiment.cost \in Costs
        /\ PreflightFault(experiment.scenario, experiment.cost) = NoCode
        /\ \A n \in DOMAIN Components :
             /\ ComponentContract(Components[n])
             /\ ComponentFault(Components[n], experiment.scenario, experiment.cost) = NoCode
    BY AcceptedScenario DEF AddsUpInvariant, StressAddsUp, Transforming
  <1>2. PICK count \in Nat : DOMAIN Components = 1..count
    BY AcceptedScenario DEF AddsUpInvariant, Transforming
  <1>3. next \in Nat \ {0} /\ 1..(next - 1) \subseteq 1..count /\ next \notin 1..count
    BY <1>2 DEF AddsUpInvariant, PreflightPassed, StressAddsUp
  <1>4. 1..(next - 1) = DOMAIN Components
    <2>1. next > count
      BY <1>2, <1>3
    <2>2. next = 1 \/ next - 1 \in 1..(next - 1)
      BY <1>3
    <2>3. next - 1 = count
      BY <1>2, <1>3, <2>1, <2>2
    <2>4. QED
      BY <1>2, <2>3
  <1>5. \A s \in Symbols :
          Total(staged[s], EvaluationRows(experiment.scenario))
            = Total(experiment.market[s], EvaluationRows(experiment.scenario)) + DeclaredShock(s)
    <2>1. \A s : DeclaredShock(s) = SumFunctionOnSet(ShocksOf(s), DOMAIN Components)
      BY DEF DeclaredShock, SumFunction, ShocksOf
    <2>2. QED
      BY <1>4, <2>1 DEF AddsUpInvariant, StressAddsUp
  <1>6. /\ MultiplierBefore(experiment.scenario, next) = DeclaredMultiplier
        /\ experiment.cost * DeclaredMultiplier < CostLimit
    <2>1. PICK costs : costs = CostComponents(experiment.scenario)
      OBVIOUS
    <2>2. \A n \in costs : n \in DOMAIN Components /\ n < next
      <3>1. costs \subseteq DOMAIN Components
        BY <2>1 DEF CostComponents, Components
      <3>2. \A n \in 1..(next - 1) : n < next
        BY <1>3
      <3>3. QED
        BY <1>4, <3>1, <3>2
    <2>3. {n \in costs : n < next} = costs
      BY <2>2
    <2>4. experiment.cost \in Int /\ experiment.cost < CostLimit
      <3>1. /\ experiment.cost \in {cost \in 0..CostLimit : cost < CostLimit}
            /\ CostLimit \in Nat
        BY <1>1, StressAssumption
      <3>2. QED
        BY <3>1
    <2>5. CASE costs = {}
      <3>1. MultiplierBefore(experiment.scenario, next) = 1
        BY <2>1, <2>3, <2>5 DEF MultiplierBefore
      <3>2. DeclaredMultiplier = 1
        <4>1. {Components[n].size : n \in CostComponents(experiment.scenario)} = {}
          BY <2>1, <2>5
        <4>2. QED
          BY <4>1 DEF DeclaredMultiplier
      <3>3. experiment.cost * 1 = experiment.cost
        BY <2>4
      <3>4. QED
        BY <2>4, <3>1, <3>2, <3>3
    <2>6. CASE costs # {}
      <3>1. PICK k : k \in costs
        BY <2>6
      <3>2. costs = {k}
        BY <1>1, <2>1, <3>1, CostIsMultipliedOnce
      <3>3. MultiplierBefore(experiment.scenario, next) = Components[k].size
        <4>1. (CHOOSE n \in costs : TRUE) = k
          BY <3>2
        <4>2. QED
          BY <2>1, <2>3, <2>6, <4>1 DEF MultiplierBefore, Components
      <3>4. DeclaredMultiplier = Components[k].size
        <4>1. {Components[n].size : n \in CostComponents(experiment.scenario)}
                = {Components[k].size}
          BY <2>1, <3>2
        <4>2. (CHOOSE m \in {Components[k].size} : TRUE) = Components[k].size
          OBVIOUS
        <4>3. QED
          BY <4>1, <4>2 DEF DeclaredMultiplier
      <3>5. experiment.cost * Components[k].size < CostLimit
        <4>1. Components[k].family = "transaction_cost_multiplier"
          BY <2>1, <3>1 DEF CostComponents, Components
        <4>2. ComponentFault(Components[k], experiment.scenario, experiment.cost) = NoCode
          BY <1>1, <2>2, <3>1
        <4>3. QED
          BY <4>1, <4>2 DEF ComponentFault, CostFits, NoCode
      <3>6. QED
        BY <3>3, <3>4, <3>5
    <2>7. QED
      BY <2>5, <2>6
  <1>7. stagedCost = experiment.cost * MultiplierBefore(experiment.scenario, next)
    BY DEF AddsUpInvariant, StressAddsUp
  <1>8. QED
    BY <1>5, <1>6, <1>7 DEF StressIsWhatItDeclares

(***************************************************************************)
(* Where the unit of the returns divides what a scenario divides, its      *)
(* stress adds to each asset what the shocks declare, and multiplies the   *)
(* cost by what is declared, for any number and order of components: each  *)
(* adds its own part, and a change of volatility or correlation none.      *)
(***************************************************************************)
THEOREM StressIsAlwaysDeclared ==
  EngineSpec /\ []StepsAreWhole => []StressIsWhatItDeclares
  <1>1. AddsUpInvariant => StressIsWhatItDeclares
    <2>1. CASE stress \in {"replaying", "judging", "valid", "raised"}
      BY <2>1, AllDeclared
    <2>2. CASE stress \notin {"replaying", "judging", "valid", "raised"}
      BY <2>2 DEF StressIsWhatItDeclares
    <2>3. QED
      BY <2>1, <2>2
  <1>2. AddsUpInvariant /\ StepsAreWhole /\ [EngineNext]_engineVars => AddsUpInvariant'
    BY AddsUpNext
  <1>3. QED
    BY <1>1, <1>2, AddsUpInit, PTL DEF EngineSpec
-----------------------------------------------------------------------------
(***************************************************************************)
(* The failure rules over an equity curve.                                 *)
(***************************************************************************)

\* Sets of rows are finite.
LEMMA SomeRows ==
  ASSUME NEW n \in Nat
  PROVE  /\ IsFiniteSet(0..n) /\ 0..n \subseteq Int /\ 0..n # {}
         /\ \A some : some \subseteq 0..n => IsFiniteSet(some) /\ some \subseteq Int
  <1>1. IsFiniteSet(0..n)
    BY FS_Interval
  <1>2. 0 \in 0..n /\ 0..n \subseteq Int
    OBVIOUS
  <1>3. ASSUME NEW some, some \subseteq 0..n PROVE IsFiniteSet(some)
    <2>1. some \in SUBSET (0..n)
      BY <1>3
    <2>2. QED
      BY <1>1, <2>1, FS_Subset
  <1>4. QED
    BY <1>1, <1>2, <1>3

\* The high-water mark is a value reached, and none before is higher.
LEMMA HighWaterType ==
  ASSUME NEW e, NEW t \in Nat, \A s \in 0..t : e[s] \in Int
  PROVE  /\ HighWater(e, t) \in Int /\ Drawdown(e, t) \in Nat
         /\ \A s \in 0..t : e[s] <= HighWater(e, t)
         /\ \E s \in 0..t : e[s] = HighWater(e, t)
         /\ HighWater(e, t) = Drawdown(e, t) + e[t]
  <1>1. PICK T : T = {e[s] : s \in 0..t}
    OBVIOUS
  <1>2. T \subseteq Int /\ T # {}
    BY <1>1
  <1>3. IsFiniteSet(T)
    <2>1. IsFiniteSet(0..t)
      BY FS_Interval
    <2>2. QED
      BY <1>1, <2>1, FiniteImages
  <1>4. Max(T) \in T /\ \A y \in T : y <= Max(T)
    BY <1>2, <1>3, Extremes
  <1>5. HighWater(e, t) = Max(T)
    BY <1>1 DEF HighWater
  <1>6. /\ HighWater(e, t) \in Int
        /\ \A s \in 0..t : e[s] <= HighWater(e, t)
        /\ \E s \in 0..t : e[s] = HighWater(e, t)
    BY <1>1, <1>2, <1>4, <1>5
  <1>7. e[t] \in Int /\ e[t] <= HighWater(e, t)
    BY <1>6
  <1>8. QED
    BY <1>6, <1>7 DEF Drawdown

\* A rolling window that ends in the dataset begins in it.
LEMMA WindowRowsType ==
  ASSUME NEW t \in 0..Rows, t >= WindowRows
  PROVE  /\ WindowStart(t) \in 1..t /\ t - WindowRows \in 0..Rows
         /\ WindowStart(t) = (t - WindowRows) + 1
         /\ IsFiniteSet(WindowStart(t)..t) /\ Cardinality(WindowStart(t)..t) = WindowRows
  <1>1. WindowStart(t) = t - WindowRows + 1
    BY DEF WindowStart
  <1>2. /\ WindowStart(t) \in Int /\ WindowStart(t) >= 1 /\ WindowStart(t) <= t
        /\ t \in Int /\ t - WindowRows >= 0 /\ t - WindowRows <= Rows
        /\ t - WindowRows \in Int
    BY <1>1, RowsAssumption
  <1>3. IsFiniteSet(WindowStart(t)..t) /\ Cardinality(WindowStart(t)..t) = t - WindowStart(t) + 1
    BY <1>2, FS_Interval
  <1>4. QED
    BY <1>1, <1>2, <1>3, RowsAssumption

\* The variation of a window is half of its squared differences.
LEMMA SpreadIsVariation ==
  ASSUME NEW e, NEW t \in 0..Rows, t >= WindowRows, \A s \in 0..t : e[s] \in Int
  PROVE  Variation(e, t) \in Int /\ Spread(e, t) = 2 * Variation(e, t)
  <1>1. PICK S, m : S = WindowStart(t)..t /\ m = t - WindowRows
    OBVIOUS
  <1>2. /\ IsFiniteSet(S) /\ Cardinality(S) = WindowRows /\ S = (m + 1)..(m + WindowRows)
        /\ m \in Nat /\ m + WindowRows = t /\ WindowRows \in Nat
    BY <1>1, WindowRowsType, RowsAssumption
  <1>3. PICK f : f = [u \in S |-> e[u] - e[u - 1]]
    OBVIOUS
  <1>4. \A u \in S : /\ u \in 0..t /\ u - 1 \in 0..t
                     /\ e[u] \in Int /\ e[u - 1] \in Int /\ f[u] = e[u] - e[u - 1] /\ f[u] \in Int
    BY <1>2, <1>3
  <1>5. SumFunctionOnSet(f, S) = RollingReturn(e, t)
    <2>1. PICK c : c = [u \in Int |-> IF u \in 0..t THEN e[u] ELSE 0]
      OBVIOUS
    <2>2. PICK step : step = [u \in Int |-> c[u] - c[u - 1]]
      OBVIOUS
    <2>3. \A u \in Int : u >= m => c[u] \in Int
      BY <2>1
    <2>4. \A u \in Int : u > m => step[u] = c[u] - c[u - 1]
      BY <2>2
    <2>5. SumFunctionOnSet(step, (m + 1)..(m + WindowRows)) = c[m + WindowRows] - c[m]
      <3>1. m \in Int
        BY <1>2
      <3>2. QED
        BY ONLY <1>2, <2>3, <2>4, <3>1, SumOfSteps
    <2>6. \A u \in S : f[u] = step[u]
      BY <1>2, <1>4, <2>1, <2>2
    <2>7. SumFunctionOnSet(f, S) = SumFunctionOnSet(step, S)
      BY ONLY <1>2, <2>6, SumsOfEquals
    <2>8. c[m + WindowRows] = e[t] /\ c[m] = e[t - WindowRows]
      BY <1>1, <1>2, <2>1
    <2>9. QED
      BY <1>2, <2>5, <2>7, <2>8 DEF RollingReturn
  <1>6. PICK squares : squares = [u \in S |-> (e[u] - e[u - 1]) * (e[u] - e[u - 1])]
    OBVIOUS
  <1>7. squares = Squares(f, S)
    BY <1>4, <1>6 DEF Squares
  <1>8. Variation(e, t) = WindowRows * SumFunctionOnSet(squares, S)
                            - RollingReturn(e, t) * RollingReturn(e, t)
    BY <1>1, <1>6 DEF Variation
  <1>9. Spread(e, t) = SumFunctionOnSet(Differences(f, S), S \X S)
    <2>1. \A p \in S \X S : p[1] \in S /\ p[2] \in S
      OBVIOUS
    <2>2. [pair \in S \X S |->
             ((e[pair[1]] - e[pair[1] - 1]) - (e[pair[2]] - e[pair[2] - 1]))
               * ((e[pair[1]] - e[pair[1] - 1]) - (e[pair[2]] - e[pair[2] - 1]))]
            = Differences(f, S)
      BY <1>4, <2>1 DEF Differences
    <2>3. DOMAIN Differences(f, S) = S \X S
      BY DEF Differences
    <2>4. Spread(e, t) = SumFunction([pair \in S \X S |->
             ((e[pair[1]] - e[pair[1] - 1]) - (e[pair[2]] - e[pair[2] - 1]))
               * ((e[pair[1]] - e[pair[1] - 1]) - (e[pair[2]] - e[pair[2] - 1]))])
      BY <1>1 DEF Spread
    <2>5. QED
      BY <2>2, <2>3, <2>4 DEF SumFunction
  <1>10. SumFunctionOnSet(Differences(f, S), S \X S)
           = 2 * (Cardinality(S) * SumFunctionOnSet(Squares(f, S), S)
                    - SumFunctionOnSet(f, S) * SumFunctionOnSet(f, S))
    <2>1. \A u \in S : f[u] \in Int
      BY <1>4
    <2>2. QED
      BY ONLY <1>2, <2>1, SumOfDifferences
  <1>11. Spread(e, t) = 2 * Variation(e, t)
    BY <1>2, <1>5, <1>7, <1>8, <1>9, <1>10
  <1>12. Variation(e, t) \in Int
    <2>1. \A u \in S : squares[u] \in Int
      BY <1>4, <1>6
    <2>2. SumFunctionOnSet(squares, S) \in Int
      BY ONLY <1>2, <2>1, SumType
    <2>3. RollingReturn(e, t) \in Int
      BY <1>1, <1>2 DEF RollingReturn
    <2>4. PICK a, b : a = SumFunctionOnSet(squares, S) /\ b = RollingReturn(e, t)
      OBVIOUS
    <2>5. WindowRows * a - b * b \in Int
      BY <1>2, <2>2, <2>3, <2>4
    <2>6. QED
      BY <1>8, <2>4, <2>5
  <1>13. QED
    BY <1>11, <1>12

\* A rule is violated at the rows at which it fails.
LEMMA ViolationsAreFailures ==
  ASSUME NEW e \in [0..Rows -> Int], NEW original \in [0..Rows -> Int],
         NEW rule, rule.family \in FailureRuleFamilies, rule.threshold \in Nat
  PROVE  Violating(e, original, rule) = {t \in 0..Rows : Fails(rule, e, original, t)}
  <1>1. Rows \in Nat /\ DOMAIN e = 0..Rows
    BY RowsAssumption
  <1>2. CASE rule.family = "maximum_drawdown"
    <2>1. ASSUME NEW t \in 0..Rows
          PROVE  Drawdown(e, t) > rule.threshold
                   <=> \E s \in 0..t : e[s] - e[t] > rule.threshold
      <3>1. t \in Nat /\ \A s \in 0..t : e[s] \in Int
        BY <1>1
      <3>2. /\ HighWater(e, t) \in Int
            /\ \A s \in 0..t : e[s] <= HighWater(e, t)
            /\ \E s \in 0..t : e[s] = HighWater(e, t)
        BY <3>1, HighWaterType
      <3>3. e[t] \in Int
        OBVIOUS
      <3>4. QED
        BY <3>1, <3>2, <3>3 DEF Drawdown
    <2>2. Violating(e, original, rule) = {t \in 0..Rows : Drawdown(e, t) > rule.threshold}
      BY <1>1, <1>2 DEF Violating
    <2>3. \A t \in 0..Rows : Fails(rule, e, original, t)
                               <=> \E s \in 0..t : e[s] - e[t] > rule.threshold
      BY <1>2 DEF Fails
    <2>4. QED
      BY <2>1, <2>2, <2>3
  <1>3. CASE rule.family = "rolling_20_day_loss"
    <2>1. ASSUME NEW t \in 0..Rows, t >= WindowRows
          PROVE  RollingReturn(e, t) < -rule.threshold
                   <=> e[t - WindowRows] - e[t] > rule.threshold
      <3>1. e[t] \in Int /\ e[t - WindowRows] \in Int
        BY <2>1, WindowRowsType
      <3>2. QED
        BY <3>1 DEF RollingReturn
    <2>2. Violating(e, original, rule)
            = {t \in {u \in 0..Rows : u >= WindowRows} : RollingReturn(e, t) < -rule.threshold}
      BY <1>1, <1>3 DEF Violating, WindowEnds
    <2>3. \A t \in 0..Rows : Fails(rule, e, original, t)
            <=> t >= WindowRows /\ e[t - WindowRows] - e[t] > rule.threshold
      BY <1>3 DEF Fails
    <2>4. QED
      BY <2>1, <2>2, <2>3
  <1>4. CASE rule.family \notin {"maximum_drawdown", "rolling_20_day_loss"}
    <2>1. ASSUME NEW t \in 0..Rows, t >= WindowRows
          PROVE  /\ Variation(original, t) > 0 <=> Spread(original, t) > 0
                 /\ SameVolatility * Variation(e, t) > rule.threshold * Variation(original, t)
                      <=> SameVolatility * Spread(e, t) > rule.threshold * Spread(original, t)
      <3>1. \A s \in 0..t : e[s] \in Int /\ original[s] \in Int
        BY <1>1
      <3>2. PICK v, w : v = Variation(e, t) /\ w = Variation(original, t)
        OBVIOUS
      <3>3. v \in Int /\ Spread(e, t) = 2 * v
        BY <2>1, <3>1, <3>2, SpreadIsVariation
      <3>4. w \in Int /\ Spread(original, t) = 2 * w
        BY <2>1, <3>1, <3>2, SpreadIsVariation
      <3>5. PICK x : x = rule.threshold * w
        OBVIOUS
      <3>6. x \in Int /\ rule.threshold * (2 * w) = 2 * x
        BY <3>4, <3>5
      <3>7. SameVolatility * (2 * v) > 2 * x <=> SameVolatility * v > x
        BY <3>3, <3>6 DEF SameVolatility
      <3>8. QED
        BY <3>2, <3>3, <3>4, <3>5, <3>6, <3>7
    <2>2. Violating(e, original, rule)
            = {t \in {u \in 0..Rows : u >= WindowRows} :
                 /\ Variation(original, t) > 0
                 /\ SameVolatility * Variation(e, t) > rule.threshold * Variation(original, t)}
      BY <1>1, <1>4 DEF Violating, WindowEnds
    <2>3. \A t \in 0..Rows : Fails(rule, e, original, t)
            <=> /\ t >= WindowRows /\ Spread(original, t) > 0
                /\ SameVolatility * Spread(e, t) > rule.threshold * Spread(original, t)
      BY <1>4 DEF Fails
    <2>4. QED
      BY <2>1, <2>2, <2>3
  <1>5. QED
    BY <1>2, <1>3, <1>4

\* What is known of the figures of a row at its close.
LEMMA FiguresAreKnown ==
  ASSUME NEW e \in [0..Rows -> Int], NEW k \in 0..Rows, NEW t \in 0..k
  PROVE  /\ Drawdown(Known(e, k), t) = Drawdown(e, t)
         /\ t >= WindowRows =>
              /\ RollingReturn(Known(e, k), t) = RollingReturn(e, t)
              /\ Variation(Known(e, k), t) = Variation(e, t)
  <1>1. Rows \in Nat /\ t \in 0..Rows
    BY RowsAssumption
  <1>2. PICK g : g = Known(e, k)
    OBVIOUS
  <1>3. \A s \in 0..t : g[s] = e[s]
    BY <1>1, <1>2 DEF Known
  <1>4. Drawdown(g, t) = Drawdown(e, t)
    <2>1. {g[s] : s \in 0..t} = {e[s] : s \in 0..t}
      BY <1>3
    <2>2. g[t] = e[t]
      BY <1>1, <1>3
    <2>3. QED
      BY <2>1, <2>2 DEF Drawdown, HighWater
  <1>5. ASSUME t >= WindowRows
        PROVE  /\ RollingReturn(g, t) = RollingReturn(e, t)
               /\ Variation(g, t) = Variation(e, t)
    <2>1. PICK S : S = WindowStart(t)..t
      OBVIOUS
    <2>2. /\ \A u \in S : u \in 0..t /\ u - 1 \in 0..t
          /\ t - WindowRows \in 0..t
      BY <1>1, <1>5, <2>1, WindowRowsType, RowsAssumption
    <2>3. RollingReturn(g, t) = RollingReturn(e, t)
      BY <1>1, <1>3, <2>2 DEF RollingReturn
    <2>4. [u \in S |-> (g[u] - g[u - 1]) * (g[u] - g[u - 1])]
            = [u \in S |-> (e[u] - e[u - 1]) * (e[u] - e[u - 1])]
      BY <1>3, <2>2
    <2>5. QED
      BY <2>1, <2>3, <2>4 DEF Variation
  <1>6. QED
    BY <1>2, <1>4, <1>5

\* No violation reads a later row.
LEMMA ViolationsAreKnown ==
  ASSUME NEW e \in [0..Rows -> Int], NEW original \in [0..Rows -> Int],
         NEW rule, rule.family \in FailureRuleFamilies, NEW k \in 0..Rows
  PROVE  Violating(Known(e, k), Known(original, k), rule)
           = {t \in Violating(e, original, rule) : t <= k}
  <1>1. Rows \in Nat /\ DOMAIN e = 0..Rows /\ DOMAIN Known(e, k) = 0..k
    BY RowsAssumption DEF Known
  <1>2. PICK g, h : g = Known(e, k) /\ h = Known(original, k)
    OBVIOUS
  <1>3. \A t \in 0..k :
          /\ t \in 0..Rows
          /\ Drawdown(g, t) = Drawdown(e, t)
          /\ t >= WindowRows => /\ RollingReturn(g, t) = RollingReturn(e, t)
                                /\ Variation(g, t) = Variation(e, t)
                                /\ Variation(h, t) = Variation(original, t)
    <2> SUFFICES ASSUME NEW t \in 0..k
                 PROVE  /\ t \in 0..Rows
                        /\ Drawdown(g, t) = Drawdown(e, t)
                        /\ t >= WindowRows => /\ RollingReturn(g, t) = RollingReturn(e, t)
                                              /\ Variation(g, t) = Variation(e, t)
                                              /\ Variation(h, t) = Variation(original, t)
      OBVIOUS
    <2>1. t \in 0..Rows
      BY <1>1
    <2>2. /\ Drawdown(g, t) = Drawdown(e, t)
          /\ t >= WindowRows => /\ RollingReturn(g, t) = RollingReturn(e, t)
                                /\ Variation(g, t) = Variation(e, t)
      BY <1>2, FiguresAreKnown
    <2>3. t >= WindowRows => Variation(h, t) = Variation(original, t)
      BY <1>2, FiguresAreKnown
    <2>4. QED
      BY <2>1, <2>2, <2>3
  <1>4. DOMAIN g = 0..k /\ \A t \in 0..Rows : t \in 0..k <=> t <= k
    BY <1>1, <1>2
  <1>5. CASE rule.family = "maximum_drawdown"
    <2>1. /\ Violating(g, h, rule) = {t \in 0..k : Drawdown(g, t) > rule.threshold}
          /\ Violating(e, original, rule) = {t \in 0..Rows : Drawdown(e, t) > rule.threshold}
      BY <1>1, <1>4, <1>5 DEF Violating
    <2>2. QED
      BY <1>2, <1>3, <1>4, <2>1
  <1>6. CASE rule.family = "rolling_20_day_loss"
    <2>1. /\ Violating(g, h, rule) =
               {t \in {u \in 0..k : u >= WindowRows} : RollingReturn(g, t) < -rule.threshold}
          /\ Violating(e, original, rule) =
               {t \in {u \in 0..Rows : u >= WindowRows} : RollingReturn(e, t) < -rule.threshold}
      BY <1>1, <1>4, <1>6 DEF Violating, WindowEnds
    <2>2. QED
      BY <1>2, <1>3, <1>4, <2>1
  <1>7. CASE rule.family \notin {"maximum_drawdown", "rolling_20_day_loss"}
    <2>1. /\ Violating(g, h, rule) =
               {t \in {u \in 0..k : u >= WindowRows} :
                  /\ Variation(h, t) > 0
                  /\ SameVolatility * Variation(g, t) > rule.threshold * Variation(h, t)}
          /\ Violating(e, original, rule) =
               {t \in {u \in 0..Rows : u >= WindowRows} :
                  /\ Variation(original, t) > 0
                  /\ SameVolatility * Variation(e, t) > rule.threshold * Variation(original, t)}
      BY <1>1, <1>4, <1>7 DEF Violating, WindowEnds
    <2>2. QED
      BY <1>2, <1>3, <1>4, <2>1
  <1>8. QED
    BY <1>5, <1>6, <1>7

\* The worst window of a breach has the greatest loss of its kind.
LEMMA WorstWindows ==
  ASSUME NEW e \in [0..Rows -> Int], NEW original \in [0..Rows -> Int], NEW rule,
         rule.family \in FailureRuleFamilies, rule.family # "realized_volatility_multiple",
         Violating(e, original, rule) # {},
         NEW breach, breach = BreachOf(e, original, rule)
  PROVE  LET first == LinkedStart(breach)
             last  == breach.end
         IN  /\ e[first - 1] - e[last] = breach.observed
             /\ \A s, t \in 0..Rows :
                  s <= t /\ (rule.family = "maximum_drawdown" \/ t - s = WindowRows) =>
                    e[s] - e[t] <= breach.observed
  <1>1. Rows \in Nat /\ DOMAIN e = 0..Rows
    BY RowsAssumption
  <1>2. CASE rule.family = "maximum_drawdown"
    <2>1. PICK f : f = [t \in 0..Rows |-> Drawdown(e, t)]
      OBVIOUS
    <2>2. \A t \in 0..Rows :
            /\ t \in Nat /\ HighWater(e, t) \in Int /\ Drawdown(e, t) \in Nat
            /\ \A s \in 0..t : e[s] <= HighWater(e, t)
            /\ \E s \in 0..t : e[s] = HighWater(e, t)
            /\ HighWater(e, t) = Drawdown(e, t) + e[t]
      <3> SUFFICES ASSUME NEW t \in 0..Rows
                   PROVE  /\ t \in Nat /\ HighWater(e, t) \in Int /\ Drawdown(e, t) \in Nat
                          /\ \A s \in 0..t : e[s] <= HighWater(e, t)
                          /\ \E s \in 0..t : e[s] = HighWater(e, t)
                          /\ HighWater(e, t) = Drawdown(e, t) + e[t]
        OBVIOUS
      <3>1. t \in Nat /\ \A s \in 0..t : e[s] \in Int
        BY <1>1
      <3>2. QED
        BY <3>1, HighWaterType
    <2>3. PICK w : w = FirstWorst(f)
      OBVIOUS
    <2>4. w \in 0..Rows /\ \A u \in 0..Rows : Drawdown(e, u) <= Drawdown(e, w)
      <3>1. f \in [0..Rows -> Int]
        BY <2>1, <2>2
      <3>2. IsFiniteSet(0..Rows) /\ 0..Rows \subseteq Int /\ 0..Rows # {}
        BY <1>1, SomeRows
      <3>3. w \in 0..Rows /\ \A u \in 0..Rows : f[u] <= f[w]
        BY <2>3, <3>1, <3>2, WorstRow
      <3>4. QED
        BY <2>1, <3>3
    <2>5. PICK p : p = LastPeak(e, w)
      OBVIOUS
    <2>6. p \in 0..w /\ e[p] = HighWater(e, w)
      <3>1. PICK peaks : peaks = {t \in 0..w : e[t] = HighWater(e, w)}
        OBVIOUS
      <3>2. peaks # {} /\ peaks \subseteq 0..w /\ w \in Nat
        BY <2>2, <2>4, <3>1
      <3>3. IsFiniteSet(peaks) /\ peaks \subseteq Int
        BY <3>2, SomeRows
      <3>4. Max(peaks) \in peaks
        BY <3>2, <3>3, Extremes
      <3>5. p = Max(peaks)
        BY <2>5, <3>1 DEF LastPeak
      <3>6. QED
        BY <3>1, <3>4, <3>5
    <2>7. /\ breach.family = "maximum_drawdown" /\ breach.start = p /\ breach.end = w
          /\ breach.observed = Drawdown(e, w)
      BY <1>1, <1>2, <2>1, <2>3, <2>5 DEF BreachOf, DrawdownBreach
    <2>8. LinkedStart(breach) - 1 = p
      BY <2>4, <2>6, <2>7 DEF LinkedStart
    <2>9. e[p] - e[w] = Drawdown(e, w)
      <3>1. e[w] \in Int /\ Drawdown(e, w) \in Nat /\ HighWater(e, w) = Drawdown(e, w) + e[w]
        BY <2>2, <2>4
      <3>2. QED
        BY <2>6, <3>1
    <2>10. ASSUME NEW s \in 0..Rows, NEW t \in 0..Rows, s <= t
           PROVE  e[s] - e[t] <= Drawdown(e, w)
      <3>1. s \in 0..t
        BY <1>1, <2>10
      <3>2. e[s] <= HighWater(e, t) /\ HighWater(e, t) = Drawdown(e, t) + e[t]
        BY <2>2, <3>1
      <3>3. /\ e[s] \in Int /\ e[t] \in Int /\ Drawdown(e, t) \in Nat /\ Drawdown(e, w) \in Nat
            /\ Drawdown(e, t) <= Drawdown(e, w)
        BY <2>2, <2>4
      <3>4. QED
        BY <3>2, <3>3
    <2>11. QED
      BY <2>7, <2>8, <2>9, <2>10
  <1>3. CASE rule.family = "rolling_20_day_loss"
    <2>1. PICK S : S = {t \in 0..Rows : t >= WindowRows}
      OBVIOUS
    <2>2. PICK f : f = [t \in S |-> -RollingReturn(e, t)]
      OBVIOUS
    <2>3. \A t \in S : /\ f[t] = e[t - WindowRows] - e[t] /\ f[t] \in Int
      <3> SUFFICES ASSUME NEW t \in S
                   PROVE  f[t] = e[t - WindowRows] - e[t] /\ f[t] \in Int
        OBVIOUS
      <3>1. t \in 0..Rows /\ t >= WindowRows
        BY <2>1
      <3>2. e[t] \in Int /\ e[t - WindowRows] \in Int
        BY <3>1, WindowRowsType
      <3>3. QED
        BY <2>2, <3>2 DEF RollingReturn
    <2>4. S # {}
      <3>1. Violating(e, original, rule) \subseteq S
        BY <1>1, <1>3, <2>1 DEF Violating, WindowEnds
      <3>2. QED
        BY <3>1
    <2>5. IsFiniteSet(S) /\ S \subseteq Int
      <3>1. S \subseteq 0..Rows
        BY <2>1
      <3>2. QED
        BY <1>1, <3>1, SomeRows
    <2>6. f \in [S -> Int]
      BY <2>2, <2>3
    <2>7. PICK w : w = FirstWorst(f)
      OBVIOUS
    <2>8. w \in S /\ \A u \in S : f[u] <= f[w]
      BY <2>4, <2>5, <2>6, <2>7, WorstRow
    <2>9. WindowEnds(e) = S
      BY <1>1, <2>1 DEF WindowEnds
    <2>10. /\ breach.family = "rolling_20_day_loss" /\ breach.start = WindowStart(w)
           /\ breach.end = w /\ breach.observed = f[w]
      BY <1>3, <2>2, <2>7, <2>9 DEF BreachOf, RollingBreach
    <2>11. LinkedStart(breach) - 1 = w - WindowRows
      <3>1. w \in Int /\ WindowRows \in Int
        BY <2>5, <2>8, RowsAssumption
      <3>2. QED
        BY <2>10, <3>1 DEF LinkedStart, WindowStart
    <2>12. ASSUME NEW s \in 0..Rows, NEW t \in 0..Rows, s <= t, t - s = WindowRows
           PROVE  e[s] - e[t] <= f[w]
      <3>1. t \in S /\ t - WindowRows = s
        BY <1>1, <2>1, <2>12, RowsAssumption
      <3>2. QED
        BY <2>3, <2>8, <3>1
    <2>13. QED
      BY <1>3, <2>3, <2>8, <2>10, <2>11, <2>12
  <1>4. QED
    BY <1>2, <1>3 DEF FailureRuleFamilies

\* The breaches of two curves are true of them.
LEMMA EvaluatedBreaches ==
  ASSUME NEW e \in [0..Rows -> Int], NEW original \in [0..Rows -> Int],
         NEW failureRules, FailureRuleContract(failureRules),
         NEW told, told = EvaluateFailureRules(e, original, failureRules)
  PROVE  /\ {b.rule : b \in told} =
              {rule \in failureRules : \E t \in 0..Rows : Fails(rule, e, original, t)}
         /\ \A b \in told :
              /\ b.rule \in failureRules /\ b.breach = BreachOf(e, original, b.rule)
              /\ Violating(e, original, b.rule) # {}
              /\ b.onset \in 0..Rows /\ Fails(b.rule, e, original, b.onset)
              /\ \A t \in 0..(b.onset - 1) : ~Fails(b.rule, e, original, t)
              /\ b.onset = Min(Violating(Known(e, b.onset), Known(original, b.onset), b.rule))
  <1>1. \A rule \in failureRules : rule.family \in FailureRuleFamilies /\ rule.threshold \in Nat
    BY DEF FailureRuleContract
  <1>2. \A rule \in failureRules :
          Violating(e, original, rule) = {t \in 0..Rows : Fails(rule, e, original, t)}
    BY <1>1, ViolationsAreFailures
  <1>3. told = {[breach |-> BreachOf(e, original, rule), rule |-> rule,
                 onset |-> Min(Violating(e, original, rule))] :
                  rule \in {r \in failureRules : Violating(e, original, r) # {}}}
    BY DEF EvaluateFailureRules
  <1>4. {b.rule : b \in told} =
          {rule \in failureRules : \E t \in 0..Rows : Fails(rule, e, original, t)}
    <2>1. PICK broken : broken = {r \in failureRules : Violating(e, original, r) # {}}
      OBVIOUS
    <2>2. ASSUME NEW b \in told PROVE b.rule \in broken
      BY <1>3, <2>1
    <2>3. ASSUME NEW r \in broken PROVE \E b \in told : b.rule = r
      <3>1. PICK b : b = [breach |-> BreachOf(e, original, r), rule |-> r,
                          onset |-> Min(Violating(e, original, r))]
        OBVIOUS
      <3>2. b \in told /\ b.rule = r
        BY <1>3, <2>1, <2>3, <3>1
      <3>3. QED
        BY <3>2
    <2>4. {b.rule : b \in told} = broken
      BY <2>2, <2>3
    <2>5. QED
      BY <1>2, <2>1, <2>4
  <1>5. ASSUME NEW b \in told
        PROVE  /\ b.rule \in failureRules /\ b.breach = BreachOf(e, original, b.rule)
               /\ Violating(e, original, b.rule) # {}
               /\ b.onset \in 0..Rows /\ Fails(b.rule, e, original, b.onset)
               /\ \A t \in 0..(b.onset - 1) : ~Fails(b.rule, e, original, t)
               /\ b.onset = Min(Violating(Known(e, b.onset), Known(original, b.onset), b.rule))
    <2>1. /\ b.rule \in failureRules /\ b.breach = BreachOf(e, original, b.rule)
          /\ Violating(e, original, b.rule) # {} /\ b.onset = Min(Violating(e, original, b.rule))
      BY <1>3
    <2>2. PICK V, k : V = Violating(e, original, b.rule) /\ k = b.onset
      OBVIOUS
    <2>3. /\ V = {t \in 0..Rows : Fails(b.rule, e, original, t)} /\ V \subseteq 0..Rows
          /\ V # {} /\ k = Min(V)
      BY <1>2, <2>1, <2>2
    <2>4. IsFiniteSet(V) /\ V \subseteq Int
      BY <2>3, RowsAssumption, SomeRows
    <2>5. k \in V /\ \A y \in V : k <= y
      BY <2>3, <2>4, Extremes
    <2>6. k \in 0..Rows /\ k \in Int /\ Fails(b.rule, e, original, k)
      BY <2>3, <2>4, <2>5
    <2>7. \A t \in 0..(k - 1) : ~Fails(b.rule, e, original, t)
      <3> SUFFICES ASSUME NEW t \in 0..(k - 1), Fails(b.rule, e, original, t) PROVE FALSE
        OBVIOUS
      <3>1. t \in 0..Rows /\ ~(k <= t)
        BY <2>6, RowsAssumption
      <3>2. t \in V
        BY <2>3, <3>1
      <3>3. QED
        BY <2>5, <3>1, <3>2
    <2>8. k = Min(Violating(Known(e, k), Known(original, k), b.rule))
      <3>1. Violating(Known(e, k), Known(original, k), b.rule) = {t \in V : t <= k}
        BY <1>1, <2>1, <2>2, <2>6, ViolationsAreKnown
      <3>2. {t \in V : t <= k} = {k}
        <4>1. \A t \in V : t <= k => t = k
          BY <2>4, <2>5
        <4>2. k <= k
          BY <2>6
        <4>3. QED
          BY <2>5, <4>1, <4>2
      <3>3. Min({k}) = k
        BY <2>6, SpanOfTwo
      <3>4. QED
        BY <3>1, <3>2, <3>3
    <2>9. QED
      BY <2>1, <2>2, <2>6, <2>7, <2>8
  <1>6. QED
    BY <1>4, <1>5
-----------------------------------------------------------------------------
(***************************************************************************)
(* The replays and their judgement.                                        *)
(***************************************************************************)

\* A component leaves whole steps, even if its shares are rounded.
LEMMA StepsStayWhole ==
  ASSUME PreflightPassed, stress \in Transforming, next \in DOMAIN Components,
         staged \in [Symbols -> [0..Rows -> Int]], stagedCost \in Int
  PROVE  /\ ApplyToReturns(staged, Components[next]) \in [Symbols -> [0..Rows -> Int]]
         /\ ApplyToCost(stagedCost, Components[next]) \in Int
  <1>1. PICK component : component = Components[next]
    OBVIOUS
  <1>2. /\ experiment.scenario \in Scenarios /\ ComponentContract(component)
        /\ ComponentFault(component, experiment.scenario, experiment.cost) = NoCode
    BY <1>1, AcceptedScenario
  <1>3. CASE component.family = "transaction_cost_multiplier"
    <2>1. component.size \in Int
      BY <1>2, <1>3 DEF ComponentContract
    <2>2. QED
      BY <1>1, <1>3, <2>1 DEF ApplyToReturns, ApplyToCost
  <1>4. CASE component.family # "transaction_cost_multiplier"
    <2>1. PICK first, last, T : Changes(component, first, last, T)
      BY <1>2, <1>4, ChangedRows
    <2>2. component.family # "historical_window"
      BY <1>2 DEF ComponentFault, NoCode
    <2>3. ApplyToReturns(staged, component) = [s \in Symbols |-> [t \in 0..Rows |->
            IF s \in component.symbols /\ t \in T
            THEN Transformed(staged, component, s, t) ELSE staged[s][t]]]
      BY <1>4, <2>1 DEF ApplyToReturns, Changes
    <2>4. \A s \in Symbols : \A t \in T : Transformed(staged, component, s, t) \in Int
      BY <1>2, <1>4, <2>1, <2>2, TransformedType
    <2>5. \A s \in Symbols : \A t \in 0..Rows : staged[s][t] \in Int
      OBVIOUS
    <2>6. ApplyToReturns(staged, component) \in [Symbols -> [0..Rows -> Int]]
      BY <2>3, <2>4, <2>5
    <2>7. QED
      BY <1>1, <1>4, <2>6 DEF ApplyToCost
  <1>5. QED
    BY <1>3, <1>4

\* The equity of a replay is a whole number of steps at every row.
LEMMA CurveType ==
  ASSUME NEW returns \in [Symbols -> [0..Rows -> Int]], NEW targets, NEW cost \in Int
  PROVE  EquityCurve(NetReturns(returns, targets, cost)) \in [0..Rows -> Int]
  <1>1. Rows \in Nat
    BY RowsAssumption
  <1>2. PICK gross : gross = [t \in 1..Rows |-> Total([s \in Symbols |-> returns[s][t]], Symbols)]
    OBVIOUS
  <1>3. DOMAIN gross = 1..Rows /\ \A t \in 1..Rows : gross[t] \in Int
    <2> SUFFICES ASSUME NEW t \in 1..Rows PROVE gross[t] \in Int
      BY <1>2
    <2>1. PICK f : f = [s \in Symbols |-> returns[s][t]]
      OBVIOUS
    <2>2. \A s \in Symbols : f[s] \in Int
      BY <1>1, <2>1
    <2>3. SumFunctionOnSet(f, Symbols) \in Int
      BY <2>2, SumType, StressAssumption
    <2>4. QED
      BY <1>2, <2>1, <2>3 DEF Total
  <1>4. PICK net : net = NetReturns(returns, targets, cost)
    OBVIOUS
  <1>5. net = PortfolioReturns(gross, targets, cost)
    BY <1>2, <1>4 DEF NetReturns
  <1>6. DOMAIN net = 1..Rows /\ \A t \in 1..Rows : net[t] \in Int
    BY <1>3, <1>5 DEF PortfolioReturns
  <1>7. ASSUME NEW t \in 0..Rows PROVE SumFunctionOnSet(net, 1..t) \in Int
    <2>1. IsFiniteSet(1..t)
      BY <1>1, FS_Interval
    <2>2. \A u \in 1..t : net[u] \in Int
      BY <1>1, <1>6
    <2>3. QED
      BY <2>1, <2>2, SumType
  <1>8. {0} \cup DOMAIN net = 0..Rows
    BY <1>1, <1>6
  <1>9. EquityCurve(net) = [t \in 0..Rows |-> SumFunctionOnSet(net, 1..t)]
    BY <1>8 DEF EquityCurve
  <1>10. QED
    BY <1>4, <1>7, <1>9

\* The market and the cost of an experiment are whole steps.
LEMMA ExperimentType ==
  ASSUME NEW market \in Markets, NEW cost \in Costs
  PROVE  market \in [Symbols -> [0..Rows -> Int]] /\ cost \in Int
  <1>1. market \in [Symbols -> [0..Rows -> Int]]
    BY StressAssumption
  <1>2. CostLimit \in Nat /\ cost \in 0..CostLimit
    BY StressAssumption
  <1>3. QED
    BY <1>1, <1>2

\* With preflight passed, an inductive invariant.
JudgedInvariant == PreflightPassed /\ JudgedAsReplayed

\* The engine begins with the replay of the dataset.
LEMMA JudgedInit == EngineInit => JudgedInvariant
  <1> SUFFICES ASSUME EngineInit PROVE JudgedInvariant
    OBVIOUS
  <1>1. PreflightPassed
    BY WindowInit DEF WindowInvariant
  <1>2. CASE StressIdle
    BY <1>1, <1>2 DEF StressIdle, JudgedInvariant, JudgedAsReplayed
  <1>3. CASE StressInit
    <2>1. /\ stress = "preflight" /\ experiment.market \in Markets /\ experiment.cost \in Costs
          /\ experiment.rules \in StressRuleSets
          /\ staged = experiment.market /\ stagedCost = experiment.cost
          /\ equity.baseline = EquityCurve(NetReturns(experiment.market, experiment.targets,
                                                      experiment.cost))
      BY <1>3 DEF StressInit
    <2>2. staged \in [Symbols -> [0..Rows -> Int]] /\ stagedCost \in Int
      BY <2>1, ExperimentType
    <2>3. equity.baseline \in [0..Rows -> Int]
      BY <2>1, <2>2, CurveType
    <2>4. QED
      BY <1>1, <2>1, <2>2, <2>3 DEF JudgedInvariant, JudgedAsReplayed
  <1>4. QED
    BY <1>2, <1>3 DEF EngineInit

\* Every step keeps the invariant.
LEMMA JudgedNext ==
  ASSUME JudgedInvariant, [EngineNext]_engineVars
  PROVE  JudgedInvariant'
  <1>1. PreflightPassed'
    BY PreflightStays DEF JudgedInvariant
  <1>2. JudgedAsReplayed'
    <2>1. CASE UNCHANGED stressVars
      BY <2>1 DEF stressVars, JudgedInvariant, JudgedAsReplayed, StressedBreaches
    <2>2. ASSUME NEW rejection, Reject(rejection), stress # "idle"
          PROVE  JudgedAsReplayed'
      BY <2>2 DEF Reject, JudgedInvariant, JudgedAsReplayed
    <2>3. ASSUME stress \in {"dry", "producing"}, next \in DOMAIN Components, ApplyComponent
          PROVE  JudgedAsReplayed'
      <3>1. /\ ApplyToReturns(staged, Components[next]) \in [Symbols -> [0..Rows -> Int]]
            /\ ApplyToCost(stagedCost, Components[next]) \in Int
        BY <2>3, StepsStayWhole DEF JudgedInvariant, JudgedAsReplayed, Transforming
      <3>2. QED
        BY <2>3, <3>1 DEF ApplyComponent, JudgedInvariant, JudgedAsReplayed
    <2>4. CASE Preflight
      BY <2>2, <2>4 DEF Preflight, JudgedInvariant, JudgedAsReplayed
    <2>5. CASE DryRun
      BY <2>2, <2>3, <2>5 DEF DryRun
    <2>6. CASE BeginEvidence
      <3>1. CASE Reject("invalid_parameter")
        BY <2>2, <2>6, <3>1 DEF BeginEvidence
      <3>2. CASE ~Reject("invalid_parameter")
        <4>1. /\ stress = "dry" /\ stress' = "producing" /\ UNCHANGED <<experiment, equity>>
              /\ staged' = experiment.market /\ stagedCost' = experiment.cost
          BY <2>6, <3>2 DEF BeginEvidence
        <4>2. /\ experiment.market \in [Symbols -> [0..Rows -> Int]]
              /\ experiment.cost \in Int
          BY <4>1, ExperimentType DEF JudgedInvariant, JudgedAsReplayed
        <4>3. QED
          BY <4>1, <4>2 DEF JudgedInvariant, JudgedAsReplayed
      <3>3. QED
        BY <3>1, <3>2
    <2>7. CASE ProduceComponent
      BY <2>2, <2>3, <2>7 DEF ProduceComponent
    <2>8. CASE FinishTransform
      BY <2>2, <2>8 DEF FinishTransform, JudgedInvariant, JudgedAsReplayed
    <2>9. CASE ReplayScenario
      <3>1. CASE Reject("invalid_data")
        BY <2>2, <2>9, <3>1 DEF ReplayScenario
      <3>2. CASE ~Reject("invalid_data")
        <4>1. /\ stress = "replaying" /\ stress' = "judging"
              /\ UNCHANGED <<experiment, staged, stagedCost, breaches>>
              /\ equity' = [equity EXCEPT !.stressed =
                   EquityCurve(NetReturns(staged, experiment.targets, stagedCost))]
          BY <2>9, <3>2 DEF ReplayScenario
        <4>2. PICK curve : curve = EquityCurve(NetReturns(staged, experiment.targets, stagedCost))
          OBVIOUS
        <4>3. curve \in [0..Rows -> Int]
          BY <4>1, <4>2, CurveType DEF JudgedInvariant, JudgedAsReplayed
        <4>4. QED
          BY <4>1, <4>2, <4>3 DEF JudgedInvariant, JudgedAsReplayed
      <3>3. QED
        BY <3>1, <3>2
    <2>10. CASE JudgeScenario
      <3>1. CASE Reject("invalid_data")
        BY <2>2, <2>10, <3>1 DEF JudgeScenario
      <3>2. CASE ~Reject("invalid_data")
        <4>1. /\ stress = "judging" /\ stress' \in {"valid", "raised"}
              /\ breaches' = StressedBreaches
              /\ UNCHANGED <<experiment, staged, stagedCost, equity>>
          BY <2>10, <3>2 DEF JudgeScenario
        <4>2. StressedBreaches' = StressedBreaches
          BY <4>1 DEF StressedBreaches
        <4>3. QED
          BY <4>1, <4>2 DEF JudgedInvariant, JudgedAsReplayed
      <3>3. QED
        BY <3>1, <3>2
    <2>11. QED
      BY <2>1, <2>4, <2>5, <2>6, <2>7, <2>8, <2>9, <2>10
      DEF EngineNext, StressNext, engineVars
  <1>3. QED
    BY <1>1, <1>2 DEF JudgedInvariant

(***************************************************************************)
(* The breaches of every accepted scenario are true (BreachesAreTrue): the *)
(* rules breached are those that fail at some row by their definition,     *)
(* each onset is the first such row and needs no later row to be known,    *)
(* and the worst window has the greatest loss of its kind and exactly the  *)
(* one observed, for any market, component, rule and length of the path.   *)
(***************************************************************************)
THEOREM BreachesAreAlwaysTrue == EngineSpec => []BreachesAreTrue
  <1>1. JudgedInvariant => BreachesAreTrue
    <2> SUFFICES ASSUME JudgedInvariant, stress = "valid" PROVE BreachesAreTrue
      BY DEF BreachesAreTrue
    <2>1. PICK e, original : e = equity.stressed /\ original = equity.baseline
      OBVIOUS
    <2>2. /\ e \in [0..Rows -> Int] /\ original \in [0..Rows -> Int]
          /\ FailureRuleContract(experiment.rules)
          /\ breaches = EvaluateFailureRules(e, original, experiment.rules)
      BY <2>1, StressAssumption DEF JudgedInvariant, JudgedAsReplayed, StressedBreaches
    <2>3. {b.rule : b \in breaches} =
            {rule \in experiment.rules : \E t \in 0..Rows : Fails(rule, e, original, t)}
      BY <2>2, EvaluatedBreaches
    <2>4. \A b \in breaches :
            /\ b.rule \in experiment.rules /\ b.breach = BreachOf(e, original, b.rule)
            /\ Violating(e, original, b.rule) # {}
            /\ Fails(b.rule, e, original, b.onset)
            /\ \A t \in 0..(b.onset - 1) : ~Fails(b.rule, e, original, t)
            /\ b.onset = Min(Violating(Known(e, b.onset), Known(original, b.onset), b.rule))
      BY <2>2, EvaluatedBreaches
    <2>5. ASSUME NEW b \in breaches, b.rule.family # "realized_volatility_multiple"
          PROVE  /\ e[LinkedStart(b.breach) - 1] - e[b.breach.end] = b.breach.observed
                 /\ \A s, t \in 0..Rows :
                      s <= t /\ (b.rule.family = "maximum_drawdown" \/ t - s = WindowRows) =>
                        e[s] - e[t] <= b.breach.observed
      <3>1. b.rule.family \in FailureRuleFamilies
        BY <2>2, <2>4 DEF FailureRuleContract
      <3>2. PICK rule, breach : rule = b.rule /\ breach = b.breach
        OBVIOUS
      <3>3. /\ rule.family \in FailureRuleFamilies
            /\ rule.family # "realized_volatility_multiple"
            /\ Violating(e, original, rule) # {} /\ breach = BreachOf(e, original, rule)
        BY <2>4, <2>5, <3>1, <3>2
      <3>4. /\ e[LinkedStart(breach) - 1] - e[breach.end] = breach.observed
            /\ \A s, t \in 0..Rows :
                 s <= t /\ (rule.family = "maximum_drawdown" \/ t - s = WindowRows) =>
                   e[s] - e[t] <= breach.observed
        BY <2>2, <3>3, WorstWindows
      <3>5. QED
        BY <3>2, <3>4
    <2>6. QED
      BY <2>1, <2>3, <2>4, <2>5 DEF BreachesAreTrue
  <1>2. QED
    BY <1>1, JudgedInit, JudgedNext, PTL DEF EngineSpec
-----------------------------------------------------------------------------
(***************************************************************************)
(* The measures of a window and those of a backtest that starts with it.   *)
(***************************************************************************)

\* The curve q of a backtest that starts with a window, row by row.
Restarted(q, e, window, n, wealth, m) ==
  /\ Measured(e, window, n, wealth, m) /\ window.start \in 1..Rows
  /\ e \in [0..Rows -> Int] /\ q \in [0..n -> Int] /\ q[0] = 0
  /\ \A k \in 1..n : wealth[k] = q[k]
  /\ \A k \in 0..n : /\ window.start - 1 + k \in 0..Rows
                     /\ q[k] = e[window.start - 1 + k] - e[window.start - 1]

LEMMA WindowsRestart ==
  ASSUME NEW window, IsSpan(window.start, window.end), baseline.equity \in [0..Rows -> Int],
         NEW n, NEW wealth, NEW m, Measured(baseline.equity, window, n, wealth, m)
  PROVE  Restarted(RestartedEquity(window), baseline.equity, window, n, wealth, m)
  <1>1. PICK e, q : e = baseline.equity /\ q = RestartedEquity(window)
    OBVIOUS
  <1>2. /\ window.start \in 1..Rows /\ window.end \in 1..Rows /\ Rows \in Nat /\ n \in Nat
        /\ n = window.end - window.start + 1
    BY RowsAssumption DEF IsSpan, Measured, WindowLength
  <1>3. q = [k \in 0..n |-> e[window.start - 1 + k] - e[window.start - 1]]
    BY <1>1 DEF RestartedEquity, Measured
  <1>4. \A k \in 0..n : window.start - 1 + k \in 0..Rows
    BY <1>2
  <1>5. \A k \in 0..n : e[window.start - 1 + k] \in Int
    BY <1>1, <1>4
  <1>6. window.start - 1 \in 0..Rows /\ e[window.start - 1] \in Int
    BY <1>1, <1>2
  <1>7. \A k \in 0..n : /\ q[k] = e[window.start - 1 + k] - e[window.start - 1]
                        /\ q[k] \in Int
    BY <1>3, <1>5, <1>6
  <1>8. q \in [0..n -> Int]
    BY <1>3, <1>7
  <1>9. q[0] = 0
    <2>1. 0 \in 0..n /\ window.start - 1 + 0 = window.start - 1
      BY <1>2
    <2>2. q[0] = e[window.start - 1] - e[window.start - 1]
      BY <1>7, <2>1
    <2>3. QED
      BY <1>6, <2>2
  <1>10. \A k \in 1..n : wealth[k] = q[k]
    <2> SUFFICES ASSUME NEW k \in 1..n PROVE wealth[k] = q[k]
      OBVIOUS
    <2>1. wealth = [i \in 1..n |-> e[window.start + i - 1] - e[window.start - 1]]
      BY <1>1, <1>2 DEF Measured, WindowWealth
    <2>2. wealth[k] = e[window.start + k - 1] - e[window.start - 1]
      BY <2>1
    <2>3. window.start + k - 1 = window.start - 1 + k /\ k \in 0..n
      BY <1>2
    <2>4. QED
      BY <1>7, <2>2, <2>3
  <1>11. QED
    BY <1>1, <1>2, <1>4, <1>7, <1>8, <1>9, <1>10 DEF Restarted

\* The running highs of a window start from its initial wealth.
LEMMA HighsRestart ==
  ASSUME NEW q, NEW e, NEW window, NEW n, NEW wealth, NEW m,
         Restarted(q, e, window, n, wealth, m), NEW k \in 1..n
  PROVE  /\ HighWater(q, k) = Max({0} \cup {wealth[j] : j \in 1..k})
         /\ Drawdown(q, k) = WindowDrawdowns(wealth)[k]
  <1>1. n \in Nat /\ q \in [0..n -> Int] /\ q[0] = 0 /\ wealth \in [1..n -> Int]
    BY DEF Restarted, Measured
  <1>2. k \in Nat /\ 1..k \subseteq 1..n /\ 0..k = {0} \cup 1..k
    BY <1>1
  <1>3. \A j \in 1..k : wealth[j] = q[j]
    BY <1>2 DEF Restarted
  <1>4. {q[s] : s \in 0..k} = {0} \cup {wealth[j] : j \in 1..k}
    BY <1>1, <1>2, <1>3
  <1>5. wealth[k] = q[k] /\ DOMAIN wealth = 1..n
    BY <1>1, <1>2 DEF Restarted
  <1>6. WindowDrawdowns(wealth)[k] = Max({0} \cup {wealth[j] : j \in 1..k}) - wealth[k]
    BY <1>5 DEF WindowDrawdowns
  <1>7. QED
    BY <1>4, <1>5, <1>6 DEF HighWater, Drawdown

LEMMA DrawdownsRestart ==
  ASSUME NEW q, NEW e, NEW window, NEW n, NEW wealth, NEW m,
         Restarted(q, e, window, n, wealth, m)
  PROVE  /\ \A k \in 1..n : Drawdown(q, k) = WindowDrawdowns(wealth)[k]
         /\ \A k \in 0..n : /\ HighWater(q, k) \in Int /\ Drawdown(q, k) \in Nat
                            /\ Drawdown(q, k) = HighWater(q, k) - q[k]
                            /\ \A s \in 0..k : q[s] <= HighWater(q, k)
                            /\ \E s \in 0..k : q[s] = HighWater(q, k)
         /\ Drawdown(q, 0) = 0
  <1>1. n \in Nat /\ q \in [0..n -> Int] /\ q[0] = 0
    BY DEF Restarted, Measured
  <1>2. \A k \in 1..n : Drawdown(q, k) = WindowDrawdowns(wealth)[k]
    <2> SUFFICES ASSUME NEW k \in 1..n
                 PROVE  Drawdown(q, k) = WindowDrawdowns(wealth)[k]
      OBVIOUS
    <2>1. /\ HighWater(q, k) = Max({0} \cup {wealth[j] : j \in 1..k})
          /\ Drawdown(q, k) = WindowDrawdowns(wealth)[k]
      BY HighsRestart
    <2>2. QED
      BY <2>1
  <1>3. ASSUME NEW k \in 0..n
        PROVE  /\ HighWater(q, k) \in Int /\ Drawdown(q, k) \in Nat
               /\ Drawdown(q, k) = HighWater(q, k) - q[k]
               /\ \A s \in 0..k : q[s] <= HighWater(q, k)
               /\ \E s \in 0..k : q[s] = HighWater(q, k)
    <2>1. k \in Nat /\ \A s \in 0..k : q[s] \in Int
      BY <1>1
    <2>2. QED
      BY <2>1, HighWaterType DEF Drawdown
  <1>4. Drawdown(q, 0) = 0
    <2>1. 0 \in 0..n /\ 0..0 = {0}
      BY <1>1
    <2>2. PICK s \in 0..0 : q[s] = HighWater(q, 0)
      BY <1>3, <2>1
    <2>3. q[0] = HighWater(q, 0)
      BY <2>1, <2>2
    <2>4. QED
      BY <1>1, <1>3, <2>1, <2>3
  <1>5. QED
    BY <1>2, <1>3, <1>4

\* The rolling windows inside, by the offset of their first or of their last row.
LEMMA RollingsRestart ==
  ASSUME NEW q, NEW e, NEW window, NEW n, NEW wealth, NEW m,
         Restarted(q, e, window, n, wealth, m)
  PROVE  /\ WindowEnds(q) = {k + (WindowRows - 1) : k \in 1..m}
         /\ \A k \in 1..m :
              RollingReturn(q, k + (WindowRows - 1)) = RollingCompounded(wealth)[k]
  <1>1. /\ n \in Nat /\ q \in [0..n -> Int] /\ q[0] = 0 /\ wealth \in [1..n -> Int]
        /\ m \in Nat /\ m = n - WindowRows + 1 /\ WindowRows \in Nat /\ WindowRows >= 2
        /\ \A k \in 1..n : wealth[k] = q[k]
    BY RowsAssumption DEF Restarted, Measured
  <1>2. WindowEnds(q) = {t \in 0..n : t >= WindowRows}
    BY <1>1 DEF WindowEnds
  <1>3. \A k \in 1..m : /\ k + (WindowRows - 1) \in 0..n
                        /\ k + (WindowRows - 1) >= WindowRows
    BY <1>1
  <1>4. \A t \in 0..n : t >= WindowRows =>
          t - (WindowRows - 1) \in 1..m /\ t = (t - (WindowRows - 1)) + (WindowRows - 1)
    BY <1>1
  <1>5. WindowEnds(q) = {k + (WindowRows - 1) : k \in 1..m}
    BY <1>2, <1>3, <1>4
  <1>6. ASSUME NEW k \in 1..m
        PROVE  RollingReturn(q, k + (WindowRows - 1)) = RollingCompounded(wealth)[k]
    <2>1. Len(wealth) = n
      BY <1>1, ListType
    <2>2. RollingCompounded(wealth)[k]
            = wealth[k + WindowRows - 1] - (IF k = 1 THEN 0 ELSE wealth[k - 1])
      BY <1>1, <1>6, <2>1 DEF RollingCompounded
    <2>3. /\ k + WindowRows - 1 = k + (WindowRows - 1) /\ k + (WindowRows - 1) \in 1..n
          /\ (k + (WindowRows - 1)) - WindowRows = k - 1
          /\ k # 1 => k - 1 \in 1..n
      BY <1>1, <1>6
    <2>4. wealth[k + WindowRows - 1] = q[k + (WindowRows - 1)]
      BY <1>1, <2>3
    <2>5. (IF k = 1 THEN 0 ELSE wealth[k - 1]) = q[k - 1]
      BY <1>1, <2>3
    <2>6. QED
      BY <2>2, <2>3, <2>4, <2>5 DEF RollingReturn
  <1>7. QED
    BY <1>5, <1>6

\* The variation of a stretch is the same wherever its rows are counted from.
LEMMA VariationsRestart ==
  ASSUME NEW q, NEW e, NEW window, NEW n, NEW wealth, NEW m,
         Restarted(q, e, window, n, wealth, m), NEW k \in 1..m
  PROVE  /\ Variation(q, k + (WindowRows - 1)) = Variation(e, window.start + k + WindowRows - 2)
         /\ Variation(q, k + (WindowRows - 1)) \in Int
  <1>1. PICK w, t, u : w = window.start - 1 /\ t = k + (WindowRows - 1) /\ u = t + w
    OBVIOUS
  <1>2. /\ n \in Nat /\ m \in Nat /\ m = n - WindowRows + 1 /\ w \in Nat /\ k \in Nat /\ k >= 1
        /\ k <= m /\ WindowRows \in Nat /\ WindowRows >= 2 /\ Rows \in Nat
        /\ window.start \in Int /\ window.start = w + 1
    <2>1. n \in Nat /\ m \in Nat /\ m = n - WindowRows + 1 /\ window.start \in 1..Rows
      BY DEF Restarted, Measured
    <2>2. WindowRows \in Nat /\ WindowRows >= 2 /\ Rows \in Nat
      BY RowsAssumption
    <2>3. w \in Nat /\ k \in Nat /\ k >= 1 /\ k <= m /\ window.start = w + 1
      BY <1>1, <2>1, <2>2
    <2>4. QED
      BY <2>1, <2>2, <2>3
  <1>22. /\ q \in [0..n -> Int] /\ e \in [0..Rows -> Int]
         /\ \A i \in 0..n : w + i \in 0..Rows /\ q[i] = e[w + i] - e[w]
    BY <1>1 DEF Restarted
  <1>3. /\ t \in 0..n /\ u \in 0..Rows /\ u = w + t
        /\ u = window.start + k + WindowRows - 2
    <2>3. t \in 0..n
      BY <1>1, <1>2
    <2>4. u = w + t
      BY <1>1, <1>2, <2>3
    <2>5. u = window.start + k + WindowRows - 2
      BY <1>1, <1>2, <2>4
    <2>6. QED
      BY <1>22, <2>3, <2>4, <2>5
  <1>4. PICK S, T : S = WindowStart(t)..t /\ T = WindowStart(u)..u
    OBVIOUS
  <1>5. /\ WindowStart(t) = k /\ WindowStart(u) = w + k
        /\ t \in Nat /\ u \in Nat /\ u = w + t /\ t <= n
    <2>1. t \in Nat /\ t <= n /\ u \in Nat /\ u = w + t
      BY <1>2, <1>3
    <2>2. t - WindowRows + 1 = k /\ u - WindowRows + 1 = w + k
      BY <1>1, <1>2, <2>1
    <2>3. QED
      BY <2>1, <2>2 DEF WindowStart
  <1>6. \A x \in S : /\ x \in 0..n /\ x - 1 \in 0..n /\ x + w \in T /\ (x + w) - 1 = w + (x - 1)
                     /\ x + w = w + x
    <2> SUFFICES ASSUME NEW x \in k..t
                 PROVE  /\ x \in 0..n /\ x - 1 \in 0..n /\ x + w \in (w + k)..u
                        /\ (x + w) - 1 = w + (x - 1) /\ x + w = w + x
      BY <1>4, <1>5
    <2>1. x \in Int /\ k <= x /\ x <= t
      BY <1>2, <1>5
    <2>2. QED
      BY <1>2, <1>5, <2>1
  <1>7. PICK f : f = [x \in T |-> (e[x] - e[x - 1]) * (e[x] - e[x - 1])]
    OBVIOUS
  <1>8. PICK g : g = [x \in S |-> (q[x] - q[x - 1]) * (q[x] - q[x - 1])]
    OBVIOUS
  <1>9. PICK h : h = [x \in S |-> x + w]
    OBVIOUS
  <1>10. ASSUME NEW x \in S
         PROVE  h[x] \in T /\ f[h[x]] \in Int /\ g[x] = f[h[x]]
    <2>1. PICK a, b, c : a = e[w + x] /\ b = e[w + (x - 1)] /\ c = e[w]
      OBVIOUS
    <2>2. a \in Int /\ b \in Int /\ c \in Int
      <3>1. w + x \in 0..Rows /\ w + (x - 1) \in 0..Rows
        BY <1>22, <1>6
      <3>2. 0 \in 0..n /\ w + 0 = w
        BY <1>2
      <3>3. w \in 0..Rows
        BY <1>22, <3>2
      <3>4. QED
        BY <1>22, <2>1, <3>1, <3>3
    <2>3. q[x] - q[x - 1] = a - b
      <3>1. q[x] = a - c /\ q[x - 1] = b - c
        BY <1>22, <1>6, <2>1
      <3>2. QED
        BY <2>2, <3>1
    <2>4. h[x] = x + w /\ h[x] \in T
      BY <1>6, <1>9
    <2>5. f[h[x]] = (a - b) * (a - b)
      <3>1. f[x + w] = (e[x + w] - e[(x + w) - 1]) * (e[x + w] - e[(x + w) - 1])
        BY <1>6, <1>7
      <3>2. e[x + w] = a /\ e[(x + w) - 1] = b
        BY <1>6, <2>1
      <3>3. QED
        BY <2>4, <3>1, <3>2
    <2>6. g[x] = (a - b) * (a - b)
      BY <1>8, <2>3
    <2>7. QED
      BY <2>2, <2>4, <2>5, <2>6
  <1>11. \A x, y \in S : h[x] = h[y] => x = y
    BY <1>2, <1>4, <1>5, <1>9
  <1>12. \A y \in T : \E x \in S : y = h[x]
    <2> SUFFICES ASSUME NEW y \in T PROVE \E x \in S : y = h[x]
      OBVIOUS
    <2>1. y - w \in S /\ y = (y - w) + w
      BY <1>2, <1>4, <1>5
    <2>2. QED
      BY <1>9, <2>1
  <1>13. IsFiniteSet(S) /\ IsFiniteSet(T)
    <2>1. IsFiniteSet(WindowStart(t)..t)
      BY <1>2, <1>5, FS_Interval
    <2>2. IsFiniteSet(WindowStart(u)..u)
      BY <1>2, <1>5, FS_Interval
    <2>3. QED
      BY <1>4, <2>1, <2>2
  <1>14. SumFunctionOnSet(g, S) = SumFunctionOnSet(f, T)
    BY ONLY <1>10, <1>11, <1>12, <1>13, SumIsReindexed
  <1>15. RollingReturn(q, t) = RollingReturn(e, u)
    <2>1. t - WindowRows \in 0..n /\ u - WindowRows = w + (t - WindowRows)
      BY <1>1, <1>2, <1>5
    <2>2. q[t] = e[u] - e[w] /\ q[t - WindowRows] = e[u - WindowRows] - e[w]
      BY <1>22, <1>3, <2>1
    <2>3. e[u] \in Int /\ e[u - WindowRows] \in Int /\ e[w] \in Int
      <3>1. u - WindowRows \in 0..Rows
        BY <1>22, <2>1
      <3>2. 0 \in 0..n /\ w + 0 = w
        BY <1>2
      <3>3. w \in 0..Rows
        BY <1>22, <3>2
      <3>4. QED
        BY <1>22, <1>3, <3>1, <3>3
    <2>4. QED
      BY <2>2, <2>3 DEF RollingReturn
  <1>16. DOMAIN f = T /\ DOMAIN g = S
    BY <1>7, <1>8
  <1>17. Variation(q, t) = WindowRows * SumFunctionOnSet(g, S)
                             - RollingReturn(q, t) * RollingReturn(q, t)
    BY <1>4, <1>8, <1>16 DEF Variation
  <1>18. Variation(e, u) = WindowRows * SumFunctionOnSet(f, T)
                             - RollingReturn(e, u) * RollingReturn(e, u)
    BY <1>4, <1>7, <1>16 DEF Variation
  <1>19. Variation(q, t) = Variation(e, u)
    BY <1>14, <1>15, <1>17, <1>18
  <1>20. Variation(e, u) \in Int
    <2>1. u >= WindowRows /\ \A s \in 0..u : e[s] \in Int
      <3>1. u >= WindowRows
        BY <1>1, <1>2, <1>5
      <3>2. u \in Nat /\ u <= Rows
        BY <1>2, <1>3
      <3>3. QED
        BY <1>2, <1>22, <3>1, <3>2
    <2>2. QED
      BY <1>3, <2>1, SpreadIsVariation
  <1>21. QED
    BY <1>1, <1>3, <1>19, <1>20

\* A window counted from its last rows begins as it does counted from its first.
LEMMA FirstOfShifted ==
  ASSUME NEW m \in Nat, NEW c \in Nat, NEW F, F \subseteq 1..m, F # {},
         NEW V, V = {k + c : k \in F}
  PROVE  Min(V) = Min(F) + c
  <1>1. IsFiniteSet(F) /\ F \subseteq Int
    BY SomeNumbers
  <1>2. IsFiniteSet(V)
    <2>1. PICK f : f = [k \in F |-> k + c]
      OBVIOUS
    <2>2. V = {f[k] : k \in F}
      BY <2>1
    <2>3. IsFiniteSet({f[k] : k \in F})
      BY ONLY <1>1, FiniteImages
    <2>4. QED
      BY <2>2, <2>3
  <1>3. V \subseteq Int /\ V # {}
    <2>1. \A k \in F : k + c \in Int
      BY <1>1
    <2>2. QED
      BY <2>1
  <1>4. Min(F) \in F /\ \A y \in F : Min(F) <= y
    BY <1>1, Extremes
  <1>5. Min(V) \in V /\ \A y \in V : Min(V) <= y
    BY <1>2, <1>3, Extremes
  <1>6. PICK a, b : a = Min(F) /\ b = Min(V)
    OBVIOUS
  <1>7. PICK k \in F : b = k + c
    BY <1>5, <1>6
  <1>8. a \in Int /\ k \in Int /\ a <= k
    BY <1>1, <1>4, <1>6
  <1>9. a + c \in V
    BY <1>4, <1>6
  <1>10. b <= a + c
    BY <1>5, <1>6, <1>9
  <1>11. QED
    BY <1>6, <1>7, <1>8, <1>10

\* A ratio exceeds a threshold whatever its positive denominator.
LEMMA RatioOfEquals ==
  ASSUME NEW v \in Nat, v > 0, NEW threshold \in Nat
  PROVE  SameVolatility * v > threshold * v <=> SameVolatility > threshold
  <1>1. CASE threshold >= 4
    <2>1. threshold * v = 4 * v + (threshold - 4) * v
      OBVIOUS
    <2>2. (threshold - 4) * v >= 0
      BY <1>1
    <2>3. threshold * v \in Int
      OBVIOUS
    <2>4. QED
      BY <1>1, <2>1, <2>2, <2>3 DEF SameVolatility
  <1>2. CASE threshold < 4
    <2>1. threshold \in {0, 1, 2, 3}
      BY <1>2
    <2>2. QED
      BY <2>1 DEF SameVolatility
  <1>3. QED
    BY <1>1, <1>2

\* The scan and the backtest find the same rules broken, from the same row on.
LEMMA OnsetsRestart ==
  ASSUME NEW q, NEW e, NEW window, NEW n, NEW wealth, NEW m,
         Restarted(q, e, window, n, wealth, m),
         NEW rule, rule.family \in FailureRuleFamilies, rule.threshold \in Nat,
         NEW episode
  PROVE  /\ IsBreached(e, window, rule) <=> Violating(q, q, rule) # {}
         /\ Violating(q, q, rule) # {} =>
              FailureBreach(e, window, rule, episode).onset = Min(Violating(q, q, rule))
  <1>1. /\ n \in Nat /\ n >= 1 /\ m \in Nat /\ q \in [0..n -> Int] /\ DOMAIN q = 0..n
        /\ wealth = WindowWealth(e, window.start, window.end)
        /\ WindowRows \in Nat /\ WindowRows >= 2
    <2>1. /\ n \in Nat /\ n >= WindowRows /\ m \in Nat /\ q \in [0..n -> Int]
          /\ wealth = WindowWealth(e, window.start, window.end)
      BY DEF Restarted, Measured
    <2>2. WindowRows \in Nat /\ WindowRows >= 2
      BY RowsAssumption
    <2>3. n >= 1
      BY <2>1, <2>2
    <2>4. QED
      BY <2>1, <2>2, <2>3
  <1>2. DOMAIN wealth = 1..n /\ DOMAIN RollingCompounded(wealth) = 1..m
    BY DEF Restarted, Measured
  <1>3. PICK D, R : D = WindowDrawdowns(wealth) /\ R = RollingCompounded(wealth)
    OBVIOUS
  <1>4. /\ \A k \in 1..n : Drawdown(q, k) = D[k]
        /\ Drawdown(q, 0) = 0
    <2>1. \A k \in 1..n : Drawdown(q, k) = WindowDrawdowns(wealth)[k]
      BY DrawdownsRestart
    <2>2. Drawdown(q, 0) = 0
      BY DrawdownsRestart
    <2>3. QED
      BY <1>3, <2>1, <2>2
  <1>5. /\ WindowEnds(q) = {k + (WindowRows - 1) : k \in 1..m}
        /\ \A k \in 1..m : RollingReturn(q, k + (WindowRows - 1)) = R[k]
    BY <1>3, RollingsRestart
  <1>6. PICK V, b : V = Violating(q, q, rule) /\ b = FailureBreach(e, window, rule, episode)
    OBVIOUS
  <1>7. CASE rule.family = "maximum_drawdown"
    <2>1. V = {t \in 0..n : Drawdown(q, t) > rule.threshold}
      BY <1>1, <1>6, <1>7 DEF Violating
    <2>2. PICK F : F = {k \in 1..n : D[k] > rule.threshold}
      OBVIOUS
    <2>3. V = F
      <3>1. ~(Drawdown(q, 0) > rule.threshold)
        BY <1>4
      <3>2. \A t \in 0..n : t = 0 \/ t \in 1..n
        BY <1>1
      <3>3. \A t \in 1..n : t \in 0..n
        BY <1>1
      <3>4. QED
        BY <1>4, <2>1, <2>2, <3>1, <3>2, <3>3
    <2>4. IsBreached(e, window, rule) <=> \E k \in 1..n : D[k] > rule.threshold
      BY <1>1, <1>2, <1>3, <1>7 DEF IsBreached
    <2>5. b.onset = Min(F)
      BY <1>1, <1>2, <1>3, <1>6, <1>7, <2>2 DEF FailureBreach
    <2>6. QED
      BY <1>6, <2>2, <2>3, <2>4, <2>5
  <1>8. CASE rule.family = "rolling_20_day_loss"
    <2>1. V = {t \in WindowEnds(q) : RollingReturn(q, t) < -rule.threshold}
      BY <1>6, <1>8 DEF Violating
    <2>2. PICK F : F = {k \in 1..m : R[k] < -rule.threshold}
      OBVIOUS
    <2>3. V = {k + (WindowRows - 1) : k \in F}
      BY <1>5, <2>1, <2>2
    <2>4. IsBreached(e, window, rule) <=> \E k \in 1..m : R[k] < -rule.threshold
      BY <1>1, <1>2, <1>3, <1>8 DEF IsBreached
    <2>5. b.onset = Min(F) + (WindowRows - 1)
      <3>1. b.onset = Min({k \in DOMAIN R : R[k] < -rule.threshold}) + WindowRows - 1
        BY <1>1, <1>3, <1>6, <1>8 DEF FailureBreach
      <3>2. {k \in DOMAIN R : R[k] < -rule.threshold} = F
        BY <1>2, <1>3, <2>2
      <3>3. QED
        BY <3>1, <3>2
    <2>6. V # {} => b.onset = Min(V)
      <3> SUFFICES ASSUME V # {} PROVE b.onset = Min(V)
        OBVIOUS
      <3>1. F # {} /\ F \subseteq 1..m
        BY <2>2, <2>3
      <3>2. WindowRows - 1 \in Nat
        BY <1>1
      <3>3. Min(V) = Min(F) + (WindowRows - 1)
        BY <1>1, <2>3, <3>1, <3>2, FirstOfShifted
      <3>4. QED
        BY <2>5, <3>3
    <2>7. QED
      BY <1>6, <2>2, <2>3, <2>4, <2>6
  <1>9. CASE rule.family = "realized_volatility_multiple"
    <2>1. V = {t \in WindowEnds(q) : /\ Variation(q, t) > 0
                                     /\ SameVolatility * Variation(q, t)
                                          > rule.threshold * Variation(q, t)}
      BY <1>6, <1>9 DEF Violating
    <2>2. PICK E : E = VolatilityEvaluable(e, window.start, wealth)
      OBVIOUS
    <2>3. E \subseteq 1..m
      BY <1>2, <2>2 DEF VolatilityEvaluable
    <2>4. ASSUME NEW k \in 1..m
          PROVE  /\ k \in E <=> Variation(q, k + (WindowRows - 1)) > 0
                 /\ Variation(q, k + (WindowRows - 1)) \in Int
      <3>1. /\ Variation(q, k + (WindowRows - 1)) = Variation(e, window.start + k + WindowRows - 2)
            /\ Variation(q, k + (WindowRows - 1)) \in Int
        BY VariationsRestart
      <3>2. QED
        BY <1>2, <2>2, <3>1 DEF VolatilityEvaluable
    <2>5. ASSUME NEW k \in 1..m
          PROVE  (/\ Variation(q, k + (WindowRows - 1)) > 0
                  /\ SameVolatility * Variation(q, k + (WindowRows - 1))
                       > rule.threshold * Variation(q, k + (WindowRows - 1)))
                   <=> k \in E /\ SameVolatility > rule.threshold
      <3>1. PICK v : v = Variation(q, k + (WindowRows - 1))
        OBVIOUS
      <3>2. v \in Int /\ (k \in E <=> v > 0)
        BY <2>4, <3>1
      <3>3. v > 0 => (SameVolatility * v > rule.threshold * v
                        <=> SameVolatility > rule.threshold)
        <4> SUFFICES ASSUME v > 0
                     PROVE  SameVolatility * v > rule.threshold * v
                              <=> SameVolatility > rule.threshold
          OBVIOUS
        <4>1. v \in Nat
          BY <3>2
        <4>2. QED
          BY <4>1, RatioOfEquals
      <3>4. QED
        BY <3>1, <3>2, <3>3
    <2>6. V = {k + (WindowRows - 1) : k \in {i \in E : SameVolatility > rule.threshold}}
      BY <1>5, <2>1, <2>3, <2>5
    <2>7. IsBreached(e, window, rule) <=> E # {} /\ SameVolatility > rule.threshold
      BY <1>1, <1>9, <2>2 DEF IsBreached
    <2>8. b.onset = Min(E) + (WindowRows - 1)
      BY <1>1, <1>6, <1>9, <2>2 DEF FailureBreach
    <2>9. V # {} => b.onset = Min(V)
      <3> SUFFICES ASSUME V # {} PROVE b.onset = Min(V)
        OBVIOUS
      <3>1. E # {} /\ V = {k + (WindowRows - 1) : k \in E}
        BY <2>6
      <3>2. WindowRows - 1 \in Nat
        BY <1>1
      <3>3. Min(V) = Min(E) + (WindowRows - 1)
        BY <1>1, <2>3, <3>1, <3>2, FirstOfShifted
      <3>4. QED
        BY <2>8, <3>3
    <2>10. QED
      BY <1>6, <2>6, <2>7, <2>9
  <1>10. QED
    BY <1>7, <1>8, <1>9 DEF FailureRuleFamilies

\* The deepest loss of a window is the breach the backtest reports.
LEMMA EpisodesRestart ==
  ASSUME NEW q, NEW e, NEW window, NEW n, NEW wealth, NEW m,
         Restarted(q, e, window, n, wealth, m), IsSpan(window.start, window.end),
         NEW rule, rule.family = "maximum_drawdown", rule.threshold \in Nat,
         Violating(q, q, rule) # {},
         NEW episode, episode = LossEpisode(e, window),
         NEW breach, breach = BreachOf(q, q, rule)
  PROVE  /\ episode.trough = breach.end /\ episode.loss = breach.observed
         /\ episode.lossStart = Max({1, breach.start})
         /\ IF breach.recovery # NoRow
            THEN episode.recovery = breach.recovery
            ELSE episode.recovery \in {NoRow} \cup (n + 1)..Rows
  <1>1. /\ n \in Nat /\ n >= 1 /\ q \in [0..n -> Int] /\ DOMAIN q = 0..n
        /\ wealth = WindowWealth(e, window.start, window.end) /\ wealth \in [1..n -> Int]
        /\ \A k \in 1..n : wealth[k] = q[k]
        /\ WindowDrawdowns(wealth) \in [1..n -> Nat]
    <2>1. WindowRows \in Nat /\ WindowRows >= 2
      BY RowsAssumption
    <2>2. /\ n \in Nat /\ n >= WindowRows /\ q \in [0..n -> Int] /\ wealth \in [1..n -> Int]
          /\ wealth = WindowWealth(e, window.start, window.end)
          /\ WindowDrawdowns(wealth) \in [1..n -> Nat]
      BY DEF Restarted, Measured
    <2>3. \A k \in 1..n : wealth[k] = q[k]
      BY DEF Restarted
    <2>4. QED
      BY <2>1, <2>2, <2>3
  <1>2. PICK D : D = WindowDrawdowns(wealth)
    OBVIOUS
  <1>3. /\ \A k \in 1..n : Drawdown(q, k) = D[k]
        /\ Drawdown(q, 0) = 0
        /\ \A k \in 0..n : /\ HighWater(q, k) \in Int /\ Drawdown(q, k) \in Nat
                           /\ Drawdown(q, k) = HighWater(q, k) - q[k]
                           /\ \A s \in 0..k : q[s] <= HighWater(q, k)
                           /\ \E s \in 0..k : q[s] = HighWater(q, k)
    BY <1>2, DrawdownsRestart
  <1>4. PICK d : d = [t \in 0..n |-> Drawdown(q, t)]
    OBVIOUS
  <1>5. PICK w : w = FirstWorst(d)
    OBVIOUS
  <1>6. /\ w \in 0..n /\ \A u \in 0..n : d[u] <= d[w]
        /\ \A u \in 0..n : d[u] = d[w] => w <= u
    <2>1. d \in [0..n -> Int]
      BY <1>3, <1>4
    <2>2. IsFiniteSet(0..n) /\ 0..n \subseteq Int /\ 0..n # {}
      BY <1>1, SomeRows
    <2>3. QED
      BY <1>5, <2>1, <2>2, WorstRow
  <1>7. d[w] > rule.threshold /\ d[w] > 0
    <2>1. PICK t \in 0..n : Drawdown(q, t) > rule.threshold
      BY <1>1 DEF Violating
    <2>2. d[t] = Drawdown(q, t) /\ d[w] = Drawdown(q, w) /\ d[t] <= d[w]
      BY <1>4, <1>6, <2>1
    <2>3. Drawdown(q, t) \in Nat /\ Drawdown(q, w) \in Nat
      BY <1>3, <1>6, <2>1
    <2>4. QED
      BY <2>1, <2>2, <2>3
  <1>8. w \in 1..n
    <2>1. w # 0
      BY <1>3, <1>4, <1>6, <1>7
    <2>2. QED
      BY <1>1, <1>6, <2>1
  <1>9. FirstWorst(D) = w
    <2>1. PICK x : x = FirstWorst(D)
      OBVIOUS
    <2>2. D \in [1..n -> Int] /\ IsFiniteSet(1..n) /\ 1..n \subseteq Int /\ 1..n # {}
      BY <1>1, <1>2, SomeNumbers
    <2>3. /\ x \in 1..n /\ \A u \in 1..n : D[u] <= D[x]
          /\ \A u \in 1..n : D[u] = D[x] => x <= u
      BY <2>1, <2>2, WorstRow
    <2>4. x \in 0..n /\ d[x] = D[x] /\ d[w] = D[w]
      <3>1. x \in 0..n /\ w \in 0..n
        BY <1>1, <1>6, <2>3
      <3>2. d[x] = Drawdown(q, x) /\ d[w] = Drawdown(q, w)
        BY <1>4, <3>1
      <3>3. Drawdown(q, x) = D[x] /\ Drawdown(q, w) = D[w]
        BY <1>3, <1>8, <2>3
      <3>4. QED
        BY <3>1, <3>2, <3>3
    <2>5. D[w] <= D[x] /\ D[x] <= D[w]
      BY <1>6, <1>8, <2>3, <2>4
    <2>6. D[w] = D[x]
      BY <1>8, <2>2, <2>3, <2>5
    <2>7. x <= w /\ w <= x
      BY <1>6, <1>8, <2>3, <2>4, <2>6
    <2>8. QED
      BY <1>8, <2>1, <2>3, <2>7
  <1>10. PICK high : high = HighWater(q, w)
    OBVIOUS
  <1>11. /\ high \in Int /\ D[w] = high - q[w] /\ D[w] > 0 /\ q[w] \in Int
         /\ D[w] = Drawdown(q, w)
    <2>1. D[w] = Drawdown(q, w) /\ d[w] = Drawdown(q, w)
      BY <1>3, <1>4, <1>6, <1>8
    <2>2. high \in Int /\ Drawdown(q, w) = high - q[w] /\ q[w] \in Int
      BY <1>1, <1>3, <1>6, <1>10
    <2>3. QED
      BY <1>7, <2>1, <2>2
  <1>12. /\ breach.end = w /\ breach.observed = D[w] /\ breach.start = LastPeak(q, w)
         /\ breach.recovery = LET recoveries == {t \in 0..n : t >= w /\ q[t] >= high}
                              IN  IF recoveries = {} THEN NoRow ELSE Min(recoveries)
    BY <1>1, <1>4, <1>5, <1>10, <1>11 DEF BreachOf, DrawdownBreach
  <1>13. PICK peaks : peaks = {k \in 1..w : wealth[k] = high}
    OBVIOUS
  <1>14. PICK after : after = WindowWealth(e, window.start, Rows)
    OBVIOUS
  <1>15. PICK recovered : recovered = {k \in DOMAIN after : k > w /\ after[k] >= high}
    OBVIOUS
  <1>16. /\ episode.trough = w /\ episode.loss = D[w]
         /\ episode.lossStart = IF peaks = {} THEN 1 ELSE Max(peaks)
         /\ episode.recovery = IF recovered = {} THEN NoRow ELSE Min(recovered)
    <2>1. Max({0} \cup {wealth[k] : k \in 1..w}) = high
      BY <1>8, <1>10, HighsRestart
    <2>2. D[w] # 0
      BY <1>11
    <2> DEFINE trough == FirstWorst(WindowDrawdowns(wealth))
               peakValue == Max({0} \cup {wealth[k] : k \in 1..trough})
               tops == {k \in 1..trough : wealth[k] = peakValue}
               later == {k \in DOMAIN after : k > trough /\ after[k] >= peakValue}
    <2>3. /\ episode.trough = trough /\ episode.loss = WindowDrawdowns(wealth)[trough]
          /\ episode.lossStart = IF tops = {} THEN 1 ELSE Max(tops)
          /\ episode.recovery = IF WindowDrawdowns(wealth)[trough] = 0 THEN trough
                                ELSE IF later = {} THEN NoRow ELSE Min(later)
      BY <1>1, <1>14 DEF LossEpisode
    <2>4. trough = w
      BY <1>2, <1>9
    <2>5. peakValue = high
      BY <2>1, <2>4
    <2> HIDE DEF trough, peakValue
    <2>6. tops = peaks /\ later = recovered
      BY <1>13, <1>15, <2>4, <2>5
    <2> HIDE DEF tops, later
    <2>7. QED
      BY <1>2, <2>2, <2>3, <2>4, <2>6
  <1>17. episode.lossStart = Max({1, breach.start})
    <2>1. PICK P : P = {t \in 0..w : q[t] = high}
      OBVIOUS
    <2>2. LastPeak(q, w) = Max(P)
      BY <1>10, <2>1 DEF LastPeak
    <2>3. P # {} /\ P \subseteq 0..w
      BY <1>3, <1>6, <1>10, <2>1
    <2>4. IsFiniteSet(P) /\ P \subseteq Int
      <3>1. w \in Nat
        BY <1>8
      <3>2. QED
        BY <2>3, <3>1, SomeRows
    <2>5. PICK p : p = Max(P)
      OBVIOUS
    <2>6. p \in P /\ \A y \in P : y <= p
      BY <2>3, <2>4, <2>5, Extremes
    <2>7. p \in 0..w
      BY <2>3, <2>6
    <2>8. peaks = {t \in P : t # 0}
      <3>1. 1..w = {t \in 0..w : t # 0} /\ 1..w \subseteq 1..n
        BY <1>1, <1>8
      <3>2. QED
        BY <1>1, <1>13, <2>1, <3>1
    <2>12. Max({1, p}) = IF 1 <= p THEN p ELSE 1
      <3>1. PICK one : one = 1
        OBVIOUS
      <3>2. one \in Int /\ p \in Int
        BY <2>4, <2>6, <3>1
      <3>3. Max({one, p}) = IF one <= p THEN p ELSE one
        BY <3>2, SpanOfTwo
      <3>4. QED
        BY <3>1, <3>3
    <2>9. CASE p = 0
      <3>1. peaks = {}
        <4>1. \A y \in P : y <= 0 /\ y \in 0..w
          BY <2>3, <2>6, <2>9
        <4>2. \A y \in P : y = 0
          BY <4>1, <1>8
        <4>3. QED
          BY <2>8, <4>2
      <3>2. Max({1, p}) = 1
        BY <2>9, <2>12
      <3>3. QED
        BY <1>12, <1>16, <2>2, <2>5, <2>9, <3>1, <3>2
    <2>10. CASE p # 0
      <3>1. p \in peaks /\ peaks \subseteq P
        BY <2>6, <2>8, <2>10
      <3>2. IsFiniteSet(peaks) /\ peaks \subseteq Int /\ peaks # {}
        <4>1. peaks \subseteq 0..w /\ w \in Nat
          BY <1>8, <2>3, <3>1
        <4>2. QED
          BY <3>1, <4>1, SomeRows
      <3>3. Max(peaks) \in peaks /\ \A y \in peaks : y <= Max(peaks)
        BY <3>2, Extremes
      <3>4. Max(peaks) = p
        <4>1. PICK x : x = Max(peaks)
          OBVIOUS
        <4>2. x \in P /\ p <= x /\ x <= p /\ x \in Int /\ p \in Int
          BY <2>4, <2>6, <3>1, <3>3, <4>1
        <4>3. QED
          BY <4>1, <4>2
      <3>5. Max({1, p}) = p
        <4>1. 1 <= p
          BY <1>8, <2>7, <2>10
        <4>2. QED
          BY <2>12, <4>1
      <3>6. QED
        BY <1>12, <1>16, <2>2, <2>5, <3>1, <3>4, <3>5
    <2>11. QED
      BY <2>9, <2>10
  <1>18. IF breach.recovery # NoRow
         THEN episode.recovery = breach.recovery
         ELSE episode.recovery \in {NoRow} \cup (n + 1)..Rows
    <2>1. PICK recoveries : recoveries = {t \in 0..n : t >= w /\ q[t] >= high}
      OBVIOUS
    <2>2. breach.recovery = IF recoveries = {} THEN NoRow ELSE Min(recoveries)
      BY <1>12, <2>1
    <2>3. PICK r : r = Rows - window.start + 1
      OBVIOUS
    <2>4. /\ r \in Nat /\ n <= r /\ r <= Rows /\ Rows \in Nat
          /\ window.start \in 1..Rows
      <3>1. /\ window.start \in 1..Rows /\ window.end \in 1..Rows
            /\ n = window.end - window.start + 1
        BY DEF IsSpan, Restarted, Measured, WindowLength
      <3>2. QED
        BY <2>3, <3>1, RowsAssumption
    <2>5. DOMAIN after = 1..r /\ after \in [1..r -> Int]
      <3>1. e \in [0..Rows -> Int] /\ Rows \in 1..Rows
        BY <2>4 DEF Restarted
      <3>2. Rows - window.start + 1 \in Nat
        BY <2>3, <2>4
      <3>3. QED
        BY <1>14, <2>3, <2>4, <3>1, <3>2, WealthType
    <2>6. \A k \in 1..n : after[k] = q[k]
      <3> SUFFICES ASSUME NEW k \in 1..n PROVE after[k] = q[k]
        OBVIOUS
      <3>1. wealth[k] = e[window.start + k - 1] - e[window.start - 1]
        <4>1. wealth = [i \in 1..(window.end - window.start + 1) |->
                         e[window.start + i - 1] - e[window.start - 1]]
          BY <1>1 DEF WindowWealth
        <4>2. k \in DOMAIN wealth
          BY <1>1
        <4>3. QED
          BY <4>1, <4>2
      <3>2. after[k] = e[window.start + k - 1] - e[window.start - 1]
        <4>1. after = [i \in 1..(Rows - window.start + 1) |->
                        e[window.start + i - 1] - e[window.start - 1]]
          BY <1>14 DEF WindowWealth
        <4>2. k \in 1..(Rows - window.start + 1)
          BY <1>1, <2>3, <2>4
        <4>3. QED
          BY <4>1, <4>2
      <3>3. QED
        BY <1>1, <3>1, <3>2
    <2>7. ~(q[w] >= high)
      BY <1>11
    <2>8. recoveries = {k \in recovered : k \in 1..n}
      <3>1. ASSUME NEW t \in recoveries PROVE t \in recovered /\ t \in 1..n
        <4>1. t \in 0..n /\ t >= w /\ q[t] >= high
          BY <2>1
        <4>2. t # w
          BY <2>7, <4>1
        <4>3. t > w /\ t \in 1..n /\ t \in 1..r
          <5>1. w \in Int /\ w >= 1 /\ t \in Int /\ t <= n /\ n \in Nat /\ r \in Nat /\ n <= r
            BY <1>1, <1>8, <2>4, <4>1
          <5>2. t >= w /\ t # w
            BY <4>1, <4>2
          <5>3. QED
            BY <5>1, <5>2
        <4>4. QED
          BY <1>15, <2>5, <2>6, <4>1, <4>3
      <3>2. ASSUME NEW t \in recovered, t \in 1..n PROVE t \in recoveries
        <4>1. t > w /\ after[t] >= high /\ after[t] = q[t]
          BY <1>15, <2>6, <3>2
        <4>2. t \in 0..n /\ t >= w
          BY <1>8, <3>2, <4>1
        <4>3. QED
          BY <2>1, <4>1, <4>2
      <3>3. QED
        BY <3>1, <3>2
    <2>9. recovered \subseteq 1..r
      BY <1>15, <2>5
    <2>10. IsFiniteSet(recovered) /\ recovered \subseteq Int
      BY <2>4, <2>9, SomeNumbers
    <2>11. CASE recoveries = {}
      <3>1. recovered = {} \/ Min(recovered) \in (n + 1)..Rows
        <4> SUFFICES ASSUME recovered # {} PROVE Min(recovered) \in (n + 1)..Rows
          OBVIOUS
        <4>1. PICK x : x = Min(recovered)
          OBVIOUS
        <4>2. x \in recovered
          BY <2>10, <4>1, Extremes
        <4>3. x \in 1..r /\ ~(x \in 1..n)
          BY <2>8, <2>9, <2>11, <4>2
        <4>4. QED
          BY <1>1, <2>4, <4>1, <4>3
      <3>2. QED
        BY <1>16, <2>2, <2>11, <3>1
    <2>12. CASE recoveries # {}
      <3>1. PICK x, y : x = Min(recoveries) /\ y = Min(recovered)
        OBVIOUS
      <3>2. recoveries \subseteq recovered /\ recovered # {} /\ recoveries \subseteq 1..n
        BY <2>8, <2>12
      <3>3. IsFiniteSet(recoveries) /\ recoveries \subseteq Int
        BY <1>1, <3>2, SomeNumbers
      <3>4. x \in recoveries /\ \A z \in recoveries : x <= z
        BY <2>12, <3>1, <3>3, Extremes
      <3>5. y \in recovered /\ \A z \in recovered : y <= z
        BY <2>10, <3>1, <3>2, Extremes
      <3>6. y <= x /\ x \in 1..n /\ y \in 1..r
        BY <2>9, <3>2, <3>4, <3>5
      <3>7. y \in 1..n
        BY <1>1, <2>4, <3>6
      <3>8. x <= y
        BY <2>8, <3>4, <3>5, <3>7
      <3>9. x = y
        BY <3>6, <3>7, <3>8
      <3>10. x # NoRow
        BY <3>6 DEF NoRow
      <3>11. QED
        BY <1>16, <2>2, <2>12, <3>1, <3>2, <3>9, <3>10
    <2>13. QED
      BY <2>11, <2>12
  <1>19. QED
    BY <1>12, <1>16, <1>17, <1>18

\* The worst rolling window inside is the one the backtest reports.
LEMMA WorstRollingsRestart ==
  ASSUME NEW q, NEW e, NEW window, NEW n, NEW wealth, NEW m,
         Restarted(q, e, window, n, wealth, m),
         NEW rule, rule.family = "rolling_20_day_loss", NEW episode,
         NEW b, b = FailureBreach(e, window, rule, episode),
         NEW breach, breach = BreachOf(q, q, rule)
  PROVE  /\ b.end = breach.end /\ b.observed = breach.observed
         /\ b.start = Max({1, breach.start})
  <1>1. PICK c, R : c = WindowRows - 1 /\ R = RollingCompounded(wealth)
    OBVIOUS
  <1>2. /\ n \in Nat /\ m \in Nat /\ m >= 1 /\ c \in Nat /\ c >= 1 /\ WindowRows \in Nat
        /\ R \in [1..m -> Int] /\ DOMAIN R = 1..m /\ WindowRows - 1 = c
        /\ wealth = WindowWealth(e, window.start, window.end)
    <2>1. WindowRows \in Nat /\ WindowRows >= 2
      BY RowsAssumption
    <2>2. /\ n \in Nat /\ m \in Nat /\ m >= 1 /\ R \in [1..m -> Int]
          /\ wealth = WindowWealth(e, window.start, window.end)
      BY <1>1 DEF Restarted, Measured
    <2>3. QED
      BY <1>1, <2>1, <2>2
  <1>3. PICK S : S = WindowEnds(q)
    OBVIOUS
  <1>4. /\ S = {k + c : k \in 1..m}
        /\ \A k \in 1..m : RollingReturn(q, k + c) = R[k]
    BY <1>1, <1>3, RollingsRestart
  <1>5. PICK f : f = [t \in S |-> -RollingReturn(q, t)]
    OBVIOUS
  <1>6. PICK g : g = [k \in 1..m |-> -R[k]]
    OBVIOUS
  <1>7. \A k \in 1..m : k + c \in S /\ f[k + c] = g[k] /\ g[k] \in Int
    BY <1>2, <1>4, <1>5, <1>6
  <1>8. \A t \in S : \E k \in 1..m : t = k + c
    BY <1>4
  <1>9. S \subseteq Int /\ S # {} /\ IsFiniteSet(S)
    <2>1. S \subseteq Int /\ S # {}
      BY <1>2, <1>7, <1>8
    <2>2. S \subseteq 0..n /\ n \in Nat
      BY <1>3 DEF WindowEnds, Restarted, Measured
    <2>3. IsFiniteSet(S)
      BY <2>2, SomeRows
    <2>4. QED
      BY <2>1, <2>3
  <1>10. f \in [S -> Int]
    BY <1>5, <1>7, <1>8
  <1>11. g \in [1..m -> Int] /\ IsFiniteSet(1..m) /\ 1..m \subseteq Int /\ 1..m # {}
    BY <1>2, <1>6, <1>7, SomeNumbers
  <1>12. PICK x, y : x = FirstWorst(f) /\ y = FirstWorst(g)
    OBVIOUS
  <1>13. /\ x \in S /\ \A u \in S : f[u] <= f[x]
         /\ \A u \in S : f[u] = f[x] => x <= u
    BY <1>9, <1>10, <1>12, WorstRow
  <1>14. /\ y \in 1..m /\ \A u \in 1..m : g[u] <= g[y]
         /\ \A u \in 1..m : g[u] = g[y] => y <= u
    BY <1>11, <1>12, WorstRow
  <1>15. PICK k \in 1..m : x = k + c
    BY <1>8, <1>13
  <1>16. k = y
    <2>1. f[x] = g[k] /\ g[k] \in Int /\ y + c \in S /\ f[y + c] = g[y] /\ g[y] \in Int
      BY <1>7, <1>14, <1>15
    <2>2. g[y] <= g[k] /\ g[k] <= g[y]
      BY <1>13, <1>14, <2>1
    <2>3. g[y] = g[k]
      BY <2>1, <2>2
    <2>4. x <= y + c
      BY <1>13, <2>1, <2>3
    <2>5. y <= k
      BY <1>14, <2>3
    <2>6. QED
      BY <1>2, <1>14, <1>15, <2>4, <2>5
  <1>17. breach.start = WindowStart(x) /\ breach.end = x /\ breach.observed = f[x]
    BY <1>3, <1>5, <1>12 DEF BreachOf, RollingBreach
  <1>18. b.start = y /\ b.end = y + (WindowRows - 1) /\ b.observed = -R[y]
    <2>1. [i \in DOMAIN R |-> -R[i]] = g
      BY <1>2, <1>6
    <2>2. /\ b.start = FirstWorst([i \in DOMAIN R |-> -R[i]])
          /\ b.end = FirstWorst([i \in DOMAIN R |-> -R[i]]) + (WindowRows - 1)
          /\ b.observed = -R[FirstWorst([i \in DOMAIN R |-> -R[i]])]
      BY <1>1, <1>2 DEF FailureBreach
    <2>3. QED
      BY <1>12, <2>1, <2>2
  <1>19. g[y] = -R[y] /\ f[x] = g[y] /\ x = y + c /\ y \in Int /\ y >= 1
    BY <1>2, <1>6, <1>7, <1>14, <1>15, <1>16
  <1>20. WindowStart(x) = y
    BY <1>1, <1>2, <1>19 DEF WindowStart
  <1>21. Max({1, y}) = y
    <2>1. PICK one : one = 1
      OBVIOUS
    <2>2. one \in Int /\ y \in Int
      BY <1>19, <2>1
    <2>3. Max({one, y}) = IF one <= y THEN y ELSE one
      BY <2>2, SpanOfTwo
    <2>4. QED
      BY <1>19, <2>1, <2>3
  <1>22. QED
    BY <1>2, <1>17, <1>18, <1>19, <1>20, <1>21

\* Result and told are the evidence and the breaches of one window.
LEMMA EvidenceRestarts ==
  ASSUME NEW window, IsSpan(window.start, window.end), baseline.equity \in [0..Rows -> Int],
         FailureRuleContract(rules),
         NEW episode, episode = LossEpisode(baseline.equity, window),
         NEW found, found = FailureBreaches(baseline.equity, rules, window, episode),
         NEW q, q = RestartedEquity(window),
         NEW told, told = EvaluateFailureRules(q, q, rules)
  PROVE  /\ \A t \in told : \E b \in found : Agrees(b, t)
         /\ Cardinality(told) = Cardinality(found)
         /\ \A t \in told : t.rule.family = "maximum_drawdown" =>
              IF t.breach.recovery # NoRow
              THEN episode.recovery = t.breach.recovery
              ELSE episode.recovery \in {NoRow} \cup (WindowLength(window) + 1)..Rows
  <1>1. PICK e : e = baseline.equity
    OBVIOUS
  <1>2. PICK n, wealth, m : Measured(e, window, n, wealth, m)
    BY <1>1, WindowsAreMeasured
  <1>3. Restarted(q, e, window, n, wealth, m) /\ n = WindowLength(window)
    BY <1>1, <1>2, WindowsRestart DEF Measured
  <1>4. PICK broken : broken = {rule \in rules : IsBreached(e, window, rule)}
    OBVIOUS
  <1>5. \A rule \in rules : rule.family \in FailureRuleFamilies /\ rule.threshold \in Nat
    BY DEF FailureRuleContract
  <1>6. ASSUME NEW rule \in rules
        PROVE  /\ IsBreached(e, window, rule) <=> Violating(q, q, rule) # {}
               /\ Violating(q, q, rule) # {} =>
                    FailureBreach(e, window, rule, episode).onset = Min(Violating(q, q, rule))
    BY <1>3, <1>5, OnsetsRestart
  <1>7. broken = {rule \in rules : Violating(q, q, rule) # {}}
    BY <1>4, <1>6
  <1>8. PICK f : f = [rule \in broken |-> FailureBreach(e, window, rule, episode)]
    OBVIOUS
  <1>9. PICK g : g = [rule \in broken |-> [breach |-> BreachOf(q, q, rule), rule |-> rule,
                                           onset |-> Min(Violating(q, q, rule))]]
    OBVIOUS
  <1>10. found = {f[rule] : rule \in broken}
    BY <1>1, <1>4, <1>8 DEF FailureBreaches
  <1>11. told = {g[rule] : rule \in broken}
    BY <1>7, <1>9 DEF EvaluateFailureRules
  <1>12. ASSUME NEW rule \in broken
         PROVE  /\ rule \in rules /\ f[rule].rule = rule /\ g[rule].rule = rule
                /\ Agrees(f[rule], g[rule])
                /\ rule.family = "maximum_drawdown" =>
                     IF g[rule].breach.recovery # NoRow
                     THEN episode.recovery = g[rule].breach.recovery
                     ELSE episode.recovery \in {NoRow} \cup (n + 1)..Rows
    <2>1. PICK b, t : b = f[rule] /\ t = g[rule]
      OBVIOUS
    <2>2. /\ rule \in rules /\ IsBreached(e, window, rule) /\ Violating(q, q, rule) # {}
          /\ rule.family \in FailureRuleFamilies /\ rule.threshold \in Nat
      BY <1>4, <1>5, <1>7
    <2>3. b = FailureBreach(e, window, rule, episode)
      BY <1>8, <2>1
    <2>4. t.breach = BreachOf(q, q, rule) /\ t.rule = rule /\ t.onset = Min(Violating(q, q, rule))
      BY <1>9, <2>1
    <2>5. b.rule = rule
      BY <1>1, <2>2, <2>3, BreachesAreSound
    <2>6. b.onset = t.onset
      BY <1>6, <2>2, <2>3, <2>4
    <2>7. rule.family = "maximum_drawdown" =>
            /\ b.end = t.breach.end /\ b.observed = t.breach.observed
            /\ b.start = Max({1, t.breach.start})
            /\ IF t.breach.recovery # NoRow
               THEN episode.recovery = t.breach.recovery
               ELSE episode.recovery \in {NoRow} \cup (n + 1)..Rows
      <3> SUFFICES ASSUME rule.family = "maximum_drawdown"
                   PROVE  /\ b.end = t.breach.end /\ b.observed = t.breach.observed
                          /\ b.start = Max({1, t.breach.start})
                          /\ IF t.breach.recovery # NoRow
                             THEN episode.recovery = t.breach.recovery
                             ELSE episode.recovery \in {NoRow} \cup (n + 1)..Rows
        OBVIOUS
      <3>1. /\ b.end = episode.trough /\ b.observed = episode.loss
            /\ b.start = episode.lossStart
        BY <2>3 DEF FailureBreach
      <3>2. PICK breach : breach = t.breach
        OBVIOUS
      <3>3. breach = BreachOf(q, q, rule) /\ episode = LossEpisode(e, window)
        BY <1>1, <2>4, <3>2
      <3>4. /\ episode.trough = breach.end /\ episode.loss = breach.observed
            /\ episode.lossStart = Max({1, breach.start})
            /\ IF breach.recovery # NoRow
               THEN episode.recovery = breach.recovery
               ELSE episode.recovery \in {NoRow} \cup (n + 1)..Rows
        <4>1. /\ Restarted(q, e, window, n, wealth, m) /\ IsSpan(window.start, window.end)
              /\ rule.family = "maximum_drawdown" /\ rule.threshold \in Nat
              /\ Violating(q, q, rule) # {}
          BY <1>3, <2>2
        <4>2. QED
          BY ONLY <3>3, <4>1, EpisodesRestart
      <3>5. QED
        BY <3>1, <3>2, <3>4
    <2>8. rule.family = "rolling_20_day_loss" =>
            /\ b.end = t.breach.end /\ b.observed = t.breach.observed
            /\ b.start = Max({1, t.breach.start})
      <3> SUFFICES ASSUME rule.family = "rolling_20_day_loss"
                   PROVE  /\ b.end = t.breach.end /\ b.observed = t.breach.observed
                          /\ b.start = Max({1, t.breach.start})
        OBVIOUS
      <3>1. PICK breach : breach = t.breach /\ breach = BreachOf(q, q, rule)
        BY <2>4
      <3>2. /\ b.end = breach.end /\ b.observed = breach.observed
            /\ b.start = Max({1, breach.start})
        BY <1>3, <2>3, <3>1, WorstRollingsRestart
      <3>3. QED
        BY <3>1, <3>2
    <2>9. Agrees(b, t)
      BY <2>2, <2>4, <2>5, <2>6, <2>7, <2>8 DEF Agrees, FailureRuleFamilies
    <2>10. QED
      BY <2>1, <2>2, <2>4, <2>5, <2>7, <2>9
  <1>13. \A t \in told : \E b \in found : Agrees(b, t)
    BY <1>10, <1>11, <1>12
  <1>14. \A t \in told : t.rule.family = "maximum_drawdown" =>
           IF t.breach.recovery # NoRow
           THEN episode.recovery = t.breach.recovery
           ELSE episode.recovery \in {NoRow} \cup (n + 1)..Rows
    <2> SUFFICES ASSUME NEW t \in told, t.rule.family = "maximum_drawdown"
                 PROVE  IF t.breach.recovery # NoRow
                        THEN episode.recovery = t.breach.recovery
                        ELSE episode.recovery \in {NoRow} \cup (n + 1)..Rows
      OBVIOUS
    <2>1. PICK rule \in broken : t = g[rule]
      BY <1>11
    <2>2. rule.family = "maximum_drawdown"
      BY <1>12, <2>1
    <2>3. QED
      BY <1>12, <2>1, <2>2
  <1>15. IsFiniteSet(broken)
    <2>1. IsFiniteSet(rules)
      BY RulesAreFinite
    <2>2. broken \in SUBSET rules
      BY <1>4
    <2>3. QED
      BY <2>1, <2>2, FS_Subset
  <1>16. f \in Bijection(broken, found)
    <2>1. f \in [broken -> found]
      BY <1>8, <1>10
    <2>2. \A r, s \in broken : f[r] = f[s] => r = s
      BY <1>12
    <2>3. \A b \in found : \E r \in broken : f[r] = b
      BY <1>10
    <2>4. QED
      BY <2>1, <2>2, <2>3 DEF Bijection, Injection, Surjection, IsInjective
  <1>17. g \in Bijection(broken, told)
    <2>1. g \in [broken -> told]
      BY <1>9, <1>11
    <2>2. \A r, s \in broken : g[r] = g[s] => r = s
      BY <1>12
    <2>3. \A b \in told : \E r \in broken : g[r] = b
      BY <1>11
    <2>4. QED
      BY <2>1, <2>2, <2>3 DEF Bijection, Injection, Surjection, IsInjective
  <1>18. Cardinality(found) = Cardinality(broken)
    BY <1>15, <1>16, FS_Bijection DEF ExistsBijection
  <1>19. Cardinality(told) = Cardinality(broken)
    BY <1>15, <1>17, FS_Bijection DEF ExistsBijection
  <1>20. QED
    BY <1>3, <1>13, <1>14, <1>18, <1>19

(***************************************************************************)
(* historical.py against backtest.py, for any history, rules and lengths:  *)
(* what the evidence says of a window is what evaluate_failure_rules says  *)
(* of a backtest that starts with it.                                      *)
(***************************************************************************)
THEOREM ScanAlwaysAgreesWithBacktest == EngineSpec => []ScanAgreesWithBacktest
  <1> DEFINE IdleScanIsEmpty == scan = "idle" => evidence = <<>>
  <1>1. EngineInit => IdleScanIsEmpty
    BY DEF EngineInit, ScanInit, ScanIdle
  <1>2. IdleScanIsEmpty /\ [EngineNext]_engineVars => IdleScanIsEmpty'
    <2> SUFFICES ASSUME IdleScanIsEmpty, [EngineNext]_engineVars PROVE IdleScanIsEmpty'
      OBVIOUS
    <2>1. CASE UNCHANGED scanVars
      BY <2>1 DEF scanVars
    <2>2. CASE ScanNext
      BY <2>2 DEF ScanNext, Collect, FindNothing, Select, BuildResult, Answer
    <2>3. QED
      BY <2>1, <2>2 DEF EngineNext, engineVars
  <1>3. ScanInvariant /\ IdleScanIsEmpty => ScanAgreesWithBacktest
    <2> SUFFICES ASSUME ScanInvariant, IdleScanIsEmpty, NEW r \in DOMAIN evidence,
                        NEW q, q = RestartedEquity(evidence[r].window),
                        NEW told, told = EvaluateFailureRules(q, q, rules)
                 PROVE  /\ \A e \in told : \E b \in evidence[r].breaches : Agrees(b, e)
                        /\ Cardinality(told) = Cardinality(evidence[r].breaches)
                        /\ \A e \in told : e.rule.family = "maximum_drawdown" =>
                             IF e.breach.recovery # NoRow
                             THEN evidence[r].episode.recovery = e.breach.recovery
                             ELSE evidence[r].episode.recovery \in
                                    {NoRow} \cup (WindowLength(evidence[r].window) + 1)..Rows
      BY DEF ScanAgreesWithBacktest
    <2>1. scan # "idle"
      <3>1. DOMAIN << >> = {}
        OBVIOUS
      <3>2. QED
        BY <3>1
    <2>2. r \in DOMAIN selected /\ evidence[r] = ResultOf(r)
      BY <2>1, SelectedType DEF ScanInvariant
    <2>3. PICK window : window = selected[r]
      OBVIOUS
    <2>4. window \in FailingWindows
      <3>1. selected = RankAndDeduplicate(candidates, TopK)
        BY <2>1, <2>2, SelectedType
      <3>2. WellFormed(candidates) /\ TopK \in Nat
        BY <2>1, CollectedType, ScanAssumption
      <3>3. window \in Strongest(candidates)
        BY <2>2, <2>3, <3>1, <3>2, KeptAreRanked
      <3>4. QED
        BY <2>1, <3>2, <3>3, StrongestType DEF ScanInvariant
    <2>5. /\ baseline.equity \in [0..Rows -> Int] /\ FailureRuleContract(rules)
      BY <2>1, CollectedType DEF ScanInvariant
    <2>6. IsSpan(window.start, window.end)
      BY <2>4, <2>5, FailingWindowsType
    <2>7. PICK episode, found :
            /\ episode = LossEpisode(baseline.equity, window)
            /\ found = FailureBreaches(baseline.equity, rules, window, episode)
      OBVIOUS
    <2>8. /\ evidence[r].window = window /\ evidence[r].episode = episode
          /\ evidence[r].breaches = found
      BY <2>2, <2>3, <2>7 DEF ResultOf
    <2>9. q = RestartedEquity(window)
      BY <2>8
    <2>10. /\ \A e \in told : \E b \in found : Agrees(b, e)
           /\ Cardinality(told) = Cardinality(found)
           /\ \A e \in told : e.rule.family = "maximum_drawdown" =>
                IF e.breach.recovery # NoRow
                THEN episode.recovery = e.breach.recovery
                ELSE episode.recovery \in {NoRow} \cup (WindowLength(window) + 1)..Rows
      BY <2>5, <2>6, <2>7, <2>9, EvidenceRestarts
    <2>11. QED
      BY <2>8, <2>10
  <1>4. QED
    BY <1>1, <1>2, <1>3, ScanInvariantHolds, PTL DEF EngineSpec
=============================================================================
