---------------------- MODULE OfflineProposalProperties ----------------------
(***************************************************************************)
(* What the policy and the deterministic proposers promise.                *)
(***************************************************************************)
EXTENDS OfflineProposal

(***************************************************************************)
(* Policy and preflight check windows and costs with code of their own.  A *)
(* scenario that a policy admits under one of its hypotheses is one that   *)
(* preflight accepts, so that it is refused for its numbers or not at all  *)
(* (attack.py, validate_scenario; stress.py, _preflight_scenario).         *)
(***************************************************************************)
AdmittedScenariosFit ==
  verdict = "admitted" /\ Active(request.policy, request.context.kind) # {} =>
    PreflightFault(proposal, request.context.cost) = NoCode

\* The rows before the window, of the shortest window and of the shortest shock.
InflationNeeds(hypothesis, source) ==
  (IF source.by = "client" THEN 1 ELSE 0)
    + hypothesis.windowRows.minimum + hypothesis.shockRows.minimum

\* The dataset is too short for something the policy asks for.
DatasetIsTooShort(policy, context, source) ==
  IF Active(policy, context.kind) # {}
  THEN \E n \in Active(policy, context.kind) :
         LET hypothesis == policy.hypotheses[n]
         IN  \/ /\ hypothesis.family = "inflation_correlation_break"
                /\ Rows + 1 < InflationNeeds(hypothesis, source)
             \/ /\ hypothesis.family = "rebalance_timing_gap"
                /\ context.monthStarts \subseteq {1, 2}
  ELSE Rows < policy.durations.minimum

\* The experiment gives friction nothing to act on, or its cost no room.
FrictionIsVoid(context, component) ==
  \/ context.cost = 0 \/ TradeRows(context.targets) = {}
  \/ ~CostFits(context.cost, component)

(***************************************************************************)
(* Without hypotheses the client stresses a regime over the first half of  *)
(* the dataset, of two rows at least.  A correlation takes three.          *)
(***************************************************************************)
RegimeIsTooShort(policy, context, source) ==
  /\ source.by = "client" /\ Active(policy, context.kind) = {}
  /\ "correlation_target" \in Allowed(policy) /\ Rows < 6

Families == {proposal.components[n].family : n \in DOMAIN proposal.components}

(***************************************************************************)
(* A deterministic proposer wastes no slot and ends no run without need:   *)
(* it raises only over a dataset that is too short; its proposals keep the *)
(* domain contract and the policy, except friction that cannot apply;      *)
(* their windows are ones preflight accepts, if half of the dataset is one *)
(* for a correlation; and the client leaves the first row alone, except by *)
(* a gap three rows before a month that begins on the fourth (attack.py,   *)
(* DeterministicOfflineProposer; offline.py,                               *)
(* DeterministicOfflineScenarioClient).                                    *)
(***************************************************************************)
OfflineProposalsFit ==
  LET policy  == request.policy
      context == request.context
      source  == request.source
  IN  verdict # "idle" /\ source.by \in {"client", "grid"} =>
        /\ verdict = "raised" => DatasetIsTooShort(policy, context, source)
        /\ verdict = "refused" =>
             /\ Families = {"transaction_cost_multiplier"}
             /\ FrictionIsVoid(context, proposal.components[1])
        /\ verdict = "admitted" =>
             \/ PreflightFault(proposal, context.cost) # "invalid_window"
             \/ RegimeIsTooShort(policy, context, source)
        /\ verdict \in {"proposed", "admitted"} /\ source.by = "client" =>
             \A n \in DOMAIN proposal.components :
               LET component == proposal.components[n]
               IN  \/ FirstRow(component) > 0
                   \/ component.family = "transaction_cost_multiplier"
                   \/ component.family = "one_day_gap" /\ 3 \in context.monthStarts
=============================================================================
