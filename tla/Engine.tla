------------------------------- MODULE Engine -------------------------------
(***************************************************************************)
(* The numerical engine and the policy in front of it: the scan of the     *)
(* unchanged history, the way of a proposal to the engine, and the         *)
(* evaluation of a stressed scenario.  None of them keeps state for        *)
(* another; a run of the model is one of them on one dataset.              *)
(***************************************************************************)
EXTENDS HistoricalScanProperties, StressedEvaluationProperties, OfflineProposalProperties

engineVars == <<scanVars, stressVars, proposalVars>>

ScanIdle ==
  /\ scan = "idle" /\ baseline = <<>> /\ rules = {} /\ pending = <<>>
  /\ candidates = {} /\ selected = <<>> /\ evidence = <<>>

StressIdle ==
  /\ stress = "idle" /\ experiment = <<>> /\ staged = <<>> /\ stagedCost = 0
  /\ next = 0 /\ equity = <<>> /\ code = NoCode /\ breaches = {}

ProposalIdle ==
  verdict = "idle" /\ request = <<>> /\ proposal = NoProposal

EngineInit ==
  \/ ScanInit /\ StressIdle /\ ProposalIdle
  \/ StressInit /\ ScanIdle /\ ProposalIdle
  \/ ProposalInit /\ ScanIdle /\ StressIdle

EngineNext ==
  \/ ScanNext /\ UNCHANGED <<stressVars, proposalVars>>
  \/ StressNext /\ UNCHANGED <<scanVars, proposalVars>>
  \/ ProposalNext /\ UNCHANGED <<scanVars, stressVars>>

EngineSpec == EngineInit /\ [][EngineNext]_engineVars
=============================================================================
