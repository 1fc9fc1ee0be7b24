------------------------- MODULE DefenderProperties -------------------------
(***************************************************************************)
(* What a reader of a defence may rely on, whatever evidence was altered   *)
(* and whatever the language model says about it.                          *)
(***************************************************************************)
EXTENDS Defender

-----------------------------------------------------------------------------
(***************************************************************************)
(* "Only reproduced evidence may be described as a verified failure": what *)
(* is reported is exactly what was not altered, loads, and replays alike   *)
(* within tolerance.                                                       *)
(***************************************************************************)
Unaltered(i) ==
  /\ dataset = "verified"
  /\ top[i].altered = {}
  /\ \A j \in DOMAIN top : "rank" \notin top[j].altered

ReplaysAlike(i) ==
  LET replay == top[i].replay
  IN  replay.valid /\ replay.differs = {} /\ replay.delta # 2

ReportedIsReproduced ==
  pc \in {"defended", "published", "refused"} =>
    report = {top[i].id : i \in {j \in DOMAIN top : Unaltered(j) /\ ReplaysAlike(j)}}

(***************************************************************************)
(* An altered dataset, configuration or order invalidates evidence; it is  *)
(* never blamed on the replay, and the replay's failure never on them.     *)
(***************************************************************************)
BlameIsRight ==
  \A i \in DOMAIN verdicts :
    /\ verdicts[i].id = top[i].id
    /\ verdicts[i].verdict = "invalid_evidence" <=> ~Unaltered(i)

(***************************************************************************)
(* Whatever the report writer says, an accepted claim of a mechanism is    *)
(* about reported evidence and names mechanisms it contains.               *)
(***************************************************************************)
AcceptedClaimsAreSupported ==
  \A s \in DOMAIN accepted :
    accepted[s].status = "verified" =>
      /\ \E i \in DOMAIN top : top[i].id = s /\ Unaltered(i) /\ ReplaysAlike(i)
      /\ accepted[s].families \subseteq FamiliesOf[s]

(***************************************************************************)
(* "A run-022-style schema failure cannot abort deterministic defender     *)
(* evidence" (tests/test_services.py): a run whose every failure was       *)
(* reproduced is not lost for what the report writer says.                 *)
(***************************************************************************)
NarrativeCannotAbort == ~(pc = "raised" /\ AllReproduced)

(***************************************************************************)
(* Of the answers a report writer may give, only those that invent ids     *)
(* lose a defence: TopK claims that are all rejected, with a failure left  *)
(* unexplained.  (A writer that does not answer but raises an exception of *)
(* its own loses it too, and is not meant here.)                           *)
(***************************************************************************)
OnlyInventionAborts ==
  pc = "raised" => rejections = TopK + 1 /\ accepted = [s \in {} |-> {}]
=============================================================================
