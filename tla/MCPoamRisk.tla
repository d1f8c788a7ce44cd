------------------------------ MODULE MCPoamRisk ----------------------------
(* One acceptance, one control whose body is x, good until day 1, or y, which *)
(* does not expire. *)
EXTENDS PoamRisk, TLC

CONSTANTS ada, x, y

AdminOnly == (ada :> "admin")
BodyExpires == [b \in Contents |-> IF b = x THEN 1 ELSE Null]

(* The order of a run that PoamRisk follows is that of the table of stages,   *)
(* whose facts the theorems about whole runs start from: TLC computes them.   *)
Run == INSTANCE Emitters
PullsThenEmits ==
  LET Place(s) == CHOOSE k \in DOMAIN Run!Stages : Run!Stages[k] = s
  IN  Place(Run!PullAcceptances) < Place(Run!PullControls) /\ Place(Run!PullControls) < Place(Run!WritePoam)
ASSUME OrderAssumption == PullsThenEmits /\ Run!OrderIsSound
=============================================================================
