---------------------------- MODULE RiskGovernance --------------------------
(***************************************************************************)
(* The tracker's two signed workflows in one process and one database: an  *)
(* acceptance links the controls it relies on, and a control cannot be     *)
(* retired while a live acceptance links it.                               *)
(***************************************************************************)
EXTENDS CompensatingControls, RiskAcceptance

ASSUME GovernanceAssumption == Controls \subseteq Citable /\ Controls \cap Acceptances = {}

govVars == <<controls, accs, now, req, audit, up>>

(* activeLinkedAcceptances(), for every control; its mutant overlooks the    *)
(* acceptances that await approval. *)
Cited_ApprovedOnly == {c \in Controls : \E a \in Acceptances : accs[a].status = "approved" /\ c \in accs[a].links}
Cited == {c \in Controls : \E a \in Acceptances : accs[a].status \in Live /\ c \in accs[a].links}

GovInit == controls = [c \in Controls |-> NoControl] /\ AccInit

GovNext == \/ CtlStep(Cited) /\ UNCHANGED <<accs, now>>
           \/ AccNext /\ UNCHANGED controls

GovSpec == GovInit /\ [][GovNext]_govVars

-----------------------------------------------------------------------------
(* A control is not retired under a live acceptance that relies on it, also  *)
(* when the acceptance was created while the retirement awaited its body.    *)
MitigationKept ==
  [][\A a \in Acceptances : accs'[a].status \in Live =>
       \A c \in accs'[a].links \cap Controls : controls'[c].status = "retired" => controls[c].status = "retired"]_govVars
=============================================================================
