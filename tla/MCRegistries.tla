---------------------------- MODULE MCRegistries ----------------------------
(* The two registries in one server: a control, a risk assessed low or high, *)
(* an implementer, an AO and an administrator, two requests in flight.       *)
EXTENDS CompensatingControls, OrganisationalRisks, TLC

CONSTANTS ian, olga, ada, c1, o1

MCRole == (ian :> "iso") @@ (olga :> "ao") @@ (ada :> "admin")
MCAssessments == {[likelihood |-> 2, impact |-> 3], [likelihood |-> 4, impact |-> 5]}

Init == CtlInit /\ RiskInit
Next == \/ CtlNext /\ UNCHANGED <<risks, files>>
        \/ RiskNext /\ UNCHANGED controls
Spec == Init /\ [][Next]_<<controls, riskVars>>

(* Rows of different tables do not interact: one of them is in use at a time, *)
(* and the administrator, who may do all that the ISO and the AO may, is left *)
(* out of the risks.                                                          *)
InFlight(i) == {req[r].user : r \in {q \in Requests : req[q] # Idle /\ req[q].item = i}}
OneRegistry ==
  \/ controls[c1] = NoControl /\ InFlight(c1) = {} /\ ada \notin InFlight(o1) \cup {risks[o1].owner}
  \/ risks[o1] = NoRisk /\ ~pulled
=============================================================================
