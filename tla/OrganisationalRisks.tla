------------------------- MODULE OrganisationalRisks ------------------------
(***************************************************************************)
(* Risks without a finding, tracker/server/routes/risk-register.ts: open   *)
(* -> closed, edits while open; and their way into the risk register of a  *)
(* collector run, which pulls them into a snapshot file and copies the     *)
(* file.  What the register says of findings and acceptances is not here.  *)
(*                                                                         *)
(* A body that passes validateBody() assesses the risk and may name an     *)
(* owner.  Bands are 1, very low, to 5, very high.                         *)
(***************************************************************************)
EXTENDS TrackerServer, FiniteSets

CONSTANTS
  Risks,        \* uuids of organisational risks
  Assessments,  \* the likelihood and impact a body may give
  RegisterPage  \* rows the tracker returns when a client names no limit

Bands == 1..5

ASSUME RisksAssumption == /\ Risks \subseteq Items
                          /\ Assessments \subseteq [likelihood : Bands, impact : Bands]
                          /\ RegisterPage \in Nat \ {0}

VARIABLES
  risks,     \* table organisational_risks
  orgFile,   \* out/.organisational-risks.json
  register,  \* the organisational entries of out/risk-register.json
  pulled     \* whether a run stands between its pull and its register

files == <<orgFile, register, pulled>>
riskVars == <<risks, files, req, audit, up>>

RiskRow == [status     : {"absent", "open", "closed"},
            assessment : Assessments \cup {Null},
            owner      : Users \cup {Null},
            closedBy   : Users \cup {Null}]

NoRisk == [status |-> "absent", assessment |-> Null, owner |-> Null, closedBy |-> Null]

(* serialize() and the entry copied from it. *)
Shown(row) == [status |-> row.status, assessment |-> row.assessment, owner |-> row.owner]
ShownRow == [status : {"open", "closed"}, assessment : Assessments, owner : Users]

(* A file of risks: what it says of some of them. *)
NoFile == [i \in {} |-> NoRisk]
IsFile(f) == \E listing \in SUBSET Risks : f \in [listing -> ShownRow]

RiskTypeOK == /\ risks \in [Risks -> RiskRow]
              /\ IsFile(orgFile) /\ IsFile(register) /\ pulled \in BOOLEAN
              /\ ServerTypeOK

RiskInit == /\ risks = [i \in Risks |-> NoRisk]
            /\ orgFile = NoFile /\ register = NoFile /\ pulled = FALSE
            /\ ServerInit

-----------------------------------------------------------------------------
(* POST /: the body is awaited first; whoever asks owns the risk unless the *)
(* body names somebody. *)
Owner(named, default) == IF named = Null THEN default ELSE named

CreateRisk(u, i, assessment, named) ==
  /\ up /\ May(u, "create:organisational_risk")
  /\ risks[i].status = "absent"
  /\ risks' = [risks EXCEPT ![i] = [status |-> "open", assessment |-> assessment,
                                    owner |-> Owner(named, u), closedBy |-> Null]]
  /\ AuditOrCrash(i, "created", Null, req)
  /\ UNCHANGED files

(* PUT /:uuid up to the await: only an open risk is edited. *)
BeginEdit(r, u, i) ==
  /\ May(u, "create:organisational_risk")
  /\ risks[i].status = "open"
  /\ Len(audit[i]) < MaxAudit
  /\ Suspend(r, "edit", u, i, [status |-> "open", by |-> risks[i].owner])
  /\ UNCHANGED <<risks, files>>

(* The UPDATE's own WHERE status = 'open'.  Mutant: there is none. *)
StillOpen_NoWhere(i) == TRUE
StillOpen(i) == risks[i].status = "open"

(* PUT /:uuid after the await.  The owner of the row that was read is the   *)
(* default; the audit row, which quotes the inherent risk read before, is   *)
(* written whether or not the UPDATE matched a row. *)
FinishEdit(r, assessment, named) ==
  /\ up /\ req[r].op = "edit"
  /\ LET i == req[r].item IN
       /\ risks' = IF StillOpen(i)
                     THEN [risks EXCEPT ![i].assessment = assessment,
                                        ![i].owner = Owner(named, req[r].seen.by)]
                     ELSE risks
       /\ AuditOrCrash(i, "updated", Null, Answered(r))
  /\ UNCHANGED files

(* POST /:uuid/close up to the await. *)
BeginClose(r, u, i) ==
  /\ May(u, "close:organisational_risk")
  /\ risks[i].status = "open"
  /\ Suspend(r, "close", u, i, [status |-> "open", by |-> risks[i].owner])
  /\ UNCHANGED <<risks, files>>

Closing(r) == [risks EXCEPT ![req[r].item].status = "closed", ![req[r].item].closedBy = req[r].user]

(* Mutant: the audit row is written first. *)
FinishClose_AuditFirst(r) ==
  /\ up /\ req[r].op = "close"
  /\ audit' = [audit EXCEPT ![req[r].item] = Append(@, [field |-> "closed", old |-> "open"])]
  /\ \/ risks' = Closing(r) /\ req' = Answered(r) /\ UNCHANGED up
     \/ UNCHANGED risks /\ req' = NoRequests /\ up' = FALSE
  /\ UNCHANGED files

(* POST /:uuid/close after the await: the UPDATE names the uuid only. *)
FinishClose(r) ==
  /\ up /\ req[r].op = "close"
  /\ risks' = Closing(r)
  /\ AuditOrCrash(req[r].item, "closed", "open", Answered(r))
  /\ UNCHANGED files

RiskRequest ==
  \/ \E u \in Users, i \in Risks :
       \/ \E assessment \in Assessments, named \in Users \cup {Null} : CreateRisk(u, i, assessment, named)
       \/ \E r \in Requests : BeginEdit(r, u, i) \/ BeginClose(r, u, i)
  \/ \E r \in Requests :
       \/ \E assessment \in Assessments, named \in Users \cup {Null} : FinishEdit(r, assessment, named)
       \/ FinishClose(r)

-----------------------------------------------------------------------------
(* combineInherent(): NIST SP 800-30 table I-2, a row for each likelihood. *)
InherentMatrix == << <<1, 1, 1, 2, 2>>,
                     <<1, 2, 2, 2, 3>>,
                     <<1, 2, 3, 3, 4>>,
                     <<1, 2, 3, 4, 5>>,
                     <<1, 2, 3, 4, 5>> >>
Inherent(assessment) == InherentMatrix[assessment.likelihood][assessment.impact]

(* GET /: the first page of all risks, open or closed, worst first.  Rows   *)
(* as bad as one another come in any order. *)
Stored == {i \in Risks : risks[i].status # "absent"}
Pages == {page \in SUBSET Stored :
            /\ Cardinality(page) = IF Cardinality(Stored) < RegisterPage THEN Cardinality(Stored) ELSE RegisterPage
            /\ \A i \in page, j \in Stored \ page : Inherent(risks[i].assessment) >= Inherent(risks[j].assessment)}

(* pullOrganisationalRisks(): one GET.  A pull that fails is not fatal, the *)
(* run goes on with the file it has. *)
PullRisks ==
  /\ ~pulled /\ pulled' = TRUE
  /\ \/ up /\ \E page \in Pages : orgFile' = [i \in page |-> Shown(risks[i])]
     \/ UNCHANGED orgFile  \* no tracker configured, unreachable, or an HTTP error
  /\ UNCHANGED <<risks, register, req, audit, up>>

(* emitRiskRegister(): the snapshot's entries, verbatim. *)
EmitRegister ==
  /\ pulled /\ pulled' = FALSE
  /\ register' = orgFile
  /\ UNCHANGED <<risks, orgFile, req, audit, up>>

(* The run dies, possibly while it writes a file: a torn file reads as none. *)
RunDies ==
  /\ pulled' = FALSE
  /\ \/ ~pulled /\ orgFile' = NoFile /\ UNCHANGED register
     \/ pulled /\ register' \in {register, NoFile} /\ UNCHANGED orgFile
  /\ UNCHANGED <<risks, req, audit, up>>

RiskNext == \/ RiskRequest
            \/ PullRisks \/ EmitRegister \/ RunDies
            \/ UNCHANGED <<risks, files>> /\ (Crash \/ Restart \/ \E r \in Requests : RejectBody(r))

RiskSpec == RiskInit /\ [][RiskNext]_riskVars

-----------------------------------------------------------------------------
(* A closed risk is closed for good and keeps the assessment and the owner  *)
(* it was closed with, also when an edit was in flight as it was closed.    *)
ClosedRiskFixed ==
  [][\A i \in Risks : risks[i].status = "closed" => Shown(risks'[i]) = Shown(risks[i])]_riskVars

(* The audit trail never claims a closure that the row does not show, at    *)
(* whatever point the process dies.                                         *)
RiskAuditNeverAhead == \A i \in Risks : Audited(i, "closed") => risks[i].status = "closed"

(* Every organisational entry traces to a row of the tracker, and what the  *)
(* register says of a closed risk still stands, however old the snapshot it *)
(* was copied from and whatever edits were in flight.                       *)
ClosedEntriesStand ==
  \A i \in DOMAIN register : /\ risks[i].status # "absent"
                             /\ register[i].status = "closed" => register[i] = Shown(risks[i])

(* The status column moves only along the edges of the code. *)
RiskEdges == {<<"absent", "open">>, <<"open", "closed">>}
RiskLifecycle == INSTANCE Lifecycle WITH Items <- Risks, Start <- "absent", Edges <- RiskEdges,
                                         st <- [i \in Risks |-> risks[i].status]
RisksFollowLifecycle == RiskLifecycle!Spec
=============================================================================
