------------------------ MODULE RiskGovernanceProofs ------------------------
(***************************************************************************)
(* The two workflows keep their invariants when they share one process,    *)
(* one request table and one audit log, and the link between them holds;   *)
(* the POA&M says no more of them than the tracker stores.                 *)
(***************************************************************************)
EXTENDS PoamRisk, WorkflowProofs

GovIInv == CtlIInv /\ AccIInv

(* A step of the registry stays within the controls: no other item gains an *)
(* audit row, no revocation is suspended. *)
LEMMA ControlsStayWithin ==
  ASSUME CtlIInv, NEW cited \in SUBSET Controls, CtlStep(cited)
  PROVE  /\ \A i \in Items \ Controls, f \in Fields : Audited(i, f)' => Audited(i, f)
         /\ \A r \in Requests : req'[r] = req[r] \/ req'[r] = Idle \/ req'[r].op \in {"update", "retire"}
<1> USE ControlsAssumption
<1> DEFINE Within == /\ \A i \in Items \ Controls, f \in Fields : Audited(i, f)' => Audited(i, f)
                     /\ \A r \in Requests : req'[r] = req[r] \/ req'[r] = Idle \/ req'[r].op \in {"update", "retire"}
<1>1. ServerTypeOK /\ req \in [Requests -> Request \cup {Idle}] /\ audit \in [Items -> Seq(Entry)]
  BY DEF CtlIInv, CtlTypeOK, ServerTypeOK
<1>2. ASSUME NEW c \in Controls, NEW f \in Fields, NEW old \in Statuses \cup {Null},
             NEW after \in [Requests -> Request \cup {Idle}],
             \A r \in Requests : after[r] = req[r] \/ after[r] = Idle,
             AuditOrCrash(c, f, old, after)
      PROVE  Within
  <2>1. /\ \A r \in Requests : req'[r] = after[r] \/ req'[r] = Idle
        /\ \A j \in Items, g \in Fields : Audited(j, g)' => Audited(j, g) \/ (j = c /\ g = f)
    BY <1>1, <1>2, AuditStep
  <2>2. QED
    BY <1>2, <2>1
<1>3. \A r \in Requests : /\ Answered(r) \in [Requests -> Request \cup {Idle}]
                          /\ \A q \in Requests : Answered(r)[q] = req[q] \/ Answered(r)[q] = Idle
  BY <1>1 DEF Answered
<1>4. {"created", "updated", "activated", "retired"} \subseteq Fields /\ "draft" \in Statuses
  BY DEF Fields, Statuses
<1>5. ASSUME NEW u \in Users, NEW c \in Controls, NEW body \in Contents, CreateControl(u, c, body) PROVE Within
  <2>1. AuditOrCrash(c, "created", Null, req)
    BY <1>5 DEF CreateControl
  <2>2. QED
    BY <1>1, <1>2, <1>4, <2>1
<1>6. ASSUME NEW u \in Users, NEW c \in Controls, Activate(u, c) PROVE Within
  <2>1. AuditOrCrash(c, "activated", "draft", req)
    BY <1>6 DEF Activate
  <2>2. QED
    BY <1>1, <1>2, <1>4, <2>1
<1>7. ASSUME NEW r \in Requests, NEW u \in Users, NEW c \in Controls, BeginUpdate(r, u, c) \/ BeginRetire(r, u, c)
      PROVE  Within
  <2>1. PICK op \in {"update", "retire"} : Suspend(r, op, u, c, [status |-> controls[c].status, by |-> controls[c].by])
    BY <1>7 DEF BeginUpdate, BeginRetire
  <2>2. /\ audit' = audit
        /\ \A q \in Requests : req'[q] = req[q] \/ req'[q].op = op
    BY <1>1, <2>1 DEF Suspend
  <2>3. QED
    BY <2>2 DEF Audited
<1>8. ASSUME NEW r \in Requests, NEW body \in Contents, FinishUpdate(r, body) PROVE Within
  <2>1. AuditOrCrash(req[r].item, "updated", "draft", Answered(r))
    BY <1>8 DEF FinishUpdate
  <2>2. req[r].item \in Controls
    BY <1>8 DEF FinishUpdate, CtlIInv, InFlightProvenance
  <2>3. QED
    BY <1>2, <1>3, <1>4, <2>1, <2>2
<1>9. ASSUME NEW r \in Requests, FinishRetire(r, cited) PROVE Within
  <2>1. CASE req' = Answered(r) /\ audit' = audit
    BY <1>3, <2>1 DEF Audited
  <2>2. CASE AuditOrCrash(req[r].item, "retired", req[r].seen.status, Answered(r))
    <3>1. req[r].op = "retire" /\ req[r].item \in Controls
      BY <1>9 DEF FinishRetire, CtlIInv, InFlightProvenance
    <3>2. req[r] \in Request
      BY <1>1, <3>1 DEF Idle
    <3>3. req[r].seen.status \in Statuses
      BY <3>2 DEF Request, Seen
    <3>4. QED
      BY <1>2, <1>3, <1>4, <2>2, <3>1, <3>3
  <2>3. QED
    BY <1>9, <2>1, <2>2 DEF FinishRetire
<1>10. QED
  BY <1>5, <1>6, <1>7, <1>8, <1>9 DEF CtlStep

(* The registry's steps preserve the invariant of the registry. *)
LEMMA CtlStepPreserves ==
  ASSUME CtlIInv, NEW cited \in SUBSET Controls, CtlStep(cited)
  PROVE  CtlIInv'
BY CreatePreserves, ActivatePreserves, BeginPreserves, UpdatePreserves, RetirePreserves DEF CtlStep

(* The registry's steps preserve the invariant of the acceptances. *)
LEMMA CtlStepKeepsAcceptances ==
  ASSUME GovIInv, CtlStep(Cited), UNCHANGED <<accs, now>>
  PROVE  AccIInv'
<1> USE GovernanceAssumption, AcceptancesAssumption
<1>1. CtlIInv /\ AccIInv /\ Cited \in SUBSET Controls
  BY DEF GovIInv, Cited
<1>2. ServerTypeOK'
  BY <1>1, CtlStepPreserves DEF CtlIInv, CtlTypeOK
<1>3. /\ \A i \in Items \ Controls, f \in Fields : Audited(i, f)' => Audited(i, f)
      /\ \A r \in Requests : req'[r] = req[r] \/ req'[r] = Idle \/ req'[r].op \in {"update", "retire"}
  BY <1>1, ControlsStayWithin
<1>4. AccTypeOK'
  BY <1>1, <1>2 DEF AccIInv, AccTypeOK
<1>5. \A a \in Acceptances, f \in Fields : AuditGain(a, f)
  BY <1>3 DEF AuditGain
<1>6. StepShape
  BY <1>3, <1>4, <1>5 DEF StepShape, RowStep, Stays
<1>7. QED
  BY <1>1, <1>6, ShapePreserves

(* The acceptances' steps preserve the invariant of the registry. *)
LEMMA AccStepKeepsControls ==
  ASSUME GovIInv, StepShape, StaysWithin, UNCHANGED controls
  PROVE  CtlIInv'
<1> USE GovernanceAssumption, ControlsAssumption
<1>1. CtlIInv /\ AccIInv
  BY DEF GovIInv
<1>2. CtlTypeOK'
  BY <1>1 DEF CtlIInv, CtlTypeOK, StepShape, AccTypeOK
<1>3. InFlightProvenance'
  <2>1. SUFFICES ASSUME NEW r \in Requests, req'[r].op \in {"update", "retire"}
                 PROVE  /\ req'[r].item \in Controls
                        /\ controls'[req'[r].item].status # "absent"
                        /\ req'[r].seen.by = controls'[req'[r].item].by
    BY DEF InFlightProvenance
  <2>2. Idle.op \notin {"update", "retire"}
    BY DEF Idle
  <2>3. req'[r] = req[r]
    BY <2>1, <2>2 DEF StaysWithin
  <2>4. QED
    BY <1>1, <2>1, <2>3 DEF CtlIInv, InFlightProvenance
<1>4. ControlAuditNeverAhead'
  <2>1. \A c \in Controls, f \in Fields : Audited(c, f)' => Audited(c, f)
    BY DEF StaysWithin
  <2>2. "activated" \in Fields /\ "retired" \in Fields
    BY DEF Fields
  <2>3. QED
    BY <1>1, <2>1, <2>2 DEF CtlIInv, ControlAuditNeverAhead
<1>5. QED
  BY <1>1, <1>2, <1>3, <1>4 DEF CtlIInv, AbsentIsClean, SignatureCoversContent

(* A step of the shared process preserves both invariants. *)
LEMMA GovStepPreserves ==
  ASSUME GovIInv, [GovNext]_govVars
  PROVE  GovIInv'
<1>1. CASE CtlStep(Cited) /\ UNCHANGED <<accs, now>>
  <2>1. CtlIInv'
    BY <1>1, CtlStepPreserves DEF GovIInv, Cited
  <2>2. QED
    BY <1>1, <2>1, CtlStepKeepsAcceptances DEF GovIInv
<1>2. CASE AccNext /\ UNCHANGED controls
  <2>1. StepShape /\ StaysWithin
    BY <1>2, NextShape DEF GovIInv
  <2>2. QED
    BY <1>2, <2>1, ShapePreserves, AccStepKeepsControls DEF GovIInv
<1>3. CASE UNCHANGED govVars
  <2>1. StepShape /\ StaysWithin
    BY <1>3, QuietShape DEF govVars, GovIInv, AccIInv, AccTypeOK, ServerTypeOK
  <2>2. QED
    BY <1>3, <2>1, ShapePreserves, AccStepKeepsControls DEF GovIInv, govVars
<1>4. QED
  BY <1>1, <1>2, <1>3 DEF GovNext

(* The empty tables satisfy both invariants. *)
LEMMA GovInitial ==
  ASSUME GovInit
  PROVE  GovIInv
<1>1. CtlInit /\ AccInit
  BY DEF GovInit, CtlInit, AccInit
<1>2. QED
  BY <1>1, CtlInitial, AccInitial DEF GovIInv

-----------------------------------------------------------------------------
(* Both invariants hold in every reachable state of the shared process. *)
THEOREM GovInductive == GovSpec => []GovIInv
<1>1. GovInit => GovIInv
  BY GovInitial
<1>2. GovIInv /\ [GovNext]_govVars => GovIInv'
  BY GovStepPreserves
<1>3. QED
  BY <1>1, <1>2, PTL DEF GovSpec

(* A control is never retired under a live acceptance that relies on it,    *)
(* for any number of controls, acceptances and requests in flight. *)
THEOREM MitigationsOutliveAcceptances == GovSpec => MitigationKept
<1> DEFINE Kept == \A a \in Acceptances : accs'[a].status \in Live =>
             \A c \in accs'[a].links \cap Controls :
               controls'[c].status = "retired" => controls[c].status = "retired"
<1>1. GovIInv /\ [GovNext]_govVars => [Kept]_govVars
  <2> SUFFICES ASSUME GovIInv, GovNext, NEW a \in Acceptances, accs'[a].status \in Live,
                      NEW c \in accs'[a].links \cap Controls,
                      controls'[c].status = "retired", controls[c].status # "retired"
               PROVE  FALSE
    OBVIOUS
  <2>1. controls \in [Controls -> ControlRow]
    BY DEF GovIInv, CtlIInv, CtlTypeOK
  <2>2. CtlStep(Cited) /\ accs' = accs
    BY DEF GovNext
  <2>3. ASSUME NEW u \in Users, NEW d \in Controls, NEW body \in Contents, CreateControl(u, d, body) PROVE FALSE
    <3>1. controls' = [controls EXCEPT ![d] = [NoControl EXCEPT !.status = "draft", !.content = body, !.by = u,
                                                                !.signature = Payload(body, u)]]
      BY <2>3 DEF CreateControl
    <3>2. controls'[d].status = "draft"
      BY <2>1, <3>1 DEF NoControl
    <3>3. QED
      BY <2>1, <3>1, <3>2
  <2>4. ASSUME NEW u \in Users, NEW d \in Controls, Activate(u, d) PROVE FALSE
    <3>1. c = d
      BY <2>1, <2>4 DEF Activate, SignedOff
    <3>2. controls'[c].status = "active"
      BY <2>1, <2>4, <3>1 DEF Activate, SignedOff, ControlRow
    <3>3. QED
      BY <3>2
  <2>5. ASSUME NEW r \in Requests, NEW body \in Contents, FinishUpdate(r, body) PROVE FALSE
    BY <2>1, <2>5 DEF FinishUpdate, StillDraft, ControlRow
  <2>6. ASSUME NEW r \in Requests, FinishRetire(r, Cited) PROVE FALSE
    <3>1. /\ controls' = [controls EXCEPT ![req[r].item].status = "retired", ![req[r].item].retiredBy = req[r].user]
          /\ req[r].item \notin Cited
      BY <2>6 DEF FinishRetire
    <3>2. c = req[r].item
      BY <2>1, <3>1
    <3>3. c \in Cited
      BY <2>2 DEF Cited
    <3>4. QED
      BY <3>1, <3>2, <3>3
  <2>7. QED
    BY <2>2, <2>3, <2>4, <2>5, <2>6 DEF CtlStep, BeginUpdate, BeginRetire
<1>2. QED
  BY <1>1, GovInductive, PTL DEF GovSpec, MitigationKept

-----------------------------------------------------------------------------
(* A stored control has the content of some body, one in force was signed   *)
(* off, and an approved acceptance has an approver. *)
StoredHasContent == \A c \in Controls : controls[c].status # "absent" => controls[c].content \in Contents
SignedWhenActive == \A c \in Controls : controls[c].status = "active" => controls[c].signedOffBy # Null
NamedWhenApproved == \A a \in Acceptances : accs[a].status = "approved" => accs[a].approvedBy # Null

(* What may be said of a control or an acceptance for good: nothing that a  *)
(* later step of the tracker takes back. *)
SaysOfControl(c, content) == /\ c \in Controls
                             /\ controls[c].status \in {"active", "retired"}
                             /\ controls[c].signedOffBy # Null
                             /\ controls[c].content = content
SaysOfAcceptance(a, links) == /\ a \in Acceptances
                              /\ accs[a].approvedBy # Null
                              /\ accs[a].links = links

(* The snapshots and the POA&M made from them, whatever their age. *)
AccFileSound == \A a \in DOMAIN accFile : /\ SaysOfAcceptance(a, accFile[a].links)
                                          /\ accs[a].exp = accFile[a].exp
CtlFileSound == \A c \in DOMAIN ctlFile : SaysOfControl(c, ctlFile[c])
PoamSound == \A a \in DOMAIN poam :
               /\ SaysOfAcceptance(a, DOMAIN poam[a])
               /\ \A c \in DOMAIN poam[a] : poam[a][c] # Null => SaysOfControl(c, poam[a][c])

PoamIInv == /\ GovIInv /\ PoamTypeOK
            /\ StoredHasContent /\ SignedWhenActive /\ NamedWhenApproved
            /\ AccFileSound /\ CtlFileSound /\ PoamSound

(* No step of the tracker takes back what may be said for good. *)
LEMMA TrackerKeepsFacts ==
  ASSUME GovIInv, StoredHasContent, SignedWhenActive, NamedWhenApproved, GovNext
  PROVE  /\ StoredHasContent' /\ SignedWhenActive' /\ NamedWhenApproved'
         /\ \A c, content : SaysOfControl(c, content) => SaysOfControl(c, content)'
         /\ \A a, links : SaysOfAcceptance(a, links) => SaysOfAcceptance(a, links)' /\ accs'[a].exp = accs[a].exp
<1>1. CtlIInv /\ AccIInv /\ Null \notin Users
  BY UsersAssumption DEF GovIInv
<1>2. \A c \in Controls : /\ Frozen(c)
                          /\ controls'[c].status = "active" =>
                               controls[c].status = "active" \/ controls'[c].signedOffBy \in Users
                          /\ \/ controls'[c].content \in Contents
                             \/ /\ controls'[c].content = controls[c].content
                                /\ controls[c].status = "absent" => controls'[c].status = "absent"
  <2>1. CASE CtlStep(Cited)
    BY <1>1, <2>1, ControlStepShape DEF Cited
  <2>2. CASE UNCHANGED controls
    BY <2>2 DEF Frozen
  <2>3. QED
    BY <2>1, <2>2 DEF GovNext
<1>3. \A a \in Acceptances : RowStep(a)
  <2>1. CASE AccNext
    BY <1>1, <2>1, NextShape DEF StepShape
  <2>2. CASE UNCHANGED accs
    BY <2>2 DEF RowStep, Stays
  <2>3. QED
    BY <2>1, <2>2 DEF GovNext
<1>4. StoredHasContent' /\ SignedWhenActive'
  BY <1>1, <1>2 DEF StoredHasContent, SignedWhenActive, Frozen
<1>5. NamedWhenApproved'
  BY <1>1, <1>3 DEF NamedWhenApproved, RowStep, Stays, Created, ApprovedNow, Closes
<1>6. ASSUME NEW c, NEW content, SaysOfControl(c, content) PROVE SaysOfControl(c, content)'
  BY <1>2, <1>6 DEF SaysOfControl, Frozen
<1>7. ASSUME NEW a, NEW links, SaysOfAcceptance(a, links)
      PROVE  SaysOfAcceptance(a, links)' /\ accs'[a].exp = accs[a].exp
  <2>1. a \in Acceptances /\ RowStep(a)
    BY <1>3, <1>7 DEF SaysOfAcceptance
  <2>2. accs[a].status \notin {"absent", "pending"}
    BY <1>1, <1>7, <2>1 DEF AccIInv, UnapprovedIsClean, SaysOfAcceptance
  <2>3. \/ Stays(a)
        \/ Closes(a, "expired") \/ Closes(a, "revoked")
    BY <2>1, <2>2 DEF RowStep, Created, ApprovedNow
  <2>4. QED
    BY <1>7, <2>3 DEF SaysOfAcceptance, Stays, Closes, SameTerms
<1>8. QED
  BY <1>4, <1>5, <1>6, <1>7

(* The tracker keeps the invariant of the collector's files. *)
LEMMA TrackerStepPreserves ==
  ASSUME PoamIInv, TrackerStep
  PROVE  PoamIInv'
<1>1. GovIInv'
  BY GovStepPreserves DEF PoamIInv, TrackerStep
<1>2. order' \in Seq(Acceptances)
  <2>1. CASE \E a \in Acceptances : NewRow(a)
    <3>1. (CHOOSE a \in Acceptances : NewRow(a)) \in Acceptances
      BY <2>1
    <3>2. QED
      BY <2>1, <3>1 DEF TrackerStep, PoamIInv, PoamTypeOK
  <2>2. CASE ~ \E a \in Acceptances : NewRow(a)
    BY <2>2 DEF TrackerStep, PoamIInv, PoamTypeOK
  <2>3. QED
    BY <2>1, <2>2
<1>3. phase' = phase /\ accFile' = accFile /\ ctlFile' = ctlFile /\ poam' = poam
  BY DEF TrackerStep, runVars
<1>4. PoamTypeOK'
  BY <1>2, <1>3 DEF PoamIInv, PoamTypeOK
<1>5. /\ StoredHasContent' /\ SignedWhenActive' /\ NamedWhenApproved'
      /\ \A c, content : SaysOfControl(c, content) => SaysOfControl(c, content)'
      /\ \A a, links : SaysOfAcceptance(a, links) => SaysOfAcceptance(a, links)' /\ accs'[a].exp = accs[a].exp
  BY TrackerKeepsFacts DEF PoamIInv, TrackerStep
<1>6. AccFileSound'
  <2>1. SUFFICES ASSUME NEW a \in DOMAIN accFile
                 PROVE  SaysOfAcceptance(a, accFile[a].links)' /\ accs'[a].exp = accFile[a].exp
    BY <1>3 DEF AccFileSound
  <2>2. SaysOfAcceptance(a, accFile[a].links) /\ accs[a].exp = accFile[a].exp
    BY DEF PoamIInv, AccFileSound
  <2>3. QED
    BY <1>3, <1>5, <2>2 DEF SaysOfAcceptance
<1>7. CtlFileSound'
  <2>1. SUFFICES ASSUME NEW c \in DOMAIN ctlFile PROVE SaysOfControl(c, ctlFile[c])'
    BY <1>3 DEF CtlFileSound
  <2>2. QED
    BY <1>3, <1>5 DEF PoamIInv, CtlFileSound, SaysOfControl
<1>8. PoamSound'
  <2>1. SUFFICES ASSUME NEW a \in DOMAIN poam
                 PROVE  /\ SaysOfAcceptance(a, DOMAIN poam[a])'
                        /\ \A c \in DOMAIN poam[a] : poam[a][c] # Null => SaysOfControl(c, poam[a][c])'
    BY <1>3 DEF PoamSound
  <2>2. SaysOfAcceptance(a, DOMAIN poam[a])'
    BY <1>3, <1>5 DEF PoamIInv, PoamSound, SaysOfAcceptance
  <2>3. ASSUME NEW c \in DOMAIN poam[a], poam[a][c] # Null PROVE SaysOfControl(c, poam[a][c])'
    BY <1>3, <1>5, <2>3 DEF PoamIInv, PoamSound, SaysOfControl
  <2>4. QED
    BY <2>2, <2>3
<1>9. QED
  BY <1>1, <1>4, <1>5, <1>6, <1>7, <1>8 DEF PoamIInv

(* What the collector reads of the tracker while it changes nothing there. *)
LEMMA TrackerUntouched ==
  ASSUME PoamIInv, UNCHANGED <<govVars, order>>
  PROVE  /\ GovIInv' /\ StoredHasContent' /\ SignedWhenActive' /\ NamedWhenApproved'
         /\ order' = order /\ accs' = accs /\ controls' = controls
<1>1. GovIInv'
  BY GovStepPreserves DEF PoamIInv
<1>2. QED
  BY <1>1 DEF PoamIInv, govVars, StoredHasContent, SignedWhenActive, NamedWhenApproved

(* The pull of the acceptances writes approved rows as they are stored. *)
LEMMA PullAcceptancesPreserves ==
  ASSUME PoamIInv, PullAcceptances
  PROVE  PoamIInv'
<1>1. /\ GovIInv' /\ StoredHasContent' /\ SignedWhenActive' /\ NamedWhenApproved'
      /\ order' = order /\ accs' = accs /\ controls' = controls
  BY TrackerUntouched DEF PullAcceptances
<1>2. ctlFile' = ctlFile /\ poam' = poam /\ phase' = "controls"
  BY DEF PullAcceptances
<1>3. CtlFileSound' /\ PoamSound'
  BY <1>1, <1>2 DEF PoamIInv, CtlFileSound, PoamSound, SaysOfControl, SaysOfAcceptance
<1>4. CASE accFile' = [a \in Page |-> [exp |-> accs[a].exp, links |-> accs[a].links]]
  <2>1. DOMAIN accFile' = Page
    BY <1>4
  <2>2. \A a \in Page : /\ accFile'[a] = [exp |-> accs[a].exp, links |-> accs[a].links]
                        /\ a \in Acceptances /\ accs[a].approvedBy # Null
    BY <1>4 DEF Page, PoamIInv, NamedWhenApproved
  <2>3. AccFileSound'
    BY <1>1, <2>1, <2>2 DEF AccFileSound, SaysOfAcceptance
  <2>4. accs \in [Acceptances -> AcceptanceRow]
    BY DEF PoamIInv, GovIInv, AccIInv, AccTypeOK
  <2>5. \A a \in DOMAIN accFile' : accFile'[a] \in [exp : Expiration, links : SUBSET Citable]
    BY <2>1, <2>2, <2>4 DEF AcceptanceRow
  <2>6. PoamTypeOK'
    BY <1>1, <1>2, <2>5 DEF PoamIInv, PoamTypeOK
  <2>7. QED
    BY <1>1, <1>3, <2>3, <2>6 DEF PoamIInv
<1>5. CASE accFile' = accFile
  <2>1. AccFileSound'
    BY <1>1, <1>5 DEF PoamIInv, AccFileSound, SaysOfAcceptance
  <2>2. PoamTypeOK'
    BY <1>1, <1>2, <1>5 DEF PoamIInv, PoamTypeOK
  <2>3. QED
    BY <1>1, <1>3, <2>1, <2>2 DEF PoamIInv
<1>6. QED
  BY <1>4, <1>5 DEF PullAcceptances

(* The pull of the controls writes active rows as they are stored. *)
LEMMA PullControlsPreserves ==
  ASSUME PoamIInv, PullControls
  PROVE  PoamIInv'
<1>1. /\ GovIInv' /\ StoredHasContent' /\ SignedWhenActive' /\ NamedWhenApproved'
      /\ order' = order /\ accs' = accs /\ controls' = controls
  BY TrackerUntouched DEF PullControls
<1>2. accFile' = accFile /\ poam' = poam /\ phase' = "emit"
  BY DEF PullControls
<1>3. AccFileSound' /\ PoamSound'
  BY <1>1, <1>2 DEF PoamIInv, AccFileSound, PoamSound, SaysOfControl, SaysOfAcceptance
<1>4. CASE ctlFile' = [c \in Served |-> SnapshotItem(c)]
  <2>1. DOMAIN ctlFile' = Served
    BY <1>4
  <2>2. \A c \in Served : /\ c \in Controls /\ controls[c].status = "active" /\ controls[c].signedOffBy # Null
                          /\ ctlFile'[c] = controls[c].content
    BY <1>4 DEF Served, SnapshotItem, PoamIInv, SignedWhenActive
  <2>3. CtlFileSound'
    BY <1>1, <2>1, <2>2 DEF CtlFileSound, SaysOfControl
  <2>4. \A c \in Served : controls[c].content \in Contents
    BY DEF Served, PoamIInv, StoredHasContent
  <2>5. \A c \in DOMAIN ctlFile' : ctlFile'[c] \in Contents
    BY <2>1, <2>2, <2>4
  <2>6. PoamTypeOK'
    BY <1>1, <1>2, <2>5 DEF PoamIInv, PoamTypeOK
  <2>7. QED
    BY <1>1, <1>3, <2>3, <2>6 DEF PoamIInv
<1>5. CASE ctlFile' = ctlFile
  <2>1. CtlFileSound'
    BY <1>1, <1>5 DEF PoamIInv, CtlFileSound, SaysOfControl
  <2>2. PoamTypeOK'
    BY <1>1, <1>2, <1>5 DEF PoamIInv, PoamTypeOK
  <2>3. QED
    BY <1>1, <1>3, <2>1, <2>2 DEF PoamIInv
<1>6. QED
  BY <1>4, <1>5 DEF PullControls

(* The POA&M takes its deviations and remediations from the snapshots. *)
LEMMA EmitPreserves ==
  ASSUME PoamIInv, Emit
  PROVE  PoamIInv'
<1> DEFINE Text(a) == [c \in accFile[a].links |-> IF Resolves(c) THEN ctlFile[c] ELSE Null]
<1>1. /\ GovIInv' /\ StoredHasContent' /\ SignedWhenActive' /\ NamedWhenApproved'
      /\ order' = order /\ accs' = accs /\ controls' = controls
  BY TrackerUntouched DEF Emit
<1>2. accFile' = accFile /\ ctlFile' = ctlFile /\ phase' = "idle"
  BY DEF Emit, Remediations
<1>3. AccFileSound' /\ CtlFileSound'
  BY <1>1, <1>2 DEF PoamIInv, AccFileSound, CtlFileSound, SaysOfControl, SaysOfAcceptance
<1>4. \A a \in DOMAIN poam' : /\ a \in DOMAIN accFile
                              /\ DOMAIN poam'[a] = accFile[a].links
                              /\ poam'[a] = Text(a)
  BY DEF Emit, Remediations
<1>5. \A a \in DOMAIN poam' : \A c \in DOMAIN poam'[a] :
         poam'[a][c] = IF Resolves(c) THEN ctlFile[c] ELSE Null
  BY <1>4
<1> HIDE DEF Text
<1>6. PoamSound'
  <2>1. SUFFICES ASSUME NEW a \in DOMAIN poam'
                 PROVE  /\ SaysOfAcceptance(a, DOMAIN poam[a])'
                        /\ \A c \in DOMAIN poam'[a] : poam'[a][c] # Null => SaysOfControl(c, poam[a][c])'
    BY DEF PoamSound
  <2>2. SaysOfAcceptance(a, DOMAIN poam[a])'
    BY <1>1, <1>4 DEF PoamIInv, AccFileSound, SaysOfAcceptance
  <2>3. ASSUME NEW c \in DOMAIN poam'[a], poam'[a][c] # Null PROVE SaysOfControl(c, poam[a][c])'
    <3>1. c \in DOMAIN ctlFile /\ poam'[a][c] = ctlFile[c]
      BY <1>5, <2>3 DEF Resolves, Cached
    <3>2. QED
      BY <1>1, <3>1 DEF PoamIInv, CtlFileSound, SaysOfControl
  <2>4. QED
    BY <2>2, <2>3
<1>7. PoamTypeOK'
  <2>1. \A a \in DOMAIN poam' : \A c \in DOMAIN poam'[a] : poam'[a][c] \in Contents \cup {Null}
    BY <1>5 DEF Resolves, Cached, PoamIInv, PoamTypeOK
  <2>2. QED
    BY <1>1, <1>2, <2>1 DEF PoamIInv, PoamTypeOK
<1>8. QED
  BY <1>1, <1>3, <1>6, <1>7 DEF PoamIInv

(* A run that starts or dies leaves each file as it is or without an entry. *)
LEMMA BeginOrDiePreserves ==
  ASSUME PoamIInv, Begin \/ Die \/ UNCHANGED poamVars
  PROVE  PoamIInv'
<1>1. /\ GovIInv' /\ StoredHasContent' /\ SignedWhenActive' /\ NamedWhenApproved'
      /\ order' = order /\ accs' = accs /\ controls' = controls
  BY TrackerUntouched DEF Begin, Die, poamVars
<1>2. /\ poam' = poam
      /\ phase' \in {"idle", "acceptances", phase}
      /\ accFile' = accFile \/ accFile' = Empty
      /\ ctlFile' = ctlFile \/ ctlFile' = Empty
  BY DEF Begin, Die, poamVars, runVars
<1>3. DOMAIN Empty = {}
  BY DEF Empty
<1>4. PoamSound'
  BY <1>1, <1>2 DEF PoamIInv, PoamSound, SaysOfControl, SaysOfAcceptance
<1>5. AccFileSound'
  <2>1. CASE accFile' = accFile
    BY <1>1, <2>1 DEF PoamIInv, AccFileSound, SaysOfAcceptance
  <2>2. CASE accFile' = Empty
    BY <1>3, <2>2 DEF AccFileSound
  <2>3. QED
    BY <1>2, <2>1, <2>2
<1>6. CtlFileSound'
  <2>1. CASE ctlFile' = ctlFile
    BY <1>1, <2>1 DEF PoamIInv, CtlFileSound, SaysOfControl
  <2>2. CASE ctlFile' = Empty
    BY <1>3, <2>2 DEF CtlFileSound
  <2>3. QED
    BY <1>2, <2>1, <2>2
<1>7. PoamTypeOK'
  <2>1. \A a \in DOMAIN accFile' : accFile'[a] \in [exp : Expiration, links : SUBSET Citable]
    BY <1>2, <1>3 DEF PoamIInv, PoamTypeOK
  <2>2. \A c \in DOMAIN ctlFile' : ctlFile'[c] \in Contents
    BY <1>2, <1>3 DEF PoamIInv, PoamTypeOK
  <2>3. QED
    BY <1>1, <1>2, <2>1, <2>2 DEF PoamIInv, PoamTypeOK
<1>8. QED
  BY <1>1, <1>4, <1>5, <1>6, <1>7 DEF PoamIInv

(* Nothing is stored and nothing was pulled. *)
LEMMA PoamInitial ==
  ASSUME PoamInit
  PROVE  PoamIInv
<1>1. GovIInv
  BY GovInitial DEF PoamInit
<1>2. DOMAIN accFile = {} /\ DOMAIN ctlFile = {} /\ DOMAIN poam = {}
  BY DEF PoamInit, Empty
<1>3. PoamTypeOK
  BY <1>2 DEF PoamInit, PoamTypeOK
<1>4. StoredHasContent /\ SignedWhenActive
  BY DEF PoamInit, GovInit, NoControl, StoredHasContent, SignedWhenActive
<1>5. NamedWhenApproved
  BY DEF PoamInit, GovInit, AccInit, NoAcceptance, NamedWhenApproved
<1>6. QED
  BY <1>1, <1>2, <1>3, <1>4, <1>5 DEF PoamIInv, AccFileSound, CtlFileSound, PoamSound

-----------------------------------------------------------------------------
(* The invariant of the tracker and the collector's files together holds in *)
(* every reachable state, wherever either process died.                     *)
THEOREM PoamInductive == PoamSpec => []PoamIInv
<1>1. PoamInit => PoamIInv
  BY PoamInitial
<1>2. PoamIInv /\ [PoamNext]_poamVars => PoamIInv'
  BY TrackerStepPreserves, PullAcceptancesPreserves, PullControlsPreserves, EmitPreserves, BeginOrDiePreserves
     DEF PoamNext
<1>3. QED
  BY <1>1, <1>2, PTL DEF PoamSpec

(* The snapshots and the POA&M keep their types. *)
THEOREM PoamTypeCorrect == PoamSpec => []PoamTypeOK
<1>1. PoamIInv => PoamTypeOK
  BY DEF PoamIInv
<1>2. QED
  BY <1>1, PoamInductive, PTL

(* Every mitigation a POA&M quotes was signed off by an AO and is what the  *)
(* tracker stores, for snapshots of any age and any page size.              *)
THEOREM MitigationsAreSigned == PoamSpec => []MitigationIsSignedContent
<1>1. PoamIInv => MitigationIsSignedContent
  BY DEF PoamIInv, PoamSound, SaysOfControl, MitigationIsSignedContent
<1>2. QED
  BY <1>1, PoamInductive, PTL

(* Every deviation of a POA&M was approved, with the links it quotes. *)
THEOREM DeviationsWereApproved == PoamSpec => []DeviationWasApproved
<1>1. PoamIInv => DeviationWasApproved
  BY DEF PoamIInv, PoamSound, SaysOfAcceptance, DeviationWasApproved
<1>2. QED
  BY <1>1, PoamInductive, PTL

(* No POA&M is emitted with a deviation or a mitigation past its date: the  *)
(* dates in the snapshots are the dates of the rows.                        *)
THEOREM ExpiredIsNotEmitted == PoamSpec => NoExpiredDeviation
<1> DEFINE Unexpired == \A a \in DOMAIN poam' :
             /\ accs[a].exp.at > now
             /\ \A c \in DOMAIN poam'[a] : poam'[a][c] # Null =>
                  Expires[controls[c].content] = Null \/ Expires[controls[c].content] > now
           Fresh == phase = "emit" /\ phase' = "idle" /\ poam' # poam => Unexpired
<1>1. PoamIInv /\ [PoamNext]_poamVars => [Fresh]_poamVars
  <2> SUFFICES ASSUME PoamIInv, PoamNext, phase = "emit", phase' = "idle", poam' # poam PROVE Unexpired
    OBVIOUS
  <2>1. Emit
    BY DEF PoamNext, TrackerStep, runVars, Begin, PullAcceptances, PullControls, Die
  <2>2. ASSUME NEW a \in DOMAIN poam' PROVE accs[a].exp.at > now
    <3>1. a \in DOMAIN accFile /\ InForce(a)
      BY <2>1, <2>2 DEF Emit, Remediations
    <3>2. QED
      BY <3>1 DEF InForce, PoamIInv, AccFileSound
  <2>3. ASSUME NEW a \in DOMAIN poam', NEW c \in DOMAIN poam'[a], poam'[a][c] # Null
        PROVE  Expires[controls[c].content] = Null \/ Expires[controls[c].content] > now
    <3>1. poam'[a][c] = IF Resolves(c) THEN ctlFile[c] ELSE Null
      BY <2>1, <2>3 DEF Emit, Remediations
    <3>2. Resolves(c)
      BY <2>3, <3>1
    <3>3. ctlFile[c] = controls[c].content
      BY <3>2 DEF Resolves, Cached, PoamIInv, CtlFileSound, SaysOfControl
    <3>4. QED
      BY <3>2, <3>3 DEF Resolves
  <2>4. QED
    BY <2>2, <2>3
<1>2. QED
  BY <1>1, PoamInductive, PTL DEF PoamSpec, NoExpiredDeviation
=============================================================================
