---------------------------- MODULE WorkflowProofs --------------------------
(***************************************************************************)
(* The invariants of the tracker's workflows, for any number of users,     *)
(* rows, bodies and requests in flight, and any time limits: first what    *)
(* the steps shared by every route do to the request table and to the      *)
(* audit log, then the compensating-controls registry, then the            *)
(* acceptances, then the organisational risks and their register.          *)
(***************************************************************************)
EXTENDS CompensatingControls, RiskAcceptance, OrganisationalRisks, TLAPS

(* An element of an extended audit log is an old one or the new one.        *)
LEMMA AppendedEntry ==
  ASSUME NEW s \in Seq(Entry), NEW e \in Entry, NEW n \in 1..Len(Append(s, e))
  PROVE  (n \in 1..Len(s) /\ Append(s, e)[n] = s[n]) \/ Append(s, e)[n] = e
OBVIOUS

(* Appending an audit row adds its own field to those of the item, and      *)
(* changes no other item. *)
LEMMA AuditAppended ==
  ASSUME audit \in [Items -> Seq(Entry)], NEW i \in Items, NEW e \in Entry,
         audit' = [audit EXCEPT ![i] = Append(@, e)]
  PROVE  /\ audit' \in [Items -> Seq(Entry)]
         /\ \A j \in Items, f \in Fields : Audited(j, f)' => Audited(j, f) \/ (j = i /\ f = e.field)
<1>1. Append(audit[i], e) \in Seq(Entry)
  OBVIOUS
<1>2. audit' \in [Items -> Seq(Entry)]
  BY <1>1
<1>3. ASSUME NEW j \in Items, NEW f \in Fields, Audited(j, f)'
      PROVE  Audited(j, f) \/ (j = i /\ f = e.field)
  <2>1. PICK n \in 1..Len(audit'[j]) : audit'[j][n].field = f
    BY <1>3 DEF Audited
  <2>2. CASE j # i
    <3>1. audit'[j] = audit[j]
      BY <2>2
    <3>2. QED
      BY <2>1, <3>1 DEF Audited
  <2>3. CASE j = i
    <3>1. audit'[i] = Append(audit[i], e)
      OBVIOUS
    <3>2. CASE n = Len(audit[i]) + 1
      BY <2>1, <2>3, <3>1, <3>2
    <3>3. CASE n \in 1..Len(audit[i])
      <4>1. audit'[i][n] = audit[i][n]
        BY <3>1, <3>3
      <4>2. QED
        BY <2>1, <2>3, <3>3, <4>1 DEF Audited
    <3>4. Len(audit'[i]) = Len(audit[i]) + 1
      BY <3>1
    <3>5. QED
      BY <2>1, <2>3, <3>2, <3>3, <3>4
  <2>4. QED
    BY <2>2, <2>3
<1>4. QED
  BY <1>2, <1>3

(* writeAudit() or a crash: the request table keeps its type, every request *)
(* is what the handler left or idle, and only the one field is added.       *)
LEMMA AuditStep ==
  ASSUME ServerTypeOK, NEW i \in Items, NEW f \in Fields, NEW old \in Statuses \cup {Null},
         NEW after \in [Requests -> Request \cup {Idle}], AuditOrCrash(i, f, old, after)
  PROVE  /\ ServerTypeOK'
         /\ \A r \in Requests : req'[r] = after[r] \/ req'[r] = Idle
         /\ \A j \in Items, g \in Fields : Audited(j, g)' => Audited(j, g) \/ (j = i /\ g = f)
<1> DEFINE e == [field |-> f, old |-> old]
<1>1. CASE audit' = [audit EXCEPT ![i] = Append(@, e)] /\ req' = after /\ UNCHANGED up
  <2>1. e \in Entry
    BY DEF Entry
  <2>2. e.field = f
    OBVIOUS
  <2>3. audit \in [Items -> Seq(Entry)]
    BY DEF ServerTypeOK
  <2> HIDE DEF e
  <2>4. /\ audit' \in [Items -> Seq(Entry)]
        /\ \A j \in Items, g \in Fields : Audited(j, g)' => Audited(j, g) \/ (j = i /\ g = e.field)
    BY <1>1, <2>1, <2>3, AuditAppended
  <2>5. QED
    BY <1>1, <2>2, <2>4 DEF ServerTypeOK
<1>2. CASE req' = NoRequests /\ up' = FALSE /\ UNCHANGED audit
  BY <1>2 DEF ServerTypeOK, NoRequests, Audited
<1>3. QED
  BY <1>1, <1>2 DEF AuditOrCrash

(* A handler that suspends adds one typed request and nothing else. *)
LEMMA SuspendStep ==
  ASSUME ServerTypeOK, NEW r \in Requests, NEW op \in {"update", "retire", "revoke", "edit", "close"}, NEW u \in Users,
         NEW i \in Items, NEW seen \in Seen, Suspend(r, op, u, i, seen)
  PROVE  /\ ServerTypeOK'
         /\ audit' = audit
         /\ req' = [req EXCEPT ![r] = [op |-> op, user |-> u, item |-> i, seen |-> seen]]
BY DEF ServerTypeOK, Suspend, Request

(* A request table with one request answered is still one. *)
LEMMA AnsweredTyped ==
  ASSUME ServerTypeOK, NEW r \in Requests
  PROVE  Answered(r) \in [Requests -> Request \cup {Idle}]
BY DEF ServerTypeOK, Answered

(* A rejected body, a crash or a restart writes nothing: at most requests   *)
(* disappear. *)
LEMMA ServerStep ==
  ASSUME ServerTypeOK, Crash \/ Restart \/ \E r \in Requests : RejectBody(r)
  PROVE  /\ ServerTypeOK'
         /\ audit' = audit
         /\ \A q \in Requests : req'[q] = req[q] \/ req'[q] = Idle
BY DEF ServerTypeOK, Crash, Restart, RejectBody, Answered, NoRequests

-----------------------------------------------------------------------------
(* A suspended edit or retirement still names a stored control, and the     *)
(* implementer it read is still that of the row.  Without it the re-signed  *)
(* payload of a late PUT could name somebody else. *)
InFlightProvenance ==
  \A r \in Requests : req[r].op \in {"update", "retire"} =>
     /\ req[r].item \in Controls
     /\ controls[req[r].item].status # "absent"
     /\ req[r].seen.by = controls[req[r].item].by

(* A uuid that is not stored yet carries no sign-off. *)
AbsentIsClean == \A c \in Controls : controls[c].status = "absent" => controls[c].signedOffBy = Null

CtlIInv == /\ CtlTypeOK
           /\ InFlightProvenance
           /\ AbsentIsClean
           /\ SignatureCoversContent
           /\ ControlAuditNeverAhead

-----------------------------------------------------------------------------
(* Requests in flight keep their provenance as long as no row changes its   *)
(* implementer or disappears. *)
LEMMA ProvenanceKept ==
  ASSUME CtlIInv, \A r \in Requests : req'[r] = req[r] \/ req'[r] = Idle,
         \A d \in Controls : controls[d].status # "absent" =>
           controls'[d].by = controls[d].by /\ controls'[d].status # "absent"
  PROVE  InFlightProvenance'
<1>1. SUFFICES ASSUME NEW r \in Requests, req'[r].op \in {"update", "retire"}
      PROVE  /\ req'[r].item \in Controls
             /\ controls'[req'[r].item].status # "absent"
             /\ req'[r].seen.by = controls'[req'[r].item].by
  BY DEF InFlightProvenance
<1>2. req'[r] = req[r]
  BY <1>1 DEF Idle
<1>3. QED
  BY <1>1, <1>2 DEF CtlIInv, InFlightProvenance

(* One lemma per kind of step: each preserves the inductive invariant. *)
LEMMA CreatePreserves ==
  ASSUME CtlIInv, NEW u \in Users, NEW c \in Controls, NEW body \in Contents, CreateControl(u, c, body)
  PROVE  CtlIInv'
<1> USE ControlsAssumption, UsersAssumption
<1> DEFINE row == [NoControl EXCEPT !.status = "draft", !.content = body, !.by = u, !.signature = Payload(body, u)]
<1>1. row \in ControlRow /\ row.signature = Payload(row.content, row.by)
      /\ row.status = "draft" /\ row.signedOffBy = Null
  BY DEF ControlRow, NoControl, Payload
<1>2. controls[c].status = "absent" /\ controls' = [controls EXCEPT ![c] = row]
  BY DEF CreateControl
<1>3. /\ ServerTypeOK'
      /\ \A r \in Requests : req'[r] = req[r] \/ req'[r] = Idle
      /\ \A j \in Items, g \in Fields : Audited(j, g)' => Audited(j, g) \/ (j = c /\ g = "created")
  <2>1. AuditOrCrash(c, "created", Null, req)
    BY DEF CreateControl
  <2>2. ServerTypeOK /\ c \in Items
    BY DEF CtlIInv, CtlTypeOK
  <2>3. req \in [Requests -> Request \cup {Idle}]
    BY <2>2 DEF ServerTypeOK
  <2>4. "created" \in Fields /\ Null \in Statuses \cup {Null}
    BY DEF Fields
  <2>5. QED
    BY <2>1, <2>2, <2>3, <2>4, AuditStep
<1> HIDE DEF row
<1>4. CtlTypeOK'
  BY <1>1, <1>2, <1>3 DEF CtlIInv, CtlTypeOK
<1>5. InFlightProvenance'
  BY <1>2, <1>3, ProvenanceKept DEF CtlIInv, CtlTypeOK
<1>6. AbsentIsClean'
  BY <1>1, <1>2 DEF CtlIInv, CtlTypeOK, AbsentIsClean
<1>7. SignatureCoversContent'
  BY <1>1, <1>2 DEF CtlIInv, CtlTypeOK, SignatureCoversContent
<1>8. ControlAuditNeverAhead'
  BY <1>1, <1>2, <1>3 DEF CtlIInv, CtlTypeOK, ControlAuditNeverAhead, AbsentIsClean, Fields
<1>9. QED
  BY <1>4, <1>5, <1>6, <1>7, <1>8 DEF CtlIInv

LEMMA ActivatePreserves ==
  ASSUME CtlIInv, NEW u \in Users, NEW c \in Controls, Activate(u, c)
  PROVE  CtlIInv'
<1> USE ControlsAssumption, UsersAssumption
<1>1. controls[c].status = "draft" /\ controls' = [controls EXCEPT ![c].status = "active", ![c].signedOffBy = u]
  BY DEF Activate, SignedOff
<1>2. /\ ServerTypeOK'
      /\ \A r \in Requests : req'[r] = req[r] \/ req'[r] = Idle
      /\ \A j \in Items, g \in Fields : Audited(j, g)' => Audited(j, g) \/ (j = c /\ g = "activated")
  BY AuditStep DEF Activate, CtlIInv, CtlTypeOK, ServerTypeOK, Fields, Statuses
<1>3. CtlTypeOK'
  <2>1. controls \in [Controls -> ControlRow]
    BY DEF CtlIInv, CtlTypeOK
  <2>2. [controls[c] EXCEPT !.status = "active", !.signedOffBy = u] \in ControlRow
    BY <2>1 DEF ControlRow
  <2>3. controls' = [controls EXCEPT ![c] = [controls[c] EXCEPT !.status = "active", !.signedOffBy = u]]
    BY <1>1, <2>1
  <2>4. QED
    BY <1>2, <2>1, <2>2, <2>3 DEF CtlTypeOK
<1>4. InFlightProvenance'
  <2>1. \A d \in Controls : controls'[d].by = controls[d].by /\ (controls[d].status # "absent" => controls'[d].status # "absent")
    BY <1>1 DEF CtlIInv, CtlTypeOK, ControlRow
  <2>2. QED
    BY <1>2, <2>1, ProvenanceKept
<1>5. AbsentIsClean'
  BY <1>1 DEF CtlIInv, CtlTypeOK, ControlRow, AbsentIsClean
<1>6. SignatureCoversContent'
  BY <1>1 DEF CtlIInv, CtlTypeOK, ControlRow, SignatureCoversContent
<1>7. ControlAuditNeverAhead'
  BY <1>1, <1>2 DEF CtlIInv, CtlTypeOK, ControlRow, ControlAuditNeverAhead, Fields
<1>8. QED
  BY <1>3, <1>4, <1>5, <1>6, <1>7 DEF CtlIInv

LEMMA BeginPreserves ==
  ASSUME CtlIInv, NEW r \in Requests, NEW u \in Users, NEW c \in Controls,
         BeginUpdate(r, u, c) \/ BeginRetire(r, u, c)
  PROVE  CtlIInv'
<1> USE ControlsAssumption
<1> DEFINE seen == [status |-> controls[c].status, by |-> controls[c].by]
<1>1. PICK op \in {"update", "retire"} : Suspend(r, op, u, c, seen)
  BY DEF BeginUpdate, BeginRetire
<1>2. UNCHANGED controls /\ controls[c].status # "absent"
  BY DEF BeginUpdate, BeginRetire
<1>3. seen \in Seen
  BY DEF CtlIInv, CtlTypeOK, ControlRow, Seen, Statuses
<1>4. /\ ServerTypeOK'
      /\ audit' = audit
      /\ req' = [req EXCEPT ![r] = [op |-> op, user |-> u, item |-> c, seen |-> seen]]
  BY <1>1, <1>3, SuspendStep DEF CtlIInv, CtlTypeOK
<1>5. InFlightProvenance'
  BY <1>2, <1>4 DEF CtlIInv, CtlTypeOK, ServerTypeOK, InFlightProvenance
<1>6. QED
  BY <1>2, <1>4, <1>5 DEF CtlIInv, CtlTypeOK, AbsentIsClean, SignatureCoversContent, ControlAuditNeverAhead, Audited

LEMMA UpdatePreserves ==
  ASSUME CtlIInv, NEW r \in Requests, NEW body \in Contents, FinishUpdate(r, body)
  PROVE  CtlIInv'
<1> USE ControlsAssumption, UsersAssumption
<1> DEFINE c == req[r].item
<1>1. c \in Controls /\ c \in Items /\ controls[c].status # "absent" /\ req[r].seen.by = controls[c].by
  BY DEF FinishUpdate, CtlIInv, InFlightProvenance
<1>2. controls' = IF controls[c].status = "draft"
                    THEN [controls EXCEPT ![c].content = body, ![c].signature = Payload(body, controls[c].by)]
                    ELSE controls
  BY <1>1 DEF FinishUpdate, StillDraft, Resigned
<1>3. AuditOrCrash(c, "updated", "draft", Answered(r))
  BY DEF FinishUpdate
<1> HIDE DEF c
<1>4. /\ ServerTypeOK'
      /\ \A q \in Requests : req'[q] = Answered(r)[q] \/ req'[q] = Idle
      /\ \A j \in Items, g \in Fields : Audited(j, g)' => Audited(j, g) \/ (j = c /\ g = "updated")
  BY <1>1, <1>3, AuditStep, AnsweredTyped DEF CtlIInv, CtlTypeOK, Fields, Statuses
<1>5. \A q \in Requests : req'[q] = req[q] \/ req'[q] = Idle
  BY <1>4 DEF Answered, CtlIInv, CtlTypeOK, ServerTypeOK
<1>6. CtlTypeOK'
  <2> DEFINE row == [controls[c] EXCEPT !.content = body, !.signature = Payload(body, controls[c].by)]
  <2>1. controls \in [Controls -> ControlRow]
    BY DEF CtlIInv, CtlTypeOK
  <2>2. row \in ControlRow
    BY <1>1, <2>1 DEF ControlRow, Payload
  <2>3. controls' = controls \/ controls' = [controls EXCEPT ![c] = row]
    BY <1>1, <1>2, <2>1
  <2> HIDE DEF row
  <2>4. QED
    BY <1>4, <2>1, <2>2, <2>3 DEF CtlTypeOK
<1>7. InFlightProvenance'
  <2>1. \A d \in Controls : controls'[d].by = controls[d].by /\ controls'[d].status = controls[d].status
    BY <1>1, <1>2 DEF CtlIInv, CtlTypeOK, ControlRow
  <2>2. QED
    BY <1>5, <2>1, ProvenanceKept
<1>8. AbsentIsClean'
  BY <1>1, <1>2 DEF CtlIInv, CtlTypeOK, ControlRow, AbsentIsClean
<1>9. SignatureCoversContent'
  BY <1>1, <1>2 DEF CtlIInv, CtlTypeOK, ControlRow, SignatureCoversContent
<1>10. ControlAuditNeverAhead'
  BY <1>1, <1>2, <1>4 DEF CtlIInv, CtlTypeOK, ControlRow, ControlAuditNeverAhead, Fields
<1>11. QED
  BY <1>6, <1>7, <1>8, <1>9, <1>10 DEF CtlIInv

LEMMA RetirePreserves ==
  ASSUME CtlIInv, NEW r \in Requests, NEW cited \in SUBSET Controls, FinishRetire(r, cited)
  PROVE  CtlIInv'
<1> USE ControlsAssumption, UsersAssumption
<1> DEFINE c == req[r].item
<1>1. c \in Controls /\ c \in Items /\ controls[c].status # "absent" /\ req[r] \in Request
  BY DEF FinishRetire, CtlIInv, CtlTypeOK, ServerTypeOK, InFlightProvenance, Idle
<1>2. CASE req' = Answered(r) /\ UNCHANGED <<controls, audit, up>>
  <2>1. ServerTypeOK'
    BY <1>2, AnsweredTyped DEF CtlIInv, CtlTypeOK, ServerTypeOK
  <2>2. InFlightProvenance'
    BY <1>2 DEF CtlIInv, CtlTypeOK, ServerTypeOK, InFlightProvenance, Answered, Idle
  <2>3. QED
    BY <1>2, <2>1, <2>2 DEF CtlIInv, CtlTypeOK, AbsentIsClean, SignatureCoversContent, ControlAuditNeverAhead, Audited
<1>3. CASE /\ controls' = [controls EXCEPT ![c].status = "retired", ![c].retiredBy = req[r].user]
           /\ AuditOrCrash(c, "retired", req[r].seen.status, Answered(r))
  <2>1. req[r].user \in Users /\ req[r].seen.status \in Statuses
    BY <1>1 DEF Request, Seen
  <2> HIDE DEF c
  <2>2. /\ ServerTypeOK'
        /\ \A q \in Requests : req'[q] = Answered(r)[q] \/ req'[q] = Idle
        /\ \A j \in Items, g \in Fields : Audited(j, g)' => Audited(j, g) \/ (j = c /\ g = "retired")
    BY <1>1, <1>3, <2>1, AuditStep, AnsweredTyped DEF CtlIInv, CtlTypeOK, Fields
  <2>3. \A q \in Requests : req'[q] = req[q] \/ req'[q] = Idle
    BY <2>2 DEF Answered, CtlIInv, CtlTypeOK, ServerTypeOK
  <2>4. CtlTypeOK'
    <3> DEFINE row == [controls[c] EXCEPT !.status = "retired", !.retiredBy = req[r].user]
    <3>1. controls \in [Controls -> ControlRow]
      BY DEF CtlIInv, CtlTypeOK
    <3>2. row \in ControlRow
      BY <1>1, <2>1, <3>1 DEF ControlRow
    <3>3. controls' = [controls EXCEPT ![c] = row]
      BY <1>1, <1>3, <3>1
    <3> HIDE DEF row
    <3>4. QED
      BY <2>2, <3>1, <3>2, <3>3 DEF CtlTypeOK
  <2>5. InFlightProvenance'
    <3>1. \A d \in Controls : controls'[d].by = controls[d].by /\ (controls[d].status # "absent" => controls'[d].status # "absent")
      BY <1>1, <1>3 DEF CtlIInv, CtlTypeOK, ControlRow
    <3>2. QED
      BY <2>3, <3>1, ProvenanceKept
  <2>6. AbsentIsClean'
    BY <1>1, <1>3 DEF CtlIInv, CtlTypeOK, ControlRow, AbsentIsClean
  <2>7. SignatureCoversContent'
    BY <1>1, <1>3 DEF CtlIInv, CtlTypeOK, ControlRow, SignatureCoversContent
  <2>8. ControlAuditNeverAhead'
    BY <1>1, <1>3, <2>2 DEF CtlIInv, CtlTypeOK, ControlRow, ControlAuditNeverAhead, Fields
  <2>9. QED
    BY <2>4, <2>5, <2>6, <2>7, <2>8 DEF CtlIInv
<1>4. QED
  BY <1>2, <1>3 DEF FinishRetire

LEMMA ServerPreserves ==
  ASSUME CtlIInv, UNCHANGED controls, Crash \/ Restart \/ \E r \in Requests : RejectBody(r)
  PROVE  CtlIInv'
<1>1. audit' = audit
  BY ServerStep DEF CtlIInv, CtlTypeOK
<1>2. ServerTypeOK' /\ \A q \in Requests : req'[q] = req[q] \/ req'[q] = Idle
  BY ServerStep DEF CtlIInv, CtlTypeOK
<1>3. InFlightProvenance'
  BY <1>2 DEF CtlIInv, InFlightProvenance, Idle
<1>4. QED
  BY <1>1, <1>2, <1>3 DEF CtlIInv, CtlTypeOK, AbsentIsClean, SignatureCoversContent, ControlAuditNeverAhead, Audited

(* The empty registry satisfies the invariant. *)
LEMMA CtlInitial ==
  ASSUME CtlInit
  PROVE  CtlIInv
<1>1. ServerTypeOK
  BY DEF CtlInit, ServerInit, ServerTypeOK, NoRequests
<1>2. CtlTypeOK
  BY <1>1 DEF CtlInit, CtlTypeOK, ControlRow, NoControl, Payload
<1>3. InFlightProvenance
  BY DEF CtlInit, ServerInit, NoRequests, InFlightProvenance, Idle
<1>4. AbsentIsClean /\ SignatureCoversContent
  BY DEF CtlInit, NoControl, AbsentIsClean, SignatureCoversContent, Payload
<1>5. ControlAuditNeverAhead
  BY ControlsAssumption DEF CtlInit, ServerInit, ControlAuditNeverAhead, Audited
<1>6. QED
  BY <1>2, <1>3, <1>4, <1>5 DEF CtlIInv

-----------------------------------------------------------------------------
(* The strengthening is inductive: every reachable state of the registry    *)
(* satisfies it, whatever the requests in flight and wherever the process   *)
(* died. *)
THEOREM CtlInductive == CtlSpec => []CtlIInv
<1>1. CtlInit => CtlIInv
  BY CtlInitial
<1>2. CtlIInv /\ [CtlNext]_ctlVars => CtlIInv'
  <2> SUFFICES ASSUME CtlIInv, [CtlNext]_ctlVars PROVE CtlIInv'
    OBVIOUS
  <2>1. CASE UNCHANGED ctlVars
    BY <2>1 DEF ctlVars, CtlIInv, CtlTypeOK, ServerTypeOK, InFlightProvenance, AbsentIsClean,
                SignatureCoversContent, ControlAuditNeverAhead, Audited
  <2>2. ASSUME NEW cited \in SUBSET Controls, CtlStep(cited) PROVE CtlIInv'
    BY <2>2, CreatePreserves, ActivatePreserves, BeginPreserves, UpdatePreserves, RetirePreserves DEF CtlStep
  <2>3. CASE UNCHANGED controls /\ (Crash \/ Restart \/ \E r \in Requests : RejectBody(r))
    BY <2>3, ServerPreserves
  <2>4. QED
    BY <2>1, <2>2, <2>3 DEF CtlNext
<1>3. QED
  BY <1>1, <1>2, PTL DEF CtlSpec

(* Every row, request and audit entry of the registry keeps its type. *)
THEOREM CtlTypeCorrect == CtlSpec => []CtlTypeOK
<1>1. CtlIInv => CtlTypeOK
  BY DEF CtlIInv
<1>2. QED
  BY <1>1, CtlInductive, PTL

(* GET /:uuid/verify answers valid for every stored control, always: edits  *)
(* racing activation, retirement or each other never separate a signature   *)
(* from the content and the implementer it was made over. *)
THEOREM ControlsVerify == CtlSpec => []SignatureCoversContent
<1>1. CtlIInv => SignatureCoversContent
  BY DEF CtlIInv
<1>2. QED
  BY <1>1, CtlInductive, PTL

(* The audit log of the registry is never ahead of the rows. *)
THEOREM ControlAuditSound == CtlSpec => []ControlAuditNeverAhead
<1>1. CtlIInv => ControlAuditNeverAhead
  BY DEF CtlIInv
<1>2. QED
  BY <1>1, CtlInductive, PTL

(* What a step leaves alone of a control that was signed off or retired. *)
Frozen(c) == controls[c].status \in {"active", "retired"} =>
               /\ controls'[c].status \in {"active", "retired"}
               /\ controls'[c].content = controls[c].content
               /\ controls'[c].signature = controls[c].signature
               /\ controls'[c].by = controls[c].by
               /\ controls'[c].signedOffBy = controls[c].signedOffBy

(* A control becomes active by a sign-off, is frozen from then on, and is    *)
(* stored with the content of some body. *)
LEMMA ControlStepShape ==
  ASSUME CtlIInv, NEW cited \in SUBSET Controls, CtlStep(cited), NEW c \in Controls
  PROVE  /\ Frozen(c)
         /\ controls'[c].status = "active" => controls[c].status = "active" \/ controls'[c].signedOffBy \in Users
         /\ \/ controls'[c].content \in Contents
            \/ controls'[c].content = controls[c].content /\ (controls[c].status = "absent" => controls'[c].status = "absent")
<1> DEFINE Shape == /\ Frozen(c)
                    /\ controls'[c].status = "active" =>
                         controls[c].status = "active" \/ controls'[c].signedOffBy \in Users
                    /\ \/ controls'[c].content \in Contents
                       \/ /\ controls'[c].content = controls[c].content
                          /\ controls[c].status = "absent" => controls'[c].status = "absent"
<1>1. controls \in [Controls -> ControlRow]
  BY DEF CtlIInv, CtlTypeOK
<1>2. CASE UNCHANGED controls
  BY <1>2 DEF Frozen
<1>3. ASSUME NEW u \in Users, NEW d \in Controls, NEW body \in Contents, CreateControl(u, d, body) PROVE Shape
  <2>1. CASE c = d
    <3>1. controls[c].status = "absent"
      BY <1>3, <2>1 DEF CreateControl
    <3>2. controls'[c].status = "draft" /\ controls'[c].content = body
      BY <1>1, <1>3, <2>1 DEF CreateControl, NoControl
    <3>3. QED
      BY <3>1, <3>2 DEF Frozen
  <2>2. CASE c # d
    BY <1>1, <1>3, <2>2 DEF CreateControl, Frozen
  <2>3. QED
    BY <2>1, <2>2
<1>4. ASSUME NEW u \in Users, NEW d \in Controls, Activate(u, d) PROVE Shape
  <2>1. CASE c = d
    <3>1. controls[c].status = "draft" /\ controls[c] \in ControlRow
      BY <1>1, <1>4, <2>1 DEF Activate
    <3>2. controls'[c] = [controls[c] EXCEPT !.status = "active", !.signedOffBy = u]
      BY <1>1, <1>4, <2>1 DEF Activate, SignedOff
    <3>3. controls'[c].signedOffBy = u /\ controls'[c].content = controls[c].content
      BY <3>1, <3>2 DEF ControlRow
    <3>4. QED
      BY <3>1, <3>3 DEF Frozen
  <2>2. CASE c # d
    BY <1>1, <1>4, <2>2 DEF Activate, SignedOff, Frozen
  <2>3. QED
    BY <2>1, <2>2
<1>5. ASSUME NEW r \in Requests, NEW body \in Contents, FinishUpdate(r, body) PROVE Shape
  <2> DEFINE d == req[r].item
  <2>1. \/ controls' = controls
        \/ /\ controls[d].status = "draft"
           /\ controls' = [controls EXCEPT ![d].content = body, ![d].signature = Resigned(req[r], body)]
    BY <1>5 DEF FinishUpdate, StillDraft
  <2> HIDE DEF d
  <2>2. CASE controls' = controls
    BY <2>2 DEF Frozen
  <2>3. CASE controls' # controls /\ c = d
    <3>1. controls[c].status = "draft" /\ controls[c] \in ControlRow
      BY <1>1, <2>1, <2>3
    <3>2. controls'[c] = [controls[c] EXCEPT !.content = body, !.signature = Resigned(req[r], body)]
      BY <1>1, <2>1, <2>3
    <3>3. controls'[c].status = "draft" /\ controls'[c].content = body
      BY <3>1, <3>2 DEF ControlRow
    <3>4. QED
      BY <3>1, <3>3 DEF Frozen
  <2>4. CASE controls' # controls /\ c # d
    BY <1>1, <2>1, <2>4 DEF Frozen
  <2>5. QED
    BY <2>2, <2>3, <2>4
<1>6. ASSUME NEW r \in Requests, FinishRetire(r, cited) PROVE Shape
  <2>1. \/ controls' = controls
        \/ controls' = [controls EXCEPT ![req[r].item].status = "retired", ![req[r].item].retiredBy = req[r].user]
    BY <1>6 DEF FinishRetire
  <2> DEFINE d == req[r].item
  <2>2. CASE controls' = controls
    BY <2>2 DEF Frozen
  <2>3. CASE controls' # controls /\ c = d
    <3>1. d \in Controls /\ controls[d].status # "absent"
      BY <1>6 DEF FinishRetire, CtlIInv, InFlightProvenance
    <3> HIDE DEF d
    <3>2. controls[c] \in ControlRow
      BY <1>1
    <3>3. controls'[c] = [controls[c] EXCEPT !.status = "retired", !.retiredBy = req[r].user]
      BY <1>1, <2>1, <2>3 DEF d
    <3>4. /\ controls'[c].status = "retired" /\ controls'[c].content = controls[c].content
          /\ controls'[c].signature = controls[c].signature /\ controls'[c].by = controls[c].by
          /\ controls'[c].signedOffBy = controls[c].signedOffBy
      BY <3>2, <3>3 DEF ControlRow
    <3>5. QED
      BY <2>3, <3>1, <3>4 DEF Frozen
  <2>4. CASE controls' # controls /\ c # d
    BY <1>1, <2>1, <2>4 DEF Frozen
  <2>5. QED
    BY <2>2, <2>3, <2>4
<1>7. QED
  BY <1>2, <1>3, <1>4, <1>5, <1>6 DEF CtlStep, BeginUpdate, BeginRetire

(* After the AO's sign-off no step changes what was signed off. *)
THEOREM SignOffFinal == CtlSpec => SignedOffContentFixed
<1>1. CtlIInv /\ [CtlNext]_ctlVars => [\A c \in Controls : Frozen(c)]_ctlVars
  <2> SUFFICES ASSUME CtlIInv, CtlNext, NEW c \in Controls PROVE Frozen(c)
    OBVIOUS
  <2>1. QED
    BY ControlStepShape DEF CtlNext, Frozen
<1>2. QED
  BY <1>1, CtlInductive, PTL DEF CtlSpec, SignedOffContentFixed, Frozen

(* The registry implements the status life cycle that its table promises. *)
THEOREM ControlsImplementLifecycle == CtlSpec => ControlsFollowLifecycle
<1> DEFINE st == [c \in Controls |-> controls[c].status]
<1>1. CtlInit => CtlLifecycle!Init
  BY DEF CtlInit, NoControl, CtlLifecycle!Init
<1>2. CtlIInv /\ [CtlNext]_ctlVars => [CtlLifecycle!Move]_st
  <2> SUFFICES ASSUME CtlIInv, CtlNext,
                      NEW c \in Controls, controls'[c].status # controls[c].status
               PROVE  <<controls[c].status, controls'[c].status>> \in CtlEdges
    BY DEF CtlLifecycle!Move, ctlVars
  <2>1. controls \in [Controls -> ControlRow]
    BY DEF CtlIInv, CtlTypeOK
  <2>2. ASSUME NEW u \in Users, NEW d \in Controls, NEW body \in Contents, CreateControl(u, d, body)
        PROVE  controls[c].status = "absent" /\ controls'[c].status = "draft"
    <3>1. c = d
      BY <2>1, <2>2 DEF CreateControl
    <3>2. QED
      BY <2>1, <2>2, <3>1 DEF CreateControl, NoControl
  <2>3. ASSUME NEW u \in Users, NEW d \in Controls, Activate(u, d)
        PROVE  controls[c].status = "draft" /\ controls'[c].status = "active"
    <3>1. c = d
      BY <2>1, <2>3 DEF Activate, SignedOff
    <3>2. QED
      BY <2>1, <2>3, <3>1 DEF Activate, SignedOff, ControlRow
  <2>4. ASSUME NEW r \in Requests, NEW body \in Contents, FinishUpdate(r, body) PROVE FALSE
    BY <2>1, <2>4 DEF FinishUpdate, StillDraft, ControlRow
  <2>5. ASSUME NEW r \in Requests, NEW cited \in SUBSET Controls, FinishRetire(r, cited)
        PROVE  controls[c].status # "absent" /\ controls'[c].status = "retired"
    <3>1. controls' = [controls EXCEPT ![req[r].item].status = "retired", ![req[r].item].retiredBy = req[r].user]
      BY <2>5 DEF FinishRetire
    <3>2. c = req[r].item
      BY <2>1, <3>1
    <3>3. controls[c].status # "absent"
      BY <2>5, <3>2 DEF FinishRetire, CtlIInv, InFlightProvenance
    <3>4. QED
      BY <2>1, <3>1, <3>2, <3>3 DEF ControlRow
  <2>6. controls[c].status \in {"absent", "draft", "active", "retired"}
    BY <2>1 DEF ControlRow
  <2>7. QED
    BY <2>2, <2>3, <2>4, <2>5, <2>6 DEF CtlNext, CtlStep, BeginUpdate, BeginRetire, CtlEdges
<1>3. QED
  BY <1>1, <1>2, CtlInductive, PTL DEF CtlSpec, ControlsFollowLifecycle, CtlLifecycle!Spec

-----------------------------------------------------------------------------
(* A suspended revocation still names a stored acceptance. *)
RevocationNamesStored ==
  \A r \in Requests : req[r].op = "revoke" => /\ req[r].item \in Acceptances
                                              /\ accs[req[r].item].status # "absent"

(* Nobody has approved a row that is not stored or still waits: without it  *)
(* a second approval could replace the first. *)
UnapprovedIsClean == \A a \in Acceptances : accs[a].status \in {"absent", "pending"} => accs[a].approvedBy = Null

(* Every creator held the permission to create. *)
CreatorMay ==
  \A a \in Acceptances : accs[a].by # Null => accs[a].by \in Users /\ May(accs[a].by, "create:risk_acceptance")

(* Every approver held the permission to approve, and one who created the   *)
(* row held both. *)
ApproverMay ==
  \A a \in Acceptances : accs[a].approvedBy # Null =>
    accs[a].approvedBy \in Users /\ May(accs[a].approvedBy, "approve:risk_acceptance")

AccIInv == /\ AccTypeOK
           /\ RevocationNamesStored
           /\ UnapprovedIsClean
           /\ CreatorMay /\ ApproverMay
           /\ AcceptanceAuditNeverAhead

(* What each row may do in one step, with what the audit log may gain.      *)
(* Every action is an instance of it; it is what the proofs below use.      *)
Stays(a) == accs'[a] = accs[a]
SameTerms(a) == accs'[a].links = accs[a].links /\ accs'[a].exp = accs[a].exp
Created(a) == /\ accs[a].status = "absent" /\ accs'[a].status = "pending"
              /\ accs'[a].approvedBy = Null
              /\ accs'[a].by \in Users /\ May(accs'[a].by, "create:risk_acceptance")
ApprovedNow(a) == /\ accs[a].status = "pending" /\ accs'[a].status = "approved"
                  /\ accs'[a].by = accs[a].by /\ SameTerms(a)
                  /\ accs'[a].approvedBy \in Users /\ May(accs'[a].approvedBy, "approve:risk_acceptance")
Closes(a, to) == /\ accs'[a].status = to
                 /\ accs'[a].by = accs[a].by /\ SameTerms(a)
                 /\ accs'[a].approvedBy = accs[a].approvedBy
RowStep(a) == \/ Stays(a)
              \/ Created(a)
              \/ ApprovedNow(a)
              \/ accs[a].status \in Live /\ Closes(a, "expired")
              \/ accs[a].status # "absent" /\ Closes(a, "revoked")

AuditGain(a, field) ==
  Audited(a, field)' => \/ Audited(a, field)
                        \/ field = "approved" /\ accs'[a].approvedBy # Null
                        \/ field = "expired" /\ accs'[a].status \in Closed
                        \/ field = "revoked" /\ accs'[a].status = "revoked"
                        \/ field \notin {"approved", "expired", "revoked"}

StepShape == /\ AccTypeOK'
             /\ \A a \in Acceptances : RowStep(a)
             /\ \A a \in Acceptances, f \in Fields : AuditGain(a, f)
             /\ \A r \in Requests : \/ req'[r] = req[r]
                                    \/ req'[r] = Idle
                                    \/ req'[r].op = "revoke" => req'[r].item \in Acceptances
                                                                /\ accs'[req'[r].item].status # "absent"

(* It stays within the acceptances: no other item gains an audit row, no    *)
(* other kind of request is suspended. *)
StaysWithin == /\ \A i \in Items \ Acceptances, f \in Fields : Audited(i, f)' => Audited(i, f)
               /\ \A r \in Requests : req'[r] = req[r] \/ req'[r] = Idle \/ req'[r].op = "revoke"

(* A step of that shape preserves the invariant. *)
LEMMA ShapePreserves ==
  ASSUME AccIInv, StepShape
  PROVE  AccIInv'
<1> USE AcceptancesAssumption
<1>1. AccTypeOK'
  BY DEF StepShape
<1>2. accs \in [Acceptances -> AcceptanceRow]
  BY DEF AccIInv, AccTypeOK
<1>3. \A a \in Acceptances : RowStep(a)
  BY DEF StepShape
<1>4. UnapprovedIsClean'
  BY <1>2, <1>3 DEF AccIInv, UnapprovedIsClean, RowStep, Stays, Created, ApprovedNow, Closes
<1>5. CreatorMay'
  BY <1>2, <1>3 DEF AccIInv, CreatorMay, RowStep, Stays, Created, ApprovedNow, Closes, May
<1>6. ApproverMay'
  BY <1>2, <1>3 DEF AccIInv, ApproverMay, RowStep, Stays, Created, ApprovedNow, Closes, May
<1>7. AcceptanceAuditNeverAhead'
  <2>1. SUFFICES ASSUME NEW a \in Acceptances
                 PROVE  /\ Audited(a, "approved")' => accs'[a].approvedBy # Null
                        /\ Audited(a, "expired")' => accs'[a].status \in Closed
                        /\ Audited(a, "revoked")' => accs'[a].status = "revoked"
    BY DEF AcceptanceAuditNeverAhead
  <2>2. AuditGain(a, "approved") /\ AuditGain(a, "expired") /\ AuditGain(a, "revoked")
    BY DEF StepShape, Fields
  <2>3. RowStep(a)
    BY <1>3
  <2>4. /\ Audited(a, "approved") => accs[a].approvedBy # Null
        /\ Audited(a, "expired") => accs[a].status \in Closed
        /\ Audited(a, "revoked") => accs[a].status = "revoked"
        /\ accs[a].status \in {"absent", "pending"} => accs[a].approvedBy = Null
    BY DEF AccIInv, AcceptanceAuditNeverAhead, UnapprovedIsClean
  <2>5. accs[a].approvedBy # Null => accs'[a].approvedBy # Null
    BY <2>3, <2>4, UsersAssumption DEF RowStep, Stays, Created, ApprovedNow, Closes
  <2>6. accs[a].status \in Closed => accs'[a].status \in Closed
    BY <2>3 DEF RowStep, Stays, Created, ApprovedNow, Closes, Closed, Live
  <2>7. accs[a].status = "revoked" => accs'[a].status = "revoked"
    BY <2>3 DEF RowStep, Stays, Created, ApprovedNow, Closes, Live
  <2>8. QED
    BY <2>2, <2>4, <2>5, <2>6, <2>7 DEF AuditGain
<1>8. RevocationNamesStored'
  <2>1. SUFFICES ASSUME NEW r \in Requests, req'[r].op = "revoke"
                 PROVE  req'[r].item \in Acceptances /\ accs'[req'[r].item].status # "absent"
    BY DEF RevocationNamesStored
  <2>2. CASE req'[r] = req[r]
    <3>1. req[r].item \in Acceptances /\ accs[req[r].item].status # "absent"
      BY <2>1, <2>2 DEF AccIInv, RevocationNamesStored
    <3>2. RowStep(req[r].item)
      BY <1>3, <3>1
    <3>3. accs'[req[r].item].status # "absent"
      BY <3>1, <3>2 DEF RowStep, Stays, Created, ApprovedNow, Closes
    <3>4. QED
      BY <2>2, <3>1, <3>3
  <2>3. CASE req'[r] # req[r]
    <3>1. Idle.op # "revoke"
      BY DEF Idle
    <3>2. req'[r] # Idle
      BY <2>1, <3>1
    <3>3. QED
      BY <2>1, <2>3, <3>2 DEF StepShape
  <2>4. QED
    BY <2>2, <2>3
<1>9. QED
  BY <1>1, <1>4, <1>5, <1>6, <1>7, <1>8 DEF AccIInv

-----------------------------------------------------------------------------
(* A handler that changes one row and then audits it.  old, field and after *)
(* are what its AuditOrCrash is called with; row is the changed row.        *)
LEMMA OneRowShape ==
  ASSUME AccIInv, NEW a \in Acceptances, NEW row \in AcceptanceRow,
         NEW f \in Fields, NEW old \in Statuses \cup {Null},
         NEW after \in [Requests -> Request \cup {Idle}],
         \A r \in Requests : after[r] = req[r] \/ after[r] = Idle,
         accs' = [accs EXCEPT ![a] = row], now' = now,
         AuditOrCrash(a, f, old, after),
         RowStep(a),
         f = "approved" => row.approvedBy # Null,
         f = "expired" => row.status \in Closed,
         f = "revoked" => row.status = "revoked"
  PROVE  StepShape /\ StaysWithin
<1> USE AcceptancesAssumption
<1>1. /\ accs \in [Acceptances -> AcceptanceRow] /\ now \in 0..MaxTime
      /\ ServerTypeOK /\ a \in Items
  BY DEF AccIInv, AccTypeOK
<1>2. /\ ServerTypeOK'
      /\ \A r \in Requests : req'[r] = after[r] \/ req'[r] = Idle
      /\ \A j \in Items, g \in Fields : Audited(j, g)' => Audited(j, g) \/ (j = a /\ g = f)
  BY <1>1, AuditStep
<1>3. AccTypeOK'
  BY <1>1, <1>2 DEF AccTypeOK
<1>4. \A b \in Acceptances : RowStep(b)
  BY <1>1 DEF RowStep, Stays
<1>5. accs'[a] = row
  BY <1>1
<1>6. \A b \in Acceptances, g \in Fields : AuditGain(b, g)
  BY <1>2, <1>5 DEF AuditGain
<1>7. StaysWithin
  BY <1>2 DEF StaysWithin
<1>8. QED
  BY <1>2, <1>3, <1>4, <1>6, <1>7 DEF StepShape

(* POST / stores a waiting row of somebody who may create. *)
LEMMA CreateShape ==
  ASSUME AccIInv, NEW u \in Users, NEW a \in Acceptances, NEW deviation \in BOOLEAN,
         NEW listing \in Listing, NEW exp \in Expiration, Create(u, a, deviation, listing, exp)
  PROVE  StepShape /\ StaysWithin
<1> DEFINE row == [NoAcceptance EXCEPT !.status = "pending", !.by = u, !.exp = exp,
                                       !.links = Listed(listing), !.signed = listing]
<1>1. /\ row \in AcceptanceRow
      /\ row.status = "pending" /\ row.by = u /\ row.approvedBy = Null
  <2>1. Listed(listing) \in SUBSET Citable
    BY DEF Listed
  <2>2. QED
    BY <2>1 DEF AcceptanceRow, NoAcceptance, Live, Closed
<1>2. /\ accs[a].status = "absent" /\ May(u, "create:risk_acceptance")
      /\ accs' = [accs EXCEPT ![a] = row] /\ now' = now
      /\ AuditOrCrash(a, "created", Null, req)
  BY DEF Create
<1> HIDE DEF row
<1>3. accs \in [Acceptances -> AcceptanceRow] /\ req \in [Requests -> Request \cup {Idle}]
  BY DEF AccIInv, AccTypeOK, ServerTypeOK
<1>4. RowStep(a)
  BY <1>1, <1>2, <1>3 DEF RowStep, Created
<1>5. "created" \in Fields
  BY DEF Fields
<1>6. QED
  BY <1>1, <1>2, <1>3, <1>4, <1>5, OneRowShape

(* POST /:uuid/approve takes a waiting row only, and only from somebody who *)
(* may approve. *)
LEMMA ApproveShape ==
  ASSUME AccIInv, NEW u \in Users, NEW a \in Acceptances, Approve(u, a)
  PROVE  StepShape /\ StaysWithin
<1> DEFINE row == [accs[a] EXCEPT !.status = "approved", !.approvedBy = u]
<1>1. accs \in [Acceptances -> AcceptanceRow] /\ req \in [Requests -> Request \cup {Idle}]
  BY DEF AccIInv, AccTypeOK, ServerTypeOK
<1>2. /\ row \in AcceptanceRow
      /\ row.status = "approved" /\ row.by = accs[a].by /\ row.approvedBy = u
      /\ row.links = accs[a].links /\ row.exp = accs[a].exp
  BY <1>1 DEF AcceptanceRow, Live
<1>3. /\ accs[a].status = "pending" /\ May(u, "approve:risk_acceptance")
      /\ accs' = [accs EXCEPT ![a] = row] /\ now' = now
      /\ AuditOrCrash(a, "approved", "pending", req)
  BY <1>1 DEF Approve, Approved
<1> HIDE DEF row
<1>4. RowStep(a)
  BY <1>1, <1>2, <1>3 DEF RowStep, ApprovedNow, SameTerms
<1>5. "approved" \in Fields /\ "pending" \in Statuses /\ u # Null
  BY UsersAssumption DEF Fields, Statuses
<1>6. QED
  BY <1>1, <1>2, <1>3, <1>4, <1>5, OneRowShape

(* POST /:uuid/expire closes a live row. *)
LEMMA ExpireShape ==
  ASSUME AccIInv, NEW u \in Users, NEW a \in Acceptances, Expire(u, a)
  PROVE  StepShape /\ StaysWithin
<1> DEFINE row == [accs[a] EXCEPT !.status = "expired"]
<1>1. accs \in [Acceptances -> AcceptanceRow] /\ req \in [Requests -> Request \cup {Idle}]
  BY DEF AccIInv, AccTypeOK, ServerTypeOK
<1>2. /\ row \in AcceptanceRow
      /\ row.status = "expired" /\ row.by = accs[a].by /\ row.approvedBy = accs[a].approvedBy
      /\ row.links = accs[a].links /\ row.exp = accs[a].exp
  BY <1>1 DEF AcceptanceRow, Closed
<1>3. /\ accs[a].status \in Live
      /\ accs' = [accs EXCEPT ![a] = row] /\ now' = now
      /\ AuditOrCrash(a, "expired", accs[a].status, req)
  BY <1>1 DEF Expire
<1> HIDE DEF row
<1>4. RowStep(a)
  BY <1>1, <1>2, <1>3 DEF RowStep, Closes, SameTerms
<1>5. "expired" \in Fields /\ "expired" \in Closed /\ accs[a].status \in Statuses
  BY <1>3 DEF Fields, Statuses, Live, Closed
<1>6. QED
  BY <1>1, <1>2, <1>3, <1>4, <1>5, OneRowShape

(* The late half of a revocation closes a stored row, whatever happened to  *)
(* it meanwhile. *)
LEMMA RevokeShape ==
  ASSUME AccIInv, NEW r \in Requests, FinishRevoke(r)
  PROVE  StepShape /\ StaysWithin
<1> DEFINE a == req[r].item
           row == [accs[a] EXCEPT !.status = "revoked", !.revokedBy = req[r].user]
<1>1. accs \in [Acceptances -> AcceptanceRow] /\ req \in [Requests -> Request \cup {Idle}]
  BY DEF AccIInv, AccTypeOK, ServerTypeOK
<1>2. req[r].op = "revoke" /\ a \in Acceptances /\ accs[a].status # "absent"
  BY DEF FinishRevoke, AccIInv, RevocationNamesStored
<1>3. req[r].user \in Users /\ req[r].seen.status \in Statuses
  <2>1. Idle.op # "revoke"
    BY DEF Idle
  <2>2. req[r] \in Request
    BY <1>1, <1>2, <2>1
  <2>3. QED
    BY <2>2 DEF Request, Seen
<1>4. /\ row \in AcceptanceRow
      /\ row.status = "revoked" /\ row.by = accs[a].by /\ row.approvedBy = accs[a].approvedBy
      /\ row.links = accs[a].links /\ row.exp = accs[a].exp
  <2> HIDE DEF a
  <2>1. accs[a] \in AcceptanceRow
    BY <1>1, <1>2
  <2>2. QED
    BY <1>3, <2>1 DEF AcceptanceRow, Closed
<1>5. /\ accs' = [accs EXCEPT ![a] = row] /\ now' = now
      /\ AuditOrCrash(a, "revoked", req[r].seen.status, Answered(r))
  BY <1>1, <1>2 DEF FinishRevoke
<1>6. /\ Answered(r) \in [Requests -> Request \cup {Idle}]
      /\ \A q \in Requests : Answered(r)[q] = req[q] \/ Answered(r)[q] = Idle
  BY <1>1, AnsweredTyped DEF Answered, AccIInv, AccTypeOK
<1>7. "revoked" \in Fields
  BY DEF Fields
<1> HIDE DEF a, row
<1>8. RowStep(a)
  BY <1>1, <1>2, <1>4, <1>5 DEF RowStep, Closes, SameTerms
<1>9. QED
  BY <1>2, <1>3, <1>4, <1>5, <1>6, <1>7, <1>8, OneRowShape

(* The read half of a revocation adds one request, for a stored row. *)
LEMMA BeginRevokeShape ==
  ASSUME AccIInv, NEW r \in Requests, NEW u \in Users, NEW a \in Acceptances, BeginRevoke(r, u, a)
  PROVE  StepShape /\ StaysWithin
<1> USE AcceptancesAssumption
<1> DEFINE seen == [status |-> accs[a].status, by |-> accs[a].by]
<1>1. /\ accs \in [Acceptances -> AcceptanceRow] /\ now \in 0..MaxTime /\ ServerTypeOK
      /\ a \in Items
  BY DEF AccIInv, AccTypeOK
<1>2. accs[a].status \in Live /\ Suspend(r, "revoke", u, a, seen) /\ accs' = accs /\ now' = now
  BY DEF BeginRevoke
<1>3. seen \in Seen
  BY <1>1 DEF AcceptanceRow, Seen, Statuses, Live, Closed
<1>4. /\ ServerTypeOK' /\ audit' = audit
      /\ req' = [req EXCEPT ![r] = [op |-> "revoke", user |-> u, item |-> a, seen |-> seen]]
  <2> HIDE DEF seen
  <2>1. QED
    BY <1>1, <1>2, <1>3, SuspendStep
<1>5. accs'[a].status # "absent"
  BY <1>2 DEF Live
<1>6. \A q \in Requests : req'[q] = req[q] \/ (req'[q].item = a)
  BY <1>1, <1>4 DEF ServerTypeOK
<1>7. QED
  <2>1. StaysWithin
    <3>1. \A q \in Requests : req'[q] = req[q] \/ req'[q].op = "revoke"
      BY <1>1, <1>4 DEF ServerTypeOK
    <3>2. QED
      BY <1>4, <3>1 DEF StaysWithin, Audited
  <2>2. QED
    BY <1>1, <1>2, <1>4, <1>5, <1>6, <2>1 DEF StepShape, AccTypeOK, RowStep, Stays, AuditGain, Audited

(* The enforcer expires rows that are due, and audits no other.             *)
LEMMA SweepShape ==
  ASSUME AccIInv, NEW rows \in SUBSET Due, NEW audited \in SUBSET rows, ExpireRows(rows, audited),
         req' = req \/ req' = NoRequests, up' \in BOOLEAN
  PROVE  StepShape /\ StaysWithin
<1> USE AcceptancesAssumption
<1> DEFINE e == [field |-> "expired", old |-> "approved"]
<1>1. /\ accs \in [Acceptances -> AcceptanceRow] /\ now \in 0..MaxTime
      /\ req \in [Requests -> Request \cup {Idle}] /\ audit \in [Items -> Seq(Entry)]
  BY DEF AccIInv, AccTypeOK, ServerTypeOK
<1>2. \A a \in Acceptances : a \in rows => accs[a].status = "approved"
  BY DEF Due
<1>3. /\ now' = now
      /\ accs' = [a \in Acceptances |-> IF a \in rows THEN [accs[a] EXCEPT !.status = "expired"] ELSE accs[a]]
      /\ audit' = [i \in Items |-> IF i \in audited THEN Append(audit[i], e) ELSE audit[i]]
  BY DEF ExpireRows
<1>4. e \in Entry /\ e.field = "expired"
  BY DEF Entry, Fields, Statuses
<1>5. accs' \in [Acceptances -> AcceptanceRow]
  <2>1. \A a \in Acceptances : [accs[a] EXCEPT !.status = "expired"] \in AcceptanceRow
    BY <1>1 DEF AcceptanceRow, Closed
  <2>2. QED
    BY <1>1, <1>3, <2>1
<1> HIDE DEF e
<1>6. audit' \in [Items -> Seq(Entry)]
  <2>1. \A i \in Items : Append(audit[i], e) \in Seq(Entry)
    BY <1>1, <1>4
  <2>2. QED
    BY <1>1, <1>3, <2>1
<1>7. AccTypeOK'
  BY <1>1, <1>3, <1>5, <1>6 DEF AccTypeOK, ServerTypeOK, NoRequests
<1>8. \A a \in Acceptances : RowStep(a)
  <2>1. TAKE a \in Acceptances
  <2>2. CASE a \in rows
    <3>1. accs'[a] = [accs[a] EXCEPT !.status = "expired"]
      BY <1>3, <2>2
    <3>2. accs[a] \in AcceptanceRow
      BY <1>1
    <3>3. Closes(a, "expired")
      BY <3>1, <3>2 DEF Closes, SameTerms, AcceptanceRow
    <3>4. QED
      BY <1>2, <2>2, <3>3 DEF RowStep, Live
  <2>3. CASE a \notin rows
    BY <1>3, <2>3 DEF RowStep, Stays
  <2>4. QED
    BY <2>2, <2>3
<1>9. \A a \in Acceptances, f \in Fields : AuditGain(a, f)
  <2>1. SUFFICES ASSUME NEW a \in Acceptances, NEW f \in Fields, Audited(a, f)', ~Audited(a, f)
                 PROVE  f = "expired" /\ accs'[a].status \in Closed
    BY DEF AuditGain
  <2>2. PICK n \in 1..Len(audit'[a]) : audit'[a][n].field = f
    BY <2>1 DEF Audited
  <2>3. a \in Items /\ audit[a] \in Seq(Entry)
    BY <1>1
  <2>4. a \in audited
    <3>1. SUFFICES ASSUME a \notin audited PROVE FALSE
      OBVIOUS
    <3>2. audit'[a] = audit[a]
      BY <1>3, <2>3, <3>1
    <3>3. QED
      BY <2>1, <2>2, <3>2 DEF Audited
  <2>5. audit'[a] = Append(audit[a], e)
    BY <1>3, <2>3, <2>4
  <2>6. audit'[a][n] = e
    <3>1. SUFFICES ASSUME audit'[a][n] # e PROVE FALSE
      OBVIOUS
    <3>2. n \in 1..Len(audit[a]) /\ audit'[a][n] = audit[a][n]
      BY <1>4, <2>2, <2>3, <2>5, <3>1, AppendedEntry
    <3>3. QED
      BY <2>1, <2>2, <3>2 DEF Audited
  <2>7. f = "expired"
    BY <1>4, <2>2, <2>6
  <2>8. accs'[a].status = "expired"
    <3>1. accs'[a] = [accs[a] EXCEPT !.status = "expired"]
      BY <1>3, <2>4
    <3>2. accs[a] \in AcceptanceRow
      BY <1>1
    <3>3. QED
      BY <3>1, <3>2 DEF AcceptanceRow
  <2>9. QED
    BY <2>7, <2>8 DEF Closed
<1>10. \A r \in Requests : req'[r] = req[r] \/ req'[r] = Idle
  BY <1>1 DEF NoRequests
<1>11. \A i \in Items \ Acceptances : audit'[i] = audit[i]
  BY <1>3 DEF Due
<1>12. QED
  BY <1>7, <1>8, <1>9, <1>10, <1>11 DEF StepShape, StaysWithin, Audited

(* Steps that touch neither rows nor the audit log. *)
LEMMA QuietShape ==
  ASSUME AccIInv, accs' = accs, audit' = audit, now' \in 0..MaxTime, ServerTypeOK',
         \A r \in Requests : req'[r] = req[r] \/ req'[r] = Idle
  PROVE  StepShape /\ StaysWithin
BY DEF AccIInv, AccTypeOK, StepShape, StaysWithin, RowStep, Stays, AuditGain, Audited

(* Every step of the workflow has the shape. *)
LEMMA NextShape ==
  ASSUME AccIInv, AccNext
  PROVE  StepShape /\ StaysWithin
<1> USE AcceptancesAssumption
<1>1. AccTypeOK /\ ServerTypeOK /\ now \in 0..MaxTime /\ up \in BOOLEAN
  BY DEF AccIInv, AccTypeOK, ServerTypeOK
<1>2. CASE AccRequest
  BY <1>2, CreateShape, ApproveShape, ExpireShape, BeginRevokeShape, RevokeShape DEF AccRequest
<1>3. CASE AccProcess
  <2>1. CASE Sweep
    BY <1>1, <2>1, SweepShape DEF Sweep
  <2>2. CASE Boot
    BY <1>1, <2>2, SweepShape DEF Boot
  <2>3. CASE SweepCrash
    BY <1>1, <2>3, SweepShape DEF SweepCrash
  <2>4. QED
    BY <1>3, <2>1, <2>2, <2>3 DEF AccProcess
<1>4. CASE Tick
  <2>1. now' \in 0..MaxTime
    BY <1>1, <1>4 DEF Tick
  <2>2. accs' = accs /\ audit' = audit /\ req' = req /\ ServerTypeOK'
    BY <1>1, <1>4 DEF Tick, ServerTypeOK
  <2>3. QED
    BY <2>1, <2>2, QuietShape
<1>5. CASE UNCHANGED <<accs, now>> /\ (Crash \/ \E r \in Requests : RejectBody(r))
  BY <1>1, <1>5, ServerStep, QuietShape
<1>6. QED
  BY <1>2, <1>3, <1>4, <1>5 DEF AccNext

(* The empty workflow satisfies the invariant. *)
LEMMA AccInitial ==
  ASSUME AccInit
  PROVE  AccIInv
<1>1. ServerTypeOK
  BY DEF AccInit, ServerInit, ServerTypeOK, NoRequests
<1>2. NoAcceptance \in AcceptanceRow
  <2>1. 0 \in 0..(MaxTime + MaxDays) /\ 0 \in 0..MaxRepeat
    BY AcceptancesAssumption
  <2>2. [c \in Citable |-> 0] \in Listing /\ [at |-> 0, form |-> "iso"] \in Expiration
    BY <2>1 DEF Listing, Expiration
  <2>3. QED
    BY <2>2 DEF NoAcceptance, AcceptanceRow
<1>3. AccTypeOK
  <2>1. now \in 0..MaxTime
    BY AcceptancesAssumption DEF AccInit
  <2>2. QED
    BY <1>1, <1>2, <2>1 DEF AccInit, AccTypeOK
<1>4. RevocationNamesStored
  BY DEF AccInit, ServerInit, NoRequests, RevocationNamesStored, Idle
<1>5. UnapprovedIsClean /\ CreatorMay /\ ApproverMay
  BY DEF AccInit, NoAcceptance, UnapprovedIsClean, CreatorMay, ApproverMay
<1>6. AcceptanceAuditNeverAhead
  BY AcceptancesAssumption DEF AccInit, ServerInit, AcceptanceAuditNeverAhead, Audited
<1>7. QED
  BY <1>3, <1>4, <1>5, <1>6 DEF AccIInv

-----------------------------------------------------------------------------
(* The strengthening holds in every reachable state, whatever the requests  *)
(* in flight and wherever the process died. *)
THEOREM AccInductive == AccSpec => []AccIInv
<1>1. AccInit => AccIInv
  BY AccInitial
<1>2. AccIInv /\ [AccNext]_accVars => AccIInv'
  <2> SUFFICES ASSUME AccIInv, [AccNext]_accVars PROVE AccIInv'
    OBVIOUS
  <2>1. CASE AccNext
    BY <2>1, NextShape, ShapePreserves
  <2>2. CASE UNCHANGED accVars
    <3>1. StepShape
      BY <2>2, QuietShape DEF accVars, AccIInv, AccTypeOK, ServerTypeOK
    <3>2. QED
      BY <3>1, ShapePreserves
  <2>3. QED
    BY <2>1, <2>2
<1>3. QED
  BY <1>1, <1>2, PTL DEF AccSpec

(* Every row, suspended revocation and audit entry keeps its type. *)
THEOREM AccTypeCorrect == AccSpec => []AccTypeOK
<1>1. AccIInv => AccTypeOK
  BY DEF AccIInv
<1>2. QED
  BY <1>1, AccInductive, PTL

(* The audit log of the acceptances is never ahead of the rows. *)
THEOREM AcceptanceAuditSound == AccSpec => []AcceptanceAuditNeverAhead
<1>1. AccIInv => AcceptanceAuditNeverAhead
  BY DEF AccIInv
<1>2. QED
  BY <1>1, AccInductive, PTL

(* Nobody but an administrator approves a deviation of their own: the two   *)
(* permissions have no other holder in common. *)
THEOREM ApprovalIsASecondPersons == AccSpec => []SeparationOfDuties
<1>1. AccIInv => SeparationOfDuties
  <2> SUFFICES ASSUME AccIInv, NEW a \in Acceptances, accs[a].approvedBy # Null, accs[a].approvedBy = accs[a].by
               PROVE  Role[accs[a].by] = "admin"
    BY DEF SeparationOfDuties
  <2>1. May(accs[a].by, "create:risk_acceptance") /\ May(accs[a].by, "approve:risk_acceptance")
    BY DEF AccIInv, CreatorMay, ApproverMay
  <2>2. Role[accs[a].by] \in {"iso", "admin"} /\ Role[accs[a].by] \in {"ao", "admin"}
    BY <2>1 DEF May, HasPermission, Holders
  <2>3. QED
    BY <2>2
<1>2. QED
  BY <1>1, AccInductive, PTL

(* A closed acceptance never becomes live again and an approver is never    *)
(* replaced. *)
THEOREM ClosedStaysClosed == AccSpec => NoReactivation
<1> DEFINE Kept == \A a \in Acceptances :
             /\ accs[a].status \in Closed => accs'[a].status \in Closed
             /\ accs[a].approvedBy # Null => accs'[a].approvedBy = accs[a].approvedBy
<1>1. AccIInv /\ [AccNext]_accVars => [Kept]_accVars
  <2> SUFFICES ASSUME AccIInv, AccNext PROVE Kept
    OBVIOUS
  <2>1. \A a \in Acceptances : RowStep(a)
    BY NextShape DEF StepShape
  <2>2. \A a \in Acceptances : accs[a].status \in {"absent", "pending"} => accs[a].approvedBy = Null
    BY DEF AccIInv, UnapprovedIsClean
  <2>3. QED
    BY <2>1, <2>2 DEF RowStep, Stays, Created, ApprovedNow, Closes, Closed, Live
<1>2. QED
  BY <1>1, AccInductive, PTL DEF AccSpec, NoReactivation

(* The workflow implements the status life cycle that the table promises.   *)
THEOREM AcceptancesImplementLifecycle == AccSpec => AcceptancesFollowLifecycle
<1> DEFINE st == [a \in Acceptances |-> accs[a].status]
<1>1. AccInit => AccLifecycle!Init
  BY DEF AccInit, NoAcceptance, AccLifecycle!Init
<1>2. AccIInv /\ [AccNext]_accVars => [AccLifecycle!Move]_st
  <2> SUFFICES ASSUME AccIInv, [AccNext]_accVars, st' # st PROVE AccLifecycle!Move
    BY DEF AccLifecycle!Move
  <2>1. AccNext
    BY DEF accVars
  <2>2. \A a \in Acceptances : RowStep(a)
    BY <2>1, NextShape DEF StepShape
  <2>3. \A a \in Acceptances : accs[a].status \in {"absent"} \cup Live \cup Closed
    BY DEF AccIInv, AccTypeOK, AcceptanceRow
  <2>4. \A a \in Acceptances : accs'[a].status = accs[a].status \/ <<accs[a].status, accs'[a].status>> \in AccEdges
    BY <2>2, <2>3 DEF RowStep, Stays, Created, ApprovedNow, Closes, Closed, Live, AccEdges
  <2>5. QED
    BY <2>4 DEF AccLifecycle!Move
<1>3. QED
  BY <1>1, <1>2, AccInductive, PTL DEF AccSpec, AcceptancesFollowLifecycle, AccLifecycle!Spec

-----------------------------------------------------------------------------
(* The organisational risks.  A suspended edit or closure still names a     *)
(* stored risk, and the owner an edit falls back on is a user.              *)
InFlightRisks ==
  \A r \in Requests : req[r].op \in {"edit", "close"} =>
     /\ req[r].item \in Risks
     /\ risks[req[r].item].status # "absent"
     /\ req[r].seen.by \in Users

(* A stored risk is assessed and owned. *)
Assessed(row) == row.assessment \in Assessments /\ row.owner \in Users
StoredIsAssessed == \A i \in Risks : risks[i].status # "absent" => Assessed(risks[i])

(* What a file says of closed risks stands. *)
Stands(f) == \A i \in DOMAIN f : /\ risks[i].status # "absent"
                                 /\ f[i].status = "closed" => f[i] = Shown(risks[i])

RiskIInv == /\ RiskTypeOK
            /\ InFlightRisks
            /\ StoredIsAssessed
            /\ Stands(orgFile) /\ Stands(register)
            /\ RiskAuditNeverAhead

-----------------------------------------------------------------------------
(* What a request may do to a row: nothing, store it open, assess it again  *)
(* while it is open, or close it as it is. *)
RiskOpened(i)  == risks[i].status = "absent" /\ risks'[i].status = "open" /\ Assessed(risks'[i])
RiskEdited(i)  == risks[i].status = "open" /\ risks'[i].status = "open" /\ Assessed(risks'[i])
RiskClosed(i)  == /\ risks[i].status # "absent" /\ risks'[i].status = "closed"
                  /\ risks'[i].assessment = risks[i].assessment /\ risks'[i].owner = risks[i].owner
RiskRowStep(i) == risks'[i] = risks[i] \/ RiskOpened(i) \/ RiskEdited(i) \/ RiskClosed(i)

(* A step of a handler: such rows; no request that was not there or is not  *)
(* of a stored risk; no closure audited unless the row is closed. *)
RiskShape ==
  /\ risks' \in [Risks -> RiskRow] /\ ServerTypeOK'
  /\ \A i \in Risks : RiskRowStep(i)
  /\ \A r \in Requests : \/ req'[r] = req[r] \/ req'[r] = Idle
                         \/ /\ req'[r].item \in Risks /\ req'[r].seen.by \in Users
                            /\ risks[req'[r].item].status # "absent"
  /\ \A i \in Risks : Audited(i, "closed")' => Audited(i, "closed") \/ risks'[i].status = "closed"
  /\ UNCHANGED files

(* Rows that move so keep everything a file says of closed risks. *)
LEMMA StandsKept ==
  ASSUME NEW f, Stands(f), IsFile(f), \A i \in Risks : RiskRowStep(i)
  PROVE  \A i \in DOMAIN f : /\ risks'[i].status # "absent"
                             /\ f[i].status = "closed" => f[i] = Shown(risks'[i])
<1> SUFFICES ASSUME NEW i \in DOMAIN f
             PROVE  /\ risks'[i].status # "absent"
                    /\ f[i].status = "closed" => f[i] = Shown(risks'[i])
  OBVIOUS
<1>1. i \in Risks /\ RiskRowStep(i)
  BY DEF IsFile
<1>2. risks[i].status # "absent" /\ (f[i].status = "closed" => f[i] = Shown(risks[i]))
  BY DEF Stands
<1>3. risks'[i].status # "absent"
  BY <1>1, <1>2 DEF RiskRowStep, RiskEdited, RiskClosed, RiskOpened
<1>4. ASSUME f[i].status = "closed" PROVE f[i] = Shown(risks'[i])
  <2>1. risks[i].status = "closed"
    BY <1>2, <1>4 DEF Shown
  <2>2. Shown(risks'[i]) = Shown(risks[i])
    BY <1>1, <2>1 DEF RiskRowStep, RiskEdited, RiskClosed, RiskOpened, Shown
  <2>3. QED
    BY <1>2, <1>4, <2>2
<1>5. QED
  BY <1>3, <1>4

(* A step of that shape keeps the invariant. *)
LEMMA RiskShapePreserves ==
  ASSUME RiskIInv, RiskShape
  PROVE  RiskIInv'
<1>1. RiskTypeOK'
  BY DEF RiskIInv, RiskTypeOK, RiskShape, files, IsFile
<1>2. InFlightRisks'
  <2> SUFFICES ASSUME NEW r \in Requests, req'[r].op \in {"edit", "close"}
               PROVE  /\ req'[r].item \in Risks
                      /\ risks'[req'[r].item].status # "absent"
                      /\ req'[r].seen.by \in Users
    BY DEF InFlightRisks
  <2>1. req'[r] # Idle
    BY DEF Idle
  <2>2. req'[r].item \in Risks /\ req'[r].seen.by \in Users /\ risks[req'[r].item].status # "absent"
    BY <2>1 DEF RiskShape, RiskIInv, InFlightRisks
  <2>3. RiskRowStep(req'[r].item)
    BY <2>2 DEF RiskShape
  <2>4. QED
    BY <2>2, <2>3 DEF RiskRowStep, RiskOpened, RiskEdited, RiskClosed
<1>3. StoredIsAssessed'
  <2> SUFFICES ASSUME NEW i \in Risks, risks'[i].status # "absent" PROVE Assessed(risks'[i])
    BY DEF StoredIsAssessed, Assessed
  <2>1. RiskRowStep(i)
    BY DEF RiskShape
  <2>2. QED
    BY <2>1 DEF RiskRowStep, RiskOpened, RiskEdited, RiskClosed, RiskIInv, StoredIsAssessed, Assessed
<1>4. Stands(orgFile)' /\ Stands(register)'
  <2>1. \A i \in Risks : RiskRowStep(i)
    BY DEF RiskShape
  <2>2. IsFile(orgFile) /\ IsFile(register) /\ Stands(orgFile) /\ Stands(register)
    BY DEF RiskIInv, RiskTypeOK
  <2>3. orgFile' = orgFile /\ register' = register
    BY DEF RiskShape, files
  <2>4. Stands(orgFile)'
    BY <2>1, <2>2, <2>3, StandsKept DEF Stands, Shown
  <2>5. Stands(register)'
    BY <2>1, <2>2, <2>3, StandsKept DEF Stands, Shown
  <2>6. QED
    BY <2>4, <2>5
<1>5. RiskAuditNeverAhead'
  <2> SUFFICES ASSUME NEW i \in Risks, Audited(i, "closed")' PROVE risks'[i].status = "closed"
    BY DEF RiskAuditNeverAhead
  <2>1. CASE risks'[i].status = "closed"
    BY <2>1
  <2>2. CASE Audited(i, "closed")
    <3>1. risks[i].status = "closed" /\ RiskRowStep(i)
      BY <2>2 DEF RiskIInv, RiskAuditNeverAhead, RiskShape
    <3>2. QED
      BY <3>1 DEF RiskRowStep, RiskOpened, RiskEdited, RiskClosed
  <2>3. QED
    BY <2>1, <2>2 DEF RiskShape
<1>6. QED
  BY <1>1, <1>2, <1>3, <1>4, <1>5 DEF RiskIInv

(* Rows and the audit log of a handler that touches at most one row. *)
LEMMA OneRiskShape ==
  ASSUME RiskIInv, NEW i \in Risks, NEW row \in RiskRow, NEW f \in Fields, NEW old \in Statuses \cup {Null},
         NEW after \in [Requests -> Request \cup {Idle}],
         \A r \in Requests : after[r] = req[r] \/ after[r] = Idle,
         risks' = [risks EXCEPT ![i] = row], RiskRowStep(i),
         AuditOrCrash(i, f, old, after), f = "closed" => risks'[i].status = "closed", UNCHANGED files
  PROVE  RiskShape
<1> USE RisksAssumption
<1>1. /\ ServerTypeOK'
      /\ \A r \in Requests : req'[r] = after[r] \/ req'[r] = Idle
      /\ \A j \in Items, g \in Fields : Audited(j, g)' => Audited(j, g) \/ (j = i /\ g = f)
  <2>1. ServerTypeOK /\ i \in Items
    BY DEF RiskIInv, RiskTypeOK
  <2>2. QED
    BY <2>1, AuditStep
<1>2. risks' \in [Risks -> RiskRow] /\ \A j \in Risks : j # i => risks'[j] = risks[j]
  BY DEF RiskIInv, RiskTypeOK
<1>3. \A j \in Risks : RiskRowStep(j)
  BY <1>2 DEF RiskRowStep
<1>4. \A j \in Risks : Audited(j, "closed")' => Audited(j, "closed") \/ risks'[j].status = "closed"
  BY <1>1 DEF Fields
<1>5. \A r \in Requests : req'[r] = req[r] \/ req'[r] = Idle
  BY <1>1
<1>6. QED
  BY <1>1, <1>2, <1>3, <1>4, <1>5 DEF RiskShape

(* Nothing changes but requests that disappear. *)
LEMMA RiskQuietShape ==
  ASSUME RiskIInv, risks' = risks, audit' = audit, ServerTypeOK', UNCHANGED files,
         \A r \in Requests : req'[r] = req[r] \/ req'[r] = Idle
  PROVE  RiskShape
BY DEF RiskIInv, RiskTypeOK, RiskShape, RiskRowStep, Audited

(* A request in flight, and the row it is about. *)
LEMMA InFlightItem ==
  ASSUME RiskIInv, NEW r \in Requests, req[r].op \in {"edit", "close"}
  PROVE  /\ req[r].item \in Risks /\ req[r].user \in Users /\ req[r].seen.by \in Users
         /\ risks[req[r].item] \in RiskRow /\ risks[req[r].item].status # "absent"
         /\ Assessed(risks[req[r].item])
<1>1. req[r] \in Request
  BY DEF RiskIInv, RiskTypeOK, ServerTypeOK, Idle
<1>2. req[r].user \in Users
  BY <1>1 DEF Request
<1>3. req[r].item \in Risks /\ req[r].seen.by \in Users /\ risks[req[r].item].status # "absent"
  BY DEF RiskIInv, InFlightRisks
<1>4. QED
  BY <1>2, <1>3 DEF RiskIInv, RiskTypeOK, StoredIsAssessed

(* The new row is open, assessed, and owned by whom the body names or asks. *)
LEMMA CreateRiskShape ==
  ASSUME RiskIInv, NEW u \in Users, NEW i \in Risks, NEW assessment \in Assessments,
         NEW named \in Users \cup {Null}, CreateRisk(u, i, assessment, named)
  PROVE  RiskShape
<1> DEFINE row == [status |-> "open", assessment |-> assessment, owner |-> Owner(named, u), closedBy |-> Null]
<1>1. Owner(named, u) \in Users
  BY DEF Owner
<1>2. row \in RiskRow
  BY <1>1 DEF RiskRow
<1>3. risks' = [risks EXCEPT ![i] = row] /\ risks[i].status = "absent" /\ risks \in [Risks -> RiskRow]
  BY DEF CreateRisk, RiskIInv, RiskTypeOK
<1>4. RiskRowStep(i)
  <2>1. risks'[i] = row
    BY <1>3
  <2>2. QED
    BY <1>1, <1>3, <2>1 DEF RiskRowStep, RiskOpened, Assessed
<1>5. req \in [Requests -> Request \cup {Idle}]
  BY DEF RiskIInv, RiskTypeOK, ServerTypeOK
<1>6. "created" \in Fields /\ "created" # "closed"
  BY DEF Fields
<1>7. AuditOrCrash(i, "created", Null, req) /\ UNCHANGED files
  BY DEF CreateRisk
<1> HIDE DEF row
<1>8. QED
  BY <1>2, <1>3, <1>4, <1>5, <1>6, <1>7, OneRiskShape

(* A handler that suspends keeps the owner it read and names a stored row. *)
LEMMA BeginRiskShape ==
  ASSUME RiskIInv, NEW u \in Users, NEW i \in Risks, NEW r \in Requests, BeginEdit(r, u, i) \/ BeginClose(r, u, i)
  PROVE  RiskShape
<1> USE RisksAssumption
<1> DEFINE seen == [status |-> "open", by |-> risks[i].owner]
<1>1. risks[i].status = "open" /\ risks[i].owner \in Users
  BY DEF BeginEdit, BeginClose, RiskIInv, StoredIsAssessed, Assessed
<1>2. seen \in Seen /\ seen.by \in Users
  BY <1>1 DEF Seen, Statuses
<1>3. PICK op \in {"edit", "close"} : Suspend(r, op, u, i, seen)
  BY DEF BeginEdit, BeginClose
<1> HIDE DEF seen
<1>4. /\ ServerTypeOK' /\ audit' = audit
      /\ req' = [req EXCEPT ![r] = [op |-> op, user |-> u, item |-> i, seen |-> seen]]
  <2>1. ServerTypeOK /\ i \in Items /\ op \in {"update", "retire", "revoke", "edit", "close"}
    BY DEF RiskIInv, RiskTypeOK
  <2>2. QED
    BY <1>2, <1>3, <2>1, SuspendStep
<1>5. risks' = risks /\ UNCHANGED files
  BY DEF BeginEdit, BeginClose
<1>6. \A q \in Requests : \/ req'[q] = req[q]
                         \/ /\ req'[q].item \in Risks /\ req'[q].seen.by \in Users
                            /\ risks[req'[q].item].status # "absent"
  <2>1. req \in [Requests -> Request \cup {Idle}]
    BY DEF RiskIInv, RiskTypeOK, ServerTypeOK
  <2>2. QED
    BY <1>1, <1>2, <1>4, <2>1
<1>7. QED
  BY <1>4, <1>5, <1>6 DEF RiskIInv, RiskTypeOK, RiskShape, RiskRowStep, Audited

(* The late edit: the WHERE clause lets it through to an open row only. *)
LEMMA EditShape ==
  ASSUME RiskIInv, NEW r \in Requests, NEW assessment \in Assessments,
         NEW named \in Users \cup {Null}, FinishEdit(r, assessment, named)
  PROVE  RiskShape
<1> DEFINE i == req[r].item
           owner == Owner(named, req[r].seen.by)
           row == IF StillOpen(i) THEN [risks[i] EXCEPT !.assessment = assessment, !.owner = owner] ELSE risks[i]
<1>1. req[r].op = "edit"
  BY DEF FinishEdit
<1>2. i \in Risks /\ risks[i] \in RiskRow /\ req[r].seen.by \in Users
  BY <1>1, InFlightItem
<1>3. owner \in Users
  BY <1>2 DEF Owner
<1>4. row \in RiskRow
  BY <1>2, <1>3 DEF RiskRow
<1>5. risks \in [Risks -> RiskRow]
  BY DEF RiskIInv, RiskTypeOK
<1>6. risks' = [risks EXCEPT ![i] = row]
  BY <1>2, <1>5 DEF FinishEdit, RiskRow
<1>7. RiskRowStep(i)
  <2>1. risks'[i] = row
    BY <1>2, <1>5, <1>6
  <2>2. QED
    BY <1>2, <1>3, <2>1 DEF RiskRowStep, RiskEdited, Assessed, StillOpen, RiskRow
<1>8. /\ Answered(r) \in [Requests -> Request \cup {Idle}]
      /\ \A q \in Requests : Answered(r)[q] = req[q] \/ Answered(r)[q] = Idle
  BY AnsweredTyped DEF RiskIInv, RiskTypeOK, ServerTypeOK, Answered
<1>9. AuditOrCrash(i, "updated", Null, Answered(r)) /\ UNCHANGED files
  BY DEF FinishEdit
<1>10. "updated" \in Fields /\ "updated" # "closed"
  BY DEF Fields
<1> HIDE DEF i, owner, row
<1>11. QED
  BY <1>2, <1>4, <1>6, <1>7, <1>8, <1>9, <1>10, OneRiskShape

(* The late closure, of a risk that is open or was closed meanwhile. *)
LEMMA CloseShape ==
  ASSUME RiskIInv, NEW r \in Requests, FinishClose(r)
  PROVE  RiskShape
<1> DEFINE i == req[r].item
           row == [risks[i] EXCEPT !.status = "closed", !.closedBy = req[r].user]
<1>1. req[r].op = "close"
  BY DEF FinishClose
<1>2. i \in Risks /\ risks[i] \in RiskRow /\ req[r].user \in Users /\ risks[i].status # "absent"
  BY <1>1, InFlightItem
<1>3. row \in RiskRow
  BY <1>2 DEF RiskRow
<1>4. risks \in [Risks -> RiskRow]
  BY DEF RiskIInv, RiskTypeOK
<1>5. risks' = [risks EXCEPT ![i] = row]
  BY <1>2, <1>4 DEF FinishClose, Closing, RiskRow
<1>6. risks'[i] = row
  BY <1>2, <1>4, <1>5
<1>7. RiskRowStep(i) /\ risks'[i].status = "closed"
  BY <1>2, <1>6 DEF RiskRowStep, RiskClosed, RiskRow
<1>8. /\ Answered(r) \in [Requests -> Request \cup {Idle}]
      /\ \A q \in Requests : Answered(r)[q] = req[q] \/ Answered(r)[q] = Idle
  BY AnsweredTyped DEF RiskIInv, RiskTypeOK, ServerTypeOK, Answered
<1>9. AuditOrCrash(i, "closed", "open", Answered(r)) /\ UNCHANGED files
  BY DEF FinishClose
<1>10. "closed" \in Fields /\ "open" \in Statuses
  BY DEF Fields, Statuses
<1> HIDE DEF i, row
<1>11. QED
  BY <1>2, <1>3, <1>5, <1>7, <1>8, <1>9, <1>10, OneRiskShape

(* A file that is absent or torn says nothing. *)
LEMMA NoFileStands == IsFile(NoFile) /\ Stands(NoFile)
BY DEF NoFile, IsFile, Stands

(* What the tracker answers is typed and stands. *)
LEMMA PulledStands ==
  ASSUME RiskIInv, NEW page \in Pages, NEW f,
         f = [i \in page |-> Shown(risks[i])]
  PROVE  IsFile(f) /\ Stands(f)
<1>1. page \subseteq Stored /\ Stored \subseteq Risks
  BY DEF Pages, Stored
<1>2. ASSUME NEW i \in page
      PROVE  /\ f[i] = Shown(risks[i]) /\ risks[i].status # "absent"
             /\ f[i] \in ShownRow
  <2>1. i \in Risks /\ risks[i].status # "absent"
    BY <1>1 DEF Stored
  <2>2. risks[i].status \in {"open", "closed"} /\ Assessed(risks[i])
    BY <2>1 DEF RiskIInv, RiskTypeOK, RiskRow, StoredIsAssessed
  <2>3. QED
    BY <2>1, <2>2 DEF Shown, ShownRow, Assessed
<1>3. f \in [page -> ShownRow] /\ page \in SUBSET Risks
  BY <1>1, <1>2
<1>4. QED
  BY <1>2, <1>3 DEF IsFile, Stands

(* The collector changes files only, and both stand. *)
LEMMA CollectorPreserves ==
  ASSUME RiskIInv, PullRisks \/ EmitRegister \/ RunDies
  PROVE  RiskIInv' /\ risks' = risks
<1>1. UNCHANGED <<risks, req, audit, up>>
  BY DEF PullRisks, EmitRegister, RunDies
<1>2. /\ IsFile(orgFile) /\ IsFile(register) /\ Stands(orgFile) /\ Stands(register)
      /\ IsFile(NoFile) /\ Stands(NoFile) /\ pulled \in BOOLEAN
  BY NoFileStands DEF RiskIInv, RiskTypeOK
<1>3. /\ \/ orgFile' \in {orgFile, register, NoFile}
         \/ \E page \in Pages : orgFile' = [i \in page |-> Shown(risks[i])]
      /\ register' \in {orgFile, register, NoFile}
      /\ pulled' \in BOOLEAN
  BY DEF PullRisks, EmitRegister, RunDies
<1>4. PICK f, g : /\ f = orgFile' /\ g = register'
                  /\ IsFile(f) /\ Stands(f) /\ IsFile(g) /\ Stands(g)
  BY <1>2, <1>3, PulledStands
<1>5. IsFile(orgFile)' /\ IsFile(register)'
  BY <1>4 DEF IsFile
<1>6. Stands(orgFile)' /\ Stands(register)'
  BY <1>1, <1>4 DEF Stands
<1>7. RiskTypeOK'
  BY <1>1, <1>3, <1>5 DEF RiskIInv, RiskTypeOK, ServerTypeOK
<1>8. InFlightRisks' /\ StoredIsAssessed' /\ RiskAuditNeverAhead'
  BY <1>1 DEF RiskIInv, InFlightRisks, StoredIsAssessed, Assessed, RiskAuditNeverAhead, Audited
<1>9. QED
  BY <1>1, <1>6, <1>7, <1>8 DEF RiskIInv

(* A step of the tracker has the shape. *)
LEMMA RiskServerShape ==
  ASSUME RiskIInv, \/ RiskRequest
                   \/ UNCHANGED <<risks, files>> /\ (Crash \/ Restart \/ \E r \in Requests : RejectBody(r))
  PROVE  RiskShape
<1>1. CASE RiskRequest
  BY <1>1, CreateRiskShape, BeginRiskShape, EditShape, CloseShape DEF RiskRequest
<1>2. CASE UNCHANGED <<risks, files>> /\ (Crash \/ Restart \/ \E r \in Requests : RejectBody(r))
  BY <1>2, ServerStep, RiskQuietShape DEF RiskIInv, RiskTypeOK
<1>3. QED
  BY <1>1, <1>2

(* Every step keeps the invariant, and rows move only as a request moves them. *)
LEMMA RiskNextPreserves ==
  ASSUME RiskIInv, [RiskNext]_riskVars
  PROVE  RiskIInv' /\ \A i \in Risks : RiskRowStep(i)
<1>1. CASE PullRisks \/ EmitRegister \/ RunDies
  BY <1>1, CollectorPreserves DEF RiskRowStep
<1>2. CASE \/ RiskRequest
           \/ UNCHANGED <<risks, files>> /\ (Crash \/ Restart \/ \E r \in Requests : RejectBody(r))
  <2>1. RiskShape
    BY <1>2, RiskServerShape
  <2>2. QED
    BY <2>1, RiskShapePreserves DEF RiskShape
<1>3. CASE UNCHANGED riskVars
  <2>1. RiskShape
    BY <1>3, RiskQuietShape DEF riskVars, RiskIInv, RiskTypeOK, ServerTypeOK
  <2>2. QED
    BY <2>1, RiskShapePreserves DEF RiskShape
<1>4. QED
  BY <1>1, <1>2, <1>3 DEF RiskNext

(* The invariant holds in every reachable state, whatever edits and         *)
(* closures were in flight and however old the files are. *)
THEOREM RiskInductive == RiskSpec => []RiskIInv
<1>1. RiskInit => RiskIInv
  <2> SUFFICES ASSUME RiskInit PROVE RiskIInv
    OBVIOUS
  <2>1. ServerTypeOK
    BY DEF RiskInit, ServerInit, ServerTypeOK, NoRequests
  <2>2. NoRisk \in RiskRow
    BY DEF NoRisk, RiskRow
  <2>3. RiskTypeOK
    BY <2>1, <2>2, NoFileStands DEF RiskInit, RiskTypeOK
  <2>4. InFlightRisks /\ StoredIsAssessed
    BY DEF RiskInit, ServerInit, NoRequests, InFlightRisks, Idle, StoredIsAssessed, NoRisk
  <2>5. Stands(orgFile) /\ Stands(register)
    BY NoFileStands DEF RiskInit
  <2>6. RiskAuditNeverAhead
    BY RisksAssumption DEF RiskInit, ServerInit, RiskAuditNeverAhead, Audited
  <2>7. QED
    BY <2>3, <2>4, <2>5, <2>6 DEF RiskIInv
<1>2. RiskIInv /\ [RiskNext]_riskVars => RiskIInv'
  BY RiskNextPreserves
<1>3. QED
  BY <1>1, <1>2, PTL DEF RiskSpec

(* Rows, requests and both files keep their type. *)
THEOREM RiskTypeCorrect == RiskSpec => []RiskTypeOK
<1>1. RiskIInv => RiskTypeOK
  BY DEF RiskIInv
<1>2. QED
  BY <1>1, RiskInductive, PTL

(* No closure is audited that the row does not show. *)
THEOREM RiskAuditSound == RiskSpec => []RiskAuditNeverAhead
<1>1. RiskIInv => RiskAuditNeverAhead
  BY DEF RiskIInv
<1>2. QED
  BY <1>1, RiskInductive, PTL

(* Every entry traces to a row, and what it says of a closed risk stands.   *)
THEOREM RegisterStands == RiskSpec => []ClosedEntriesStand
<1>1. RiskIInv => ClosedEntriesStand
  BY DEF RiskIInv, Stands, ClosedEntriesStand
<1>2. QED
  BY <1>1, RiskInductive, PTL

(* No request in flight changes what a risk was closed with. *)
THEOREM ClosureFinal == RiskSpec => ClosedRiskFixed
<1> DEFINE Fixed == \A i \in Risks : risks[i].status = "closed" => Shown(risks'[i]) = Shown(risks[i])
<1>1. RiskIInv /\ [RiskNext]_riskVars => [Fixed]_riskVars
  <2> SUFFICES ASSUME RiskIInv, [RiskNext]_riskVars PROVE Fixed
    OBVIOUS
  <2>1. \A i \in Risks : RiskRowStep(i)
    BY RiskNextPreserves
  <2>2. QED
    BY <2>1 DEF RiskRowStep, RiskOpened, RiskEdited, RiskClosed, Shown
<1>2. QED
  BY <1>1, RiskInductive, PTL DEF RiskSpec, ClosedRiskFixed

(* The routes implement the life cycle that the table promises. *)
THEOREM RisksImplementLifecycle == RiskSpec => RisksFollowLifecycle
<1> DEFINE st == [i \in Risks |-> risks[i].status]
<1>1. RiskInit => RiskLifecycle!Init
  BY DEF RiskInit, NoRisk, RiskLifecycle!Init
<1>2. RiskIInv /\ [RiskNext]_riskVars => [RiskLifecycle!Move]_st
  <2> SUFFICES ASSUME RiskIInv, [RiskNext]_riskVars PROVE RiskLifecycle!Move
    OBVIOUS
  <2>1. \A i \in Risks : RiskRowStep(i) /\ risks[i].status \in {"absent", "open", "closed"}
    BY RiskNextPreserves DEF RiskIInv, RiskTypeOK, RiskRow
  <2>2. \A i \in Risks : risks'[i].status = risks[i].status \/ <<risks[i].status, risks'[i].status>> \in RiskEdges
    BY <2>1 DEF RiskRowStep, RiskOpened, RiskEdited, RiskClosed, RiskEdges
  <2>3. QED
    BY <2>2 DEF RiskLifecycle!Move
<1>3. QED
  BY <1>1, <1>2, RiskInductive, PTL DEF RiskSpec, RisksFollowLifecycle, RiskLifecycle!Spec
=============================================================================
