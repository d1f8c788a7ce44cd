------------------------- MODULE CompensatingControls -----------------------
(***************************************************************************)
(* The signed compensating-controls registry,                              *)
(* tracker/server/routes/compensating-controls.ts: draft -> active ->      *)
(* retired, edits while draft, a record signature over the content and its *)
(* implementer, an AO sign-off on activation.                              *)
(*                                                                         *)
(* A body that passes validateBody() is a member of Contents.  The Ed25519 *)
(* signature is the payload it was made over, so verifying is comparing    *)
(* that payload with the one rebuilt from the stored row.  The activation  *)
(* signature covers uuid, approver and time: signedOffBy stands for it.    *)
(***************************************************************************)
EXTENDS TrackerServer

CONSTANTS Controls, Contents

ASSUME ControlsAssumption == Controls \subseteq Items /\ Null \notin Contents

VARIABLE controls

ctlVars == <<controls, req, audit, up>>

(* compensatingControlPayload(). *)
Payload(content, by) == [content |-> content, by |-> by]

ControlRow ==
       [status      : {"absent", "draft", "active", "retired"},
        content     : Contents \cup {Null},
        by          : Users \cup {Null},
        signature   : [content : Contents \cup {Null}, by : Users \cup {Null}],
        signedOffBy : Users \cup {Null},
        retiredBy   : Users \cup {Null}]

NoControl == [status |-> "absent", content |-> Null, by |-> Null,
              signature |-> Payload(Null, Null), signedOffBy |-> Null, retiredBy |-> Null]

CtlTypeOK == controls \in [Controls -> ControlRow] /\ ServerTypeOK

CtlInit == controls = [c \in Controls |-> NoControl] /\ ServerInit

-----------------------------------------------------------------------------
(* POST /: the body is awaited before anything is read, so this is one step. *)
CreateControl(u, c, body) ==
  /\ up /\ May(u, "create:compensating_control")
  /\ controls[c].status = "absent"
  /\ controls' = [controls EXCEPT ![c] = [NoControl EXCEPT !.status = "draft", !.content = body, !.by = u,
                                                           !.signature = Payload(body, u)]]
  /\ AuditOrCrash(c, "created", Null, req)

(* PUT /:uuid up to the await: only a draft is edited. *)
BeginUpdate(r, u, c) ==
  /\ May(u, "create:compensating_control")
  /\ controls[c].status = "draft"
  /\ Len(audit[c]) < MaxAudit
  /\ Suspend(r, "update", u, c, [status |-> controls[c].status, by |-> controls[c].by])
  /\ UNCHANGED controls

(* The UPDATE's own WHERE status = 'draft'. *)
StillDraft_NoWhere(c) == TRUE
StillDraft(c) == controls[c].status = "draft"

(* The re-signed payload keeps the implementer of the row that was read. *)
Resigned_ByEditor(q, body) == Payload(body, q.user)
Resigned(q, body) == Payload(body, q.seen.by)

(* PUT /:uuid after the await.  The audit row is written whether or not the *)
(* UPDATE matched a row. *)
FinishUpdate(r, body) ==
  /\ up /\ req[r].op = "update"
  /\ LET c == req[r].item IN
       /\ controls' = IF StillDraft(c)
                        THEN [controls EXCEPT ![c].content = body, ![c].signature = Resigned(req[r], body)]
                        ELSE controls
       /\ AuditOrCrash(c, "updated", "draft", Answered(r))

SignedOff(u, c) == [controls EXCEPT ![c].status = "active", ![c].signedOffBy = u]

(* Mutants of Activate: a retired control is activated again; the audit row  *)
(* is written first, so that a crash loses the update. *)
Activate_Retired(u, c) ==
  /\ up /\ May(u, "activate:compensating_control")
  /\ controls[c].status \in {"draft", "retired"}
  /\ controls' = SignedOff(u, c)
  /\ AuditOrCrash(c, "activated", "draft", req)
Activate_AuditFirst(u, c) ==
  /\ up /\ May(u, "activate:compensating_control")
  /\ controls[c].status = "draft"
  /\ audit' = [audit EXCEPT ![c] = Append(@, [field |-> "activated", old |-> "draft"])]
  /\ \/ controls' = SignedOff(u, c) /\ UNCHANGED <<req, up>>
     \/ UNCHANGED controls /\ req' = NoRequests /\ up' = FALSE

(* POST /:uuid/activate reads no body: one step, draft -> active. *)
Activate(u, c) ==
  /\ up /\ May(u, "activate:compensating_control")
  /\ controls[c].status = "draft"
  /\ controls' = SignedOff(u, c)
  /\ AuditOrCrash(c, "activated", "draft", req)

(* POST /:uuid/retire up to the await. *)
BeginRetire(r, u, c) ==
  /\ May(u, "retire:compensating_control")
  /\ controls[c].status \notin {"absent", "retired"}
  /\ Suspend(r, "retire", u, c, [status |-> controls[c].status, by |-> controls[c].by])
  /\ UNCHANGED controls

(* POST /:uuid/retire after the await.  cited: the controls that a pending  *)
(* or approved acceptance links to when the body has arrived (409).  The    *)
(* UPDATE names the uuid only; the audit row quotes the status read before. *)
FinishRetire(r, cited) ==
  /\ up /\ req[r].op = "retire"
  /\ LET c == req[r].item IN
       \/ /\ c \in cited
          /\ req' = Answered(r)
          /\ UNCHANGED <<controls, audit, up>>
       \/ /\ c \notin cited
          /\ controls' = [controls EXCEPT ![c].status = "retired", ![c].retiredBy = req[r].user]
          /\ AuditOrCrash(c, "retired", req[r].seen.status, Answered(r))

CtlStep(cited) ==
  \/ \E u \in Users, c \in Controls : \/ \E body \in Contents : CreateControl(u, c, body)
                                      \/ Activate(u, c)
                                      \/ \E r \in Requests : BeginUpdate(r, u, c) \/ BeginRetire(r, u, c)
  \/ \E r \in Requests : \/ \E body \in Contents : FinishUpdate(r, body)
                         \/ FinishRetire(r, cited)

(* On its own: the acceptances cite any set of controls at any time. *)
CtlNext == \/ \E cited \in SUBSET Controls : CtlStep(cited)
           \/ UNCHANGED controls /\ (Crash \/ Restart \/ \E r \in Requests : RejectBody(r))

CtlSpec == CtlInit /\ [][CtlNext]_ctlVars

-----------------------------------------------------------------------------
(* Whatever edits were in flight, GET /:uuid/verify says valid: the stored  *)
(* signature is over the stored content and the stored implementer.         *)
SignatureCoversContent ==
  \A c \in Controls : controls[c].signature = Payload(controls[c].content, controls[c].by)

(* What the AO signed off is final: once a control has left draft, no late  *)
(* PUT changes its content, its signature, its implementer or its approver. *)
SignedOffContentFixed ==
  [][\A c \in Controls : controls[c].status \in {"active", "retired"} =>
       /\ controls'[c].status \in {"active", "retired"}
       /\ controls'[c].content = controls[c].content
       /\ controls'[c].signature = controls[c].signature
       /\ controls'[c].by = controls[c].by
       /\ controls'[c].signedOffBy = controls[c].signedOffBy]_ctlVars

(* The audit trail never claims a transition that the row does not show, at *)
(* whatever point the process dies.                                         *)
ControlAuditNeverAhead ==
  \A c \in Controls : /\ Audited(c, "activated") => controls[c].signedOffBy # Null
                      /\ Audited(c, "retired") => controls[c].status = "retired"

(* The status column moves only along the edges of the code.  *)
CtlEdges == {<<"absent", "draft">>, <<"draft", "active">>, <<"draft", "retired">>, <<"active", "retired">>}
CtlLifecycle == INSTANCE Lifecycle WITH Items <- Controls, Start <- "absent", Edges <- CtlEdges,
                                        st <- [c \in Controls |-> controls[c].status]
ControlsFollowLifecycle == CtlLifecycle!Spec
=============================================================================
