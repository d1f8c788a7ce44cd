---------------------------- MODULE RiskAcceptance --------------------------
(***************************************************************************)
(* The signed risk-acceptance workflow: the routes of                      *)
(* tracker/server/routes/risk-acceptance.ts, the hourly enforcer of        *)
(* risk-acceptance-enforcer.ts.                                            *)
(*                                                                         *)
(* Time is counted in days.  expiration_date is stored as the operator     *)
(* wrote it: create parses it with Date.parse, the SQL compares it as      *)
(* text with an ISO instant.                                               *)
(***************************************************************************)
EXTENDS TrackerServer, FiniteSets

CONSTANTS
  Acceptances,  \* uuids of acceptances
  Citable,      \* the compensating-control uuids a request may list
  DateForms,    \* how the text of an expiration date compares with instants
  MinDays, MaxDays,
  MaxTime,      \* bound: the last day
  MaxRepeat     \* bound: how often one uuid is listed in a request

ASSUME AcceptancesAssumption == /\ Acceptances \subseteq Items
                                /\ DateForms \subseteq {"iso", "sortsLast", "sortsFirst"}
                                /\ MinDays \in Nat /\ MaxDays \in Nat /\ MaxTime \in Nat /\ MaxRepeat \in Nat
                                /\ MinDays > 0

VARIABLES accs, now

accVars == <<accs, now, req, audit, up>>

Live == {"pending", "approved"}
Closed == {"expired", "revoked"}

Expiration == [at : 0..(MaxTime + MaxDays), form : DateForms \cup {"iso"}]
Listing == [Citable -> 0..MaxRepeat]

(* links is the table of distinct uuids; signed is the sorted list that the *)
(* signature was made over, as the number of times it holds each uuid.      *)
AcceptanceRow ==
       [status     : {"absent"} \cup Live \cup Closed,
        by         : Users \cup {Null},
        exp        : Expiration,
        links      : SUBSET Citable,
        signed     : Listing,
        approvedBy : Users \cup {Null},
        revokedBy  : Users \cup {Null}]

NoAcceptance == [status |-> "absent", by |-> Null, exp |-> [at |-> 0, form |-> "iso"],
                 links |-> {}, signed |-> [c \in Citable |-> 0], approvedBy |-> Null, revokedBy |-> Null]

AccTypeOK == accs \in [Acceptances -> AcceptanceRow] /\ now \in 0..MaxTime /\ ServerTypeOK

AccInit == accs = [a \in Acceptances |-> NoAcceptance] /\ now = 0 /\ ServerInit

Listed(listing) == {c \in Citable : listing[c] > 0}

(* expiration_date < day, as SQLite compares text: ISO instants are in the   *)
(* order of time.  Of the dates in words that Date.parse accepts, "March 1,  *)
(* 2027" sorts after every instant and "1 March 2027" before every instant.  *)
SqlBefore(exp, day) == \/ exp.form = "sortsFirst"
                       \/ exp.form = "iso" /\ exp.at < day

-----------------------------------------------------------------------------
(* POST /: the body is awaited first.  A deviation request must list a      *)
(* control; whether it exists, or is listed twice, is not asked.  Row and   *)
(* links are one transaction.                                               *)
Create(u, a, deviation, listing, exp) ==
  /\ up /\ May(u, "create:risk_acceptance")
  /\ accs[a].status = "absent"
  /\ exp.at >= now + MinDays /\ exp.at <= now + MaxDays
  /\ deviation => Listed(listing) # {}
  /\ accs' = [accs EXCEPT ![a] = [NoAcceptance EXCEPT !.status = "pending", !.by = u,
                                                      !.exp = exp, !.links = Listed(listing), !.signed = listing]]
  /\ AuditOrCrash(a, "created", Null, req)
  /\ UNCHANGED now

Approved(u, a) == [accs EXCEPT ![a].status = "approved", ![a].approvedBy = u]

(* Mutants of Approve: only a row that is already approved is refused; the  *)
(* audit row is written before the update. *)
Approve_NotApproved(u, a) ==
  /\ up /\ May(u, "approve:risk_acceptance")
  /\ accs[a].status \notin {"absent", "approved"}
  /\ accs' = Approved(u, a)
  /\ AuditOrCrash(a, "approved", "pending", req)
  /\ UNCHANGED now
Approve_AuditFirst(u, a) ==
  /\ up /\ May(u, "approve:risk_acceptance")
  /\ accs[a].status = "pending"
  /\ audit' = [audit EXCEPT ![a] = Append(@, [field |-> "approved", old |-> "pending"])]
  /\ \/ accs' = Approved(u, a) /\ UNCHANGED <<req, up>>
     \/ UNCHANGED accs /\ req' = NoRequests /\ up' = FALSE
  /\ UNCHANGED now

(* POST /:uuid/approve reads no body: one step. *)
Approve(u, a) ==
  /\ up /\ May(u, "approve:risk_acceptance")
  /\ accs[a].status = "pending"
  /\ accs' = Approved(u, a)
  /\ AuditOrCrash(a, "approved", "pending", req)
  /\ UNCHANGED now

(* POST /:uuid/revoke up to the await. *)
BeginRevoke(r, u, a) ==
  /\ May(u, "revoke:risk_acceptance")
  /\ accs[a].status \in Live
  /\ Suspend(r, "revoke", u, a, [status |-> accs[a].status, by |-> accs[a].by])
  /\ UNCHANGED <<accs, now>>

(* POST /:uuid/revoke after the await: the UPDATE names the uuid only. *)
FinishRevoke(r) ==
  /\ up /\ req[r].op = "revoke"
  /\ LET a == req[r].item IN
       /\ accs' = [accs EXCEPT ![a].status = "revoked", ![a].revokedBy = req[r].user]
       /\ AuditOrCrash(a, "revoked", req[r].seen.status, Answered(r))
  /\ UNCHANGED now

(* POST /:uuid/expire: administrators, no body. *)
Expire(u, a) ==
  /\ up /\ Role[u] = "admin"
  /\ accs[a].status \in Live
  /\ accs' = [accs EXCEPT ![a].status = "expired"]
  /\ AuditOrCrash(a, "expired", accs[a].status, req)
  /\ UNCHANGED now

(* The enforcer's SELECT. *)
Due_Future == {a \in Acceptances : accs[a].status = "approved" /\ ~SqlBefore(accs[a].exp, now)}
Due == {a \in Acceptances : accs[a].status = "approved" /\ SqlBefore(accs[a].exp, now)}

ExpireRows(rows, audited) ==
  /\ accs' = [a \in Acceptances |-> IF a \in rows THEN [accs[a] EXCEPT !.status = "expired"] ELSE accs[a]]
  /\ audit' = [i \in Items |-> IF i \in audited
                                 THEN Append(audit[i], [field |-> "expired", old |-> "approved"])
                                 ELSE audit[i]]
  /\ UNCHANGED now

(* runOnce() on the hourly timer. *)
Sweep == /\ up /\ Due # {}
         /\ ExpireRows(Due, Due)
         /\ UNCHANGED <<req, up>>

(* Server start: the enforcer runs once before the first request. *)
Boot == /\ ~up
        /\ ExpireRows(Due, Due)
        /\ up' = TRUE
        /\ UNCHANGED req

(* The process dies inside runOnce(), on the timer or at start: some rows   *)
(* are done, and one may be expired but not yet audited. *)
SweepCrash == \E audited \in SUBSET Due : \E rows \in SUBSET Due :
                /\ audited \subseteq rows /\ Cardinality(rows \ audited) <= 1
                /\ rows # {}
                /\ ExpireRows(rows, audited)
                /\ req' = NoRequests
                /\ up' = FALSE

Tick == /\ now < MaxTime
        /\ now' = now + 1
        /\ UNCHANGED <<accs, req, audit, up>>

(* What requests do, and what the process does by itself. *)
AccRequest ==
  \/ \E u \in Users, a \in Acceptances :
       \/ \E deviation \in BOOLEAN, listing \in Listing, exp \in Expiration : Create(u, a, deviation, listing, exp)
       \/ Approve(u, a)
       \/ Expire(u, a)
       \/ \E r \in Requests : BeginRevoke(r, u, a)
  \/ \E r \in Requests : FinishRevoke(r)

AccProcess == Sweep \/ Boot \/ SweepCrash

AccNext == \/ AccRequest
           \/ AccProcess
           \/ Tick
           \/ UNCHANGED <<accs, now>> /\ (Crash \/ \E r \in Requests : RejectBody(r))

AccSpec == AccInit /\ [][AccNext]_accVars

(* The timer fires every hour while the process runs, and a supervisor      *)
(* restarts the process. *)
AccFairSpec == AccSpec /\ WF_accVars(Sweep) /\ WF_accVars(Boot)

-----------------------------------------------------------------------------
(* A closed acceptance never becomes live again, and the one approval of an *)
(* acceptance is by one person for good, whatever requests were in flight.  *)
NoReactivation ==
  [][\A a \in Acceptances : /\ accs[a].status \in Closed => accs'[a].status \in Closed
                            /\ accs[a].approvedBy # Null => accs'[a].approvedBy = accs[a].approvedBy]_accVars

(* The audit trail never claims an approval, an expiry or a revocation that *)
(* the row does not show, at whatever point the process dies.               *)
AcceptanceAuditNeverAhead ==
  \A a \in Acceptances : /\ Audited(a, "approved") => accs[a].approvedBy # Null
                         /\ Audited(a, "expired") => accs[a].status \in Closed
                         /\ Audited(a, "revoked") => accs[a].status = "revoked"

(* The AO's approval is a second person's unless an administrator acted.    *)
SeparationOfDuties ==
  \A a \in Acceptances : accs[a].approvedBy # Null /\ accs[a].approvedBy = accs[a].by => Role[accs[a].by] = "admin"

(* The status column moves only along the edges of the code; the last one   *)
(* is a revocation that was suspended while the acceptance expired.         *)
AccEdges == ({"absent"} \X {"pending"}) \cup ({"pending"} \X ({"approved"} \cup Closed))
              \cup ({"approved"} \X Closed) \cup {<<"expired", "revoked">>}
AccLifecycle == INSTANCE Lifecycle WITH Items <- Acceptances, Start <- "absent", Edges <- AccEdges,
                                        st <- [a \in Acceptances |-> accs[a].status]
AcceptancesFollowLifecycle == AccLifecycle!Spec

(* An approved acceptance with an ISO date that is past due does not stay   *)
(* approved, across crashes and restarts.                                   *)
PastDue(a) == accs[a].status = "approved" /\ accs[a].exp.form = "iso" /\ accs[a].exp.at < now
PastDueIsSwept == \A a \in Acceptances : PastDue(a) ~> ~PastDue(a)

(* GET /:uuid/verify: the payload is rebuilt from the stored links. *)
Rebuilt(a) == [c \in Citable |-> IF c \in accs[a].links THEN 1 ELSE 0]
=============================================================================
