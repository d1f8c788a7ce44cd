---------------------------- MODULE TrackerServer ---------------------------
(***************************************************************************)
(* The process every route of tracker/server runs in.  Node executes one   *)
(* callback at a time and better-sqlite3 is synchronous, so a handler runs *)
(* without interruption between two awaits, and the only await of the      *)
(* workflow handlers is the one that reads the request body.  A handler    *)
(* that reads its row first is therefore two steps with other requests in  *)
(* between; req keeps what it read.  A handler that awaits its body before *)
(* it reads the database is one step.                                      *)
(*                                                                         *)
(* Row update and audit row are two autocommitted statements: the process  *)
(* can die between them, and dying loses every request in flight.          *)
(***************************************************************************)
EXTENDS Naturals, Sequences, Rbac

CONSTANTS
  Users,     \* signed-in users
  Role,      \* their role while the workflow runs
  Items,     \* uuids of the rows of the workflow tables
  Requests,  \* slots for requests suspended at the await of their body
  Null,      \* SQL NULL
  MaxAudit   \* bound: audit rows of one item after which no edit starts

ASSUME UsersAssumption == /\ Role \in [Users -> Roles]
                          /\ Null \notin Users
                          /\ MaxAudit \in Nat

VARIABLES
  req,    \* the suspended requests
  audit,  \* audit_log, per item, oldest first
  up      \* whether the process runs

serverVars == <<req, audit, up>>

Statuses == {"absent", "draft", "active", "retired", "pending", "approved", "expired", "revoked", "open", "closed"}

Fields == {"created", "updated", "activated", "retired", "approved", "revoked", "expired", "closed"}

(* The columns of the row a handler read before its await and uses after it. *)
Seen == [status : Statuses, by : Users \cup {Null}]

Request == [op : {"update", "retire", "revoke", "edit", "close"}, user : Users, item : Items, seen : Seen]
Idle == [op |-> "idle"]
NoRequests == [r \in Requests |-> Idle]

Entry == [field : Fields, old : Statuses \cup {Null}]

ServerTypeOK == /\ req \in [Requests -> Request \cup {Idle}]
                /\ audit \in [Items -> Seq(Entry)]
                /\ up \in BOOLEAN

ServerInit == /\ req = NoRequests
              /\ audit = [i \in Items |-> <<>>]
              /\ up = TRUE

(* requirePermission(); its mutant asks for a session only. *)
May_SignedIn(u, perm) == u \in Users
May(u, perm) == HasPermission(Role[u], perm)

(* A handler has read its row and awaits the body. *)
Suspend(r, op, u, i, seen) ==
  /\ up /\ req[r] = Idle
  /\ req' = [req EXCEPT ![r] = [op |-> op, user |-> u, item |-> i, seen |-> seen]]
  /\ UNCHANGED <<audit, up>>

Answered(r) == [req EXCEPT ![r] = Idle]

(* writeAudit() after the row update: the process may die between the two. *)
AuditOrCrash(i, field, old, after) ==
  \/ /\ audit' = [audit EXCEPT ![i] = Append(@, [field |-> field, old |-> old])]
     /\ req' = after
     /\ UNCHANGED up
  \/ /\ req' = NoRequests
     /\ up' = FALSE
     /\ UNCHANGED audit

(* A body that is not JSON, or fails validation: 400, nothing written. *)
RejectBody(r) ==
  /\ up /\ req[r] # Idle
  /\ req' = Answered(r)
  /\ UNCHANGED <<audit, up>>

Crash == /\ up
         /\ up' = FALSE
         /\ req' = NoRequests
         /\ UNCHANGED audit

Restart == /\ ~up
           /\ up' = TRUE
           /\ UNCHANGED <<req, audit>>

(* The fields of an item's audit rows. *)
Audited(i, field) == \E n \in 1..Len(audit[i]) : audit[i][n].field = field
=============================================================================
