--------------------------- MODULE TrackerAccounts --------------------------
(* Accounts of the tracker: the first sign-up, sign-in with and without a     *)
(* second factor, sessions, enrolment and its backup codes, roles.  As in     *)
(* TrackerServer a handler runs to its await; here too only the body is       *)
(* awaited, and what requireAuth found before is used after.  Sign-up and     *)
(* sign-in read their body before anything else and are one step.             *)
EXTENDS Rbac, Naturals, FiniteSets

CONSTANTS
  Users,      \* email addresses
  Sessions,   \* session tokens
  Requests,   \* slots for requests suspended at the await of their body
  Codes,      \* backup codes of one enrolment
  NewRoles,   \* the roles administrators ask for
  MaxSecrets  \* bound: enrolments of one account

ASSUME AccountsAssumption == NewRoles \subseteq Roles /\ MaxSecrets \in Nat

VARIABLES
  role,      \* users.role; "absent" while there is no row
  session,   \* the rows of sessions; "unused" before they are created, "gone" after
  secret,    \* the number of the enrolment whose secret and codes are stored, 0 if none
  issued,    \* how many enrolments the account has begun
  enrolled,  \* the accounts with totp_enrolled_at
  spent,     \* totp_backup_codes_used
  req,       \* the suspended requests
  redeemed   \* how often each backup code has been accepted
accountVars == <<role, session, secret, issued, enrolled, spent, req, redeemed>>

(* "full"; "preauth" while the second factor is awaited; "late" when its five *)
(* minutes are over.  A row past its fourteen days is refused by everything,  *)
(* as if it were deleted.                                                     *)
Stages == {"full", "preauth", "late"}
Unused == [stage |-> "unused"]
Gone == [stage |-> "gone"]
Stored == Roles \cup {"member", "absent"}

(* began: the session's stage when requireAuth let the request in. *)
Request == [op : {"role", "complete", "verify", "disable"}, user : Users, target : Users,
            sess : Sessions, began : Stages]
Idle == [op |-> "idle"]

Shown == Users \X (1..MaxSecrets) \X Codes

AccountsInit ==
  /\ role = [u \in Users |-> "absent"]
  /\ session = [s \in Sessions |-> Unused]
  /\ secret = [u \in Users |-> 0] /\ issued = [u \in Users |-> 0]
  /\ enrolled = {} /\ spent = [u \in Users |-> {}]
  /\ req = [r \in Requests |-> Idle]
  /\ redeemed = [k \in Shown |-> 0]
-----------------------------------------------------------------------------
Admins == {u \in Users : role[u] = "admin"}

(* Rows that lookupSession() finds. *)
Live == {s \in Sessions : session[s].stage \in Stages}

(* lookupSession() refuses what is past its deadline, and deletes it. *)
Found_Late(s) == s \in Live
Found(s) == s \in Live /\ session[s].stage \in {"full", "preauth"}
Full(s) == Found(s) /\ session[s].stage = "full"

Open(s, u, stage) ==
  /\ session[s] = Unused
  /\ session' = [session EXCEPT ![s] = [user |-> u, stage |-> stage]]

(* The first account is the administrator's; the others are made by one. *)
Signup(u, s) ==
  /\ role[u] = "absent"
  /\ \/ /\ \A v \in Users : role[v] = "absent"
        /\ role' = [role EXCEPT ![u] = "admin"]
        /\ Open(s, u, "full")
     \/ /\ Full(s) /\ role[session[s].user] = "admin"
        /\ role' = [role EXCEPT ![u] = "member"]
        /\ UNCHANGED session
  /\ UNCHANGED <<secret, issued, enrolled, spent, req, redeemed>>

Login(u, s) ==
  /\ role[u] # "absent"
  /\ Open(s, u, IF u \in enrolled THEN "preauth" ELSE "full")
  /\ UNCHANGED <<role, secret, issued, enrolled, spent, req, redeemed>>

Remove(s) ==
  /\ session' = [session EXCEPT ![s] = Gone]
  /\ UNCHANGED <<role, secret, issued, enrolled, spent, req, redeemed>>

Logout(s) == Found(s) /\ Remove(s)
Expired(s) == s \in Live /\ ~Found(s) /\ Remove(s)      \* any request with its token

(* Time passes the deadline of a second factor, or of a session. *)
Lapse(s) ==
  /\ s \in Live /\ session[s].stage = "preauth"
  /\ session' = [session EXCEPT ![s].stage = "late"]
  /\ UNCHANGED <<role, secret, issued, enrolled, spent, req, redeemed>>
Outlive(s) == s \in Live /\ Remove(s)
-----------------------------------------------------------------------------
(* requireAuth lets the request in; it awaits its body. *)
Suspend(r, op, s, target) ==
  /\ req[r] = Idle
  /\ req' = [req EXCEPT ![r] = [op |-> op, user |-> session[s].user, target |-> target,
                                sess |-> s, began |-> session[s].stage]]
  /\ UNCHANGED <<role, session, secret, issued, enrolled, spent, redeemed>>

AskRole(r, s, target) ==
  Full(s) /\ role[session[s].user] = "admin" /\ Suspend(r, "role", s, target)
AskFactor(r, op, s) == Full(s) /\ Suspend(r, op, s, session[s].user)
AskVerify(r, s) == Found(s) /\ Suspend(r, "verify", s, session[s].user)

(* The body comes, or does not: whatever the handler refuses. *)
Answered(r) == req' = [req EXCEPT ![r] = Idle]
Refuse(r) ==
  /\ req[r] # Idle /\ Answered(r)
  /\ UNCHANGED <<role, session, secret, issued, enrolled, spent, redeemed>>

LastAdmin_OffByOne(u) == Admins = {}
LastAdmin(u) == Admins = {u}

ChangeRole(r, new) ==
  LET u == req[r].target IN
  /\ req[r].op = "role"
  /\ new # "admin" /\ role[u] = "admin" => ~LastAdmin(u) /\ u # req[r].user
  /\ role' = IF role[u] = "absent" THEN role ELSE [role EXCEPT ![u] = new]
  /\ Answered(r)
  /\ UNCHANGED <<session, secret, issued, enrolled, spent, redeemed>>

(* A new secret and new codes; the account is not enrolled until a first code *)
(* has been verified.                                                         *)
Enroll_SameCodes(s) ==
  LET u == session[s].user IN
  /\ Full(s) /\ issued[u] < MaxSecrets
  /\ issued' = [issued EXCEPT ![u] = @ + 1]
  /\ secret' = [secret EXCEPT ![u] = 1]
  /\ enrolled' = enrolled \ {u}
  /\ spent' = [spent EXCEPT ![u] = {}]
  /\ UNCHANGED <<role, session, req, redeemed>>
Enroll(s) ==
  LET u == session[s].user IN
  /\ Full(s) /\ issued[u] < MaxSecrets
  /\ issued' = [issued EXCEPT ![u] = @ + 1]
  /\ secret' = [secret EXCEPT ![u] = issued[u] + 1]
  /\ enrolled' = enrolled \ {u}
  /\ spent' = [spent EXCEPT ![u] = {}]
  /\ UNCHANGED <<role, session, req, redeemed>>

(* A code of the stored secret. *)
Complete(r) ==
  LET u == req[r].user IN
  /\ req[r].op = "complete" /\ secret[u] > 0
  /\ enrolled' = enrolled \cup {u}
  /\ Answered(r)
  /\ UNCHANGED <<role, session, secret, issued, spent, redeemed>>

(* The password is right. *)
Disable(r) ==
  LET u == req[r].user IN
  /\ req[r].op = "disable"
  /\ secret' = [secret EXCEPT ![u] = 0]
  /\ enrolled' = enrolled \ {u}
  /\ spent' = [spent EXCEPT ![u] = {}]
  /\ Answered(r)
  /\ UNCHANGED <<role, session, issued, redeemed>>

(* elevateSession() clears preauth_until of whatever row has the token. *)
Elevated(s) ==
  IF s \in Live /\ session[s].stage \in {"preauth", "late"}
  THEN [session EXCEPT ![s].stage = "full"] ELSE session

VerifyTotp(r) ==
  /\ req[r].op = "verify" /\ req[r].user \in enrolled
  /\ session' = Elevated(req[r].sess)
  /\ Answered(r)
  /\ UNCHANGED <<role, secret, issued, enrolled, spent, redeemed>>

(* The codes of enrolment n, as the user wrote them down. *)
VerifyBackup(r, n, c) ==
  LET u == req[r].user IN
  /\ req[r].op = "verify" /\ u \in enrolled
  /\ n = secret[u] /\ c \notin spent[u]
  /\ spent' = [spent EXCEPT ![u] = @ \cup {c}]
  /\ redeemed' = [redeemed EXCEPT ![<<u, n, c>>] = @ + 1]
  /\ session' = Elevated(req[r].sess)
  /\ Answered(r)
  /\ UNCHANGED <<role, secret, issued, enrolled>>

(* The process dies and is started again: the requests are lost. *)
Restart ==
  /\ req' = [r \in Requests |-> Idle]
  /\ UNCHANGED <<role, session, secret, issued, enrolled, spent, redeemed>>
-----------------------------------------------------------------------------
SessionStep ==
  \E s \in Sessions :
    \/ \E u \in Users : Signup(u, s) \/ Login(u, s)
    \/ Logout(s) \/ Expired(s) \/ Lapse(s) \/ Outlive(s) \/ Enroll(s)

AskStep ==
  \E r \in Requests, s \in Sessions :
    \/ \E target \in Users : AskRole(r, s, target)
    \/ \E op \in {"complete", "disable"} : AskFactor(r, op, s)
    \/ AskVerify(r, s)

BodyStep ==
  \E r \in Requests :
    \/ Refuse(r) \/ Complete(r) \/ Disable(r) \/ VerifyTotp(r)
    \/ \E new \in NewRoles : ChangeRole(r, new)
    \/ \E n \in 1..MaxSecrets, c \in Codes : VerifyBackup(r, n, c)

AccountsNext == SessionStep \/ AskStep \/ BodyStep \/ Restart
AccountsSpec == AccountsInit /\ [][AccountsNext]_accountVars
-----------------------------------------------------------------------------
AccountsTypeOK ==
  /\ role \in [Users -> Stored]
  /\ session \in [Sessions -> [user : Users, stage : Stages] \cup {Unused, Gone}]
  /\ secret \in [Users -> 0..MaxSecrets] /\ issued \in [Users -> 0..MaxSecrets]
  /\ enrolled \subseteq Users /\ spent \in [Users -> SUBSET Codes]
  /\ req \in [Requests -> Request \cup {Idle}]
  /\ redeemed \in [Shown -> Nat]

(* Once there is an account there is an administrator, also when two          *)
(* administrators take each other's role away in requests that overlap        *)
(* (admin.ts: the count is taken after the body has been awaited).            *)
AdminRemains == (\E u \in Users : role[u] # "absent") => Admins # {}

(* A backup code is accepted once, whatever is enrolled again, disabled and   *)
(* verified in between (totp.ts: consumeBackupCode).                          *)
BackupCodeOnce == \A k \in Shown : redeemed[k] <= 1

(* A session past the five minutes for its second factor becomes a full one   *)
(* only by a request that was let in before they were over.                   *)
LateOnlyInFlight ==
  [][\A s \in Live : session[s].stage = "late" /\ Full(s)' =>
       \E r \in Requests : /\ req[r].op = "verify" /\ req[r].sess = s
                           /\ req[r].began = "preauth"]_accountVars
=============================================================================
