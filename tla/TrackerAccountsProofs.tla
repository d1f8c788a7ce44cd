----------------------- MODULE TrackerAccountsProofs ------------------------
(* Theorems of TrackerAccounts, for any accounts, tokens and requests. *)
EXTENDS TrackerAccounts, TLAPS

(* What a code was redeemed for: no enrolment that has not begun; and one of  *)
(* the stored enrolment is among the spent ones.                              *)
CodesTracked ==
  /\ \A u \in Users : secret[u] <= issued[u]
  /\ \A u \in Users, n \in 1..MaxSecrets, c \in Codes :
       /\ redeemed[<<u, n, c>>] <= 1
       /\ n > issued[u] => redeemed[<<u, n, c>>] = 0
       /\ n = secret[u] /\ redeemed[<<u, n, c>>] > 0 => c \in spent[u]

(* A verification was let in by a full session, which then stays one, or by   *)
(* one whose five minutes were not over.                                      *)
VerifiersTracked ==
  \A r \in Requests :
    req[r].op = "verify" => /\ req[r].began \in {"preauth", "full"}
                            /\ req[r].began = "full" =>
                                 session[req[r].sess].stage \in {"full", "gone"}

AccountsInv == AccountsTypeOK /\ AdminRemains /\ CodesTracked /\ VerifiersTracked

(* The steps of a session without its requests. *)
LEMMA SessionStepInv ==
  ASSUME AccountsInv, SessionStep
  PROVE  AccountsInv'
<1> USE AccountsAssumption DEF AccountsInv
<1>1. PICK s \in Sessions :
        \/ \E u \in Users : Signup(u, s) \/ Login(u, s)
        \/ Logout(s) \/ Expired(s) \/ Lapse(s) \/ Outlive(s) \/ Enroll(s)
  BY DEF SessionStep
<1>2. ASSUME NEW u \in Users, Signup(u, s) PROVE AccountsInv'
  <2>1. AccountsTypeOK'
    BY <1>2 DEF Signup, Open, AccountsTypeOK, Stages, Stored, Roles
  <2>2. AdminRemains'
    <3>1. CASE role' = [role EXCEPT ![u] = "admin"]
      BY <3>1 DEF AccountsTypeOK, AdminRemains, Admins
    <3>2. CASE Full(s) /\ role[session[s].user] = "admin" /\ role' = [role EXCEPT ![u] = "member"]
      <4> DEFINE v == session[s].user
      <4>1. v \in Users
        BY <3>2 DEF Full, Found, Live, AccountsTypeOK, Unused, Gone
      <4>2. role'[v] = "admin"
        BY <1>2, <3>2, <4>1 DEF Signup, AccountsTypeOK
      <4> QED BY <4>1, <4>2 DEF AdminRemains, Admins
    <3> QED BY <1>2, <3>1, <3>2 DEF Signup
  <2>3. CodesTracked'
    BY <1>2 DEF Signup, CodesTracked
  <2>4. VerifiersTracked'
    BY <1>2, <2>1 DEF Signup, Open, AccountsTypeOK, VerifiersTracked, Request, Idle, Unused
  <2> QED BY <2>1, <2>2, <2>3, <2>4
<1>3. ASSUME NEW u \in Users, Login(u, s) PROVE AccountsInv'
  <2>1. AccountsTypeOK'
    BY <1>3 DEF Login, Open, AccountsTypeOK, Stages
  <2>2. AdminRemains' /\ CodesTracked'
    BY <1>3 DEF Login, AdminRemains, Admins, CodesTracked
  <2>3. VerifiersTracked'
    BY <1>3, <2>1 DEF Login, Open, AccountsTypeOK, VerifiersTracked, Request, Idle, Unused
  <2> QED BY <2>1, <2>2, <2>3
<1>4. ASSUME Remove(s) PROVE AccountsInv'
  <2>1. AccountsTypeOK'
    BY <1>4 DEF Remove, AccountsTypeOK
  <2>2. AdminRemains' /\ CodesTracked'
    BY <1>4 DEF Remove, AdminRemains, Admins, CodesTracked
  <2>3. VerifiersTracked'
    BY <1>4, <2>1 DEF Remove, AccountsTypeOK, VerifiersTracked, Gone
  <2> QED BY <2>1, <2>2, <2>3
<1>5. ASSUME Lapse(s) PROVE AccountsInv'
  <2>1. AccountsTypeOK'
    BY <1>5 DEF Lapse, Live, AccountsTypeOK, Stages, Unused, Gone
  <2>2. AdminRemains' /\ CodesTracked'
    BY <1>5 DEF Lapse, AdminRemains, Admins, CodesTracked
  <2>3. VerifiersTracked'
    BY <1>5, <2>1 DEF Lapse, AccountsTypeOK, VerifiersTracked
  <2> QED BY <2>1, <2>2, <2>3
<1>6. ASSUME Enroll(s) PROVE AccountsInv'
  <2> DEFINE u == session[s].user
  <2>1. u \in Users
    BY <1>6 DEF Enroll, Full, Found, Live, AccountsTypeOK, Stages, Unused, Gone
  <2>2. issued[u] + 1 \in 1..MaxSecrets
    BY <1>6, <2>1 DEF Enroll, AccountsTypeOK
  <2>3. AccountsTypeOK'
    BY <1>6, <2>1, <2>2 DEF Enroll, AccountsTypeOK
  <2>4. AdminRemains' /\ VerifiersTracked'
    BY <1>6 DEF Enroll, AdminRemains, Admins, VerifiersTracked
  <2>5. CodesTracked'
    BY <1>6, <2>1, <2>2 DEF Enroll, AccountsTypeOK, CodesTracked
  <2> QED BY <2>3, <2>4, <2>5
<1> QED BY <1>1, <1>2, <1>3, <1>4, <1>5, <1>6 DEF Logout, Expired, Outlive

(* A request that is let in has a session of an account. *)
LEMMA AskStepInv ==
  ASSUME AccountsInv, AskStep
  PROVE  AccountsInv'
<1> USE DEF AccountsInv
<1>1. PICK r \in Requests, s \in Sessions, op \in {"role", "complete", "verify", "disable"},
           target \in Users :
        /\ Found(s)
        /\ Suspend(r, op, s, target)
  <2>1. \A s \in Sessions : Found(s) => session[s].user \in Users
    BY DEF Found, Live, AccountsTypeOK, Stages, Unused, Gone
  <2> QED BY <2>1 DEF AskStep, AskRole, AskFactor, AskVerify, Full
<1>2. session[s].user \in Users /\ session[s].stage \in {"full", "preauth"}
  BY <1>1 DEF Found, Live, AccountsTypeOK, Stages, Unused, Gone
<1>3. AccountsTypeOK'
  BY <1>1, <1>2 DEF Suspend, AccountsTypeOK, Request, Stages
<1>4. AdminRemains' /\ CodesTracked'
  BY <1>1 DEF Suspend, AdminRemains, Admins, CodesTracked
<1>5. VerifiersTracked'
  BY <1>1, <1>2, <1>3 DEF Suspend, AccountsTypeOK, VerifiersTracked
<1> QED BY <1>3, <1>4, <1>5

(* A request that has been answered leaves what is tracked of the others. *)
LEMMA AnsweredTracked ==
  ASSUME AccountsInv, NEW r \in Requests, Answered(r), UNCHANGED session
  PROVE  /\ req' \in [Requests -> Request \cup {Idle}]
         /\ VerifiersTracked'
BY DEF AccountsInv, AccountsTypeOK, VerifiersTracked, Answered, Idle

(* The last administrator keeps the role: who takes it from one is another    *)
(* account, and not the last.                                                 *)
LEMMA ChangeRoleInv ==
  ASSUME AccountsInv, NEW r \in Requests, NEW new \in NewRoles, ChangeRole(r, new)
  PROVE  AccountsInv'
<1> USE AccountsAssumption DEF AccountsInv
<1> DEFINE u == req[r].target
<1>1. u \in Users
  BY DEF ChangeRole, AccountsTypeOK, Request, Idle
<1>2. AccountsTypeOK' /\ VerifiersTracked'
  BY <1>1, AnsweredTracked DEF ChangeRole, AccountsTypeOK, Stored
<1>3. AdminRemains'
  <2>1. CASE role[u] = "absent"
    BY <2>1 DEF ChangeRole, AdminRemains, Admins
  <2>2. CASE role[u] # "absent" /\ new = "admin"
    BY <1>1, <2>2 DEF ChangeRole, AccountsTypeOK, AdminRemains, Admins
  <2>3. CASE role[u] # "absent" /\ new # "admin"
    <3>1. PICK v \in Users : v # u /\ role[v] = "admin"
      BY <1>1, <2>3 DEF ChangeRole, LastAdmin, AdminRemains, Admins
    <3>2. role'[v] = "admin"
      BY <1>1, <2>3, <3>1 DEF ChangeRole, AccountsTypeOK
    <3> QED BY <3>2 DEF AdminRemains, Admins
  <2> QED BY <2>1, <2>2, <2>3
<1>4. CodesTracked'
  BY DEF ChangeRole, CodesTracked
<1> QED BY <1>2, <1>3, <1>4

(* Elevation makes a session full, if it does anything. *)
LEMMA ElevatedSessions ==
  ASSUME AccountsInv, NEW s \in Sessions
  PROVE  /\ Elevated(s) \in [Sessions -> [user : Users, stage : Stages] \cup {Unused, Gone}]
         /\ \A t \in Sessions : session[t].stage \in {"full", "gone"}
                                  => Elevated(s)[t].stage \in {"full", "gone"}
BY DEF AccountsInv, AccountsTypeOK, Elevated, Live, Stages, Unused, Gone

LEMMA VerifyInv ==
  ASSUME AccountsInv, NEW r \in Requests,
         \/ VerifyTotp(r)
         \/ \E n \in 1..MaxSecrets, c \in Codes : VerifyBackup(r, n, c)
  PROVE  AccountsInv'
<1> USE AccountsAssumption DEF AccountsInv
<1>1. /\ req[r] \in Request /\ session' = Elevated(req[r].sess) /\ Answered(r)
      /\ UNCHANGED <<role, secret, issued, enrolled>>
  <2>1. req[r].op = "verify" /\ session' = Elevated(req[r].sess) /\ Answered(r)
        /\ UNCHANGED <<role, secret, issued, enrolled>>
    BY DEF VerifyTotp, VerifyBackup
  <2> QED BY <2>1 DEF AccountsTypeOK, Idle
<1>2. req[r].sess \in Sessions /\ req[r].user \in Users
  BY <1>1 DEF Request
<1>3. VerifiersTracked'
  BY <1>1, <1>2, ElevatedSessions DEF VerifiersTracked, Answered, AccountsTypeOK, Request, Idle
<1>4. AdminRemains'
  BY <1>1 DEF AdminRemains, Admins
<1>5. CASE VerifyTotp(r)
  <2>1. AccountsTypeOK'
    BY <1>1, <1>2, <1>5, ElevatedSessions DEF VerifyTotp, Answered, AccountsTypeOK
  <2>2. CodesTracked'
    BY <1>5 DEF VerifyTotp, CodesTracked
  <2> QED BY <1>3, <1>4, <2>1, <2>2
<1>6. ASSUME NEW n \in 1..MaxSecrets, NEW c \in Codes, VerifyBackup(r, n, c)
      PROVE  AccountsInv'
  <2> DEFINE u == req[r].user
  <2>1. <<u, n, c>> \in Shown
    BY <1>2 DEF Shown
  <2>2. AccountsTypeOK'
    BY <1>1, <1>2, <1>6, <2>1, ElevatedSessions DEF VerifyBackup, Answered, AccountsTypeOK
  <2>3. redeemed[<<u, n, c>>] = 0
    BY <1>2, <1>6, <2>1 DEF VerifyBackup, CodesTracked, AccountsTypeOK
  <2>4. CodesTracked'
    <3> SUFFICES ASSUME NEW v \in Users, NEW m \in 1..MaxSecrets, NEW d \in Codes
                 PROVE  /\ redeemed'[<<v, m, d>>] <= 1
                        /\ m > issued[v] => redeemed'[<<v, m, d>>] = 0
                        /\ m = secret[v] /\ redeemed'[<<v, m, d>>] > 0 => d \in spent'[v]
      BY <1>1 DEF CodesTracked
    <3>1. <<v, m, d>> \in Shown
      BY DEF Shown
    <3>2. n <= issued[u]
      BY <1>2, <1>6 DEF VerifyBackup, CodesTracked
    <3>3. CASE <<v, m, d>> = <<u, n, c>>
      BY <1>2, <1>6, <2>1, <2>3, <3>2, <3>3 DEF VerifyBackup, AccountsTypeOK
    <3>4. CASE <<v, m, d>> # <<u, n, c>>
      BY <1>2, <1>6, <2>1, <3>1, <3>4 DEF VerifyBackup, CodesTracked, AccountsTypeOK
    <3> QED BY <3>3, <3>4
  <2> QED BY <1>3, <1>4, <2>2, <2>4
<1> QED BY <1>5, <1>6

(* The other answers: a first code, the password, or a refusal. *)
LEMMA FactorInv ==
  ASSUME AccountsInv, NEW r \in Requests, Complete(r) \/ Disable(r) \/ Refuse(r)
  PROVE  AccountsInv'
<1> USE AccountsAssumption DEF AccountsInv
<1>1. VerifiersTracked' /\ req' \in [Requests -> Request \cup {Idle}]
  BY AnsweredTracked DEF Complete, Disable, Refuse
<1>2. AdminRemains'
  BY DEF Complete, Disable, Refuse, AdminRemains, Admins
<1>3. CASE Complete(r)
  <2>1. req[r].user \in Users
    BY <1>3 DEF Complete, AccountsTypeOK, Request, Idle
  <2> QED BY <1>1, <1>2, <1>3, <2>1 DEF Complete, AccountsTypeOK, CodesTracked
<1>4. CASE Disable(r)
  <2>1. req[r].user \in Users
    BY <1>4 DEF Disable, AccountsTypeOK, Request, Idle
  <2>2. AccountsTypeOK'
    BY <1>1, <1>4, <2>1 DEF Disable, AccountsTypeOK
  <2>3. CodesTracked'
    BY <1>4, <2>1 DEF Disable, AccountsTypeOK, CodesTracked
  <2> QED BY <1>1, <1>2, <2>2, <2>3
<1>5. CASE Refuse(r)
  BY <1>1, <1>2, <1>5 DEF Refuse, AccountsTypeOK, CodesTracked
<1> QED BY <1>3, <1>4, <1>5
-----------------------------------------------------------------------------
(* The inductive invariant: types, an administrator once there is an account, *)
(* what is known of the codes and of the verifications under way.             *)
THEOREM AccountsInductive == AccountsSpec => []AccountsInv
<1>1. AccountsInit => AccountsInv
  BY AccountsAssumption DEF AccountsInit, AccountsInv, AccountsTypeOK, AdminRemains, CodesTracked,
     VerifiersTracked, Stored, Shown, Idle
<1>2. AccountsInv /\ [AccountsNext]_accountVars => AccountsInv'
  <2> SUFFICES ASSUME AccountsInv, [AccountsNext]_accountVars PROVE AccountsInv'
    OBVIOUS
  <2>1. CASE SessionStep
    BY <2>1, SessionStepInv
  <2>2. CASE AskStep
    BY <2>2, AskStepInv
  <2>3. CASE BodyStep
    BY <2>3, ChangeRoleInv, VerifyInv, FactorInv DEF BodyStep
  <2>4. CASE Restart
    BY <2>4 DEF Restart, AccountsInv, AccountsTypeOK, AdminRemains, Admins, CodesTracked,
       VerifiersTracked, Idle
  <2>5. CASE UNCHANGED accountVars
    BY <2>5 DEF accountVars, AccountsInv, AccountsTypeOK, AdminRemains, Admins, CodesTracked,
       VerifiersTracked
  <2> QED BY <2>1, <2>2, <2>3, <2>4, <2>5 DEF AccountsNext
<1> QED BY <1>1, <1>2, PTL DEF AccountsSpec

(* Every account, session, enrolment and suspended request keeps its type.    *)
THEOREM AccountsTypeCorrect == AccountsSpec => []AccountsTypeOK
BY AccountsInductive, PTL DEF AccountsInv

(* The tracker is never without an administrator once it has an account,      *)
(* however many of them change each other's roles at the same time.           *)
THEOREM AnAdminRemains == AccountsSpec => []AdminRemains
BY AccountsInductive, PTL DEF AccountsInv

(* No backup code is accepted twice, over any number of enrolments, disabled  *)
(* second factors and verifications under way.                                *)
THEOREM CodesAreSingleUse == AccountsSpec => []BackupCodeOnce
<1>1. AccountsInv => BackupCodeOnce
  BY DEF AccountsInv, CodesTracked, BackupCodeOnce, Shown
<1> QED BY <1>1, AccountsInductive, PTL

(* A session whose five minutes are over is made full only by a verification  *)
(* that was let in before they were.                                          *)
THEOREM LateSessionsStayOut == AccountsSpec => LateOnlyInFlight
<1> DEFINE LateStep ==
      \A s \in Live : session[s].stage = "late" /\ Full(s)' =>
        \E r \in Requests : /\ req[r].op = "verify" /\ req[r].sess = s
                            /\ req[r].began = "preauth"
<1>1. ASSUME AccountsInv, [AccountsNext]_accountVars PROVE LateStep
  <2> SUFFICES ASSUME NEW s \in Sessions, session[s].stage = "late", session'[s].stage = "full"
               PROVE  \E r \in Requests : /\ req[r].op = "verify" /\ req[r].sess = s
                                          /\ req[r].began = "preauth"
    BY DEF Live, Full, Found
  <2>1. \A t \in Sessions : session' # [session EXCEPT ![t] = Gone]
    BY <1>1 DEF Gone, AccountsInv, AccountsTypeOK
  <2>2. \A t \in Sessions : ~Lapse(t)
    BY <1>1 DEF Lapse, AccountsInv, AccountsTypeOK
  <2>3. \A t \in Sessions, u \in Users, x \in Stages : ~Open(t, u, x)
    BY <1>1 DEF Open, Unused, AccountsInv, AccountsTypeOK
  <2>4. session' # session
    OBVIOUS
  <2>5. ~SessionStep
    BY <2>1, <2>2, <2>3, <2>4 DEF SessionStep, Signup, Login, Logout, Expired, Outlive, Remove,
       Enroll, Stages
  <2>6. PICK r \in Requests :
          \/ VerifyTotp(r)
          \/ \E n \in 1..MaxSecrets, c \in Codes : VerifyBackup(r, n, c)
    BY <1>1, <2>4, <2>5 DEF AccountsNext, accountVars, AskStep, AskRole, AskFactor, AskVerify,
       Suspend, BodyStep, Refuse, Complete, Disable, ChangeRole, Restart
  <2>7. req[r].op = "verify" /\ session' = Elevated(req[r].sess)
    BY <2>6 DEF VerifyTotp, VerifyBackup
  <2>8. req[r].sess = s
    BY <1>1, <2>7 DEF Elevated, AccountsInv, AccountsTypeOK
  <2>9. req[r].began = "preauth"
    BY <1>1, <2>7, <2>8 DEF AccountsInv, VerifiersTracked
  <2> QED BY <2>7, <2>8, <2>9
<1> QED BY <1>1, AccountsInductive, PTL DEF AccountsSpec, LateOnlyInFlight
=============================================================================
