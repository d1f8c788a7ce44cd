-------------------------------- MODULE Rbac --------------------------------
(***************************************************************************)
(* The role table of tracker/server/rbac.ts, restricted to the permissions *)
(* the signed-workflow routes ask for: risk acceptances (B.B3), the        *)
(* compensating-controls registry (B.B4) and organisational risks (B.B5).  *)
(***************************************************************************)

Roles == {"viewer", "contributor", "ksi-owner", "auditor", "iso", "ao", "assessor", "admin"}

(* Who holds each permission: the columns of PERMISSIONS_BY_ROLE. *)
Holders(perm) ==
  CASE perm = "create:risk_acceptance"        -> {"iso", "admin"}
    [] perm = "approve:risk_acceptance"       -> {"ao", "admin"}
    [] perm = "revoke:risk_acceptance"        -> {"iso", "ao", "admin"}
    [] perm = "create:compensating_control"   -> {"iso", "admin"}
    [] perm = "activate:compensating_control" -> {"ao", "admin"}
    [] perm = "retire:compensating_control"   -> {"iso", "ao", "admin"}
    [] perm = "create:organisational_risk"    -> {"iso", "ao", "admin"}
    [] perm = "close:organisational_risk"     -> {"iso", "ao", "admin"}

HasPermission(role, perm) == role \in Holders(perm)
=============================================================================
