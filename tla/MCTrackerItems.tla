--------------------------- MODULE MCTrackerItems ---------------------------
(* Two items, a member, an administrator and the collector's token.  A body   *)
(* names a user that does not exist, too.                                     *)
EXTENDS TrackerItems, TLC

CONSTANTS ann, zero, s1, s2

B(status, owner) == [status |-> status, owner_user_id |-> owner]
MCBodies == {B("met", Absent), B("not_started", Null), B(Absent, ann), B("met", zero)}
Symmetric == Permutations({s1, s2})
=============================================================================
