------------------------------ MODULE Lifecycle -----------------------------
(***************************************************************************)
(* What every workflow table of the tracker promises of its status column: *)
(* each item starts at Start and only ever moves along Edges.  Several     *)
(* items may move in one step, as in one sweep of the expiry enforcer.     *)
(* The route modules implement it with the edges their code has.           *)
(***************************************************************************)
CONSTANTS Items, Start, Edges

VARIABLE st

Init == st = [i \in Items |-> Start]

Move == /\ DOMAIN st' = Items
        /\ \A i \in Items : st'[i] = st[i] \/ <<st[i], st'[i]>> \in Edges

Spec == Init /\ [][Move]_st
=============================================================================
