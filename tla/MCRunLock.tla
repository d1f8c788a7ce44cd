------------------------------ MODULE MCRunLock -----------------------------
(* Two runs on one host and a third on another host with the same directory. *)
EXTENDS RunLock, TLC

CONSTANTS p1, p2, p3

TwoHosts == (p1 :> "alpha") @@ (p2 :> "alpha") @@ (p3 :> "beta")
=============================================================================
