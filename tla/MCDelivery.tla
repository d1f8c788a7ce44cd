----------------------------- MODULE MCDelivery -----------------------------
(* Two findings, the key of one a part of the key of the other (projects      *)
(* "app" and "app-dev").                                                      *)
EXTENDS Delivery

CONSTANTS app, appdev
MCInside == {<<app, appdev>>}
=============================================================================
