-------------------------- MODULE MCShipmentWebhooks --------------------------
(***************************************************************************)
(* A small instance of ShipmentWebhooks: an order is shipped and           *)
(* delivered, in webhooks that come in any order, before or after the      *)
(* courier's ids are stored on it.                                         *)
(***************************************************************************)
EXTENDS ShipmentWebhooks, TLC

CONSTANTS o1, e1, e2, w1, w2

MCAbout == [e \in Events |-> o1]
MCSays == [e \in Events |-> IF e = e1 THEN "Shipped" ELSE "Delivered"]
=============================================================================
