---------------------------- MODULE MCOrderStatus ----------------------------
(***************************************************************************)
(* A small instance of OrderStatus: two orders of one customer.            *)
(***************************************************************************)
EXTENDS OrderStatus

CONSTANTS o1, o2, w1, w2

\* Both orders redeem a point.
MCPoints == [o \in Orders |-> 1]
=============================================================================
