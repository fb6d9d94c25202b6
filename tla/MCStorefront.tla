------------------------------ MODULE MCStorefront ------------------------------
(***************************************************************************)
(* A small instance of Storefront: one customer with two requests under    *)
(* way, and two kinds of coupon.                                           *)
(***************************************************************************)
EXTENDS Storefront, TLC

CONSTANTS u1, w1, w2, MaxAsked

\* Larger than the subtotal of one unit; capped, and for two units only.
MCCoupons == {
  [type |-> "flat", value |-> 12000, min |-> 0, capped |-> FALSE, cap |-> 0],
  [type |-> "percentage", value |-> 15, min |-> 20000, capped |-> TRUE, cap |-> 2500]}

\* bound: pages opened and quotes asked for on them, together.
MCNext == Next /\ visits' + quotes' <= MaxAsked

MCSpec == Init /\ [][MCNext]_vars

MCSymmetry == Permutations(Workers)
=============================================================================
