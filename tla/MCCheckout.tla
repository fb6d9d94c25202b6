------------------------------ MODULE MCCheckout ------------------------------
(* Checkout for model checking: c1 pays online, c2 and c3 on delivery.     *)
EXTENDS Checkout, TLC

CONSTANTS c1, c2, c3, p1, p2

\* c1 and c2 want the last p1, c2 and c3 the last p2, c2 has p2 when p1 runs out;
\* the points are enough for c1 or for c3.
MCItems == c1 :> <<p1>> @@ c2 :> <<p2, p1>> @@ c3 :> <<p2>>
MCPoints == c1 :> 2 @@ c2 :> 0 @@ c3 :> 2
MCStock == p1 :> 1 @@ p2 :> 1

\* One online checkout.
MCOneItem == c1 :> <<p1>>
MCOnePoints == c1 :> 2
MCOneStock == p1 :> 1
=============================================================================
