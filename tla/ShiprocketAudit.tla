--------------------------- MODULE ShiprocketAudit ---------------------------
(***************************************************************************)
(* The pricing audit of one order that the courier has, too: what the      *)
(* order should cost there, what was sent, and what the courier answers    *)
(* when asked (server/services/shiprocketService.js).  The orders page of  *)
(* the admin has a copy of the verification for servers that lack its      *)
(* route (admin/src/pages/Orders.jsx).  Amounts are whole rupees.          *)
(***************************************************************************)
EXTENDS Integers, Sequences, FiniteSetsExt

CONSTANTS LocalOrders,  \* orders: [items, subtotal, discount, fee, amount]
          Payloads      \* what GET orders/show may answer, see Answers

VARIABLES
  order,      \* the order
  tracked,    \* it is synced, with the courier's order id
  stored,     \* shiprocket.pricingSnapshot: what was sent
  live,       \* shiprocket.livePricingSnapshot
  liveStatus  \* shiprocket.livePricingVerificationStatus

vars == <<order, tracked, stored, live, liveStatus>>

Null == -1      \* a field that is missing

AtLeast0(n) == IF n < 0 THEN 0 ELSE n

\* pickFirstFiniteCurrency of a number and 0.
OrZero(n) == IF n = Null THEN 0 ELSE n

\* normalizeShiprocketPricingSnapshot, the four amounts that are compared.
Snapshot(subTotal, discount, shipping, final) ==
  [subTotal |-> AtLeast0(subTotal), totalDiscount |-> AtLeast0(discount),
   shippingCharges |-> AtLeast0(shipping), derivedFinalAmount |-> AtLeast0(final)]
NoSnapshot == [subTotal |-> Null, totalDiscount |-> Null, shippingCharges |-> Null,
               derivedFinalAmount |-> Null]

-----------------------------------------------------------------------------
(* What the order should be there.                                         *)

\* resolveShiprocketPricingContext: the subtotal before the discount, from the order, its
\* items, or what was paid.
SubTotal(o) == IF o.subtotal > 0 THEN o.subtotal
               ELSE IF o.items > 0 THEN o.items
               ELSE AtLeast0(o.amount + o.discount - o.fee)
Breakdown(o) == AtLeast0(SubTotal(o) - o.discount + o.fee)

\* buildShiprocketPricingSnapshot.
Expected(o) == Snapshot(SubTotal(o), o.discount, o.fee, Breakdown(o))

\* mapLocalOrderToShiprocketPayload: the amounts of the payload; the gift wrap and transaction
\* charges are 0.
Sent(o) == [subTotal |-> SubTotal(o), discount |-> o.discount, shipping |-> o.fee, charges |-> 0]

\* As an earlier version of the code sent it: the discount is subtracted twice.
OldExpected(o) == Snapshot(o.amount - o.fee, o.discount, o.fee, o.amount - o.discount)

\* compareShiprocketPricingSnapshots.
Differ(s, t) == s # NoSnapshot /\ t # NoSnapshot /\ s # t

-----------------------------------------------------------------------------
(* What the courier answers.                                               *)

Amount == Nat \cup {Null}

\* A product of the order: its total, its price and number, its discount.
Product == [total : Amount, price : Amount, units : Nat, discount : Amount]

\* The answer: empty, or with some of its many fields for the same thing.
Answers == [given : BOOLEAN, products : Seq(Product), shipping : Amount, charges : Amount,
            discount : Amount, subTotal : Amount, grandTotal : Amount, total : Amount]

\* calculateShiprocketProductSubtotal, calculateShiprocketProductDiscount.
LineTotal(p) == IF p.total # Null THEN p.total ELSE OrZero(p.price) * p.units
LineDiscount(p) == OrZero(p.discount) * (IF p.units > 1 THEN p.units ELSE 1)
ProductSubtotal(products) ==
  SumFunctionOnSet([i \in DOMAIN products |-> LineTotal(products[i])], DOMAIN products)
ProductDiscount(products) ==
  SumFunctionOnSet([i \in DOMAIN products |-> LineDiscount(products[i])], DOMAIN products)

\* Nothing is negative, and a discount takes off no more than the subtotal
\* (checkoutPricingService.js caps it); the courier's amounts are read as numbers or missing.
Amounts ==
  /\ LocalOrders \subseteq {o \in [items : Nat, subtotal : Nat, discount : Nat, fee : Nat,
                                    amount : Nat] : o.discount <= SubTotal(o)}
  /\ Payloads \subseteq Answers

\* The subtotal of the answer: given, or of the products, or from the totals.
LiveSubTotal(a, added) ==
  CASE a.subTotal # Null -> a.subTotal
    [] a.subTotal = Null /\ ProductSubtotal(a.products) > 0 -> ProductSubtotal(a.products)
    [] OTHER -> IF a.total # Null /\ a.total # a.grandTotal THEN a.total
                ELSE IF a.grandTotal # Null THEN AtLeast0(a.grandTotal - added)
                ELSE 0

\* Mutant of LiveDiscount: a discount of 0 is taken as it is.
LiveDiscountAsGiven(a, local) ==
  IF local > 0 /\ a.discount = Null THEN local
  ELSE IF a.discount # Null THEN a.discount ELSE ProductDiscount(a.products)

\* The discount of the answer; the local one, if there is one and the answer has none or 0.
LiveDiscount(a, local) ==
  IF local > 0 /\ a.discount \in {Null, 0} THEN local
  ELSE IF a.discount # Null THEN a.discount ELSE ProductDiscount(a.products)

\* extractShiprocketOrderPricingSnapshot. The final amount is computed from the parts: the
\* discount of the products is a number, so there always is a part.
Extract(a, local) ==
  LET added == OrZero(a.shipping) + OrZero(a.charges)
      subTotal == LiveSubTotal(a, added)
      discount == LiveDiscount(a, local)
  IN  IF ~a.given THEN NoSnapshot
      ELSE Snapshot(subTotal, discount, OrZero(a.shipping), subTotal - discount + added)

\* buildShiprocketLivePricingVerification.
Verification(o, a) ==
  LET answered == Extract(a, Expected(o).totalDiscount)
  IN  [live |-> answered,
       status |-> IF answered = NoSnapshot THEN "warning"
                  ELSE IF Differ(Expected(o), answered) THEN "mismatch" ELSE "clear"]

-----------------------------------------------------------------------------
(* The audit of an order, made anew whenever the order is shown.           *)

Errors == {"local_breakdown_mismatch", "shiprocket_snapshot_mismatch",
           "shiprocket_live_mismatch"}
LiveIssues == {"shiprocket_live_verification_failed", "shiprocket_live_pricing_unavailable",
               "shiprocket_live_mismatch"}

IssueIf(holds, issue) == IF holds THEN {issue} ELSE {}

\* buildShiprocketPricingAudit: its issues, if the last verification left that.
AuditIssues(answered, status) ==
  IssueIf(order.amount # Breakdown(order), "local_breakdown_mismatch")
    \cup IssueIf(order.subtotal > 0 /\ order.items > 0 /\ order.subtotal # order.items,
                 "subtotal_item_snapshot_mismatch")
    \cup IssueIf(tracked /\ stored = NoSnapshot, "missing_shiprocket_pricing_snapshot")
    \cup IssueIf(Differ(Expected(order), stored), "shiprocket_snapshot_mismatch")
    \cup IssueIf(status = "failed", "shiprocket_live_verification_failed")
    \cup IssueIf(Differ(Expected(order), answered), "shiprocket_live_mismatch")

HasMismatch(issues) == issues \cap Errors # {}
Audit == AuditIssues(live, liveStatus)

-----------------------------------------------------------------------------
(* The page's copy.                                                        *)

\* buildExpectedShiprocketPricingSnapshot and extractShiprocketLivePricingSnapshot are
\* line by line the server's.
PageExpected(o) == Expected(o)
PageExtract(a, local) == Extract(a, local)

\* buildClientSideShiprocketLiveVerification: its issues.
PageVerification(o, a) ==
  LET answered == PageExtract(a, PageExpected(o).totalDiscount)
  IN  IssueIf(answered = NoSnapshot, "shiprocket_live_pricing_unavailable")
        \cup IssueIf(Differ(PageExpected(o), answered), "shiprocket_live_mismatch")

\* buildFallbackShiprocketAudit: for an order that came without its audit.
FallbackIssues ==
  IssueIf(tracked /\ stored = NoSnapshot, "missing_shiprocket_pricing_snapshot")
    \cup IssueIf(liveStatus = "failed", "shiprocket_live_verification_failed")

\* applyClientSideShiprocketLiveVerification, of resolveOrderShiprocketAudit: the issues of
\* the audit that came with the order, or of the page's own, those of the last verification
\* replaced.
PageIssues(a, audited) ==
  ((IF audited THEN Audit ELSE FallbackIssues) \ LiveIssues) \cup PageVerification(order, a)

-----------------------------------------------------------------------------
(* The bulk verification's choice of orders.                               *)

\* buildBulkVerifyPreFilterQuery.
PreFilter(scope) ==
  CASE scope = "not_verified" -> liveStatus \in {"not_verified", "failed"}
    [] scope = "high_risk" -> \/ stored = NoSnapshot
                              \/ liveStatus \in {"not_verified", "warning", "mismatch", "failed"}
    [] OTHER -> TRUE

\* shouldVerifyOrderForScope.
ShouldVerify(scope) ==
  CASE scope = "not_verified" -> liveStatus = "not_verified"
    [] scope = "high_risk" -> Audit # {}
    [] OTHER -> TRUE

\* selectCandidateOrdersForBulkVerify, as long as the limit is not reached: the second
\* query of "high_risk" has no filter.
Selected(scope) ==
  /\ tracked
  /\ PreFilter(scope) \/ scope = "high_risk"
  /\ ShouldVerify(scope)

Scopes == {"all_synced", "not_verified", "high_risk"}

-----------------------------------------------------------------------------
\* An order, not yet synced or synced by an earlier version.
Init ==
  /\ order \in LocalOrders
  /\ tracked \in BOOLEAN
  /\ stored \in IF tracked THEN {NoSnapshot, OldExpected(order)} ELSE {NoSnapshot}
  /\ live = NoSnapshot
  /\ liveStatus = "not_verified"

\* syncOrder succeeds: what was sent is stored.
Sync ==
  /\ ~tracked
  /\ tracked' = TRUE
  /\ stored' = Expected(order)
  /\ UNCHANGED <<order, live, liveStatus>>

\* backfillShiprocketPricingSnapshots: what would be sent is stored where nothing was.
Backfill ==
  /\ tracked /\ stored = NoSnapshot
  /\ stored' = Expected(order)
  /\ UNCHANGED <<order, tracked, live, liveStatus>>

\* verifyOrderPricingAgainstLiveShiprocket, answered.
Verify(a) ==
  /\ tracked
  /\ live' = Verification(order, a).live
  /\ liveStatus' = Verification(order, a).status
  /\ UNCHANGED <<order, tracked, stored>>

\* The courier cannot be asked: the last answer stays.
VerifyFails ==
  /\ tracked
  /\ liveStatus' = "failed"
  /\ UNCHANGED <<order, tracked, stored, live>>

\* The bulk verification comes to the order.
BulkVerify(scope, a) == Selected(scope) /\ Verify(a)

Next ==
  \/ Sync \/ Backfill \/ VerifyFails
  \/ \E a \in Payloads : Verify(a)
  \/ \E scope \in Scopes, a \in Payloads : BulkVerify(scope, a)

Spec == Init /\ [][Next]_vars

-----------------------------------------------------------------------------
\* The courier's answer has the parts of the order as they were sent; of the discount it may
\* say nothing, or 0, and its totals may be anything.
Echoes(o, a) ==
  /\ a.subTotal = Sent(o).subTotal
  /\ OrZero(a.shipping) = Sent(o).shipping /\ OrZero(a.charges) = Sent(o).charges
  /\ \/ a.discount = Sent(o).discount
     \/ a.discount \in {Null, 0} /\ (Sent(o).discount = 0 => ProductDiscount(a.products) = 0)

\* Whatever totals the courier gives, and whether it repeats the discount, gives 0 for it
\* or omits it: a verification is clear just when the parts of the answer are those of the
\* order (extractShiprocketOrderPricingSnapshot: no phantom mismatch, none overlooked).
VerdictIsRight ==
  \A a \in Payloads :
    a.given /\ a.subTotal # Null => (Verification(order, a).status = "clear" <=> Echoes(order, a))

\* The page's own verification comes to the server's verdict on the same answer: the same
\* result, and the same mismatches of the audit it merges the result into. Of an order that
\* came without its audit it sees fewer, but it invents none (Orders.jsx,
\* applyClientSideShiprocketLiveVerification).
PageAgrees ==
  \A a \in Payloads :
    LET server == Verification(order, a)
        issues == AuditIssues(server.live, server.status)
    IN  tracked =>
          /\ HasMismatch(PageIssues(a, TRUE)) <=> HasMismatch(issues)
          /\ HasMismatch(PageIssues(a, FALSE)) => HasMismatch(issues)
          /\ server.status = "mismatch" => HasMismatch(PageIssues(a, FALSE))

\* The bulk verification's default scope takes every synced order whose audit shows
\* anything: its first query cannot see that an amount is wrong, the second one makes up
\* for it (selectCandidateOrdersForBulkVerify).
AlertIsSelected == tracked /\ Audit # {} => Selected("high_risk")
=============================================================================
