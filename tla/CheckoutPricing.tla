---------------------------- MODULE CheckoutPricing ----------------------------
(***************************************************************************)
(* What an order costs: services/checkoutPricingService.js with the        *)
(* redemption rules of loyaltyService.js, the rules the checkout page      *)
(* repeats in the browser, and the total the courier prints on the         *)
(* invoice.  Money is in paise; the rules take rupees and percentages, and *)
(* round to a paisa.                                                       *)
(***************************************************************************)
EXTENDS Integers

CONSTANTS
  DeliveryCharge,  \* deliveryCharge
  PointValue,      \* the value of a loyalty point
  MinRedeem,       \* minRedeemPoints
  SharePercent,    \* maxRedeemShare; 0 is read as "no limit"
  PerOrder,        \* maxRedeemPointsPerOrder; 0 is read as "no limit"
  PerProduct       \* maxRedeemPointsPerProduct, for each unit

ASSUME RulesAssumption ==
  /\ DeliveryCharge \in Nat /\ MinRedeem \in Nat /\ PerOrder \in Nat /\ PerProduct \in Nat
  /\ PointValue \in Nat \ {0}
  /\ SharePercent \in 0 .. 100

Least(a, b) == IF a <= b THEN a ELSE b
AtLeast0(a) == IF a > 0 THEN a ELSE 0

Percent(amount, percent) == (amount * percent + 50) \div 100

-----------------------------------------------------------------------------
(* Coupons                                                                 *)

\* capped, cap: maxDiscountAmount, when there is one.
FullDiscount(coupon, subtotal) ==
  CASE coupon.type = "percentage" -> Percent(subtotal, coupon.value)
    [] coupon.type = "flat" -> coupon.value
    [] coupon.type = "free_shipping" -> 0

\* Mutant of CouponDiscount: the discount is not limited to the subtotal.
CouponDiscountUnlimited(coupon, subtotal) ==
  LET full == FullDiscount(coupon, subtotal)
  IN IF coupon.capped THEN Least(full, coupon.cap) ELSE full

CouponDiscount(coupon, subtotal) ==
  LET full == FullDiscount(coupon, subtotal)
  IN Least(IF coupon.capped THEN Least(full, coupon.cap) ELSE full, subtotal)

DeliveryFee(coupon, used) ==
  IF used /\ coupon.type = "free_shipping" THEN 0 ELSE DeliveryCharge

-----------------------------------------------------------------------------
(* Loyalty points                                                          *)

\* The points an order of this base amount and number of units may redeem.
MaxRedeemable(base, units, available) ==
  LET share == Least(base, Percent(base, IF SharePercent = 0 THEN 100 ELSE SharePercent))
      byOrder == IF PerOrder = 0 THEN available ELSE Least(available, PerOrder)
  IN Least(byOrder, Least(units * PerProduct, share \div PointValue))

\* No points are taken from an order that costs nothing.
Redeemed(points, base) == IF base = 0 THEN 0 ELSE points

\* calculateLoyaltyRedemption does not throw.
Redeemable(points, base, units, available) ==
  Redeemed(points, base) = 0 \/ (MinRedeem <= points /\ points <= MaxRedeemable(base, units, available))

\* maxRedeemableForThisOrder of the checkout page: in whole rupees, and 0 is no points.
OfferedAtMost(base, units, available) ==
  LET share == ((base * SharePercent) \div 10000) * 100
  IN Least(available, Least(PerOrder, Least(units * PerProduct, share \div PointValue)))

\* applyPointsHandler asks the server for these points.
Offered(points, base, units, available) ==
  /\ points > 0 /\ MinRedeem <= points
  /\ points <= OfferedAtMost(base, units, available)

-----------------------------------------------------------------------------
(* The price of an order                                                   *)

RedeemableBase(price, units, coupon, used) ==
  LET subtotal == price * units
      discount == IF used THEN CouponDiscount(coupon, subtotal) ELSE 0
  IN AtLeast0(subtotal + DeliveryFee(coupon, used) - discount)

Pricing(price, units, coupon, used, points) ==
  LET subtotal == price * units
      fee == DeliveryFee(coupon, used)
      base == RedeemableBase(price, units, coupon, used)
      redeemed == Redeemed(points, base)
      discount == (IF used THEN CouponDiscount(coupon, subtotal) ELSE 0) + redeemed * PointValue
  IN [subtotal |-> subtotal, fee |-> fee, base |-> base, discount |-> discount,
      used |-> used, points |-> redeemed, amount |-> AtLeast0(subtotal + fee - discount)]

-----------------------------------------------------------------------------
(* The courier's invoice                                                   *)

\* resolveShiprocketPricingContext: the subtotal before the discount.
InvoiceSubtotal(order) ==
  IF order.subtotal > 0 THEN order.subtotal ELSE AtLeast0(order.amount + order.discount - order.fee)

\* The courier adds up what it was sent.
NetTotal(order) == InvoiceSubtotal(order) - order.discount + order.fee
=============================================================================
