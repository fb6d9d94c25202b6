--------------------------- MODULE Storefront_proofs ---------------------------
(***************************************************************************)
(* Storefront, for every set of users, coupons and prices and every rule   *)
(* on points: the invoice comes to what is paid, and what is paid is what  *)
(* the page showed.                                                        *)
(***************************************************************************)
EXTENDS Storefront, FiniteSetTheorems, TLAPS

Kinds == {"none", "refresh", "change", "place"}

Locals == [kind : Kinds, user : Users \cup {"none"}, here : BOOLEAN,
           units : Nat, to : Nat, price : Nat, used : BOOLEAN, points : Nat, available : Nat,
           offered : BOOLEAN, fair : BOOLEAN, of : PriceRecords]

Quotes == [given : BOOLEAN, of : PriceRecords, available : Nat, fresh : BOOLEAN]
Pages == [open : BOOLEAN, units : 0 .. MaxUnits, busy : BOOLEAN, quote : Quotes]
OrderRecords == [user : Users, used : BOOLEAN, points : Nat, cancelled : BOOLEAN]
Asked == {"price", "discount"}
Taking == {"reserve", "create"}

DataOK ==
  /\ price \in Prices
  /\ coupon \in [active : BOOLEAN, terms : Coupons]
  /\ points \in [Users -> Nat]
  /\ known \in [Users -> Prices \cup {0}]
  /\ page \in [Users -> Pages]
  /\ orders \in Seq(OrderRecords)
  /\ visits \in 0 .. MaxVisits /\ quotes \in 0 .. MaxQuotes /\ edits \in 0 .. MaxEdits
  /\ crowded \in BOOLEAN /\ denied \in BOOLEAN

WorkersOK ==
  /\ pc \in [Workers -> Labels]
  /\ loc \in [Workers -> Locals]
  /\ \A w \in Workers :
       /\ pc[w] # "idle" => loc[w].user \in Users
       /\ pc[w] = "quoted" => loc[w].kind # "place"
       /\ pc[w] \in Taking => loc[w].kind = "place"

TypeInv == DataOK /\ WorkersOK

\* A price that was made comes to the same on the invoice.
InvoiceInv == \A w \in Workers : NetTotal(loc[w].of) = loc[w].of.amount

\* What an order costs as things are now.
Now(units, used, pts) == Pricing(price, units, coupon.terms, used, pts)

\* A fresh quote is the price as things are now.
FreshQuote(u) ==
  page[u].quote.fresh =>
    page[u].quote.of = Now(page[u].units, page[u].quote.of.used, page[u].quote.of.points)

\* So is one on its way, for the units it was asked for.
FairQuote(w) ==
  loc[w].fair /\ pc[w] = "quoted" =>
    loc[w].of = Now(loc[w].units, loc[w].of.used, loc[w].of.points)

\* An order is placed for the price as things are now, until something changes.
FairOrder(w) ==
  loc[w].fair =>
    /\ pc[w] = "discount" => loc[w].price = price
    /\ loc[w].kind = "place" /\ pc[w] \in Asked =>
         loc[w].to = Now(loc[w].units, loc[w].used, loc[w].points).amount

\* What is being charged is what was to be paid.
Charged(w) == pc[w] \in Taking => loc[w].of.amount = loc[w].to

ShownInv ==
  /\ \A u \in Users : FreshQuote(u)
  /\ \A w \in Workers : FairQuote(w) /\ FairOrder(w) /\ Charged(w)

IInv == TypeInv /\ InvoiceInv /\ ShownInv

-----------------------------------------------------------------------------
(* Prices                                                                  *)

LEMMA LeastFacts ==
  ASSUME NEW a \in Nat, NEW b \in Nat
  PROVE  Least(a, b) \in Nat /\ Least(a, b) <= a /\ Least(a, b) <= b
BY DEF Least

LEMMA AtLeast0Facts ==
  ASSUME NEW a \in Int
  PROVE  AtLeast0(a) \in Nat /\ (a >= 0 => AtLeast0(a) = a)
BY DEF AtLeast0

LEMMA PercentType ==
  ASSUME NEW a \in Nat, NEW b \in Nat
  PROVE  Percent(a, b) \in Nat
<1>1. a * b \in Nat
  OBVIOUS
<1> QED
  BY <1>1 DEF Percent

\* Whole points are not worth more than what they are taken from.
LEMMA WholePoints ==
  ASSUME NEW share \in Nat, NEW r \in Nat, NEW value \in Nat \ {0}, r <= share \div value
  PROVE  r * value <= share
<1> DEFINE d == share \div value
<1>1. d \in Nat /\ share = value * d + (share % value) /\ share % value \in Nat
  OBVIOUS
<1>2. r * value <= d * value
  BY <1>1, Z3
<1> QED
  BY <1>1, <1>2

IsCoupon(c) ==
  /\ c.type \in {"percentage", "flat", "free_shipping"}
  /\ c.value \in Nat /\ c.min \in Nat /\ c.capped \in BOOLEAN /\ c.cap \in Nat

\* A discount is never more than the subtotal.
LEMMA DiscountFacts ==
  ASSUME NEW c, IsCoupon(c), NEW subtotal \in Nat
  PROVE  CouponDiscount(c, subtotal) \in Nat /\ CouponDiscount(c, subtotal) <= subtotal
<1>1. FullDiscount(c, subtotal) \in Nat
  BY PercentType DEF FullDiscount, IsCoupon
<1>2. (IF c.capped THEN Least(FullDiscount(c, subtotal), c.cap) ELSE FullDiscount(c, subtotal)) \in Nat
  BY <1>1, LeastFacts DEF IsCoupon
<1> QED
  BY <1>2, LeastFacts DEF CouponDiscount

LEMMA FeeType ==
  ASSUME NEW c, NEW used
  PROVE  DeliveryFee(c, used) \in Nat
BY RulesAssumption DEF DeliveryFee

\* The rules on points: never more than is left to pay.
LEMMA RedeemedFacts ==
  ASSUME NEW base \in Nat, NEW units \in Nat, NEW available \in Nat, NEW pts \in Nat,
         Redeemable(pts, base, units, available)
  PROVE  /\ Redeemed(pts, base) \in Nat
         /\ Redeemed(pts, base) * PointValue \in Nat
         /\ Redeemed(pts, base) * PointValue <= base
<1> DEFINE r == Redeemed(pts, base)
           share == Least(base, Percent(base, IF SharePercent = 0 THEN 100 ELSE SharePercent))
           byOrder == IF PerOrder = 0 THEN available ELSE Least(available, PerOrder)
<1>1. r \in Nat
  BY DEF Redeemed
<1>2. CASE r = 0
  BY <1>1, <1>2, RulesAssumption
<1>3. CASE r # 0
  <2>1. r = pts /\ pts <= MaxRedeemable(base, units, available)
    BY <1>3 DEF Redeemed, Redeemable
  <2>2. share \in Nat /\ share <= base
    <3>1. (IF SharePercent = 0 THEN 100 ELSE SharePercent) \in Nat
      BY RulesAssumption
    <3>2. Percent(base, IF SharePercent = 0 THEN 100 ELSE SharePercent) \in Nat
      BY <3>1, PercentType
    <3> QED
      BY <3>2, LeastFacts
  <2>3. byOrder \in Nat
    BY LeastFacts, RulesAssumption
  <2>4. units * PerProduct \in Nat /\ share \div PointValue \in Nat
    BY <2>2, RulesAssumption
  <2>5. /\ Least(units * PerProduct, share \div PointValue) \in Nat
        /\ Least(units * PerProduct, share \div PointValue) <= share \div PointValue
    BY <2>4, LeastFacts
  <2>6. MaxRedeemable(base, units, available) <= share \div PointValue
    <3>1. MaxRedeemable(base, units, available) = Least(byOrder, Least(units * PerProduct, share \div PointValue))
      BY DEF MaxRedeemable
    <3>2. /\ Least(byOrder, Least(units * PerProduct, share \div PointValue)) \in Nat
          /\ Least(byOrder, Least(units * PerProduct, share \div PointValue)) <= Least(units * PerProduct, share \div PointValue)
      BY <2>3, <2>5, LeastFacts, ZenonT(30)
    <3> QED
      BY <3>1, <3>2, <2>4, <2>5
  <2>7. MaxRedeemable(base, units, available) \in Nat
    BY <2>3, <2>5, LeastFacts DEF MaxRedeemable
  <2>8. r <= share \div PointValue
    BY <2>1, <2>4, <2>6, <2>7, <1>1
  <2>9. r * PointValue <= share
    BY <1>1, <2>2, <2>8, WholePoints, RulesAssumption
  <2>10. r * PointValue \in Nat
    BY <1>1, RulesAssumption
  <2> QED
    BY <1>1, <2>2, <2>9, <2>10
<1> QED
  BY <1>2, <1>3

\* What the page offers the server accepts: it is stricter on each limit (the page reads a
\* share or a limit of 0 as no points, the server as no limit).
THEOREM OfferWithinLimit ==
  ASSUME NEW base \in Nat, NEW units \in Nat, NEW available \in Nat, NEW pts \in Nat,
         Offered(pts, base, units, available)
  PROVE  Redeemable(pts, base, units, available)
<1> DEFINE asked == (base * SharePercent) \div 10000
           shown == asked * 100
           taken == Least(base, Percent(base, IF SharePercent = 0 THEN 100 ELSE SharePercent))
           byOrder == IF PerOrder = 0 THEN available ELSE Least(available, PerOrder)
           u == units * PerProduct
<1> USE RulesAssumption
<1>1. base * SharePercent \in Nat /\ base * SharePercent <= base * 100
  BY Z3
<1>2. asked \in Nat /\ 10000 * asked <= base * SharePercent
  BY <1>1
<1>3. shown \in Nat /\ shown <= base /\ u \in Nat /\ shown \div PointValue \in Nat
  <2>1. shown \in Nat /\ shown <= base
    BY <1>1, <1>2
  <2> QED
    BY <2>1
<1>4. /\ pts > 0 /\ MinRedeem <= pts
      /\ pts <= available /\ pts <= PerOrder /\ pts <= u /\ pts <= shown \div PointValue
  <2>1. pts <= Least(available, Least(PerOrder, Least(u, shown \div PointValue)))
    BY DEF Offered, OfferedAtMost
  <2> HIDE DEF u, shown
  <2>2. /\ Least(u, shown \div PointValue) \in Nat
        /\ Least(u, shown \div PointValue) <= u /\ Least(u, shown \div PointValue) <= shown \div PointValue
    BY <1>3, LeastFacts
  <2>3. /\ Least(PerOrder, Least(u, shown \div PointValue)) \in Nat
        /\ Least(PerOrder, Least(u, shown \div PointValue)) <= PerOrder
        /\ Least(PerOrder, Least(u, shown \div PointValue)) <= Least(u, shown \div PointValue)
    BY <2>2, LeastFacts
  <2>4. /\ Least(available, Least(PerOrder, Least(u, shown \div PointValue))) \in Nat
        /\ Least(available, Least(PerOrder, Least(u, shown \div PointValue))) <= available
        /\ Least(available, Least(PerOrder, Least(u, shown \div PointValue))) <= Least(PerOrder, Least(u, shown \div PointValue))
    BY <2>3, LeastFacts
  <2>5. pts > 0 /\ MinRedeem <= pts
    BY DEF Offered
  <2> QED
    BY <1>3, <2>1, <2>2, <2>3, <2>4, <2>5
<1>5. taken \in Nat /\ shown <= taken
  <2>1. SharePercent # 0
    <3>1. CASE SharePercent = 0
      <4>1. shown = 0
        BY <3>1
      <4>2. shown \div PointValue = 0
        BY <4>1
      <4> QED
        BY <1>4, <4>2
    <3> QED
      BY <3>1
  <2>2. Percent(base, SharePercent) \in Nat /\ shown <= Percent(base, SharePercent)
    BY <1>1, <1>2 DEF Percent
  <2> HIDE DEF shown
  <2> QED
    BY <1>3, <2>1, <2>2 DEF Least
<1>6. taken \div PointValue \in Nat /\ pts <= taken \div PointValue
  <2> HIDE DEF taken, shown
  <2>1. pts * PointValue <= shown
    BY <1>3, <1>4, WholePoints
  <2>2. taken \div PointValue \in Nat
    BY <1>5
  <2>3. pts * PointValue <= taken
    BY <1>3, <1>5, <2>1
  <2> QED
    BY <1>5, <2>2, <2>3, Z3
<1>7. pts <= MaxRedeemable(base, units, available)
  <2>1. MaxRedeemable(base, units, available) = Least(byOrder, Least(u, taken \div PointValue))
    BY DEF MaxRedeemable
  <2>2. byOrder \in Nat /\ pts <= byOrder
    BY <1>4 DEF Least
  <2> HIDE DEF byOrder, u, taken, shown
  <2> QED
    BY <1>3, <1>4, <1>6, <2>1, <2>2 DEF Least
<1> QED
  BY <1>4, <1>7 DEF Redeemable

\* No points are offered of none.
LEMMA NothingOfferedAt0 ==
  ASSUME NEW base \in Nat, NEW units \in Nat
  PROVE  OfferedAtMost(base, units, 0) \in Int /\ OfferedAtMost(base, units, 0) <= 0
<1> DEFINE share == ((base * SharePercent) \div 10000) * 100
           rest == Least(PerOrder, Least(units * PerProduct, share \div PointValue))
<1>1. share \in Nat
  <2>1. base * SharePercent \in Nat
    BY RulesAssumption
  <2> QED
    BY <2>1
<1>2. units * PerProduct \in Nat /\ share \div PointValue \in Nat /\ PerOrder \in Nat
  BY <1>1, RulesAssumption
<1>3. rest \in Nat
  <2> HIDE DEF share
  <2> QED
    BY <1>2 DEF Least
<1>4. OfferedAtMost(base, units, 0) = Least(0, rest)
  BY DEF OfferedAtMost
<1> HIDE DEF rest
<1> QED
  BY <1>3, <1>4 DEF Least

\* Pricing: types, and the invoice of a price comes to the price.
LEMMA PricingFacts ==
  ASSUME NEW c, IsCoupon(c), NEW cost \in Nat, NEW units \in Nat, NEW used \in BOOLEAN,
         NEW pts \in Nat, NEW available \in Nat,
         Redeemable(pts, RedeemableBase(cost, units, c, used), units, available)
  PROVE  /\ Pricing(cost, units, c, used, pts) \in PriceRecords
         /\ NetTotal(Pricing(cost, units, c, used, pts)) = Pricing(cost, units, c, used, pts).amount
<1> DEFINE subtotal == cost * units
           fee == DeliveryFee(c, used)
           off == IF used THEN CouponDiscount(c, subtotal) ELSE 0
           base == RedeemableBase(cost, units, c, used)
           r == Redeemed(pts, base)
           worth == r * PointValue
<1>1. subtotal \in Nat
  OBVIOUS
<1> HIDE DEF subtotal
<1>2. off \in Nat /\ off <= subtotal
  BY <1>1, DiscountFacts
<1>3. fee \in Nat
  BY FeeType
<1> HIDE DEF off, fee
<1>4. base = subtotal + fee - off
  <2>1. base = AtLeast0(subtotal + fee - off)
    BY DEF RedeemableBase, subtotal, fee, off
  <2> QED
    BY <1>1, <1>2, <1>3, <2>1, AtLeast0Facts
<1>5. base \in Nat
  BY <1>1, <1>2, <1>3, <1>4
<1> HIDE DEF base
<1>6. r \in Nat /\ worth \in Nat /\ worth <= base
  BY <1>5, RedeemedFacts DEF base
<1> HIDE DEF r, worth
<1>7. AtLeast0(subtotal + fee - (off + worth)) = subtotal + fee - (off + worth)
  BY <1>1, <1>2, <1>3, <1>4, <1>6, AtLeast0Facts
<1>8. Pricing(cost, units, c, used, pts) =
       [subtotal |-> subtotal, fee |-> fee, base |-> base, discount |-> off + worth, used |-> used,
        points |-> r, amount |-> subtotal + fee - (off + worth)]
  BY <1>7 DEF Pricing, subtotal, fee, off, base, r, worth
<1>9. subtotal + fee - (off + worth) \in Nat
  BY <1>1, <1>2, <1>3, <1>4, <1>6
<1>10. Pricing(cost, units, c, used, pts) \in PriceRecords
  BY <1>1, <1>2, <1>3, <1>5, <1>6, <1>8, <1>9 DEF PriceRecords
<1>11. NetTotal(Pricing(cost, units, c, used, pts)) = Pricing(cost, units, c, used, pts).amount
  <2>1. InvoiceSubtotal(Pricing(cost, units, c, used, pts)) = subtotal
    BY <1>1, <1>2, <1>3, <1>6, <1>8 DEF InvoiceSubtotal, AtLeast0
  <2> QED
    BY <1>1, <1>2, <1>3, <1>6, <1>8, <2>1 DEF NetTotal
<1> QED
  BY <1>10, <1>11

\* A price made for the points of a price is that price.
LEMMA PricingAgain ==
  ASSUME NEW c, NEW cost, NEW units, NEW used, NEW pts
  PROVE  LET made == Pricing(cost, units, c, used, pts)
         IN made = Pricing(cost, units, c, made.used, made.points)
<1> DEFINE base == RedeemableBase(cost, units, c, used)
<1>1. Redeemed(Redeemed(pts, base), base) = Redeemed(pts, base)
  BY DEF Redeemed
<1>2. Pricing(cost, units, c, used, pts).used = used /\ Pricing(cost, units, c, used, pts).points = Redeemed(pts, base)
  BY DEF Pricing
<1> QED
  BY <1>1, <1>2 DEF Pricing

LEMMA NothingType ==
  /\ NoPrice \in PriceRecords
  /\ NetTotal(NoPrice) = NoPrice.amount
  /\ NoQuote \in Quotes
  /\ NewPage \in [open : BOOLEAN, units : {0}, busy : BOOLEAN, quote : Quotes]
  /\ NoLocals \in Locals
<1>1. NoPrice \in PriceRecords
  BY DEF NoPrice, PriceRecords
<1>2. NetTotal(NoPrice) = NoPrice.amount
  BY DEF NoPrice, NetTotal, InvoiceSubtotal, AtLeast0
<1>3. NoQuote \in Quotes
  BY <1>1 DEF NoQuote, Quotes
<1>4. NewPage \in [open : BOOLEAN, units : {0}, busy : BOOLEAN, quote : Quotes]
  BY <1>3 DEF NewPage
<1>5. NoLocals \in Locals
  BY <1>1 DEF NoLocals, Locals, Kinds
<1> QED
  BY <1>1, <1>2, <1>3, <1>4, <1>5

-----------------------------------------------------------------------------
(* Types                                                                   *)

LEMMA CouponsAre == \A c \in Coupons : IsCoupon(c)
BY StorefrontAssumption DEF IsCoupon

LEMMA TypeInvIsTypeOK == TypeInv => TypeOK
BY DEF TypeInv, DataOK, WorkersOK, TypeOK, Pages, Quotes, OrderRecords

\* What staling and orphaning keep.
LEMMA StaleFacts ==
  ASSUME TypeInv, NEW us
  PROVE  /\ StalePages(us) \in [Users -> Pages]
         /\ StaleLocals(us) \in [Workers -> Locals]
         /\ \A u \in Users :
              /\ StalePages(us)[u].open = page[u].open /\ StalePages(us)[u].units = page[u].units
              /\ StalePages(us)[u].quote.of = page[u].quote.of
              /\ StalePages(us)[u].quote.available = page[u].quote.available
              /\ StalePages(us)[u].quote.fresh <=> page[u].quote.fresh /\ u \notin us
         /\ \A w \in Workers :
              LET l == StaleLocals(us)[w]
              IN /\ l.kind = loc[w].kind /\ l.user = loc[w].user /\ l.here = loc[w].here
                 /\ l.units = loc[w].units /\ l.to = loc[w].to /\ l.price = loc[w].price
                 /\ l.used = loc[w].used /\ l.points = loc[w].points /\ l.of = loc[w].of
                 /\ l.available = loc[w].available /\ l.offered = loc[w].offered
                 /\ l.fair <=> loc[w].fair /\ loc[w].user \notin us
<1> USE DEF TypeInv, DataOK, WorkersOK
<1>1. \A u \in Users : page[u] \in Pages /\ page[u].quote \in Quotes
  BY DEF Pages
<1>2. \A w \in Workers : loc[w] \in Locals
  OBVIOUS
<1>3. ASSUME NEW u \in Users
      PROVE  /\ StalePages(us)[u] \in Pages
             /\ StalePages(us)[u].open = page[u].open /\ StalePages(us)[u].units = page[u].units
             /\ StalePages(us)[u].quote.of = page[u].quote.of
             /\ StalePages(us)[u].quote.available = page[u].quote.available
             /\ StalePages(us)[u].quote.fresh <=> page[u].quote.fresh /\ u \notin us
  <2> DEFINE b == page[u].quote.fresh /\ u \notin us
  <2>1. b \in BOOLEAN
    OBVIOUS
  <2>2. StalePages(us)[u] = [page[u] EXCEPT !.quote.fresh = b]
    BY DEF StalePages
  <2> HIDE DEF b
  <2>3. /\ StalePages(us)[u] \in Pages
        /\ StalePages(us)[u].open = page[u].open /\ StalePages(us)[u].units = page[u].units
        /\ StalePages(us)[u].quote.of = page[u].quote.of
        /\ StalePages(us)[u].quote.available = page[u].quote.available
        /\ StalePages(us)[u].quote.fresh = b
    <3> DEFINE q == [page[u].quote EXCEPT !.fresh = b]
    <3>1. q \in Quotes /\ q.of = page[u].quote.of /\ q.available = page[u].quote.available /\ q.fresh = b
      BY <1>1, <2>1 DEF Quotes
    <3>2. StalePages(us)[u] = [page[u] EXCEPT !.quote = q]
      BY <2>2
    <3> HIDE DEF q
    <3> QED
      BY <1>1, <3>1, <3>2 DEF Pages
  <2> QED
    BY <2>3 DEF b
<1>4. ASSUME NEW w \in Workers
      PROVE  LET l == StaleLocals(us)[w]
             IN /\ l \in Locals
                /\ l.kind = loc[w].kind /\ l.user = loc[w].user /\ l.here = loc[w].here
                /\ l.units = loc[w].units /\ l.to = loc[w].to /\ l.price = loc[w].price
                /\ l.used = loc[w].used /\ l.points = loc[w].points /\ l.of = loc[w].of
                /\ l.available = loc[w].available /\ l.offered = loc[w].offered
                /\ l.fair <=> loc[w].fair /\ loc[w].user \notin us
  <2> DEFINE b == loc[w].fair /\ loc[w].user \notin us
             l == StaleLocals(us)[w]
  <2>1. b \in BOOLEAN
    OBVIOUS
  <2>2. l = [loc[w] EXCEPT !.fair = b]
    BY DEF StaleLocals
  <2> HIDE DEF b, l
  <2>3. /\ l \in Locals
        /\ l.kind = loc[w].kind /\ l.user = loc[w].user /\ l.here = loc[w].here
        /\ l.units = loc[w].units /\ l.to = loc[w].to /\ l.price = loc[w].price
        /\ l.used = loc[w].used /\ l.points = loc[w].points /\ l.of = loc[w].of
        /\ l.available = loc[w].available /\ l.offered = loc[w].offered
        /\ l.fair = b
    BY <1>2, <2>1, <2>2 DEF Locals
  <2> QED
    BY <2>3 DEF b, l
<1>5. StalePages(us) \in [Users -> Pages]
  BY <1>3 DEF StalePages
<1>6. StaleLocals(us) \in [Workers -> Locals]
  BY <1>4 DEF StaleLocals
<1> QED
  BY <1>3, <1>4, <1>5, <1>6

LEMMA OrphanFacts ==
  ASSUME TypeInv, NEW u
  PROVE  /\ Orphans(u) \in [Workers -> Locals]
         /\ \A w \in Workers :
              LET l == Orphans(u)[w]
              IN /\ l.kind = loc[w].kind /\ l.user = loc[w].user /\ l.fair = loc[w].fair
                 /\ l.units = loc[w].units /\ l.to = loc[w].to /\ l.price = loc[w].price
                 /\ l.used = loc[w].used /\ l.points = loc[w].points /\ l.of = loc[w].of
                 /\ l.available = loc[w].available /\ l.offered = loc[w].offered
                 /\ l.here <=> loc[w].here /\ loc[w].user # u
<1>0. loc \in [Workers -> Locals]
  BY DEF TypeInv, WorkersOK
<1>1. ASSUME NEW w \in Workers
      PROVE  LET l == Orphans(u)[w]
             IN /\ l \in Locals
                /\ l.kind = loc[w].kind /\ l.user = loc[w].user /\ l.fair = loc[w].fair
                /\ l.units = loc[w].units /\ l.to = loc[w].to /\ l.price = loc[w].price
                /\ l.used = loc[w].used /\ l.points = loc[w].points /\ l.of = loc[w].of
                /\ l.available = loc[w].available /\ l.offered = loc[w].offered
                /\ l.here <=> loc[w].here /\ loc[w].user # u
  <2> DEFINE b == loc[w].here /\ loc[w].user # u
             l == Orphans(u)[w]
  <2>1. b \in BOOLEAN /\ loc[w] \in Locals
    BY <1>0
  <2>2. l = [loc[w] EXCEPT !.here = b]
    BY DEF Orphans
  <2> HIDE DEF b, l
  <2>3. /\ l \in Locals
        /\ l.kind = loc[w].kind /\ l.user = loc[w].user /\ l.fair = loc[w].fair
        /\ l.units = loc[w].units /\ l.to = loc[w].to /\ l.price = loc[w].price
        /\ l.used = loc[w].used /\ l.points = loc[w].points /\ l.of = loc[w].of
        /\ l.available = loc[w].available /\ l.offered = loc[w].offered
        /\ l.here = b
    BY <2>1, <2>2 DEF Locals
  <2> QED
    BY <2>3 DEF b, l
<1>2. Orphans(u) \in [Workers -> Locals]
  BY <1>1 DEF Orphans
<1> QED
  BY <1>1, <1>2

\* What a page asks for.
Asking == {"refresh", "change", "place"}

LEMMA AskingIs == "refresh" \in Asking /\ "change" \in Asking /\ "place" \in Asking
BY DEF Asking

LEMMA RequestFacts ==
  ASSUME NEW kind \in Asking, NEW u \in Users, NEW units \in 0 .. MaxUnits
  PROVE  /\ Request(kind, u, units) \in Locals /\ Request(kind, u, units).kind = kind
         /\ Request(kind, u, units).user = u /\ Request(kind, u, units).units = units
         /\ Request(kind, u, units).offered = FALSE /\ Request(kind, u, units).fair = TRUE
         /\ Request(kind, u, units).of = NoPrice
<1>1. units \in Nat
  BY StorefrontAssumption
<1>2. kind \in Kinds
  BY DEF Kinds, Asking
<1> QED
  BY <1>1, <1>2, NothingType DEF Request, NoLocals, Locals

\* What the page shows without a preview.
LEMMA LocalType ==
  ASSUME NEW p \in Nat, NEW units \in Nat
  PROVE  LocalPrice(p, units) \in PriceRecords
<1> DEFINE subtotal == p * units
           fee == IF subtotal = 0 THEN 0 ELSE DeliveryCharge
<1>1. subtotal \in Nat
  OBVIOUS
<1>2. fee \in Nat
  BY RulesAssumption
<1>3. LocalPrice(p, units) =
        [NoPrice EXCEPT !.subtotal = subtotal, !.fee = fee, !.base = subtotal + fee, !.amount = subtotal + fee]
  BY DEF LocalPrice
<1> HIDE DEF subtotal, fee
<1>4. subtotal + fee \in Nat
  BY <1>1, <1>2
<1> DEFINE base == subtotal + fee
<1>5. base \in Nat /\ NoPrice \in PriceRecords
  BY <1>4, NothingType
<1>6. LocalPrice(p, units) =
        [NoPrice EXCEPT !.subtotal = subtotal, !.fee = fee, !.base = base, !.amount = base]
  BY <1>3
<1> HIDE DEF base
<1> QED
  BY <1>1, <1>2, <1>5, <1>6 DEF PriceRecords

LEMMA ShownType ==
  ASSUME TypeInv, NEW u \in Users
  PROVE  /\ page[u].units \in 0 .. MaxUnits /\ page[u].units \in Nat
         /\ Shown(u) \in Quotes
         /\ Shown(u).of.used \in BOOLEAN /\ Shown(u).of.points \in Nat /\ Shown(u).of.amount \in Nat
         /\ Shown(u).of.base \in Nat /\ Shown(u).available \in Nat /\ Shown(u).fresh \in BOOLEAN
<1>1. page[u] \in Pages
  BY DEF TypeInv, DataOK
<1>2. page[u].units \in 0 .. MaxUnits /\ page[u].quote \in Quotes
  BY <1>1 DEF Pages
<1>3. page[u].units \in Nat
  BY <1>2, StorefrontAssumption
<1>4. known[u] \in Nat
  <2>1. PICK p : p = known[u]
    OBVIOUS
  <2>2. p \in Prices \/ p = 0
    BY <2>1 DEF TypeInv, DataOK
  <2>3. p \in Prices => p \in Nat
    BY StorefrontAssumption
  <2>4. p \in Nat
    BY <2>2, <2>3
  <2> QED
    BY <2>1, <2>4
<1>5. LocalPrice(known[u], page[u].units) \in PriceRecords
  BY <1>3, <1>4, LocalType
<1>6. NoQuote \in Quotes
  BY NothingType
<1>7. Local(u) \in Quotes
  <2> DEFINE b == known[u] = price /\ price * page[u].units > 0
             o == LocalPrice(known[u], page[u].units)
  <2>1. Local(u) = [NoQuote EXCEPT !.of = o, !.fresh = b]
    BY DEF Local
  <2>2. b \in BOOLEAN /\ o \in PriceRecords
    BY <1>5, <1>6
  <2> HIDE DEF b, o
  <2> QED
    BY <1>6, <2>1, <2>2 DEF Quotes
<1>8. Shown(u) \in Quotes
  BY <1>2, <1>7 DEF Shown
<1> QED
  BY <1>2, <1>3, <1>8 DEF Quotes, PriceRecords

LEMMA KeptFacts ==
  ASSUME NEW l \in Locals
  PROVE  /\ Kept(l) \in Locals
         /\ Kept(l).kind = l.kind /\ Kept(l).user = l.user /\ Kept(l).here = l.here /\ Kept(l).of = NoPrice
BY NothingType DEF Kept, Locals, NoLocals, Kinds

LEMMA InitType == Init => TypeInv
<1> SUFFICES ASSUME Init PROVE TypeInv
  OBVIOUS
<1> USE StorefrontAssumption, NothingType
<1>1. price \in Prices
  BY DEF Init
<1>2. points \in [Users -> Nat]
  BY DEF Init
<1>3. orders \in Seq(OrderRecords)
  BY DEF Init
<1>4. coupon \in [active : BOOLEAN, terms : Coupons]
  <2>1. PICK c \in Coupons : coupon = [active |-> TRUE, terms |-> c]
    BY DEF Init
  <2> QED
    BY <2>1
<1>5. /\ visits \in 0 .. MaxVisits /\ quotes \in 0 .. MaxQuotes /\ edits \in 0 .. MaxEdits
      /\ crowded \in BOOLEAN /\ denied \in BOOLEAN
  <2>1. visits = 0 /\ quotes = 0 /\ edits = 0 /\ ~crowded /\ ~denied
    BY DEF Init
  <2>2. crowded \in BOOLEAN /\ denied \in BOOLEAN
    BY DEF Init
  <2> QED
    BY <2>1, <2>2
<1>6. NewPage \in Pages
  BY DEF Pages
<1>9. known \in [Users -> Prices \cup {0}]
  BY DEF Init
<1>7. page \in [Users -> Pages] /\ loc \in [Workers -> Locals] /\ pc \in [Workers -> Labels]
  BY <1>6 DEF Init, Labels
<1>8. \A w \in Workers : pc[w] = "idle"
  BY DEF Init
<1> QED
  BY <1>1, <1>2, <1>3, <1>4, <1>5, <1>7, <1>8, <1>9 DEF TypeInv, DataOK, WorkersOK, Taking

\* A worker moves: its label and its locals.
LEMMA MoveType ==
  ASSUME TypeInv, NEW w \in Workers, NEW label \in Labels, NEW l \in Locals, NEW others,
         others \in [Workers -> Locals],
         \A v \in Workers : others[v].kind = loc[v].kind /\ others[v].user = loc[v].user,
         GoTo(w, label), loc' = [others EXCEPT ![w] = l],
         label # "idle" => l.user \in Users,
         label = "quoted" => l.kind # "place",
         label \in Taking => l.kind = "place"
  PROVE  WorkersOK'
<1> USE DEF TypeInv, DataOK, WorkersOK
<1>1. pc' = [pc EXCEPT ![w] = label]
  BY DEF GoTo
<1>2. pc' \in [Workers -> Labels] /\ loc' \in [Workers -> Locals]
  BY <1>1
<1>3. ASSUME NEW v \in Workers
      PROVE  /\ pc'[v] # "idle" => loc'[v].user \in Users
             /\ pc'[v] = "quoted" => loc'[v].kind # "place"
             /\ pc'[v] \in Taking => loc'[v].kind = "place"
  <2>1. CASE v = w
    BY <1>1, <2>1
  <2>2. CASE v # w
    BY <1>1, <2>2
  <2> QED
    BY <2>1, <2>2
<1> QED
  BY <1>2, <1>3

\* A worker asks.
LEMMA AsksType ==
  ASSUME TypeInv, NEW w \in Workers, Asks(w),
         NEW l \in Locals, l.user \in Users, loc' = [loc EXCEPT ![w] = l]
  PROVE  WorkersOK'
<1>1. GoTo(w, "price")
  BY DEF Asks
<1>2. loc \in [Workers -> Locals] /\ "price" \in Labels /\ "price" \notin Taking
  BY DEF TypeInv, WorkersOK, Labels, Taking
<1> QED
  BY <1>1, <1>2, MoveType

LEMMA AsksForQuoteType ==
  ASSUME TypeInv, NEW w \in Workers, AsksForQuote(w)
  PROVE  Asks(w) /\ quotes' \in 0 .. MaxQuotes /\ visits' = visits /\ edits' = edits
BY StorefrontAssumption, SMTT(30) DEF AsksForQuote, TypeInv, DataOK

LEMMA RefreshType ==
  ASSUME TypeInv, NEW w \in Workers, NEW u \in Users, NEW units \in 0 .. MaxUnits,
         Asks(w), Refresh(w, u, units)
  PROVE  WorkersOK'
<1>1. Request("refresh", u, units) \in Locals /\ Request("refresh", u, units).user = u
  BY AskingIs, RequestFacts, ZenonT(60)
<1> QED
  BY <1>1, AsksType DEF Refresh

LEMMA OpenedFacts ==
  ASSUME NEW units \in 1 .. MaxUnits
  PROVE  /\ units \in 0 .. MaxUnits
         /\ Opened(units) \in Pages /\ Opened(units).units = units /\ Opened(units).quote = NoQuote
<1>1. units \in 0 .. MaxUnits
  BY StorefrontAssumption
<1> QED
  BY <1>1, NothingType DEF Opened, Pages, NewPage

LEMMA OpenType ==
  ASSUME TypeInv, NEW w \in Workers, NEW u \in Users, Open(w, u)
  PROVE  TypeInv'
<1>1. PICK units \in 1 .. MaxUnits : page' = [page EXCEPT ![u] = Opened(units)] /\ Asks(w) /\ Refresh(w, u, units)
  BY DEF Open
<1>2. WorkersOK'
  BY <1>1, OpenedFacts, RefreshType
<1>3. page' \in [Users -> Pages]
  BY <1>1, OpenedFacts DEF TypeInv, DataOK
<1>4. visits' \in 0 .. MaxVisits
  BY StorefrontAssumption, SMTT(30) DEF Open, TypeInv, DataOK
<1> QED
  BY <1>2, <1>3, <1>4 DEF Open, TypeInv, DataOK, history

LEMMA RecountType ==
  ASSUME TypeInv, NEW w \in Workers, NEW u \in Users, Recount(w, u)
  PROVE  TypeInv'
<1>1. PICK units \in 1 .. MaxUnits :
        page' = [page EXCEPT ![u] = Opened(units)] /\ AsksForQuote(w) /\ Refresh(w, u, units)
  BY DEF Recount
<1>2. WorkersOK'
  BY <1>1, OpenedFacts, AsksForQuoteType, RefreshType
<1>3. page' \in [Users -> Pages]
  BY <1>1, OpenedFacts DEF TypeInv, DataOK
<1>4. quotes' \in 0 .. MaxQuotes /\ visits' = visits /\ edits' = edits
  BY <1>1, AsksForQuoteType
<1> QED
  BY <1>2, <1>3, <1>4 DEF Recount, TypeInv, DataOK, history

\* The page of u waits for an answer.
LEMMA BusyType ==
  ASSUME TypeInv, NEW u \in Users, page' = [page EXCEPT ![u].busy = TRUE]
  PROVE  /\ page' \in [Users -> Pages]
         /\ \A x \in Users : page'[x].units = page[x].units /\ page'[x].quote = page[x].quote
<1>1. page' = [page EXCEPT ![u] = [page[u] EXCEPT !.busy = TRUE]]
  OBVIOUS
<1>2. page[u] \in Pages
  BY DEF TypeInv, DataOK
<1>3. /\ [page[u] EXCEPT !.busy = TRUE] \in Pages
      /\ [page[u] EXCEPT !.busy = TRUE].units = page[u].units
      /\ [page[u] EXCEPT !.busy = TRUE].quote = page[u].quote
  BY <1>2 DEF Pages
<1> QED
  BY <1>1, <1>3 DEF TypeInv, DataOK

LEMMA LoadType ==
  ASSUME TypeInv, NEW w \in Workers, NEW u \in Users, Load(w, u)
  PROVE  TypeInv'
<1>1. known' \in [Users -> Prices \cup {0}] /\ UNCHANGED <<price, coupon, points, orders, history>>
  BY DEF Load, TypeInv, DataOK
<1>2. CASE page[u].open
  <2>1. page' = [page EXCEPT ![u].busy = TRUE] /\ AsksForQuote(w) /\ Refresh(w, u, page[u].units)
    BY <1>2 DEF Load
  <2>2. page' \in [Users -> Pages]
    BY <2>1, BusyType
  <2>3. WorkersOK'
    BY <2>1, ShownType, AsksForQuoteType, RefreshType
  <2>4. quotes' \in 0 .. MaxQuotes /\ visits' = visits /\ edits' = edits
    BY <2>1, AsksForQuoteType
  <2> QED
    BY <1>1, <2>2, <2>3, <2>4 DEF TypeInv, DataOK, history
<1>3. CASE ~page[u].open
  <2>1. UNCHANGED <<page, pc, loc, counters>>
    BY <1>3 DEF Load
  <2> QED
    BY <1>1, <2>1 DEF TypeInv, DataOK, WorkersOK, counters, history
<1> QED
  BY <1>2, <1>3

LEMMA LeaveType ==
  ASSUME TypeInv, NEW u \in Users, Leave(u)
  PROVE  TypeInv'
<1>1. NewPage \in Pages
  BY NothingType, StorefrontAssumption DEF Pages
<1>2. known' \in [Users -> Prices \cup {0}]
  BY DEF Leave, TypeInv, DataOK
<1>3. DataOK'
  BY <1>1, <1>2 DEF Leave, TypeInv, DataOK, counters, history
<1>4. WorkersOK'
  BY OrphanFacts DEF Leave, TypeInv, WorkersOK
<1> QED
  BY <1>3, <1>4 DEF TypeInv

\* A change to the quote that is shown.
LEMMA QuoteFacts ==
  ASSUME TypeInv, NEW w \in Workers, NEW u \in Users, Quote(w, u)
  PROVE  /\ page' = [page EXCEPT ![u].busy = TRUE] /\ AsksForQuote(w)
         /\ UNCHANGED <<price, coupon, points, known, orders, history>>
         /\ \E l \in Locals :
              /\ loc' = [loc EXCEPT ![w] = l]
              /\ l.kind = "change" /\ l.user = u /\ l.units = page[u].units /\ l.of = NoPrice
              /\ l.offered =>
                   /\ Shown(u).fresh /\ l.used = Shown(u).of.used
                   /\ Offered(l.points, Shown(u).of.base, page[u].units, Shown(u).available)
<1> DEFINE q == Shown(u)
           new == Request("change", u, page[u].units)
           Fits(l) == /\ l \in Locals /\ l.kind = "change" /\ l.user = u /\ l.units = page[u].units /\ l.of = NoPrice
                      /\ l.offered =>
                           /\ q.fresh /\ l.used = q.of.used
                           /\ Offered(l.points, q.of.base, page[u].units, q.available)
<1>1. /\ page' = [page EXCEPT ![u].busy = TRUE] /\ AsksForQuote(w)
      /\ UNCHANGED <<price, coupon, points, known, orders, history>>
  BY DEF Quote
<1>2. /\ new \in Locals /\ new.kind = "change" /\ new.user = u /\ new.units = page[u].units
      /\ new.offered = FALSE /\ new.of = NoPrice
  <2>1. PICK units \in 0 .. MaxUnits : units = page[u].units
    BY ShownType
  <2>2. /\ Request("change", u, units) \in Locals /\ Request("change", u, units).kind = "change"
        /\ Request("change", u, units).user = u /\ Request("change", u, units).units = units
    BY AskingIs, RequestFacts, ZenonT(60)
  <2>3. Request("change", u, units).offered = FALSE /\ Request("change", u, units).of = NoPrice
    BY DEF Request, NoLocals
  <2> QED
    BY <2>1, <2>2, <2>3
<1>3. q.of.used \in BOOLEAN /\ q.of.points \in Nat /\ q.fresh \in BOOLEAN
  BY ShownType
<1>4. \/ loc' = [loc EXCEPT ![w] = [new EXCEPT !.used = ~q.of.used, !.points = q.of.points]]
      \/ \E p \in PointsChoices :
           /\ Offered(p, q.of.base, page[u].units, q.available)
           /\ loc' = [loc EXCEPT ![w] = [new EXCEPT !.used = q.of.used, !.points = p, !.offered = q.fresh]]
      \/ loc' = [loc EXCEPT ![w] = [new EXCEPT !.used = q.of.used]]
  BY DEF Quote
<1> HIDE DEF q, new
<1>5. ASSUME NEW b \in BOOLEAN, NEW p \in Nat
      PROVE  Fits([new EXCEPT !.used = b, !.points = p]) /\ Fits([new EXCEPT !.used = b])
  BY <1>2 DEF Locals
<1>6. ASSUME NEW p \in PointsChoices, Offered(p, q.of.base, page[u].units, q.available)
      PROVE  Fits([new EXCEPT !.used = q.of.used, !.points = p, !.offered = q.fresh])
  <2>1. p \in Nat
    BY StorefrontAssumption
  <2> QED
    BY <1>2, <1>3, <1>6, <2>1 DEF Locals
<1>7. PICK l : Fits(l) /\ loc' = [loc EXCEPT ![w] = l]
  <2>1. (~q.of.used) \in BOOLEAN
    OBVIOUS
  <2> HIDE DEF Fits
  <2> QED
    BY <1>3, <1>4, <1>5, <1>6, <2>1
<1> QED
  BY <1>1, <1>7 DEF q

LEMMA QuoteType ==
  ASSUME TypeInv, NEW w \in Workers, NEW u \in Users, Quote(w, u)
  PROVE  TypeInv'
<1>1. PICK l \in Locals : l.user = u /\ loc' = [loc EXCEPT ![w] = l]
  BY QuoteFacts
<1>2. page' = [page EXCEPT ![u].busy = TRUE] /\ AsksForQuote(w) /\ UNCHANGED <<price, coupon, points, known, orders, history>>
  BY QuoteFacts
<1>3. WorkersOK'
  BY <1>1, <1>2, AsksForQuoteType, AsksType
<1>4. page' \in [Users -> Pages]
  BY <1>2, BusyType
<1>5. quotes' \in 0 .. MaxQuotes /\ visits' = visits /\ edits' = edits
  BY <1>2, AsksForQuoteType
<1> QED
  BY <1>2, <1>3, <1>4, <1>5 DEF TypeInv, DataOK, history

\* The order that is sent.
Ordered(u) ==
  [Request("place", u, page[u].units) EXCEPT
     !.used = Shown(u).of.used, !.points = Shown(u).of.points,
     !.fair = Shown(u).fresh, !.to = Shown(u).of.amount]

LEMMA PlaceFacts ==
  ASSUME TypeInv, NEW w \in Workers, NEW u \in Users, Place(w, u)
  PROVE  /\ Asks(w) /\ loc' = [loc EXCEPT ![w] = Ordered(u)]
         /\ UNCHANGED <<price, coupon, points, known, page, orders, counters, history>>
         /\ Ordered(u) \in Locals /\ Ordered(u).kind = "place" /\ Ordered(u).user = u
         /\ Ordered(u).units = page[u].units /\ Ordered(u).used = Shown(u).of.used
         /\ Ordered(u).points = Shown(u).of.points /\ Ordered(u).fair = Shown(u).fresh
         /\ Ordered(u).to = Shown(u).of.amount /\ Ordered(u).offered = FALSE /\ Ordered(u).of = NoPrice
<1>1. /\ Asks(w) /\ loc' = [loc EXCEPT ![w] = Ordered(u)]
      /\ UNCHANGED <<price, coupon, points, known, page, orders, counters, history>>
  BY DEF Place, Ordered
<1> DEFINE new == Request("place", u, page[u].units)
<1>2. /\ new \in Locals /\ new.kind = "place" /\ new.user = u /\ new.units = page[u].units
      /\ new.offered = FALSE /\ new.of = NoPrice
  <2>1. PICK units \in 0 .. MaxUnits : units = page[u].units
    BY ShownType
  <2>2. /\ Request("place", u, units) \in Locals /\ Request("place", u, units).kind = "place"
        /\ Request("place", u, units).user = u /\ Request("place", u, units).units = units
    BY AskingIs, RequestFacts, ZenonT(60)
  <2>3. Request("place", u, units).offered = FALSE /\ Request("place", u, units).of = NoPrice
    BY DEF Request, NoLocals
  <2> QED
    BY <2>1, <2>2, <2>3
<1>3. /\ Shown(u).of.used \in BOOLEAN /\ Shown(u).of.points \in Nat /\ Shown(u).of.amount \in Nat
      /\ Shown(u).fresh \in BOOLEAN
  BY ShownType
<1> HIDE DEF new
<1>4. Ordered(u) = [new EXCEPT !.used = Shown(u).of.used, !.points = Shown(u).of.points,
                               !.fair = Shown(u).fresh, !.to = Shown(u).of.amount]
  BY DEF Ordered, new
<1> QED
  BY <1>1, <1>2, <1>3, <1>4 DEF Locals

LEMMA PlaceType ==
  ASSUME TypeInv, NEW w \in Workers, NEW u \in Users, Place(w, u)
  PROVE  TypeInv'
<1>1. WorkersOK'
  <2>1. Asks(w) /\ loc' = [loc EXCEPT ![w] = Ordered(u)] /\ Ordered(u) \in Locals /\ Ordered(u).user \in Users
    BY PlaceFacts
  <2> QED
    BY <2>1, AsksType
<1>2. DataOK'
  BY PlaceFacts DEF TypeInv, DataOK, counters, history
<1> QED
  BY <1>1, <1>2 DEF TypeInv

LEMMA ReadPriceType ==
  ASSUME TypeInv, NEW w \in Workers, ReadPrice(w)
  PROVE  TypeInv'
<1> DEFINE l == [loc[w] EXCEPT !.price = price]
<1>1. loc' = [loc EXCEPT ![w] = l]
  BY DEF ReadPrice, TypeInv, WorkersOK
<1>2. loc[w] \in Locals /\ loc[w].user \in Users
  BY DEF ReadPrice, TypeInv, WorkersOK
<1>3. price \in Nat
  BY StorefrontAssumption DEF TypeInv, DataOK
<1>4. l \in Locals /\ l.user \in Users
  BY <1>2, <1>3 DEF Locals
<1>5. WorkersOK'
  <2>1. GoTo(w, "discount")
    BY DEF ReadPrice
  <2>2. loc \in [Workers -> Locals] /\ "discount" \in Labels /\ "discount" \notin Taking
    BY DEF TypeInv, WorkersOK, Labels, Taking
  <2> HIDE DEF l
  <2> QED
    BY <1>1, <1>4, <2>1, <2>2, MoveType
<1>6. DataOK'
  BY DEF ReadPrice, TypeInv, DataOK, counters, history
<1> QED
  BY <1>5, <1>6 DEF TypeInv

\* A request ends.
LEMMA EndsType ==
  ASSUME TypeInv, NEW w \in Workers, Ends(w)
  PROVE  WorkersOK'
<1>1. loc \in [Workers -> Locals] /\ "idle" \in Labels /\ "idle" \notin Taking
  BY DEF TypeInv, WorkersOK, Labels, Taking
<1>2. GoTo(w, "idle") /\ loc' = [loc EXCEPT ![w] = NoLocals]
  BY DEF Ends
<1> QED
  BY <1>1, <1>2, MoveType, NothingType

\* The price a request makes.
Made(w) == Pricing(loc[w].price, loc[w].units, coupon.terms, loc[w].used, loc[w].points)

\* What a request has when its price is made.
Quotation(w) ==
  [Kept(loc[w]) EXCEPT !.of = Made(w), !.units = loc[w].units,
                       !.available = points[loc[w].user], !.fair = loc[w].fair]
Charge(w) == [Kept(loc[w]) EXCEPT !.of = Made(w), !.to = IF loc[w].fair THEN loc[w].to ELSE Made(w).amount]

\* calculateCheckoutPricing does not throw.
Allowed(w) ==
  /\ loc[w].used => CouponAllowed(loc[w].user, loc[w].price * loc[w].units)
  /\ Redeemable(loc[w].points, Made(w).base, loc[w].units, points[loc[w].user])

\* No quote of a page is another one than it was, or for other units, and fresh.
PagesKept ==
  \A u \in Users : \/ ~page'[u].quote.fresh
                   \/ page'[u].units = page[u].units /\ page'[u].quote = page[u].quote

\* A page has its answer.
LEMMA AnsweredFacts ==
  ASSUME TypeInv, NEW w \in Workers, loc[w].user \in Users, NEW quote \in Quotes, Answered(w, quote)
  PROVE  /\ page' \in [Users -> Pages]
         /\ \A u \in Users :
              /\ page'[u].units = page[u].units
              /\ page'[u].quote = IF loc[w].here /\ u = loc[w].user THEN quote ELSE page[u].quote
<1> DEFINE x == loc[w].user
           new == [page[x] EXCEPT !.busy = FALSE, !.quote = quote]
<1>1. page[x] \in Pages
  BY DEF TypeInv, DataOK
<1>2. new \in Pages /\ new.units = page[x].units /\ new.quote = quote
  BY <1>1 DEF Pages
<1>3. CASE loc[w].here
  <2>1. page' = [page EXCEPT ![x] = new]
    BY <1>3 DEF Answered
  <2> HIDE DEF new, x
  <2>2. x \in Users
    BY DEF x
  <2>3. page \in [Users -> Pages]
    BY DEF TypeInv, DataOK
  <2> QED
    BY <1>2, <1>3, <2>1, <2>2, <2>3 DEF x
<1>4. CASE ~loc[w].here
  BY <1>4 DEF Answered, TypeInv, DataOK
<1> QED
  BY <1>3, <1>4

LEMMA DiscountCases ==
  ASSUME TypeInv, NEW w \in Workers, Discount(w)
  PROVE  /\ pc[w] = "discount" /\ UNCHANGED <<price, coupon, points, known, orders, counters>>
         /\ page' \in [Users -> Pages] /\ PagesKept
         /\ \A u \in Users : page'[u].units = page[u].units /\ page'[u].quote = page[u].quote
         /\ \/ /\ Allowed(w) /\ denied' = denied
               /\ crowded' = (crowded \/ (loc[w].kind = "place" /\ loc[w].used /\ UsingCoupon # {}))
               /\ Made(w) \in PriceRecords /\ NetTotal(Made(w)) = Made(w).amount
               /\ \/ loc[w].kind # "place" /\ GoTo(w, "quoted") /\ loc' = [loc EXCEPT ![w] = Quotation(w)]
                  \/ loc[w].kind = "place" /\ GoTo(w, "reserve") /\ loc' = [loc EXCEPT ![w] = Charge(w)]
            \/ /\ ~Allowed(w) /\ denied' = (denied \/ (loc[w].offered /\ loc[w].fair)) /\ crowded' = crowded
               /\ Ends(w)
<1> DEFINE l == loc[w]
<1>1. pc[w] = "discount" /\ UNCHANGED <<price, coupon, points, known, orders, counters>>
  BY DEF Discount
<1>2. l \in Locals /\ l.user \in Users
  BY <1>1 DEF TypeInv, WorkersOK
<1>3. CASE Allowed(w)
  <2>1. Made(w) \in PriceRecords /\ NetTotal(Made(w)) = Made(w).amount
    <3>1. /\ l.price \in Nat /\ l.units \in Nat /\ l.used \in BOOLEAN /\ l.points \in Nat
          /\ points[l.user] \in Nat
      BY <1>2 DEF Locals, TypeInv, DataOK
    <3>2. IsCoupon(coupon.terms)
      BY CouponsAre DEF TypeInv, DataOK
    <3>3. Redeemable(l.points, RedeemableBase(l.price, l.units, coupon.terms, l.used), l.units, points[l.user])
      BY <1>3 DEF Allowed, Made, Pricing
    <3> QED
      BY <3>1, <3>2, <3>3, PricingFacts DEF Made
  <2>2. GoTo(w, IF l.kind = "place" THEN "reserve" ELSE "quoted") /\ UNCHANGED page
    BY <1>3 DEF Discount, Allowed, Made
  <2>3. loc' = [loc EXCEPT ![w] = IF l.kind = "place" THEN Charge(w) ELSE Quotation(w)]
    BY <1>3 DEF Discount, Allowed, Made, Quotation, Charge
  <2>4. /\ denied' = denied
        /\ crowded' = (crowded \/ (loc[w].kind = "place" /\ loc[w].used /\ UsingCoupon # {}))
    BY <1>3 DEF Discount, Allowed, Made
  <2>5. page' \in [Users -> Pages]
    BY <2>2 DEF TypeInv, DataOK
  <2> QED
    BY <1>1, <1>3, <2>1, <2>2, <2>3, <2>4, <2>5 DEF PagesKept
<1>4. CASE ~Allowed(w)
  <2>1. /\ Ends(w) /\ denied' = (denied \/ (loc[w].offered /\ loc[w].fair)) /\ crowded' = crowded
        /\ IF l.kind = "place" THEN UNCHANGED page ELSE Answered(w, page[loc[w].user].quote)
    BY <1>4 DEF Discount, Allowed, Made
  <2>2. CASE UNCHANGED page
    BY <1>1, <1>4, <2>1, <2>2 DEF TypeInv, DataOK, PagesKept
  <2>3. CASE Answered(w, page[loc[w].user].quote)
    <3>1. page[loc[w].user].quote \in Quotes
      BY <1>2 DEF TypeInv, DataOK, Pages
    <3>2. /\ page' \in [Users -> Pages]
          /\ \A u \in Users : page'[u].units = page[u].units /\ page'[u].quote = page[u].quote
      BY <1>2, <2>3, <3>1, AnsweredFacts
    <3> QED
      BY <1>1, <1>4, <2>1, <3>2 DEF PagesKept
  <2> QED
    BY <2>1, <2>2, <2>3
<1> QED
  BY <1>3, <1>4

LEMMA QuotationFacts ==
  ASSUME TypeInv, NEW w \in Workers, pc[w] # "idle", Made(w) \in PriceRecords
  PROVE  /\ Quotation(w) \in Locals /\ Quotation(w).kind = loc[w].kind /\ Quotation(w).user = loc[w].user
         /\ Quotation(w).of = Made(w) /\ Quotation(w).fair = loc[w].fair /\ Quotation(w).here = loc[w].here
         /\ Quotation(w).units = loc[w].units /\ Quotation(w).available = points[loc[w].user]
         /\ Charge(w) \in Locals /\ Charge(w).kind = loc[w].kind /\ Charge(w).user = loc[w].user
         /\ Charge(w).of = Made(w) /\ Charge(w).fair = FALSE
         /\ Charge(w).to = IF loc[w].fair THEN loc[w].to ELSE Made(w).amount
<1>1. loc[w] \in Locals /\ loc[w].user \in Users /\ points[loc[w].user] \in Nat
  BY DEF TypeInv, WorkersOK, DataOK
<1>2. Kept(loc[w]) \in Locals /\ Kept(loc[w]).fair = FALSE
  BY <1>1, KeptFacts DEF Kept, NoLocals
<1>3. (IF loc[w].fair THEN loc[w].to ELSE Made(w).amount) \in Nat
  BY <1>1 DEF Locals, PriceRecords
<1>4. loc[w].fair \in BOOLEAN /\ loc[w].units \in Nat
  BY <1>1 DEF Locals
<1>5. /\ Kept(loc[w]).kind = loc[w].kind /\ Kept(loc[w]).user = loc[w].user /\ Kept(loc[w]).here = loc[w].here
  BY <1>1, KeptFacts
<1>6. /\ Quotation(w) \in Locals /\ Quotation(w).kind = loc[w].kind /\ Quotation(w).user = loc[w].user
      /\ Quotation(w).of = Made(w) /\ Quotation(w).fair = loc[w].fair /\ Quotation(w).here = loc[w].here
      /\ Quotation(w).units = loc[w].units /\ Quotation(w).available = points[loc[w].user]
  BY <1>1, <1>2, <1>4, <1>5 DEF Quotation, Locals
<1>7. /\ Charge(w) \in Locals /\ Charge(w).kind = loc[w].kind /\ Charge(w).user = loc[w].user
      /\ Charge(w).of = Made(w) /\ Charge(w).fair = FALSE
      /\ Charge(w).to = IF loc[w].fair THEN loc[w].to ELSE Made(w).amount
  BY <1>2, <1>3, <1>5 DEF Charge, Locals
<1> QED
  BY <1>6, <1>7

LEMMA DiscountType ==
  ASSUME TypeInv, NEW w \in Workers, Discount(w)
  PROVE  TypeInv'
<1>1. loc \in [Workers -> Locals] /\ loc[w].user \in Users /\ pc[w] # "idle"
  BY DiscountCases DEF TypeInv, WorkersOK
<1>2. WorkersOK'
  <2>1. CASE Ends(w)
    BY <2>1, EndsType
  <2>2. CASE /\ Made(w) \in PriceRecords
             /\ loc[w].kind # "place" /\ GoTo(w, "quoted") /\ loc' = [loc EXCEPT ![w] = Quotation(w)]
    <3>1. "quoted" \in Labels /\ "quoted" \notin Taking
      BY DEF Labels, Taking
    <3> QED
      BY <1>1, <2>2, <3>1, QuotationFacts, MoveType
  <2>3. CASE /\ Made(w) \in PriceRecords
             /\ loc[w].kind = "place" /\ GoTo(w, "reserve") /\ loc' = [loc EXCEPT ![w] = Charge(w)]
    <3>1. "reserve" \in Labels
      BY DEF Labels
    <3> QED
      BY <1>1, <2>3, <3>1, QuotationFacts, MoveType
  <2> QED
    BY <2>1, <2>2, <2>3, DiscountCases
<1>3. DataOK'
  <2>1. UNCHANGED <<price, coupon, points, known, orders, counters>> /\ page' \in [Users -> Pages]
    BY DiscountCases
  <2>2. crowded' \in BOOLEAN /\ denied' \in BOOLEAN
    BY DEF Discount, TypeInv, DataOK
  <2> QED
    BY <2>1, <2>2 DEF TypeInv, DataOK, counters
<1> QED
  BY <1>2, <1>3 DEF TypeInv

\* The answer that is shown.
Answer(w) ==
  [given |-> TRUE, of |-> loc[w].of, available |-> loc[w].available,
   fresh |-> loc[w].fair /\ loc[w].units = page[loc[w].user].units]

LEMMA QuotedFacts ==
  ASSUME TypeInv, NEW w \in Workers, Quoted(w)
  PROVE  /\ pc[w] = "quoted" /\ Ends(w) /\ loc[w].user \in Users
         /\ UNCHANGED <<price, coupon, points, known, orders, counters, history>>
         /\ page' \in [Users -> Pages]
         /\ \A u \in Users :
              /\ page'[u].units = page[u].units
              /\ page'[u].quote = IF loc[w].here /\ u = loc[w].user THEN Answer(w) ELSE page[u].quote
<1>1. /\ pc[w] = "quoted" /\ Ends(w) /\ Answered(w, Answer(w))
      /\ UNCHANGED <<price, coupon, points, known, orders, counters, history>>
  BY DEF Quoted, Answer
<1>2. loc[w] \in Locals /\ loc[w].user \in Users
  BY <1>1 DEF TypeInv, WorkersOK
<1>3. (loc[w].fair /\ loc[w].units = page[loc[w].user].units) \in BOOLEAN
  OBVIOUS
<1>4. Answer(w) \in Quotes
  BY <1>2, <1>3 DEF Answer, Quotes, Locals
<1> QED
  BY <1>1, <1>2, <1>4, AnsweredFacts

LEMMA QuotedType ==
  ASSUME TypeInv, NEW w \in Workers, Quoted(w)
  PROVE  TypeInv'
<1>1. WorkersOK'
  BY QuotedFacts, EndsType
<1>2. DataOK'
  BY QuotedFacts DEF TypeInv, DataOK, counters, history
<1> QED
  BY <1>1, <1>2 DEF TypeInv

LEMMA QuoteFailsFacts ==
  ASSUME TypeInv, NEW w \in Workers, QuoteFails(w)
  PROVE  /\ pc[w] = "price" /\ Ends(w) /\ page' \in [Users -> Pages] /\ PagesKept
         /\ UNCHANGED <<price, coupon, points, known, orders, counters, history>>
<1> DEFINE q == IF loc[w].kind = "refresh" THEN NoQuote ELSE page[loc[w].user].quote
<1>1. /\ pc[w] = "price" /\ Ends(w) /\ Answered(w, q)
      /\ UNCHANGED <<price, coupon, points, known, orders, counters, history>>
  BY DEF QuoteFails
<1>2. loc[w].user \in Users
  BY <1>1 DEF TypeInv, WorkersOK
<1>3. q \in Quotes /\ (q.fresh => q = page[loc[w].user].quote)
  <2>1. page[loc[w].user].quote \in Quotes
    BY <1>2 DEF TypeInv, DataOK, Pages
  <2>2. NoQuote \in Quotes /\ NoQuote.fresh = FALSE
    BY NothingType DEF NoQuote
  <2> QED
    BY <2>1, <2>2
<1> HIDE DEF q
<1>4. /\ page' \in [Users -> Pages]
      /\ \A u \in Users :
           /\ page'[u].units = page[u].units
           /\ page'[u].quote = IF loc[w].here /\ u = loc[w].user THEN q ELSE page[u].quote
  BY <1>1, <1>2, <1>3, AnsweredFacts
<1>5. PagesKept
  BY <1>3, <1>4 DEF PagesKept
<1> QED
  BY <1>1, <1>4, <1>5

LEMMA QuoteFailsType ==
  ASSUME TypeInv, NEW w \in Workers, QuoteFails(w)
  PROVE  TypeInv'
<1>1. WorkersOK'
  BY QuoteFailsFacts, EndsType
<1>2. DataOK'
  BY QuoteFailsFacts DEF TypeInv, DataOK, counters, history
<1> QED
  BY <1>1, <1>2 DEF TypeInv

\* What a worker that takes points or an order knows.
LEMMA TakerFacts ==
  ASSUME TypeInv, NEW w \in Workers, pc[w] # "idle"
  PROVE  /\ loc[w] \in Locals /\ loc[w].user \in Users
         /\ loc[w].of.points \in Nat /\ loc[w].of.used \in BOOLEAN
         /\ points[loc[w].user] \in Nat
         /\ Kept(loc[w]) \in Locals /\ Kept(loc[w]).kind = loc[w].kind /\ Kept(loc[w]).user = loc[w].user
<1>1. loc[w] \in Locals /\ loc[w].user \in Users
  BY DEF TypeInv, WorkersOK
<1> QED
  BY <1>1, KeptFacts DEF Locals, PriceRecords, TypeInv, DataOK

LEMMA ReserveType ==
  ASSUME TypeInv, NEW w \in Workers, Reserve(w)
  PROVE  TypeInv'
<1> DEFINE u == loc[w].user
           affected == IF loc[w].of.points > 0 THEN {u} ELSE {}
<1>1. pc[w] = "reserve" /\ UNCHANGED <<price, coupon, known, orders, counters, history>>
  BY DEF Reserve
<1>2. CASE Ends(w) /\ UNCHANGED <<points, page>>
  BY <1>1, <1>2, EndsType DEF TypeInv, DataOK, counters, history
<1>3. CASE /\ loc[w].of.points <= points[u]
           /\ points' = [points EXCEPT ![u] = @ - loc[w].of.points]
           /\ GoTo(w, "create")
           /\ page' = StalePages(affected)
           /\ loc' = StaleLocals(affected)
  <2>1. u \in Users /\ loc[w].of.points \in Nat /\ points[u] \in Nat
    BY <1>1, TakerFacts
  <2>2. points' \in [Users -> Nat]
    BY <1>3, <2>1 DEF TypeInv, DataOK
  <2>3. /\ page' \in [Users -> Pages] /\ loc' \in [Workers -> Locals]
        /\ \A v \in Workers : loc'[v].kind = loc[v].kind /\ loc'[v].user = loc[v].user
    BY <1>3, StaleFacts
  <2>4. WorkersOK'
    BY <1>1, <1>3, <2>3 DEF GoTo, TypeInv, WorkersOK, Labels, Asked, Taking
  <2> QED
    BY <1>1, <2>2, <2>3, <2>4 DEF TypeInv, DataOK, counters, history
<1> QED
  BY <1>2, <1>3 DEF Reserve

LEMMA AbandonType ==
  ASSUME TypeInv, NEW w \in Workers, Abandon(w)
  PROVE  TypeInv'
<1> DEFINE us == {loc[w].user}
<1>1. pc[w] = "create" /\ page' = StalePages(us) /\ loc' = [StaleLocals(us) EXCEPT ![w] = NoLocals]
  BY DEF Abandon
<1>2. loc[w].user \in Users /\ loc[w].of.points \in Nat /\ points[loc[w].user] \in Nat
  BY <1>1, TakerFacts
<1>3. points' \in [Users -> Nat]
  BY <1>2 DEF Abandon, TypeInv, DataOK
<1>4. page' \in [Users -> Pages]
  BY <1>1, StaleFacts
<1>5. WorkersOK'
  <2>1. "idle" \in Labels /\ "idle" \notin Taking
    BY DEF Labels, Taking
  <2>2. GoTo(w, "idle")
    BY DEF Abandon
  <2> HIDE DEF us
  <2>3. /\ StaleLocals(us) \in [Workers -> Locals]
        /\ \A v \in Workers : StaleLocals(us)[v].kind = loc[v].kind /\ StaleLocals(us)[v].user = loc[v].user
    BY StaleFacts
  <2> QED
    BY <1>1, <2>1, <2>2, <2>3, MoveType, NothingType
<1> QED
  BY <1>3, <1>4, <1>5 DEF Abandon, TypeInv, DataOK, counters, history

LEMMA CreateOrderType ==
  ASSUME TypeInv, NEW w \in Workers, CreateOrder(w)
  PROVE  TypeInv'
<1> DEFINE order == [user |-> loc[w].user, used |-> loc[w].of.used, points |-> loc[w].of.points, cancelled |-> FALSE]
<1>1. /\ pc[w] = "create" /\ GoTo(w, "placed") /\ page' = StalePages(Users)
      /\ loc' = [StaleLocals(Users) EXCEPT ![w] = Kept(loc[w])]
  BY DEF CreateOrder
<1>2. orders' \in Seq(OrderRecords)
  <2>1. order \in OrderRecords
    BY <1>1, TakerFacts DEF OrderRecords
  <2>2. orders' = Append(orders, order)
    BY DEF CreateOrder
  <2> HIDE DEF order
  <2> QED
    BY <2>1, <2>2 DEF TypeInv, DataOK
<1>3. page' \in [Users -> Pages]
  BY <1>1, StaleFacts
<1>4. WorkersOK'
  <2>1. "placed" \in Labels /\ "placed" \notin Taking
    BY DEF Labels, Taking
  <2>2. /\ StaleLocals(Users) \in [Workers -> Locals]
        /\ \A v \in Workers : StaleLocals(Users)[v].kind = loc[v].kind /\ StaleLocals(Users)[v].user = loc[v].user
    BY StaleFacts
  <2> QED
    BY <1>1, <2>1, <2>2, MoveType, TakerFacts
<1> QED
  BY <1>2, <1>3, <1>4 DEF CreateOrder, TypeInv, DataOK, counters, history

LEMMA PlacedType ==
  ASSUME TypeInv, NEW w \in Workers, Placed(w)
  PROVE  TypeInv'
<1> DEFINE u == loc[w].user
<1>1. pc[w] = "placed" /\ GoTo(w, "idle") /\ UNCHANGED <<price, coupon, points, known, orders, counters, history>>
  BY DEF Placed
<1>2. CASE /\ page' = [page EXCEPT ![u] = NewPage]
           /\ loc' = [Orphans(u) EXCEPT ![w] = NoLocals]
  <2>1. "idle" \in Labels /\ "idle" \notin Taking
    BY DEF Labels, Taking
  <2>2. /\ Orphans(u) \in [Workers -> Locals]
        /\ \A v \in Workers : Orphans(u)[v].kind = loc[v].kind /\ Orphans(u)[v].user = loc[v].user
    BY OrphanFacts
  <2>3. WorkersOK'
    BY <1>1, <1>2, <2>1, <2>2, MoveType, NothingType
  <2>4. NewPage \in Pages
    BY NothingType, StorefrontAssumption DEF Pages
  <2> QED
    BY <1>1, <1>2, <2>3, <2>4 DEF TypeInv, DataOK, counters, history
<1>3. CASE loc' = [loc EXCEPT ![w] = NoLocals] /\ UNCHANGED page
  <2>1. WorkersOK'
    BY <1>1, <1>3, EndsType DEF Ends
  <2> QED
    BY <1>1, <1>3, <2>1 DEF TypeInv, DataOK, counters, history
<1> QED
  BY <1>2, <1>3 DEF Placed

LEMMA StalesType ==
  ASSUME TypeInv, Stales, UNCHANGED pc
  PROVE  page' \in [Users -> Pages] /\ WorkersOK'
<1>1. /\ page' \in [Users -> Pages] /\ loc' \in [Workers -> Locals]
      /\ \A v \in Workers : loc'[v].kind = loc[v].kind /\ loc'[v].user = loc[v].user
  BY StaleFacts DEF Stales
<1> QED
  BY <1>1 DEF TypeInv, WorkersOK

LEMMA CancelType ==
  ASSUME TypeInv, NEW i \in 1 .. Len(orders), Cancel(i)
  PROVE  TypeInv'
<1>1. orders[i] \in OrderRecords
  BY DEF TypeInv, DataOK
<1>2. orders' \in Seq(OrderRecords)
  <2>1. [orders[i] EXCEPT !.cancelled = TRUE] \in OrderRecords
    BY <1>1 DEF OrderRecords
  <2>2. orders' = [orders EXCEPT ![i] = [orders[i] EXCEPT !.cancelled = TRUE]]
    BY DEF Cancel
  <2> QED
    BY <2>1, <2>2 DEF TypeInv, DataOK
<1>3. points' \in [Users -> Nat]
  <2>1. points' = [points EXCEPT ![orders[i].user] = @ + orders[i].points]
    BY DEF Cancel
  <2>2. orders[i].user \in Users /\ orders[i].points \in Nat
    BY <1>1 DEF OrderRecords
  <2> QED
    BY <2>1, <2>2 DEF TypeInv, DataOK
<1>4. page' \in [Users -> Pages] /\ WorkersOK'
  BY StalesType DEF Cancel
<1> QED
  BY <1>2, <1>3, <1>4 DEF Cancel, TypeInv, DataOK, counters, history

LEMMA EditType ==
  ASSUME TypeInv, Edit
  PROVE  TypeInv'
<1>1. price' \in Prices
  BY DEF Edit, TypeInv, DataOK
<1>2. coupon' \in [active : BOOLEAN, terms : Coupons]
  <2>1. coupon \in [active : BOOLEAN, terms : Coupons]
    BY DEF TypeInv, DataOK
  <2>2. CASE UNCHANGED coupon
    BY <2>1, <2>2
  <2>3. CASE coupon' = [coupon EXCEPT !.active = ~@]
    BY <2>1, <2>3
  <2>4. CASE \E c \in Coupons : coupon' = [coupon EXCEPT !.terms = c]
    BY <2>1, <2>4
  <2> QED
    BY <2>2, <2>3, <2>4 DEF Edit
<1>3. edits' \in 0 .. MaxEdits
  BY StorefrontAssumption DEF Edit, TypeInv, DataOK
<1>4. page' \in [Users -> Pages] /\ WorkersOK'
  BY StalesType DEF Edit
<1> QED
  BY <1>1, <1>2, <1>3, <1>4 DEF Edit, TypeInv, DataOK, history

LEMMA NextType ==
  ASSUME TypeInv, [Next]_vars
  PROVE  TypeInv'
<1>1. CASE UNCHANGED vars
  BY <1>1 DEF vars, counters, history, TypeInv, DataOK, WorkersOK
<1>2. CASE Next
  BY <1>2, OpenType, RecountType, LoadType, LeaveType, QuoteType, PlaceType, ReadPriceType, DiscountType,
     QuotedType, QuoteFailsType, ReserveType, AbandonType, CreateOrderType, PlacedType, CancelType, EditType DEF Next
<1> QED
  BY <1>1, <1>2

\* Types: every variable keeps to its domain.
THEOREM TypesHold == Spec => []TypeOK
<1>1. Init => TypeInv
  BY InitType
<1>2. TypeInv /\ [Next]_vars => TypeInv'
  BY NextType
<1>3. TypeInv => TypeOK
  BY TypeInvIsTypeOK
<1> QED
  BY <1>1, <1>2, <1>3, PTL DEF Spec

-----------------------------------------------------------------------------
(* The invoice                                                             *)

\* Locals whose price is the one they had, or none, or one just made.
LEMMA InvoiceKept ==
  ASSUME InvoiceInv,
         \A w \in Workers : \/ loc'[w].of = loc[w].of
                            \/ NetTotal(loc'[w].of) = loc'[w].of.amount
  PROVE  InvoiceInv'
BY DEF InvoiceInv

LEMMA InvoiceStep ==
  ASSUME TypeInv, InvoiceInv, [Next]_vars
  PROVE  InvoiceInv'
<1> DEFINE Comes(l) == NetTotal(l.of) = l.of.amount
           Fine == \A w \in Workers : loc'[w].of = loc[w].of \/ NetTotal(loc'[w].of) = loc'[w].of.amount
<1>1. SUFFICES Fine
  BY InvoiceKept
<1>2. loc \in [Workers -> Locals] /\ NoLocals.of = NoPrice /\ NetTotal(NoPrice) = NoPrice.amount
  BY NothingType DEF TypeInv, WorkersOK, NoLocals
<1>3. ASSUME NEW w \in Workers, NEW l, NetTotal(l.of) = l.of.amount, NEW others,
             others \in [Workers -> Locals], \A v \in Workers : others[v].of = loc[v].of,
             loc' = [others EXCEPT ![w] = l]
      PROVE  Fine
  BY <1>3
<1>4. CASE UNCHANGED vars
  BY <1>4 DEF vars
<1>5. ASSUME NEW w \in Workers, NEW u \in Users, NEW units \in 0 .. MaxUnits, Refresh(w, u, units) PROVE Fine
  <2>0. Request("refresh", u, units).of = NoPrice
    BY DEF Request, NoLocals
  <2>1. PICK l : l = Request("refresh", u, units)
    OBVIOUS
  <2>2. l.of = NoPrice
    BY <2>0, <2>1
  <2>3. loc' = [loc EXCEPT ![w] = l]
    BY <1>5, <2>1 DEF Refresh
  <2> QED
    BY <1>2, <2>2, <2>3
<1>6. ASSUME NEW w \in Workers, NEW u \in Users, Open(w, u) \/ Recount(w, u) \/ Load(w, u) PROVE Fine
  <2>1. CASE \E units \in 1 .. MaxUnits : Refresh(w, u, units)
    <3>1. \A units \in 1 .. MaxUnits : units \in 0 .. MaxUnits
      BY StorefrontAssumption
    <3> HIDE DEF Fine
    <3> QED
      BY <1>5, <2>1, <3>1
  <2>2. CASE Refresh(w, u, page[u].units) \/ UNCHANGED loc
    BY <1>5, <2>2, ShownType
  <2> QED
    BY <1>6, <2>1, <2>2 DEF Open, Recount, Load
<1>7. ASSUME NEW u \in Users, Leave(u) PROVE Fine
  BY <1>7, OrphanFacts DEF Leave
<1>8. ASSUME NEW w \in Workers, NEW u \in Users, Quote(w, u) PROVE Fine
  BY <1>2, <1>3, <1>8, QuoteFacts
<1>9. ASSUME NEW w \in Workers, NEW u \in Users, Place(w, u) PROVE Fine
  BY <1>2, <1>3, <1>9, PlaceFacts
<1>10. ASSUME NEW w \in Workers, ReadPrice(w) PROVE Fine
  BY <1>2, <1>10 DEF ReadPrice, Locals
<1>11. ASSUME NEW w \in Workers, Discount(w) PROVE Fine
  <2>1. CASE Ends(w)
    BY <1>2, <1>3, <2>1 DEF Ends
  <2>2. CASE /\ Made(w) \in PriceRecords /\ NetTotal(Made(w)) = Made(w).amount
             /\ loc' = [loc EXCEPT ![w] = Quotation(w)] \/ loc' = [loc EXCEPT ![w] = Charge(w)]
    <3>1. Quotation(w).of = Made(w) /\ Charge(w).of = Made(w)
      BY <1>11, <2>2, QuotationFacts, DiscountCases
    <3> QED
      BY <1>2, <1>3, <2>2, <3>1
  <2> QED
    BY <1>11, <2>1, <2>2, DiscountCases
<1>12. ASSUME NEW w \in Workers, Quoted(w) \/ QuoteFails(w) PROVE Fine
  BY <1>2, <1>3, <1>12 DEF Quoted, QuoteFails, Ends
<1>13. ASSUME NEW w \in Workers, Reserve(w) PROVE Fine
  <2>1. CASE Ends(w)
    BY <1>2, <1>3, <2>1 DEF Ends
  <2>2. CASE \E us : loc' = StaleLocals(us)
    BY <2>2, StaleFacts
  <2> QED
    BY <1>13, <2>1, <2>2 DEF Reserve
<1>14. ASSUME NEW w \in Workers, Abandon(w) PROVE Fine
  <2>1. loc' = [StaleLocals({loc[w].user}) EXCEPT ![w] = NoLocals]
    BY <1>14 DEF Abandon
  <2> QED
    BY <1>2, <1>3, <2>1, StaleFacts
<1>15. ASSUME NEW w \in Workers, CreateOrder(w) PROVE Fine
  <2>1. loc' = [StaleLocals(Users) EXCEPT ![w] = Kept(loc[w])]
    BY <1>15 DEF CreateOrder
  <2>2. Kept(loc[w]).of = NoPrice
    BY <1>2, KeptFacts
  <2> QED
    BY <1>2, <1>3, <2>1, <2>2, StaleFacts
<1>16. ASSUME NEW w \in Workers, Placed(w) PROVE Fine
  <2>1. CASE loc' = [Orphans(loc[w].user) EXCEPT ![w] = NoLocals]
    BY <1>2, <1>3, <2>1, OrphanFacts
  <2>2. CASE loc' = [loc EXCEPT ![w] = NoLocals]
    BY <1>2, <1>3, <2>2
  <2> QED
    BY <1>16, <2>1, <2>2 DEF Placed
<1>17. ASSUME NEW i \in 1 .. Len(orders), Cancel(i) PROVE Fine
  BY <1>17, StaleFacts DEF Cancel, Stales
<1>18. ASSUME Edit PROVE Fine
  BY <1>18, StaleFacts DEF Edit, Stales
<1> HIDE DEF Fine
<1> QED
  BY <1>4, <1>6, <1>7, <1>8, <1>9, <1>10, <1>11, <1>12, <1>13, <1>14, <1>15, <1>16, <1>17, <1>18 DEF Next

\* Invoices: what the courier prints comes to what the customer pays, whatever the rules on
\* coupons, delivery and points, the prices, and the order in which they change.
THEOREM InvoicesAddUp == Spec => []InvoicedAsPaid
<1>1. Init => TypeInv /\ InvoiceInv
  BY InitType, NothingType DEF Init, InvoiceInv, NoLocals
<1>2. TypeInv /\ InvoiceInv /\ [Next]_vars => (TypeInv /\ InvoiceInv)'
  BY NextType, InvoiceStep
<1>3. InvoiceInv => InvoicedAsPaid
  BY DEF InvoiceInv, InvoicedAsPaid, Charging
<1> QED
  BY <1>1, <1>2, <1>3, PTL DEF Spec

-----------------------------------------------------------------------------
(* What is shown                                                           *)

\* Nothing is made of prices and quotes but by the worker, if any, that moves.
LEMMA FairKept ==
  ASSUME ShownInv, UNCHANGED <<price, coupon>>, NEW v \in Workers,
         pc'[v] = pc[v],
         loc'[v].kind = loc[v].kind, loc'[v].units = loc[v].units,
         loc'[v].to = loc[v].to, loc'[v].price = loc[v].price, loc'[v].used = loc[v].used,
         loc'[v].points = loc[v].points, loc'[v].of = loc[v].of,
         loc'[v].fair => loc[v].fair
  PROVE  FairQuote(v)' /\ FairOrder(v)' /\ Charged(v)'
<1>1. FairQuote(v) /\ FairOrder(v) /\ Charged(v)
  BY DEF ShownInv
<1>2. \A units, used, pts : Now(units, used, pts)' = Now(units, used, pts)
  BY DEF Now
<1> QED
  BY <1>1, <1>2 DEF FairQuote, FairOrder, Charged

\* A worker that is done, or whose locals say nothing.
LEMMA NothingToShow ==
  ASSUME NEW v \in Workers, loc'[v].fair = FALSE, pc'[v] \notin Taking
  PROVE  FairQuote(v)' /\ FairOrder(v)' /\ Charged(v)'
BY DEF FairQuote, FairOrder, Charged

LEMMA PagesShown ==
  ASSUME ShownInv, UNCHANGED <<price, coupon>>, PagesKept
  PROVE  \A u \in Users : FreshQuote(u)'
<1> SUFFICES ASSUME NEW u \in Users PROVE FreshQuote(u)'
  OBVIOUS
<1>1. FreshQuote(u)
  BY DEF ShownInv
<1>2. \A units, used, pts : Now(units, used, pts)' = Now(units, used, pts)
  BY DEF Now
<1> QED
  BY <1>1, <1>2 DEF FreshQuote, PagesKept

LEMMA StaleKeeps ==
  ASSUME TypeInv, ShownInv, NEW us, UNCHANGED <<price, coupon>>, page' = StalePages(us)
  PROVE  /\ \A u \in Users : FreshQuote(u)'
         /\ \A v \in Workers :
              loc'[v] = StaleLocals(us)[v] /\ pc'[v] = pc[v] =>
                FairQuote(v)' /\ FairOrder(v)' /\ Charged(v)'
<1>1. ASSUME NEW u \in Users PROVE FreshQuote(u)'
  <2>1. FreshQuote(u)
    BY DEF ShownInv
  <2>2. /\ page'[u].units = page[u].units /\ page'[u].quote.of = page[u].quote.of
        /\ page'[u].quote.fresh => page[u].quote.fresh
    BY StaleFacts
  <2> QED
    BY <2>1, <2>2 DEF FreshQuote, Now
<1>2. ASSUME NEW v \in Workers, loc'[v] = StaleLocals(us)[v], pc'[v] = pc[v]
      PROVE  FairQuote(v)' /\ FairOrder(v)' /\ Charged(v)'
  <2>1. /\ loc'[v].kind = loc[v].kind /\ loc'[v].units = loc[v].units
        /\ loc'[v].to = loc[v].to /\ loc'[v].price = loc[v].price /\ loc'[v].used = loc[v].used
        /\ loc'[v].points = loc[v].points /\ loc'[v].of = loc[v].of
        /\ loc'[v].fair => loc[v].fair
    BY <1>2, StaleFacts
  <2> QED
    BY <1>2, <2>1, FairKept
<1> QED
  BY <1>1, <1>2

\* The prices or the coupon may have changed, but nothing is fresh or fair.
LEMMA AllStale ==
  ASSUME TypeInv, ShownInv, Stales, UNCHANGED pc
  PROVE  ShownInv'
<1>1. ASSUME NEW u \in Users PROVE FreshQuote(u)'
  <2>1. ~page'[u].quote.fresh
    BY StaleFacts DEF Stales
  <2> QED
    BY <2>1 DEF FreshQuote
<1>2. ASSUME NEW v \in Workers PROVE FairQuote(v)' /\ FairOrder(v)' /\ Charged(v)'
  <2>1. Charged(v)
    BY DEF ShownInv
  <2>2. /\ loc'[v].to = loc[v].to /\ loc'[v].of = loc[v].of
        /\ loc'[v].fair => loc[v].user \notin Users
    BY StaleFacts DEF Stales
  <2>3. pc[v] # "idle" => ~loc'[v].fair
    BY <2>2 DEF TypeInv, WorkersOK
  <2>4. pc'[v] = pc[v] /\ "idle" \notin Asked /\ "idle" \notin Taking
    BY DEF Asked, Taking
  <2>5. FairQuote(v)'
    BY <2>3, <2>4 DEF FairQuote
  <2>6. FairOrder(v)' /\ Charged(v)'
    BY <2>1, <2>2, <2>3, <2>4 DEF FairOrder, Charged
  <2> QED
    BY <2>5, <2>6
<1> QED
  BY <1>1, <1>2 DEF ShownInv

\* Only w moves, and no page has another fresh quote.
LEMMA MoveShown ==
  ASSUME TypeInv, ShownInv, UNCHANGED <<price, coupon>>, PagesKept,
         NEW w \in Workers, NEW label, NEW l, GoTo(w, label), loc' = [loc EXCEPT ![w] = l],
         FairQuote(w)' /\ FairOrder(w)' /\ Charged(w)'
  PROVE  ShownInv'
<1>1. ASSUME NEW v \in Workers, v # w PROVE FairQuote(v)' /\ FairOrder(v)' /\ Charged(v)'
  <2>1. pc'[v] = pc[v] /\ loc'[v] = loc[v]
    BY <1>1 DEF GoTo, TypeInv, WorkersOK
  <2> QED
    BY <2>1, FairKept
<1> QED
  BY <1>1, PagesShown DEF ShownInv

LEMMA EndsShown ==
  ASSUME TypeInv, ShownInv, UNCHANGED <<price, coupon>>, PagesKept, NEW w \in Workers, Ends(w)
  PROVE  ShownInv'
<1>1. loc'[w] = NoLocals /\ pc'[w] = "idle" /\ "idle" \notin Taking
  BY DEF Ends, GoTo, TypeInv, WorkersOK, Taking
<1>2. NoLocals.fair = FALSE
  BY DEF NoLocals
<1>3. FairQuote(w)' /\ FairOrder(w)' /\ Charged(w)'
  BY <1>1, <1>2, NothingToShow
<1> QED
  BY <1>3, MoveShown DEF Ends

\* A quote is asked for.
LEMMA AsksShown ==
  ASSUME TypeInv, ShownInv, UNCHANGED <<price, coupon>>, PagesKept,
         NEW w \in Workers, Asks(w), NEW l, l.kind # "place", loc' = [loc EXCEPT ![w] = l]
  PROVE  ShownInv'
<1>1. GoTo(w, "price")
  BY DEF Asks
<1>2. loc'[w] = l /\ pc'[w] = "price" /\ "price" \notin Taking
  BY <1>1 DEF GoTo, TypeInv, WorkersOK, Taking
<1>3. FairQuote(w)' /\ FairOrder(w)' /\ Charged(w)'
  BY <1>2 DEF FairQuote, FairOrder, Charged
<1> QED
  BY <1>1, <1>3, MoveShown

\* A page that opens, or counts again, has no quote; one whose catalogue comes keeps it.
LEMMA RefreshCases ==
  ASSUME TypeInv, NEW w \in Workers, NEW u \in Users, Open(w, u) \/ Recount(w, u) \/ Load(w, u)
  PROVE  /\ UNCHANGED <<price, coupon, points, orders, history>> /\ PagesKept
         /\ \/ UNCHANGED <<page, pc, loc>>
            \/ Asks(w) /\ \E units \in 0 .. MaxUnits : Refresh(w, u, units)
<1>1. UNCHANGED <<price, coupon, points, orders, history>>
  BY DEF Open, Recount, Load
<1>2. CASE Open(w, u) \/ Recount(w, u)
  <2>1. PICK units \in 1 .. MaxUnits :
          page' = [page EXCEPT ![u] = Opened(units)] /\ Asks(w) /\ Refresh(w, u, units)
    BY <1>2 DEF Open, Recount, AsksForQuote
  <2>2. NoQuote.fresh = FALSE
    BY DEF NoQuote
  <2>3. Opened(units).quote = NoQuote /\ units \in 0 .. MaxUnits
    BY OpenedFacts
  <2>4. PagesKept
    BY <2>1, <2>2, <2>3 DEF PagesKept, TypeInv, DataOK
  <2> QED
    BY <1>1, <2>1, <2>3, <2>4
<1>3. CASE Load(w, u) /\ page[u].open
  <2>1. page' = [page EXCEPT ![u].busy = TRUE] /\ Asks(w) /\ Refresh(w, u, page[u].units)
    BY <1>3 DEF Load, AsksForQuote
  <2>2. PagesKept
    BY <2>1, BusyType DEF PagesKept
  <2> QED
    BY <1>1, <2>1, <2>2, ShownType
<1>4. CASE Load(w, u) /\ ~page[u].open
  <2>1. UNCHANGED <<page, pc, loc>>
    BY <1>4 DEF Load
  <2> QED
    BY <1>1, <2>1 DEF PagesKept
<1> QED
  BY <1>2, <1>3, <1>4

LEMMA RefreshShown ==
  ASSUME TypeInv, ShownInv, NEW w \in Workers, NEW u \in Users, Open(w, u) \/ Recount(w, u) \/ Load(w, u)
  PROVE  ShownInv'
<1>1. UNCHANGED <<price, coupon>> /\ PagesKept
  BY RefreshCases
<1>2. CASE UNCHANGED <<page, pc, loc>>
  BY <1>1, <1>2 DEF ShownInv, FreshQuote, FairQuote, FairOrder, Charged, Now
<1>3. CASE Asks(w) /\ \E units \in 0 .. MaxUnits : Refresh(w, u, units)
  <2>1. PICK units \in 0 .. MaxUnits : loc' = [loc EXCEPT ![w] = Request("refresh", u, units)]
    BY <1>3 DEF Refresh
  <2>2. Request("refresh", u, units).kind = "refresh"
    BY AskingIs, RequestFacts, ZenonT(60)
  <2> QED
    BY <1>1, <1>3, <2>1, <2>2, AsksShown
<1> QED
  BY <1>2, <1>3, RefreshCases

\* A page that is left has no quote.
LEMMA UnseenPages ==
  ASSUME TypeInv, NEW u \in Users, page' = [page EXCEPT ![u] = NewPage]
  PROVE  PagesKept
<1>1. page'[u] = NewPage /\ \A x \in Users : x # u => page'[x] = page[x]
  BY DEF TypeInv, DataOK
<1>2. NewPage.quote.fresh = FALSE
  BY DEF NewPage, NoQuote
<1> QED
  BY <1>1, <1>2 DEF PagesKept

LEMMA OrphansShown ==
  ASSUME TypeInv, ShownInv, NEW u, UNCHANGED <<price, coupon>>
  PROVE  \A v \in Workers :
           loc'[v] = Orphans(u)[v] /\ pc'[v] = pc[v] => FairQuote(v)' /\ FairOrder(v)' /\ Charged(v)'
BY OrphanFacts, FairKept

LEMMA LeaveShown ==
  ASSUME TypeInv, ShownInv, NEW u \in Users, Leave(u)
  PROVE  ShownInv'
BY OrphansShown, PagesShown, UnseenPages DEF Leave, ShownInv

LEMMA QuoteShown ==
  ASSUME TypeInv, ShownInv, NEW w \in Workers, NEW u \in Users, Quote(w, u)
  PROVE  ShownInv'
<1>1. page' = [page EXCEPT ![u].busy = TRUE] /\ UNCHANGED <<price, coupon>> /\ Asks(w)
  BY DEF Quote, AsksForQuote
<1>2. PagesKept
  BY <1>1, BusyType DEF PagesKept
<1>3. PICK l \in Locals : l.kind = "change" /\ loc' = [loc EXCEPT ![w] = l]
  BY QuoteFacts
<1>4. l.kind # "place"
  BY <1>3
<1> QED
  BY <1>1, <1>2, <1>3, <1>4, AsksShown

\* Without a preview the page shows what the server charges, if it knows the price.
LEMMA LocalIsPrice ==
  ASSUME TypeInv, NEW units \in Nat, price * units > 0
  PROVE  LocalPrice(price, units).amount = Now(units, FALSE, 0).amount
<1> DEFINE subtotal == price * units
<1>1. price \in Nat /\ DeliveryCharge \in Nat /\ PointValue \in Nat
  BY StorefrontAssumption, RulesAssumption DEF TypeInv, DataOK
<1>2. subtotal \in Nat /\ subtotal # 0
  BY <1>1
<1>3. LocalPrice(price, units).amount = subtotal + DeliveryCharge
  <2>1. LocalPrice(price, units) =
          [NoPrice EXCEPT !.subtotal = subtotal, !.fee = DeliveryCharge, !.base = subtotal + DeliveryCharge,
                          !.amount = subtotal + DeliveryCharge]
    BY <1>2 DEF LocalPrice
  <2> HIDE DEF subtotal
  <2> QED
    BY <2>1 DEF NoPrice
<1>4. DeliveryFee(coupon.terms, FALSE) = DeliveryCharge
  BY DEF DeliveryFee
<1>5. Redeemed(0, RedeemableBase(price, units, coupon.terms, FALSE)) = 0
  BY DEF Redeemed
<1>6. Now(units, FALSE, 0).amount = AtLeast0(subtotal + DeliveryCharge - (0 + 0 * PointValue))
  BY <1>4, <1>5 DEF Now, Pricing
<1> HIDE DEF subtotal
<1>7. PICK total : total = subtotal + DeliveryCharge
  OBVIOUS
<1>8. total \in Nat /\ subtotal + DeliveryCharge - (0 + 0 * PointValue) = total
  BY <1>1, <1>2, <1>7
<1>9. AtLeast0(total) = total
  BY <1>8 DEF AtLeast0
<1>10. Now(units, FALSE, 0).amount = AtLeast0(total)
  BY <1>6, <1>8, Zenon
<1> QED
  BY <1>3, <1>7, <1>9, <1>10, Zenon

\* What the page shows is the price as things are now, if it holds.
LEMMA ShownHolds ==
  ASSUME TypeInv, ShownInv, NEW u \in Users, Shown(u).fresh
  PROVE  Shown(u).of.amount = Now(page[u].units, Shown(u).of.used, Shown(u).of.points).amount
<1>1. CASE page[u].quote.given
  BY <1>1 DEF Shown, ShownInv, FreshQuote
<1>2. CASE ~page[u].quote.given
  <2>1. Shown(u) = Local(u)
    BY <1>2 DEF Shown
  <2>2. /\ Local(u).of = LocalPrice(known[u], page[u].units)
        /\ Local(u).fresh = (known[u] = price /\ price * page[u].units > 0)
    BY DEF Local, NoQuote
  <2>3. LocalPrice(known[u], page[u].units).used = FALSE /\ LocalPrice(known[u], page[u].units).points = 0
    BY DEF LocalPrice, NoPrice
  <2>4. known[u] = price /\ page[u].units \in Nat /\ price * page[u].units > 0
    BY <2>1, <2>2, ShownType
  <2>5. LocalPrice(price, page[u].units).amount = Now(page[u].units, FALSE, 0).amount
    BY <2>4, LocalIsPrice
  <2>6. Shown(u).of = LocalPrice(price, page[u].units)
    BY <2>1, <2>2, <2>4
  <2>7. Shown(u).of.used = FALSE /\ Shown(u).of.points = 0
    BY <2>3, <2>4, <2>6
  <2> QED
    BY <2>5, <2>6, <2>7
<1> QED
  BY <1>1, <1>2

LEMMA PlaceShown ==
  ASSUME TypeInv, ShownInv, NEW w \in Workers, NEW u \in Users, Place(w, u)
  PROVE  ShownInv'
<1> DEFINE l == Ordered(u)
<1>1. /\ GoTo(w, "price") /\ UNCHANGED <<price, coupon, page>> /\ loc' = [loc EXCEPT ![w] = l]
      /\ l.kind = "place" /\ l.units = page[u].units /\ l.used = Shown(u).of.used
      /\ l.points = Shown(u).of.points /\ l.fair = Shown(u).fresh /\ l.to = Shown(u).of.amount
  <2>1. Asks(w) /\ UNCHANGED <<price, coupon, page>> /\ loc' = [loc EXCEPT ![w] = l]
    BY PlaceFacts
  <2>2. /\ l.kind = "place" /\ l.units = page[u].units /\ l.used = Shown(u).of.used
        /\ l.points = Shown(u).of.points /\ l.fair = Shown(u).fresh /\ l.to = Shown(u).of.amount
    BY PlaceFacts
  <2> QED
    BY <2>1, <2>2 DEF Asks
<1>2. pc'[w] = "price" /\ loc'[w] = l /\ "price" \notin Taking
  BY <1>1 DEF GoTo, TypeInv, WorkersOK, Taking
<1>3. l.fair => l.to = Now(l.units, l.used, l.points).amount
  BY <1>1, ShownHolds
<1>4. \A units, used, pts : Now(units, used, pts)' = Now(units, used, pts)
  BY <1>1 DEF Now
<1>5. PagesKept
  BY <1>1 DEF PagesKept
<1> HIDE DEF l
<1>6. FairQuote(w)' /\ FairOrder(w)' /\ Charged(w)'
  BY <1>2, <1>3, <1>4 DEF FairQuote, FairOrder, Charged
<1> QED
  BY <1>1, <1>5, <1>6, MoveShown

LEMMA ReadPriceShown ==
  ASSUME TypeInv, ShownInv, NEW w \in Workers, ReadPrice(w)
  PROVE  ShownInv'
<1> DEFINE l == [loc[w] EXCEPT !.price = price]
<1>1. pc[w] = "price" /\ GoTo(w, "discount") /\ UNCHANGED <<price, coupon, page>> /\ PagesKept
  BY DEF ReadPrice, PagesKept
<1>2. loc' = [loc EXCEPT ![w] = l]
  BY DEF ReadPrice, TypeInv, WorkersOK
<1>3. /\ l.kind = loc[w].kind /\ l.units = loc[w].units
      /\ l.to = loc[w].to /\ l.used = loc[w].used /\ l.points = loc[w].points /\ l.fair = loc[w].fair
      /\ l.price = price
  BY DEF TypeInv, WorkersOK, Locals
<1> HIDE DEF l
<1>4. pc'[w] = "discount" /\ loc'[w] = l /\ pc[w] \in Asked /\ "discount" \notin Taking
  BY <1>1, <1>2 DEF GoTo, TypeInv, WorkersOK, Asked, Taking
<1>5. \A units, used, pts : Now(units, used, pts)' = Now(units, used, pts)
  BY <1>1 DEF Now
<1>6. FairOrder(w)
  BY DEF ShownInv
<1>7. FairQuote(w)'
  BY <1>4 DEF FairQuote
<1>8. FairOrder(w)' /\ Charged(w)'
  BY <1>1, <1>3, <1>4, <1>5, <1>6 DEF FairOrder, Charged
<1> QED
  BY <1>1, <1>2, <1>7, <1>8, MoveShown

LEMMA DiscountShown ==
  ASSUME TypeInv, ShownInv, NEW w \in Workers, Discount(w)
  PROVE  ShownInv'
<1>1. pc[w] = "discount" /\ UNCHANGED <<price, coupon>> /\ PagesKept /\ pc[w] \in Asked /\ pc[w] # "idle"
  BY DiscountCases DEF Asked
<1>2. FairOrder(w)
  BY DEF ShownInv
<1>3. loc[w].fair => Made(w) = Now(loc[w].units, loc[w].used, loc[w].points)
  BY <1>1, <1>2 DEF FairOrder, Made, Now
<1>4. \A units, used, pts : Now(units, used, pts)' = Now(units, used, pts)
  BY <1>1 DEF Now
<1>5. CASE Ends(w)
  BY <1>1, <1>5, EndsShown
<1>6. CASE /\ Made(w) \in PriceRecords
           /\ loc[w].kind # "place" /\ GoTo(w, "quoted") /\ loc' = [loc EXCEPT ![w] = Quotation(w)]
  <2>1. pc'[w] = "quoted" /\ loc'[w] = Quotation(w)
    BY <1>6 DEF GoTo, TypeInv, WorkersOK
  <2>2. Quotation(w).of = Made(w) /\ Quotation(w).fair = loc[w].fair /\ Quotation(w).units = loc[w].units
    BY <1>1, <1>6, QuotationFacts
  <2>3. loc[w].fair =>
          Made(w) = Now(loc[w].units, Made(w).used, Made(w).points)
    BY <1>3, PricingAgain DEF Now
  <2>4. "quoted" \notin Taking /\ "quoted" \notin Asked
    BY DEF Taking, Asked
  <2>5. FairQuote(w)'
    BY <1>4, <2>1, <2>2, <2>3 DEF FairQuote
  <2>6. FairOrder(w)' /\ Charged(w)'
    BY <2>1, <2>4 DEF FairOrder, Charged
  <2> QED
    BY <1>1, <1>6, <2>5, <2>6, MoveShown
<1>7. CASE /\ Made(w) \in PriceRecords
           /\ loc[w].kind = "place" /\ GoTo(w, "reserve") /\ loc' = [loc EXCEPT ![w] = Charge(w)]
  <2>1. pc'[w] = "reserve" /\ loc'[w] = Charge(w)
    BY <1>7 DEF GoTo, TypeInv, WorkersOK
  <2>2. /\ Charge(w).of = Made(w) /\ Charge(w).fair = FALSE
        /\ Charge(w).to = IF loc[w].fair THEN loc[w].to ELSE Made(w).amount
    BY <1>1, <1>7, QuotationFacts
  <2>3. loc[w].fair => loc[w].to = Made(w).amount
    BY <1>1, <1>2, <1>3, <1>7 DEF FairOrder
  <2>4. FairQuote(w)' /\ FairOrder(w)' /\ Charged(w)'
    BY <2>1, <2>2, <2>3 DEF FairQuote, FairOrder, Charged
  <2> QED
    BY <1>1, <1>7, <2>4, MoveShown
<1> QED
  BY <1>5, <1>6, <1>7, DiscountCases

LEMMA QuotedShown ==
  ASSUME TypeInv, ShownInv, NEW w \in Workers, Quoted(w)
  PROVE  ShownInv'
<1>1. pc[w] = "quoted" /\ Ends(w) /\ UNCHANGED <<price, coupon>>
  BY QuotedFacts
<1>2. Answer(w).fresh = (loc[w].fair /\ loc[w].units = page[loc[w].user].units) /\ Answer(w).of = loc[w].of
  BY DEF Answer
<1>3. \A units, used, pts : Now(units, used, pts)' = Now(units, used, pts)
  BY <1>1 DEF Now
<1>4. FairQuote(w)
  BY DEF ShownInv
<1>5. ASSUME NEW u \in Users PROVE FreshQuote(u)'
  <2>1. FreshQuote(u)
    BY DEF ShownInv
  <2>2. /\ page'[u].units = page[u].units
        /\ page'[u].quote = IF loc[w].here /\ u = loc[w].user THEN Answer(w) ELSE page[u].quote
    BY QuotedFacts
  <2> QED
    BY <1>1, <1>2, <1>3, <1>4, <2>1, <2>2 DEF FreshQuote, FairQuote
<1>6. ASSUME NEW v \in Workers PROVE FairQuote(v)' /\ FairOrder(v)' /\ Charged(v)'
  <2>1. CASE v = w
    <3>1. loc'[w] = NoLocals /\ pc'[w] = "idle" /\ "idle" \notin Taking
      BY <1>1 DEF Ends, GoTo, TypeInv, WorkersOK, Taking
    <3>2. NoLocals.fair = FALSE
      BY DEF NoLocals
    <3> QED
      BY <2>1, <3>1, <3>2, NothingToShow
  <2>2. CASE v # w
    <3>1. pc'[v] = pc[v] /\ loc'[v] = loc[v]
      BY <1>1, <2>2 DEF Ends, GoTo, TypeInv, WorkersOK
    <3> QED
      BY <1>1, <3>1, FairKept
  <2> QED
    BY <2>1, <2>2
<1> QED
  BY <1>5, <1>6 DEF ShownInv

LEMMA QuoteFailsShown ==
  ASSUME TypeInv, ShownInv, NEW w \in Workers, QuoteFails(w)
  PROVE  ShownInv'
BY QuoteFailsFacts, EndsShown

LEMMA ReserveShown ==
  ASSUME TypeInv, ShownInv, NEW w \in Workers, Reserve(w)
  PROVE  ShownInv'
<1>1. pc[w] = "reserve" /\ UNCHANGED <<price, coupon>>
  BY DEF Reserve
<1>2. CASE Ends(w) /\ UNCHANGED page
  BY <1>1, <1>2, EndsShown DEF PagesKept
<1>3. CASE GoTo(w, "create") /\ \E us : page' = StalePages(us) /\ loc' = StaleLocals(us)
  <2>1. PICK us : page' = StalePages(us) /\ loc' = StaleLocals(us)
    BY <1>3
  <2>2. /\ loc'[w].kind = loc[w].kind /\ loc'[w].of = loc[w].of /\ loc'[w].to = loc[w].to
    BY <2>1, StaleFacts
  <2>3. pc'[w] = "create" /\ pc[w] \in Taking /\ loc[w].kind = "place" /\ "create" \notin Asked
    BY <1>1, <1>3 DEF GoTo, TypeInv, WorkersOK, Taking, Asked
  <2>4. FairQuote(w)' /\ FairOrder(w)' /\ Charged(w)'
    BY <2>2, <2>3 DEF ShownInv, FairQuote, FairOrder, Charged
  <2>5. \A v \in Workers : v # w => pc'[v] = pc[v]
    BY <1>3 DEF GoTo, TypeInv, WorkersOK
  <2> QED
    BY <1>1, <2>1, <2>4, <2>5, StaleKeeps DEF ShownInv
<1> QED
  BY <1>2, <1>3 DEF Reserve

\* A worker is done with its order, and quotes are stale.
LEMMA DoneShown ==
  ASSUME TypeInv, ShownInv, NEW w \in Workers, NEW us, NEW label, label \notin Taking, NEW l,
         UNCHANGED <<price, coupon>>, GoTo(w, label), page' = StalePages(us),
         loc' = [StaleLocals(us) EXCEPT ![w] = l], l.fair = FALSE
  PROVE  ShownInv'
<1>1. pc'[w] = label /\ loc'[w] = l
  BY StaleFacts DEF GoTo, TypeInv, WorkersOK
<1>2. FairQuote(w)' /\ FairOrder(w)' /\ Charged(w)'
  BY <1>1, NothingToShow
<1>3. \A v \in Workers : v # w => pc'[v] = pc[v] /\ loc'[v] = StaleLocals(us)[v]
  BY StaleFacts DEF GoTo, TypeInv, WorkersOK
<1> QED
  BY <1>2, <1>3, StaleKeeps DEF ShownInv

LEMMA AbandonShown ==
  ASSUME TypeInv, ShownInv, NEW w \in Workers, Abandon(w)
  PROVE  ShownInv'
<1>1. NoLocals.fair = FALSE /\ "idle" \notin Taking
  BY DEF NoLocals, Taking
<1> QED
  BY <1>1, DoneShown DEF Abandon

LEMMA CreateOrderShown ==
  ASSUME TypeInv, ShownInv, NEW w \in Workers, CreateOrder(w)
  PROVE  ShownInv'
<1>1. Kept(loc[w]).fair = FALSE /\ "placed" \notin Taking
  BY DEF Kept, NoLocals, Taking
<1> QED
  BY <1>1, DoneShown DEF CreateOrder

LEMMA PlacedShown ==
  ASSUME TypeInv, ShownInv, NEW w \in Workers, Placed(w)
  PROVE  ShownInv'
<1> DEFINE u == loc[w].user
<1>1. pc[w] = "placed" /\ GoTo(w, "idle") /\ UNCHANGED <<price, coupon>> /\ u \in Users
  BY DEF Placed, TypeInv, WorkersOK
<1>2. CASE page' = [page EXCEPT ![u] = NewPage] /\ loc' = [Orphans(u) EXCEPT ![w] = NoLocals]
  <2>1. loc'[w] = NoLocals /\ pc'[w] = "idle" /\ "idle" \notin Taking
    BY <1>1, <1>2, OrphanFacts DEF GoTo, TypeInv, WorkersOK, Taking
  <2>2. NoLocals.fair = FALSE
    BY DEF NoLocals
  <2>3. FairQuote(w)' /\ FairOrder(w)' /\ Charged(w)'
    BY <2>1, <2>2, NothingToShow
  <2>4. \A v \in Workers : v # w => pc'[v] = pc[v] /\ loc'[v] = Orphans(u)[v]
    BY <1>1, <1>2, OrphanFacts DEF GoTo, TypeInv, WorkersOK
  <2> QED
    BY <1>1, <1>2, <2>3, <2>4, OrphansShown, PagesShown, UnseenPages DEF ShownInv
<1>3. CASE loc' = [loc EXCEPT ![w] = NoLocals] /\ UNCHANGED page
  BY <1>1, <1>3, EndsShown DEF Ends, PagesKept
<1> QED
  BY <1>1, <1>2, <1>3 DEF Placed

LEMMA ShownStep ==
  ASSUME TypeInv, ShownInv, [Next]_vars
  PROVE  ShownInv'
<1>1. CASE UNCHANGED vars
  BY <1>1 DEF vars, ShownInv, FreshQuote, FairQuote, FairOrder, Charged, Now
<1>2. ASSUME NEW i \in 1 .. Len(orders), Cancel(i) PROVE ShownInv'
  BY <1>2, AllStale DEF Cancel
<1>3. ASSUME Edit PROVE ShownInv'
  BY <1>3, AllStale DEF Edit
<1>4. CASE Next
  BY <1>2, <1>3, <1>4, RefreshShown, LeaveShown, QuoteShown, PlaceShown, ReadPriceShown, DiscountShown,
     QuotedShown, QuoteFailsShown, ReserveShown, AbandonShown, CreateOrderShown, PlacedShown DEF Next
<1> QED
  BY <1>1, <1>4

LEMMA InitShown == Init => ShownInv
<1> SUFFICES ASSUME Init PROVE ShownInv
  OBVIOUS
<1>1. \A u \in Users : page[u].quote.fresh = FALSE
  BY DEF Init, NewPage, NoQuote
<1>2. \A w \in Workers : pc[w] = "idle" /\ loc[w].fair = FALSE
  BY DEF Init, NoLocals
<1> QED
  BY <1>1, <1>2 DEF ShownInv, FreshQuote, FairQuote, FairOrder, Charged, Taking

\* What the customer is charged is the total the page showed her when she ordered, with a
\* preview or without one, for every order of quotes, answers, failures, pages left and opened
\* again, carts that change under a page, other orders and changes by the admin, unless what
\* it was made of has changed since; but for the 0 before the catalogue is in, and a preview
\* that came for other units.
THEOREM ChargesAreShown == Spec => []ChargedAsShown
<1>1. Init => TypeInv /\ ShownInv
  BY InitType, InitShown
<1>2. TypeInv /\ ShownInv /\ [Next]_vars => (TypeInv /\ ShownInv)'
  BY NextType, ShownStep
<1>3. ShownInv => ChargedAsShown
  BY DEF ShownInv, Charged, ChargedAsShown, Charging, Taking
<1> QED
  BY <1>1, <1>2, <1>3, PTL DEF Spec

-----------------------------------------------------------------------------
(* What is offered.                                                        *)

\* As things are now, the user may use the coupon for that many units, and redeem the points.
MayUse(u, units) == CouponAllowed(u, price * units)
MayRedeem(u, pts, units, used) ==
  Redeemable(pts, RedeemableBase(price, units, coupon.terms, used), units, points[u])

\* A fresh quote has the points the user has, and its coupon may still be used.
FreshOffer(u) ==
  page[u].quote.fresh =>
    /\ page[u].quote.available = points[u]
    /\ page[u].quote.of.used => MayUse(u, page[u].units)

\* So has one on its way, for the units it was asked for.
FairOffer(w) ==
  loc[w].fair /\ pc[w] = "quoted" =>
    /\ loc[w].available = points[loc[w].user]
    /\ loc[w].of.used => MayUse(loc[w].user, loc[w].units)

\* An offer that was taken up is good, until something changes.
TakenUp(w) ==
  loc[w].offered /\ loc[w].fair /\ pc[w] \in Asked =>
    /\ loc[w].used => MayUse(loc[w].user, loc[w].units)
    /\ MayRedeem(loc[w].user, loc[w].points, loc[w].units, loc[w].used)

OfferInv ==
  /\ ~denied
  /\ \A u \in Users : FreshOffer(u)
  /\ \A w \in Workers : FairOffer(w) /\ TakenUp(w)

LEMMA OfferKept ==
  ASSUME OfferInv, UNCHANGED <<price, coupon, orders>>, NEW v \in Workers,
         pc'[v] = pc[v],
         loc'[v].user = loc[v].user, loc'[v].units = loc[v].units,
         loc'[v].used = loc[v].used, loc'[v].points = loc[v].points, loc'[v].of = loc[v].of,
         loc'[v].available = loc[v].available, loc'[v].offered = loc[v].offered,
         loc'[v].fair => loc[v].fair,
         loc'[v].fair /\ pc[v] # "idle" => points'[loc[v].user] = points[loc[v].user]
  PROVE  FairOffer(v)' /\ TakenUp(v)'
<1>1. FairOffer(v) /\ TakenUp(v)
  BY DEF OfferInv
<1>2. \A u, n : MayUse(u, n)' = MayUse(u, n)
  BY DEF MayUse, CouponAllowed, Uses, UsesOf
<1>3. "quoted" # "idle" /\ "idle" \notin Asked
  BY DEF Asked
<1>4. FairOffer(v)'
  BY <1>1, <1>2, <1>3 DEF FairOffer
<1>5. TakenUp(v)'
  BY <1>1, <1>2, <1>3 DEF TakenUp, MayRedeem
<1> QED
  BY <1>4, <1>5

\* A worker that asks for no more points than it has, or has what it was asked for.
LEMMA NothingOffered ==
  ASSUME NEW v \in Workers, pc'[v] # "quoted", pc'[v] \notin Asked \/ loc'[v].offered = FALSE
  PROVE  FairOffer(v)' /\ TakenUp(v)'
BY DEF FairOffer, TakenUp

\* Nothing a fresh quote goes by has changed.
LEMMA PagesOffer ==
  ASSUME OfferInv, UNCHANGED <<price, coupon, points, orders>>, PagesKept
  PROVE  \A u \in Users : FreshOffer(u)'
<1> SUFFICES ASSUME NEW u \in Users PROVE FreshOffer(u)'
  OBVIOUS
<1>1. FreshOffer(u)
  BY DEF OfferInv
<1>2. \A x, n : MayUse(x, n)' = MayUse(x, n)
  BY DEF MayUse, CouponAllowed, Uses, UsesOf
<1> QED
  BY <1>1, <1>2 DEF FreshOffer, PagesKept

\* Only w moves, no page has another fresh quote, and no balance changes.
LEMMA MoveOffer ==
  ASSUME TypeInv, OfferInv, UNCHANGED <<price, coupon, points, orders>>, PagesKept, ~denied',
         NEW w \in Workers, NEW label, NEW l, GoTo(w, label), loc' = [loc EXCEPT ![w] = l],
         FairOffer(w)' /\ TakenUp(w)'
  PROVE  OfferInv'
<1>1. ASSUME NEW v \in Workers, v # w PROVE FairOffer(v)' /\ TakenUp(v)'
  <2>1. pc'[v] = pc[v] /\ loc'[v] = loc[v]
    BY <1>1 DEF GoTo, TypeInv, WorkersOK
  <2> QED
    BY <2>1, OfferKept
<1> QED
  BY <1>1, PagesOffer DEF OfferInv

LEMMA EndsOffer ==
  ASSUME TypeInv, OfferInv, UNCHANGED <<price, coupon, points, orders>>, PagesKept, ~denied',
         NEW w \in Workers, Ends(w)
  PROVE  OfferInv'
<1>1. pc'[w] = "idle" /\ "idle" \notin Asked
  BY DEF Ends, GoTo, TypeInv, WorkersOK, Asked
<1>2. FairOffer(w)' /\ TakenUp(w)'
  BY <1>1, NothingOffered
<1> QED
  BY <1>2, MoveOffer DEF Ends

\* A request that takes up no offer.
LEMMA AsksOffer ==
  ASSUME TypeInv, OfferInv, UNCHANGED <<price, coupon, points, orders, denied>>, PagesKept,
         NEW w \in Workers, Asks(w), NEW l, l.offered = FALSE, loc' = [loc EXCEPT ![w] = l]
  PROVE  OfferInv'
<1>1. GoTo(w, "price")
  BY DEF Asks
<1>2. pc'[w] = "price" /\ loc'[w] = l
  BY <1>1 DEF GoTo, TypeInv, WorkersOK
<1>3. FairOffer(w)' /\ TakenUp(w)'
  BY <1>2, NothingOffered
<1> QED
  BY <1>1, <1>3, MoveOffer DEF OfferInv

LEMMA RefreshOffer ==
  ASSUME TypeInv, OfferInv, NEW w \in Workers, NEW u \in Users, Open(w, u) \/ Recount(w, u) \/ Load(w, u)
  PROVE  OfferInv'
<1>1. UNCHANGED <<price, coupon, points, orders, denied>> /\ PagesKept
  BY RefreshCases DEF history
<1>2. CASE UNCHANGED <<page, pc, loc>>
  <2>1. \A v \in Workers : FairOffer(v)' /\ TakenUp(v)'
    BY <1>1, <1>2, OfferKept
  <2> QED
    BY <1>1, <2>1, PagesOffer DEF OfferInv
<1>3. CASE Asks(w) /\ \E units \in 0 .. MaxUnits : Refresh(w, u, units)
  <2>1. PICK units \in 0 .. MaxUnits : loc' = [loc EXCEPT ![w] = Request("refresh", u, units)]
    BY <1>3 DEF Refresh
  <2>2. Request("refresh", u, units).offered = FALSE
    BY DEF Request, NoLocals
  <2> QED
    BY <1>1, <1>3, <2>1, <2>2, AsksOffer
<1> QED
  BY <1>2, <1>3, RefreshCases

LEMMA OrphansOffer ==
  ASSUME TypeInv, OfferInv, NEW u, UNCHANGED <<price, coupon, points, orders>>
  PROVE  \A v \in Workers :
           loc'[v] = Orphans(u)[v] /\ pc'[v] = pc[v] => FairOffer(v)' /\ TakenUp(v)'
BY OrphanFacts, OfferKept

\* The page offers no more points than the server accepts, as long as what it shows holds.
LEMMA QuoteOffer ==
  ASSUME TypeInv, ShownInv, OfferInv, NEW w \in Workers, NEW u \in Users, Quote(w, u)
  PROVE  OfferInv'
<1> DEFINE q == Shown(u)
           n == page[u].units
<1>1. /\ GoTo(w, "price") /\ UNCHANGED <<price, coupon, points, orders, denied>>
      /\ page' = [page EXCEPT ![u].busy = TRUE]
  BY QuoteFacts DEF AsksForQuote, Asks, history
<1>2. PagesKept
  BY <1>1, BusyType DEF PagesKept
<1>3. PICK l \in Locals :
        /\ loc' = [loc EXCEPT ![w] = l]
        /\ l.user = u /\ l.units = n
        /\ l.offered => q.fresh /\ l.used = q.of.used /\ Offered(l.points, q.of.base, n, q.available)
  BY QuoteFacts
<1>4. pc'[w] = "price" /\ loc'[w] = l
  BY <1>1, <1>3 DEF GoTo, TypeInv, WorkersOK
<1>5. /\ n \in Nat /\ q.available \in Nat /\ l.points \in Nat /\ q.of.base \in Nat
      /\ l.offered \in BOOLEAN
  BY ShownType DEF Locals
<1>6. ASSUME l.offered
      PROVE  MayRedeem(u, l.points, n, l.used) /\ (l.used => MayUse(u, n))
  <2>1. Offered(l.points, q.of.base, n, q.available) /\ q.fresh /\ l.used = q.of.used
    BY <1>3, <1>6
  <2>2. Redeemable(l.points, q.of.base, n, q.available)
    BY <1>5, <2>1, OfferWithinLimit
  <2>3. page[u].quote.given
    <3>1. SUFFICES ASSUME ~page[u].quote.given PROVE FALSE
      OBVIOUS
    <3>2. q.available = 0
      BY <3>1 DEF Shown, Local, NoQuote
    <3> HIDE DEF q, n
    <3>3. OfferedAtMost(q.of.base, n, 0) \in Int /\ OfferedAtMost(q.of.base, n, 0) <= 0
      BY <1>5, NothingOfferedAt0
    <3>4. l.points > 0 /\ l.points <= OfferedAtMost(q.of.base, n, 0)
      BY <2>1, <3>2 DEF Offered
    <3> QED
      BY <1>5, <3>3, <3>4
  <2>4. q = page[u].quote
    BY <2>3 DEF Shown
  <2>5. /\ q.of.base = RedeemableBase(price, n, coupon.terms, q.of.used)
        /\ q.available = points[u] /\ (q.of.used => MayUse(u, n))
    <3>1. FreshQuote(u) /\ FreshOffer(u)
      BY DEF ShownInv, OfferInv
    <3> QED
      BY <2>1, <2>4, <3>1 DEF FreshQuote, FreshOffer, Now, Pricing
  <2> QED
    BY <2>1, <2>2, <2>5 DEF MayRedeem
<1>7. /\ \A y, m : MayUse(y, m)' = MayUse(y, m)
      /\ \A y, p, m, d : MayRedeem(y, p, m, d)' = MayRedeem(y, p, m, d)
  BY <1>1 DEF MayUse, MayRedeem, CouponAllowed, Uses, UsesOf
<1> HIDE DEF q, n
<1>8. TakenUp(w)'
  BY <1>3, <1>4, <1>6, <1>7 DEF TakenUp
<1>9. FairOffer(w)'
  BY <1>4 DEF FairOffer
<1> QED
  BY <1>1, <1>2, <1>3, <1>8, <1>9, MoveOffer DEF OfferInv

LEMMA PlaceOffer ==
  ASSUME TypeInv, OfferInv, NEW w \in Workers, NEW u \in Users, Place(w, u)
  PROVE  OfferInv'
<1>1. /\ Asks(w) /\ UNCHANGED <<price, coupon, points, page, orders, denied>>
      /\ loc' = [loc EXCEPT ![w] = Ordered(u)] /\ Ordered(u).offered = FALSE
  BY PlaceFacts DEF history
<1>2. PagesKept
  BY <1>1 DEF PagesKept
<1> QED
  BY <1>1, <1>2, AsksOffer

LEMMA ReadPriceOffer ==
  ASSUME TypeInv, OfferInv, NEW w \in Workers, ReadPrice(w)
  PROVE  OfferInv'
<1> DEFINE l == [loc[w] EXCEPT !.price = price]
<1>1. /\ pc[w] = "price" /\ GoTo(w, "discount") /\ PagesKept
      /\ UNCHANGED <<price, coupon, points, page, orders, denied>>
  BY DEF ReadPrice, PagesKept, history
<1>2. loc' = [loc EXCEPT ![w] = l]
  BY DEF ReadPrice, TypeInv, WorkersOK
<1>3. /\ l.user = loc[w].user /\ l.units = loc[w].units /\ l.offered = loc[w].offered
      /\ l.used = loc[w].used /\ l.points = loc[w].points /\ l.fair = loc[w].fair
  BY DEF TypeInv, WorkersOK, Locals
<1> HIDE DEF l
<1>4. pc'[w] = "discount" /\ loc'[w] = l /\ pc[w] \in Asked
  BY <1>1, <1>2 DEF GoTo, TypeInv, WorkersOK, Asked
<1>5. \A y, n : MayUse(y, n)' = MayUse(y, n)
  BY <1>1 DEF MayUse, CouponAllowed, Uses, UsesOf
<1>6. FairOffer(w)' /\ TakenUp(w)'
  BY <1>1, <1>3, <1>4, <1>5 DEF OfferInv, TakenUp, FairOffer, MayRedeem
<1> QED
  BY <1>1, <1>2, <1>6, MoveOffer DEF OfferInv

LEMMA DiscountOffer ==
  ASSUME TypeInv, ShownInv, OfferInv, NEW w \in Workers, Discount(w)
  PROVE  OfferInv'
<1>1. /\ pc[w] = "discount" /\ pc[w] \in Asked /\ pc[w] # "idle" /\ PagesKept
      /\ UNCHANGED <<price, coupon, points, orders>>
  BY DiscountCases DEF Asked
<1>2. loc[w].fair => loc[w].price = price
  BY <1>1 DEF ShownInv, FairOrder
<1>3. CASE ~Allowed(w) /\ Ends(w) /\ denied' = (denied \/ (loc[w].offered /\ loc[w].fair))
  <2>1. ~(loc[w].offered /\ loc[w].fair)
    BY <1>1, <1>2, <1>3 DEF OfferInv, TakenUp, MayUse, MayRedeem, Allowed, Made, Pricing
  <2> QED
    BY <1>1, <1>3, <2>1, EndsOffer DEF OfferInv
<1>4. CASE /\ Allowed(w) /\ denied' = denied /\ Made(w) \in PriceRecords
           /\ GoTo(w, "quoted") /\ loc' = [loc EXCEPT ![w] = Quotation(w)]
  <2>1. pc'[w] = "quoted" /\ loc'[w] = Quotation(w) /\ "quoted" \notin Asked
    BY <1>4 DEF GoTo, TypeInv, WorkersOK, Asked
  <2>2. /\ Quotation(w).user = loc[w].user /\ Quotation(w).of = Made(w) /\ Quotation(w).fair = loc[w].fair
        /\ Quotation(w).units = loc[w].units /\ Quotation(w).available = points[loc[w].user]
    BY <1>1, <1>4, QuotationFacts
  <2>3. \A y, n : MayUse(y, n)' = MayUse(y, n)
    BY <1>1 DEF MayUse, CouponAllowed, Uses, UsesOf
  <2>4. Made(w).used = loc[w].used
    BY DEF Made, Pricing
  <2>5. FairOffer(w)'
    BY <1>1, <1>2, <1>4, <2>1, <2>2, <2>3, <2>4 DEF FairOffer, Allowed, MayUse
  <2>6. TakenUp(w)'
    BY <2>1 DEF TakenUp
  <2> QED
    BY <1>1, <1>4, <2>5, <2>6, MoveOffer DEF OfferInv
<1>5. CASE denied' = denied /\ GoTo(w, "reserve") /\ loc' = [loc EXCEPT ![w] = Charge(w)]
  <2>1. pc'[w] = "reserve" /\ "reserve" \notin Asked
    BY <1>5 DEF GoTo, TypeInv, WorkersOK, Asked
  <2>2. FairOffer(w)' /\ TakenUp(w)'
    BY <2>1, NothingOffered
  <2> QED
    BY <1>1, <1>5, <2>2, MoveOffer DEF OfferInv
<1> QED
  BY <1>3, <1>4, <1>5, DiscountCases

LEMMA QuotedOffer ==
  ASSUME TypeInv, OfferInv, NEW w \in Workers, Quoted(w)
  PROVE  OfferInv'
<1>1. pc[w] = "quoted" /\ Ends(w) /\ UNCHANGED <<price, coupon, points, orders, denied>>
  BY QuotedFacts DEF history
<1>2. /\ Answer(w).fresh = (loc[w].fair /\ loc[w].units = page[loc[w].user].units)
      /\ Answer(w).of = loc[w].of /\ Answer(w).available = loc[w].available
  BY DEF Answer
<1>3. \A y, n : MayUse(y, n)' = MayUse(y, n)
  BY <1>1 DEF MayUse, CouponAllowed, Uses, UsesOf
<1>4. FairOffer(w)
  BY DEF OfferInv
<1>5. ASSUME NEW u \in Users PROVE FreshOffer(u)'
  <2>1. FreshOffer(u)
    BY DEF OfferInv
  <2>2. /\ page'[u].units = page[u].units
        /\ page'[u].quote = IF loc[w].here /\ u = loc[w].user THEN Answer(w) ELSE page[u].quote
    BY QuotedFacts
  <2> QED
    BY <1>1, <1>2, <1>3, <1>4, <2>1, <2>2 DEF FreshOffer, FairOffer
<1>6. ASSUME NEW v \in Workers PROVE FairOffer(v)' /\ TakenUp(v)'
  <2>1. CASE v = w
    <3>1. pc'[w] = "idle" /\ "idle" \notin Asked
      BY <1>1 DEF Ends, GoTo, TypeInv, WorkersOK, Asked
    <3> QED
      BY <2>1, <3>1, NothingOffered
  <2>2. CASE v # w
    <3>1. pc'[v] = pc[v] /\ loc'[v] = loc[v]
      BY <1>1, <2>2 DEF Ends, GoTo, TypeInv, WorkersOK
    <3> QED
      BY <1>1, <3>1, OfferKept
  <2> QED
    BY <2>1, <2>2
<1> QED
  BY <1>1, <1>5, <1>6 DEF OfferInv

LEMMA QuoteFailsOffer ==
  ASSUME TypeInv, OfferInv, NEW w \in Workers, QuoteFails(w)
  PROVE  OfferInv'
BY QuoteFailsFacts, EndsOffer DEF OfferInv, history

\* The points of some users change, or what orders there are, and no quote of theirs is fresh.
LEMMA StaleOffer ==
  ASSUME TypeInv, OfferInv, NEW us, page' = StalePages(us),
         \/ UNCHANGED <<price, coupon, orders>> /\ \A u \in Users : u \notin us => points'[u] = points[u]
         \/ us = Users
  PROVE  /\ \A u \in Users : FreshOffer(u)'
         /\ \A v \in Workers :
              loc'[v] = StaleLocals(us)[v] /\ pc'[v] = pc[v] => FairOffer(v)' /\ TakenUp(v)'
<1>1. ASSUME NEW u \in Users PROVE FreshOffer(u)'
  <2>1. FreshOffer(u)
    BY DEF OfferInv
  <2>2. /\ page'[u].units = page[u].units /\ page'[u].quote.of = page[u].quote.of
        /\ page'[u].quote.fresh => page[u].quote.fresh /\ u \notin us
    BY StaleFacts
  <2>3. CASE us = Users
    BY <2>2, <2>3 DEF FreshOffer
  <2>4. CASE UNCHANGED <<price, coupon, orders>> /\ \A x \in Users : x \notin us => points'[x] = points[x]
    <3>1. \A y, n : MayUse(y, n)' = MayUse(y, n)
      BY <2>4 DEF MayUse, CouponAllowed, Uses, UsesOf
    <3>2. page'[u].quote.available = page[u].quote.available
      BY StaleFacts
    <3> QED
      BY <2>1, <2>2, <2>4, <3>1, <3>2 DEF FreshOffer
  <2> QED
    BY <2>3, <2>4
<1>2. ASSUME NEW v \in Workers, loc'[v] = StaleLocals(us)[v], pc'[v] = pc[v]
      PROVE  FairOffer(v)' /\ TakenUp(v)'
  <2>1. /\ loc'[v].kind = loc[v].kind /\ loc'[v].user = loc[v].user /\ loc'[v].units = loc[v].units
        /\ loc'[v].used = loc[v].used /\ loc'[v].points = loc[v].points /\ loc'[v].of = loc[v].of
        /\ loc'[v].available = loc[v].available /\ loc'[v].offered = loc[v].offered
        /\ loc'[v].fair => loc[v].fair /\ loc[v].user \notin us
    BY <1>2, StaleFacts
  <2>2. pc[v] # "idle" => loc[v].user \in Users
    BY DEF TypeInv, WorkersOK
  <2>3. CASE us = Users
    <3>1. "quoted" # "idle" /\ "idle" \notin Asked
      BY DEF Asked
    <3> QED
      BY <1>2, <2>1, <2>2, <2>3, <3>1 DEF FairOffer, TakenUp
  <2>4. CASE UNCHANGED <<price, coupon, orders>> /\ \A x \in Users : x \notin us => points'[x] = points[x]
    BY <1>2, <2>1, <2>2, <2>4, OfferKept
  <2> QED
    BY <2>3, <2>4
<1> QED
  BY <1>1, <1>2

\* What goes with it, of the worker that moves.
LEMMA StaleMove ==
  ASSUME TypeInv, OfferInv, NEW us, page' = StalePages(us), ~denied',
         \/ UNCHANGED <<price, coupon, orders>> /\ \A u \in Users : u \notin us => points'[u] = points[u]
         \/ us = Users,
         NEW w \in Workers, NEW label, GoTo(w, label), label \notin Asked \cup {"quoted"},
         \A v \in Workers : v # w => loc'[v] = StaleLocals(us)[v]
  PROVE  OfferInv'
<1>1. pc'[w] = label /\ \A v \in Workers : v # w => pc'[v] = pc[v]
  BY DEF GoTo, TypeInv, WorkersOK
<1>2. FairOffer(w)' /\ TakenUp(w)'
  BY <1>1, NothingOffered
<1> QED
  BY <1>1, <1>2, StaleOffer DEF OfferInv

LEMMA OfferNext ==
  ASSUME TypeInv, ShownInv, OfferInv, [Next]_vars
  PROVE  OfferInv'
<1>0. "idle" \notin Asked \cup {"quoted"} /\ "create" \notin Asked \cup {"quoted"}
      /\ "placed" \notin Asked \cup {"quoted"}
  BY DEF Asked
<1>1. CASE UNCHANGED vars
  <2>1. \A u, n : MayUse(u, n)' = MayUse(u, n)
    BY <1>1 DEF vars, MayUse, CouponAllowed, Uses, UsesOf
  <2>2. \A u, p, n, d : MayRedeem(u, p, n, d)' = MayRedeem(u, p, n, d)
    BY <1>1 DEF vars, MayRedeem
  <2> QED
    BY <1>1, <2>1, <2>2 DEF vars, history, OfferInv, FreshOffer, FairOffer, TakenUp
<1>2. ASSUME NEW u \in Users, Leave(u) PROVE OfferInv'
  <2>1. /\ UNCHANGED <<price, coupon, points, orders, pc, denied>>
        /\ page' = [page EXCEPT ![u] = NewPage] /\ loc' = Orphans(u)
    BY <1>2 DEF Leave, history
  <2> QED
    BY <2>1, OrphansOffer, PagesOffer, UnseenPages DEF OfferInv
<1>3. ASSUME \/ Edit
             \/ \E i \in 1 .. Len(orders) : Cancel(i)
      PROVE  OfferInv'
  <2>1. Stales /\ UNCHANGED <<pc, denied>>
    BY <1>3 DEF Edit, Cancel, history
  <2> QED
    BY <2>1, StaleOffer DEF Stales, OfferInv
<1>4. ASSUME NEW w \in Workers, Reserve(w) PROVE OfferInv'
  <2> DEFINE u == loc[w].user
             us == IF loc[w].of.points > 0 THEN {u} ELSE {}
  <2>1. UNCHANGED <<price, coupon, orders, denied>> /\ pc[w] = "reserve"
    BY <1>4 DEF Reserve, history
  <2>2. CASE Ends(w) /\ UNCHANGED <<points, page>>
    BY <2>1, <2>2, EndsOffer DEF OfferInv, PagesKept
  <2>3. CASE /\ points' = [points EXCEPT ![u] = @ - loc[w].of.points]
             /\ GoTo(w, "create") /\ page' = StalePages(us) /\ loc' = StaleLocals(us)
    <3>1. loc[w].of.points \in Nat /\ u \in Users /\ points \in [Users -> Nat]
      BY <2>1 DEF TypeInv, DataOK, WorkersOK, Locals, PriceRecords
    <3>2. \A x \in Users : x \notin us => points'[x] = points[x]
      BY <2>3, <3>1
    <3> HIDE DEF us, u
    <3> QED
      BY <1>0, <2>1, <2>3, <3>2, StaleMove DEF OfferInv
  <2> QED
    BY <1>4, <2>2, <2>3 DEF Reserve
<1>5. ASSUME NEW w \in Workers, Abandon(w) PROVE OfferInv'
  <2> DEFINE us == {loc[w].user}
  <2>1. /\ UNCHANGED <<price, coupon, orders, denied>> /\ GoTo(w, "idle") /\ page' = StalePages(us)
        /\ loc' = [StaleLocals(us) EXCEPT ![w] = NoLocals]
        /\ points' = [points EXCEPT ![loc[w].user] = @ + loc[w].of.points]
    BY <1>5 DEF Abandon, history
  <2>2. \A x \in Users : x \notin us => points'[x] = points[x]
    BY <2>1 DEF TypeInv, DataOK
  <2> HIDE DEF us
  <2>3. \A v \in Workers : v # w => loc'[v] = StaleLocals(us)[v]
    BY <2>1, StaleFacts
  <2> QED
    BY <1>0, <2>1, <2>2, <2>3, StaleMove DEF OfferInv
<1>6. ASSUME NEW w \in Workers, CreateOrder(w) PROVE OfferInv'
  <2>1. /\ UNCHANGED denied /\ GoTo(w, "placed") /\ page' = StalePages(Users)
        /\ loc' = [StaleLocals(Users) EXCEPT ![w] = Kept(loc[w])]
    BY <1>6 DEF CreateOrder, history
  <2>2. \A v \in Workers : v # w => loc'[v] = StaleLocals(Users)[v]
    BY <2>1, StaleFacts
  <2> QED
    BY <1>0, <2>1, <2>2, StaleMove DEF OfferInv
<1>7. ASSUME NEW w \in Workers, Placed(w) PROVE OfferInv'
  <2>1. /\ pc[w] = "placed" /\ GoTo(w, "idle") /\ UNCHANGED <<price, coupon, points, orders, denied>>
        /\ loc[w].user \in Users
    BY <1>7 DEF Placed, TypeInv, WorkersOK, history
  <2>2. CASE page' = [page EXCEPT ![loc[w].user] = NewPage] /\ loc' = [Orphans(loc[w].user) EXCEPT ![w] = NoLocals]
    <3>1. pc'[w] = "idle" /\ \A v \in Workers : v # w => pc'[v] = pc[v] /\ loc'[v] = Orphans(loc[w].user)[v]
      BY <2>1, <2>2, OrphanFacts DEF GoTo, TypeInv, WorkersOK
    <3>2. FairOffer(w)' /\ TakenUp(w)'
      BY <1>0, <3>1, NothingOffered
    <3> QED
      BY <2>1, <2>2, <3>1, <3>2, OrphansOffer, PagesOffer, UnseenPages DEF OfferInv
  <2>3. CASE loc' = [loc EXCEPT ![w] = NoLocals] /\ UNCHANGED page
    BY <2>1, <2>3, EndsOffer DEF Ends, OfferInv, PagesKept
  <2> QED
    BY <1>7, <2>2, <2>3 DEF Placed
<1>8. CASE Next
  BY <1>2, <1>3, <1>4, <1>5, <1>6, <1>7, <1>8, RefreshOffer, QuoteOffer, PlaceOffer, ReadPriceOffer,
     DiscountOffer, QuotedOffer, QuoteFailsOffer DEF Next
<1> QED
  BY <1>1, <1>8

LEMMA InitOffer == Init => OfferInv
<1> SUFFICES ASSUME Init PROVE OfferInv
  OBVIOUS
<1>1. \A u \in Users : page[u].quote.fresh = FALSE
  BY DEF Init, NewPage, NoQuote
<1>2. ~denied /\ \A w \in Workers : loc[w].fair = FALSE
  BY DEF Init, NoLocals
<1> QED
  BY <1>1, <1>2 DEF OfferInv, FreshOffer, FairOffer, TakenUp

-----------------------------------------------------------------------------
(* Coupons within their limits.                                            *)

\* While nobody crowds, one checkout at most has found the coupon allowed and not ordered
\* yet, and there still is a use for it.
LimitInv ==
  ~crowded =>
    /\ Cardinality(Uses) <= UsageLimit
    /\ \A u \in Users : Cardinality(UsesOf(u)) <= PerUserLimit
    /\ \A v, w \in UsingCoupon : v = w
    /\ \A w \in UsingCoupon : /\ Cardinality(Uses) < UsageLimit
                              /\ Cardinality(UsesOf(loc[w].user)) < PerUserLimit

LEMMA UsesFinite ==
  ASSUME TypeInv
  PROVE  /\ Len(orders) \in Nat
         /\ IsFiniteSet(Uses) /\ Cardinality(Uses) \in Nat
         /\ \A u : IsFiniteSet(UsesOf(u)) /\ Cardinality(UsesOf(u)) \in Nat
<1>1. Len(orders) \in Nat
  BY DEF TypeInv, DataOK
<1>2. IsFiniteSet(1 .. Len(orders))
  BY <1>1, FS_Interval
<1>3. Uses \subseteq 1 .. Len(orders) /\ \A u : UsesOf(u) \subseteq 1 .. Len(orders)
  BY DEF Uses, UsesOf
<1>4. \A S : S \subseteq 1 .. Len(orders) => IsFiniteSet(S) /\ Cardinality(S) \in Nat
  BY <1>2, FS_Subset, FS_CardinalityType
<1> QED
  BY <1>1, <1>3, <1>4

\* No order is added that uses the coupon, and no checkout begins to use it.
LEMMA LimitKept ==
  ASSUME TypeInv, LimitInv, crowded' = crowded,
         Uses' \subseteq Uses, \A u \in Users : UsesOf(u)' \subseteq UsesOf(u),
         \A w \in Workers : w \in UsingCoupon' => w \in UsingCoupon /\ loc'[w].user = loc[w].user
  PROVE  LimitInv'
<1> SUFFICES ASSUME ~crowded PROVE LimitInv'
  BY DEF LimitInv
<1>1. UsingCoupon' \subseteq UsingCoupon /\ \A w \in UsingCoupon : w \in Workers /\ loc[w].user \in Users
  BY DEF UsingCoupon, TypeInv, WorkersOK
<1>2. \A S, T : IsFiniteSet(T) /\ S \subseteq T => Cardinality(S) \in Nat /\ Cardinality(S) <= Cardinality(T)
  BY FS_Subset, FS_CardinalityType
<1>3. Cardinality(Uses') \in Nat /\ Cardinality(Uses') <= Cardinality(Uses) /\ Cardinality(Uses) \in Nat
  BY <1>2, UsesFinite
<1>4. \A u \in Users : /\ Cardinality(UsesOf(u)') \in Nat /\ Cardinality(UsesOf(u)) \in Nat
                       /\ Cardinality(UsesOf(u)') <= Cardinality(UsesOf(u))
  BY <1>2, UsesFinite
<1>5. UsageLimit \in Nat /\ PerUserLimit \in Nat
  BY StorefrontAssumption
<1>6. ASSUME NEW w, w \in UsingCoupon'
      PROVE  Cardinality(Uses') < UsageLimit /\ Cardinality(UsesOf(loc[w].user)') < PerUserLimit
  <2>1. w \in UsingCoupon /\ loc'[w].user = loc[w].user /\ loc[w].user \in Users
    BY <1>1, <1>6 DEF UsingCoupon
  <2>2. PICK u \in Users : u = loc[w].user
    BY <2>1
  <2>3. Cardinality(Uses) < UsageLimit /\ Cardinality(UsesOf(u)) < PerUserLimit
    BY <2>1, <2>2 DEF LimitInv
  <2>4. Cardinality(Uses') < UsageLimit /\ Cardinality(UsesOf(u)') < PerUserLimit
    BY <1>3, <1>4, <1>5, <2>3
  <2> QED
    BY <2>1, <2>2, <2>4
<1>7. /\ Cardinality(Uses') <= UsageLimit
      /\ \A u \in Users : Cardinality(UsesOf(u)') <= PerUserLimit
  BY <1>3, <1>4, <1>5 DEF LimitInv
<1>8. \A v, w \in UsingCoupon' : v = w
  BY <1>1 DEF LimitInv
<1> QED
  BY <1>6, <1>7, <1>8 DEF LimitInv

\* Who moves neither has a use of the coupon nor takes one, and the others go on as they were.
LEMMA LimitMove ==
  ASSUME TypeInv, LimitInv, NEW w \in Workers, NEW label, GoTo(w, label),
         label \in {"reserve", "create"} => w \in UsingCoupon /\ loc'[w].user = loc[w].user,
         \A v \in Workers : v # w => loc'[v].of = loc[v].of /\ loc'[v].user = loc[v].user,
         crowded' = crowded, orders' = orders
  PROVE  LimitInv'
<1>1. pc'[w] = label /\ \A v \in Workers : v # w => pc'[v] = pc[v]
  BY DEF GoTo, TypeInv, WorkersOK
<1>2. \A v \in Workers : v \in UsingCoupon' => v \in UsingCoupon /\ loc'[v].user = loc[v].user
  BY <1>1 DEF UsingCoupon
<1>3. Uses' = Uses /\ \A u \in Users : UsesOf(u)' = UsesOf(u)
  BY DEF Uses, UsesOf
<1> QED
  BY <1>2, <1>3, LimitKept

\* A checkout begins to use the coupon: nobody else does, and it was allowed.
LEMMA DiscountLimit ==
  ASSUME TypeInv, LimitInv, NEW w \in Workers, Discount(w)
  PROVE  LimitInv'
<1>1. /\ pc[w] = "discount" /\ loc[w] \in Locals /\ loc[w].user \in Users
      /\ UNCHANGED <<price, coupon, points, orders>>
  BY DEF Discount, TypeInv, WorkersOK
<1>2. Uses' = Uses /\ \A u \in Users : UsesOf(u)' = UsesOf(u)
  BY <1>1 DEF Uses, UsesOf
<1>3. CASE ~Allowed(w)
  <2>1. Ends(w) /\ crowded' = crowded
    BY <1>3, DiscountCases
  <2>2. GoTo(w, "idle") /\ \A v \in Workers : v # w => loc'[v] = loc[v]
    BY <2>1 DEF Ends, TypeInv, WorkersOK
  <2> QED
    BY <1>1, <2>1, <2>2, LimitMove
<1>4. CASE Allowed(w) /\ loc[w].kind # "place"
  <2>1. GoTo(w, "quoted") /\ loc' = [loc EXCEPT ![w] = Quotation(w)]
    BY <1>4, DiscountCases
  <2>2. crowded' = crowded
    <3>1. crowded' = (crowded \/ FALSE)
      BY <1>4, DiscountCases
    <3> QED
      BY <3>1 DEF TypeInv, DataOK
  <2>3. \A v \in Workers : v # w => loc'[v] = loc[v]
    BY <2>1 DEF TypeInv, WorkersOK
  <2> QED
    BY <1>1, <2>1, <2>2, <2>3, LimitMove
<1>5. CASE Allowed(w) /\ loc[w].kind = "place"
  <2>1. GoTo(w, "reserve") /\ loc' = [loc EXCEPT ![w] = Charge(w)]
    BY <1>5, DiscountCases
  <2>2. /\ pc'[w] = "reserve" /\ loc'[w] = Charge(w)
        /\ \A v \in Workers : v # w => loc'[v] = loc[v] /\ pc'[v] = pc[v]
    BY <2>1 DEF GoTo, TypeInv, WorkersOK
  <2>3. Made(w) \in PriceRecords
    BY <1>5, DiscountCases
  <2>4. Charge(w).user = loc[w].user /\ Charge(w).of = Made(w) /\ Made(w).used = loc[w].used
    BY <1>1, <2>3, QuotationFacts DEF Made, Pricing
  <2>6. crowded' = (crowded \/ (loc[w].used /\ UsingCoupon # {}))
    BY <1>5, DiscountCases
  <2>7. \A v \in Workers : v # w => (v \in UsingCoupon' <=> v \in UsingCoupon) /\ loc'[v].user = loc[v].user
    BY <2>2 DEF UsingCoupon
  <2>8. CASE ~loc[w].used
    <3>1. w \notin UsingCoupon' /\ crowded' = crowded
      BY <2>2, <2>4, <2>6, <2>8 DEF UsingCoupon, TypeInv, DataOK
    <3>2. \A v \in Workers : v \in UsingCoupon' => v \in UsingCoupon /\ loc'[v].user = loc[v].user
      BY <2>7, <3>1
    <3> QED
      BY <1>2, <3>1, <3>2, LimitKept
  <2>9. CASE loc[w].used
    <3> SUFFICES ASSUME ~crowded' PROVE LimitInv'
      BY DEF LimitInv
    <3>1. ~crowded /\ UsingCoupon = {}
      BY <2>6, <2>9
    <3>2. UsingCoupon' \subseteq {w}
      BY <2>7, <3>1 DEF UsingCoupon
    <3>3. Cardinality(Uses) < UsageLimit /\ Cardinality(UsesOf(loc[w].user)) < PerUserLimit
      BY <1>5, <2>9 DEF Allowed, CouponAllowed
    <3>4. PICK u \in Users : u = loc[w].user /\ loc'[w].user = u
      BY <1>1, <2>2, <2>4
    <3>5. UsesOf(u)' = UsesOf(u) /\ Uses' = Uses
      BY <1>2
    <3>6. \A v \in UsingCoupon' : Cardinality(Uses') < UsageLimit /\ Cardinality(UsesOf(loc[v].user)') < PerUserLimit
      BY <3>2, <3>3, <3>4, <3>5
    <3>7. Cardinality(Uses') <= UsageLimit /\ \A x \in Users : Cardinality(UsesOf(x)') <= PerUserLimit
      BY <1>2, <3>1 DEF LimitInv
    <3> QED
      BY <3>2, <3>6, <3>7 DEF LimitInv
  <2> QED
    BY <2>8, <2>9
<1> QED
  BY <1>3, <1>4, <1>5

\* The order of the one checkout that uses the coupon is one use more.
LEMMA CreateOrderLimit ==
  ASSUME TypeInv, LimitInv, NEW w \in Workers, CreateOrder(w)
  PROVE  LimitInv'
<1>a. PICK u \in Users : u = loc[w].user
  BY DEF CreateOrder, TypeInv, WorkersOK
<1>b. PICK n : n = Len(orders) + 1
  OBVIOUS
<1>c. PICK o : o = [user |-> u, used |-> loc[w].of.used, points |-> loc[w].of.points, cancelled |-> FALSE]
  OBVIOUS
<1>d. o.user = u /\ o.used = loc[w].of.used /\ o.cancelled = FALSE
  BY <1>c
<1>1. /\ pc[w] = "create" /\ orders' = Append(orders, o) /\ GoTo(w, "placed") /\ crowded' = crowded
      /\ loc' = [StaleLocals(Users) EXCEPT ![w] = Kept(loc[w])]
  BY <1>a, <1>c DEF CreateOrder, history
<1>2. /\ pc'[w] = "placed"
      /\ \A v \in Workers : v # w => /\ pc'[v] = pc[v] /\ loc'[v].of = loc[v].of
                                     /\ loc'[v].user = loc[v].user
  BY <1>1, StaleFacts DEF GoTo, TypeInv, WorkersOK
<1>3. w \notin UsingCoupon' /\ \A v \in UsingCoupon' : v \in UsingCoupon /\ v # w /\ loc'[v].user = loc[v].user
  BY <1>2 DEF UsingCoupon
<1>4. orders \in Seq(OrderRecords) /\ Len(orders) \in Nat
  BY DEF TypeInv, DataOK
<1>5. Len(orders') = n /\ orders'[n] = o /\ \A i \in 1 .. Len(orders) : orders'[i] = orders[i]
  BY <1>1, <1>4, <1>b
<1>6. CASE ~loc[w].of.used
  <2>1. Uses' = Uses
    BY <1>4, <1>5, <1>6, <1>b, <1>d DEF Uses
  <2>2. \A x \in Users : UsesOf(x)' = UsesOf(x)
    BY <1>4, <1>5, <1>b, <2>1 DEF Uses, UsesOf
  <2> QED
    BY <1>1, <1>3, <2>1, <2>2, LimitKept DEF UsingCoupon
<1>7. CASE loc[w].of.used
  <2> SUFFICES ASSUME ~crowded PROVE LimitInv'
    BY <1>1 DEF LimitInv
  <2>1. w \in UsingCoupon
    BY <1>1, <1>7 DEF UsingCoupon
  <2>2. UsingCoupon' = {}
    BY <1>3, <2>1 DEF LimitInv
  <2>3. Cardinality(Uses) < UsageLimit /\ Cardinality(UsesOf(u)) < PerUserLimit
    BY <1>a, <2>1 DEF LimitInv
  <2>4. Uses' = Uses \cup {n} /\ n \notin Uses
    <3>1. 1 .. Len(orders') = 1 .. Len(orders) \cup {n} /\ n \notin 1 .. Len(orders)
      BY <1>4, <1>5, <1>b
    <3>2. Uses' = {i \in 1 .. Len(orders') : orders'[i].used /\ ~orders'[i].cancelled}
      BY DEF Uses
    <3>3. orders'[n].used = TRUE /\ orders'[n].cancelled = FALSE
      BY <1>5, <1>7, <1>d
    <3> QED
      BY <1>5, <3>1, <3>2, <3>3 DEF Uses
  <2>5. n \notin UsesOf(u) /\ UsesOf(u)' = UsesOf(u) \cup {n}
    <3>1. \A x : UsesOf(x)' = {i \in Uses' : orders'[i].user = x}
      BY DEF UsesOf
    <3>2. \A i \in Uses : orders'[i].user = orders[i].user
      BY <1>4, <1>5 DEF Uses
    <3> QED
      BY <1>5, <1>d, <2>4, <3>1, <3>2 DEF UsesOf
  <2>6. \A x \in Users : x # u => UsesOf(x)' = UsesOf(x)
    <3>1. \A i \in Uses : orders'[i].user = orders[i].user
      BY <1>4, <1>5 DEF Uses
    <3>2. \A x : UsesOf(x)' = {i \in Uses' : orders'[i].user = x}
      BY DEF UsesOf
    <3> QED
      BY <1>5, <1>d, <2>4, <3>1, <3>2 DEF UsesOf
  <2>7. \A S : IsFiniteSet(S) /\ n \notin S => Cardinality(S \cup {n}) = Cardinality(S) + 1
    BY FS_AddElement
  <2>8. Cardinality(Uses') = Cardinality(Uses) + 1 /\ Cardinality(UsesOf(u)') = Cardinality(UsesOf(u)) + 1
    BY <2>4, <2>5, <2>7, UsesFinite
  <2>9. UsageLimit \in Nat /\ PerUserLimit \in Nat /\ Cardinality(Uses) \in Nat /\ Cardinality(UsesOf(u)) \in Nat
    BY StorefrontAssumption, UsesFinite
  <2>10. Cardinality(Uses') <= UsageLimit /\ Cardinality(UsesOf(u)') <= PerUserLimit
    BY <2>3, <2>8, <2>9
  <2>11. \A x \in Users : x # u => Cardinality(UsesOf(x)') <= PerUserLimit
    BY <2>6 DEF LimitInv
  <2> QED
    BY <2>2, <2>10, <2>11 DEF LimitInv
<1> QED
  BY <1>6, <1>7

\* A cancelled order is a use no more.
LEMMA CancelLimit ==
  ASSUME TypeInv, LimitInv, NEW i \in 1 .. Len(orders), Cancel(i)
  PROVE  LimitInv'
<1>1. /\ orders' = [orders EXCEPT ![i].cancelled = TRUE] /\ loc' = StaleLocals(Users)
      /\ pc' = pc /\ crowded' = crowded
  BY DEF Cancel, Stales, history
<1>2. orders \in Seq(OrderRecords) /\ Len(orders) \in Nat
  BY DEF TypeInv, DataOK
<1>3. /\ Len(orders') = Len(orders)
      /\ \A j \in 1 .. Len(orders) : /\ orders'[j].used = orders[j].used /\ orders'[j].user = orders[j].user
                                     /\ j # i => orders'[j] = orders[j]
                                     /\ j = i => orders'[j].cancelled
  BY <1>1, <1>2 DEF OrderRecords
<1>4. Uses' \subseteq Uses
  BY <1>2, <1>3 DEF Uses
<1>5. \A x \in Users : UsesOf(x)' \subseteq UsesOf(x)
  <2>1. \A j \in Uses : orders'[j].user = orders[j].user
    BY <1>3 DEF Uses
  <2> QED
    BY <1>4, <2>1 DEF UsesOf
<1>6. \A w \in Workers : w \in UsingCoupon' => w \in UsingCoupon /\ loc'[w].user = loc[w].user
  BY <1>1, StaleFacts DEF UsingCoupon
<1> QED
  BY <1>1, <1>4, <1>5, <1>6, LimitKept

LEMMA LimitNext ==
  ASSUME TypeInv, ShownInv, LimitInv, [Next]_vars
  PROVE  LimitInv'
<1>0. "price" \notin {"reserve", "create"} /\ "discount" \notin {"reserve", "create"}
      /\ "idle" \notin {"reserve", "create"}
  OBVIOUS
<1>1. CASE UNCHANGED vars
  BY <1>1, LimitKept DEF vars, history, Uses, UsesOf, UsingCoupon
<1>2. ASSUME NEW w \in Workers, NEW u \in Users, Open(w, u) \/ Recount(w, u) \/ Load(w, u)
      PROVE  LimitInv'
  <2>1. orders' = orders /\ crowded' = crowded
    BY <1>2, RefreshCases DEF history
  <2>2. CASE UNCHANGED <<page, pc, loc>>
    BY <2>1, <2>2, LimitKept DEF Uses, UsesOf, UsingCoupon
  <2>3. CASE Asks(w) /\ \E units \in 0 .. MaxUnits : Refresh(w, u, units)
    <3>1. GoTo(w, "price") /\ \A v \in Workers : v # w => loc'[v] = loc[v]
      BY <2>3 DEF Asks, Refresh, TypeInv, WorkersOK
    <3> QED
      BY <1>0, <2>1, <3>1, LimitMove
  <2> QED
    BY <1>2, <2>2, <2>3, RefreshCases
<1>3. ASSUME NEW w \in Workers, NEW u \in Users, Quote(w, u) \/ Place(w, u)
      PROVE  LimitInv'
  <2>1. GoTo(w, "price") /\ orders' = orders /\ crowded' = crowded
    BY <1>3 DEF Quote, Place, AsksForQuote, Asks, history
  <2>2. \A v \in Workers : v # w => loc'[v] = loc[v]
    BY <1>3 DEF Quote, Place, TypeInv, WorkersOK
  <2> QED
    BY <1>0, <2>1, <2>2, LimitMove
<1>4. ASSUME NEW w \in Workers, ReadPrice(w) \/ Quoted(w) \/ QuoteFails(w) PROVE LimitInv'
  <2>1. PICK label \in {"discount", "idle"} : GoTo(w, label)
    BY <1>4 DEF ReadPrice, Quoted, QuoteFails, Ends
  <2>2. orders' = orders /\ crowded' = crowded /\ \A v \in Workers : v # w => loc'[v] = loc[v]
    BY <1>4 DEF ReadPrice, Quoted, QuoteFails, Ends, history, TypeInv, WorkersOK
  <2> QED
    BY <1>0, <2>1, <2>2, LimitMove
<1>5. ASSUME NEW w \in Workers, Reserve(w) PROVE LimitInv'
  <2>1. pc[w] = "reserve" /\ orders' = orders /\ crowded' = crowded
    BY <1>5 DEF Reserve, history
  <2>2. CASE Ends(w)
    BY <1>0, <2>1, <2>2, LimitMove DEF Ends, TypeInv, WorkersOK
  <2>3. ASSUME NEW us, GoTo(w, "create"), loc' = StaleLocals(us) PROVE LimitInv'
    <3>1. pc'[w] = "create" /\ \A v \in Workers : v # w => pc'[v] = pc[v]
      BY <2>3 DEF GoTo, TypeInv, WorkersOK
    <3>2. \A v \in Workers : loc'[v].of = loc[v].of /\ loc'[v].user = loc[v].user
      BY <2>3, StaleFacts
    <3>3. \A v \in Workers : v \in UsingCoupon' => v \in UsingCoupon /\ loc'[v].user = loc[v].user
      BY <2>1, <3>1, <3>2 DEF UsingCoupon
    <3>4. Uses' = Uses /\ \A x \in Users : UsesOf(x)' = UsesOf(x)
      BY <2>1 DEF Uses, UsesOf
    <3> QED
      BY <2>1, <3>3, <3>4, LimitKept
  <2> QED
    BY <1>5, <2>2, <2>3 DEF Reserve
<1>6. ASSUME NEW w \in Workers, Abandon(w) PROVE LimitInv'
  <2>1. /\ GoTo(w, "idle") /\ orders' = orders /\ crowded' = crowded
        /\ loc' = [StaleLocals({loc[w].user}) EXCEPT ![w] = NoLocals]
    BY <1>6 DEF Abandon, history
  <2>2. \A v \in Workers : v # w => loc'[v].of = loc[v].of /\ loc'[v].user = loc[v].user
    BY <2>1, StaleFacts
  <2> QED
    BY <1>0, <2>1, <2>2, LimitMove
<1>7. ASSUME NEW w \in Workers, Placed(w) PROVE LimitInv'
  <2>1. GoTo(w, "idle") /\ orders' = orders /\ crowded' = crowded
    BY <1>7 DEF Placed, history
  <2>2. \A v \in Workers : v # w => loc'[v].of = loc[v].of /\ loc'[v].user = loc[v].user
    BY <1>7, OrphanFacts DEF Placed, TypeInv, WorkersOK
  <2> QED
    BY <1>0, <2>1, <2>2, LimitMove
<1>8. ASSUME \/ \E u \in Users : Leave(u)
             \/ Edit
      PROVE  LimitInv'
  <2>1. orders' = orders /\ crowded' = crowded /\ pc' = pc
    BY <1>8 DEF Leave, Edit, history
  <2>2. \A w \in Workers : loc'[w].of = loc[w].of /\ loc'[w].user = loc[w].user
    BY <1>8, OrphanFacts, StaleFacts DEF Leave, Edit, Stales
  <2>3. Uses' = Uses /\ \A x \in Users : UsesOf(x)' = UsesOf(x)
    BY <2>1 DEF Uses, UsesOf
  <2> QED
    BY <2>1, <2>2, <2>3, LimitKept DEF UsingCoupon
<1> QED
  BY <1>1, <1>2, <1>3, <1>4, <1>5, <1>6, <1>7, <1>8, DiscountLimit, CreateOrderLimit, CancelLimit DEF Next

LEMMA InitLimit == Init => LimitInv
<1> SUFFICES ASSUME Init PROVE LimitInv
  OBVIOUS
<1>1. Uses = {} /\ \A u : UsesOf(u) = {}
  BY DEF Init, Uses, UsesOf
<1>2. UsingCoupon = {}
  BY DEF Init, UsingCoupon
<1>3. UsageLimit \in Nat /\ PerUserLimit \in Nat /\ Cardinality({}) = 0
  BY StorefrontAssumption, FS_EmptySet
<1> QED
  BY <1>1, <1>2, <1>3 DEF LimitInv

\* Coupons are used within their limits, in all and by each customer, for every order of
\* checkouts, payments and cancellations in which no two checkouts use one at once; and the
\* server refuses no points and no coupon a page offers her to redeem, unless something they
\* were made of has changed since.
THEOREM DiscountsAreLimited == Spec => []DiscountsAreAllowed
<1>1. Init => TypeInv /\ ShownInv /\ OfferInv /\ LimitInv
  BY InitType, InitShown, InitOffer, InitLimit
<1>2. TypeInv /\ ShownInv /\ OfferInv /\ LimitInv /\ [Next]_vars => (TypeInv /\ ShownInv /\ OfferInv /\ LimitInv)'
  BY NextType, ShownStep, OfferNext, LimitNext
<1>3. OfferInv /\ LimitInv => DiscountsAreAllowed
  BY DEF OfferInv, LimitInv, DiscountsAreAllowed, CouponWithinLimits, OfferIsAccepted
<1> QED
  BY <1>1, <1>2, <1>3, PTL DEF Spec
=============================================================================
