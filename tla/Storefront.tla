------------------------------ MODULE Storefront ------------------------------
(***************************************************************************)
(* The price a customer is shown and the price she pays: the checkout page *)
(* (client PlaceOrder.jsx) with its quotes (previewCheckoutPricing), and   *)
(* the order she places with its coupon and points, online or for cash     *)
(* (orderController.js, checkoutPricingService.js), while an admin changes *)
(* the price and the coupon.                                               *)
(*                                                                         *)
(* One product, one size and one coupon; checkout of a cart, not buy-now.  *)
(* Stock, idempotency keys and the steps of a payment are in Checkout.     *)
(***************************************************************************)
EXTENDS CheckoutPricing, Sequences, FiniteSets

CONSTANTS
  Users,         \* each at one browser
  Workers,       \* requests the browsers have under way
  Prices, FirstPrice,
  Coupons,       \* the coupon is one of these
  UsageLimit, PerUserLimit,
  PointsChoices, \* points a customer may type
  Balance,       \* points of each user at first
  MaxUnits,      \* bound: units in a cart (the code: 99)
  MaxOrders,     \* bound: orders ever placed
  MaxVisits,     \* bound: how often a checkout page opens
  MaxQuotes,     \* bound: quotes asked for on an open page
  MaxEdits       \* bound: changes by the admin

ASSUME StorefrontAssumption ==
  /\ Balance \in Nat
  /\ MaxUnits \in Nat /\ MaxVisits \in Nat /\ MaxQuotes \in Nat /\ MaxEdits \in Nat
  /\ Prices \subseteq Nat /\ FirstPrice \in Prices /\ PointsChoices \subseteq Nat
  /\ UsageLimit \in Nat \ {0} /\ PerUserLimit \in Nat \ {0}
  /\ \A c \in Coupons : /\ c.type \in {"percentage", "flat", "free_shipping"}
                        /\ c.value \in Nat /\ c.min \in Nat /\ c.capped \in BOOLEAN /\ c.cap \in Nat

VARIABLES
  price,      \* product.price
  coupon,     \* the coupon's terms, and whether it is active
  points,     \* what each user has available
  known,      \* the price each browser has loaded with the catalogue; 0: not yet
  page,       \* the checkout page of each user
  orders,     \* the orders, in the order they were created
  pc, loc,    \* each request, with what it has read
  visits, quotes, edits,
  crowded,    \* history: two checkouts used the coupon at the same time
  denied      \* history: points the page offered were refused, though nothing had changed

history == <<crowded, denied>>
counters == <<visits, quotes, edits>>
vars == <<price, coupon, points, known, page, orders, pc, loc, counters, history>>

NoPrice == [subtotal |-> 0, fee |-> 0, base |-> 0, discount |-> 0, used |-> FALSE, points |-> 0, amount |-> 0]
NoQuote == [given |-> FALSE, of |-> NoPrice, available |-> 0, fresh |-> FALSE]

\* units: those of checkoutItems; busy: pricingAction; quote: pricingPreview, fresh while
\* nothing it was made of has changed.
NewPage == [open |-> FALSE, units |-> 0, busy |-> FALSE, quote |-> NoQuote]

\* here: the page that asked is still open; to: the amount the customer is to pay; offered:
\* the page offered these points, by a quote that held; fair: nothing has changed since the
\* request; of: the price that was made.
NoLocals == [kind |-> "none", user |-> "none", here |-> FALSE, units |-> 0, to |-> 0,
             price |-> 0, used |-> FALSE, points |-> 0, available |-> 0, offered |-> FALSE,
             fair |-> FALSE, of |-> NoPrice]

Init ==
  /\ price = FirstPrice
  /\ coupon \in {[active |-> TRUE, terms |-> c] : c \in Coupons}
  /\ points = [u \in Users |-> Balance]
  /\ known = [u \in Users |-> 0]
  /\ page = [u \in Users |-> NewPage]
  /\ orders = <<>>
  /\ pc = [w \in Workers |-> "idle"]
  /\ loc = [w \in Workers |-> NoLocals]
  /\ visits = 0 /\ quotes = 0 /\ edits = 0
  /\ crowded = FALSE /\ denied = FALSE

GoTo(w, label) == pc' = [pc EXCEPT ![w] = label]

Asks(w) ==
  /\ pc[w] = "idle"
  /\ GoTo(w, "price")

AsksForQuote(w) ==
  /\ Asks(w)
  /\ quotes < MaxQuotes /\ quotes' = quotes + 1
  /\ UNCHANGED <<visits, edits>>

Ends(w) ==
  /\ GoTo(w, "idle")
  /\ loc' = [loc EXCEPT ![w] = NoLocals]

-----------------------------------------------------------------------------
(* The checkout page                                                       *)

\* Without a preview the page shows, and takes orders at, what its own prices come to: no
\* coupon, no points, and nothing at all before it knows a price.
LocalPrice(p, units) ==
  LET subtotal == p * units
      fee == IF subtotal = 0 THEN 0 ELSE DeliveryCharge
  IN [NoPrice EXCEPT !.subtotal = subtotal, !.fee = fee, !.base = subtotal + fee, !.amount = subtotal + fee]

Local(u) == [NoQuote EXCEPT !.of = LocalPrice(known[u], page[u].units),
                            !.fresh = known[u] = price /\ price * page[u].units > 0]

\* pricingSummary.
Shown(u) == IF page[u].quote.given THEN page[u].quote ELSE Local(u)

Request(kind, u, units) ==
  [NoLocals EXCEPT !.kind = kind, !.user = u, !.here = TRUE, !.units = units, !.fair = TRUE]

\* The page asks for a price with neither coupon nor points.
Refresh(w, u, units) == loc' = [loc EXCEPT ![w] = Request("refresh", u, units)]

Opened(units) == [NewPage EXCEPT !.open = TRUE, !.units = units, !.busy = TRUE]

\* The page opens with what is in the cart.
Open(w, u) ==
  /\ ~page[u].open
  /\ visits < MaxVisits /\ visits' = visits + 1
  /\ \E units \in 1 .. MaxUnits :
       /\ page' = [page EXCEPT ![u] = Opened(units)]
       /\ Asks(w)
       /\ Refresh(w, u, units)
  /\ UNCHANGED <<price, coupon, points, known, orders, quotes, edits, history>>

\* Mutant of Recount: the page keeps the quote it has.
RecountKeepsQuote(w, u) ==
  /\ page[u].open
  /\ \E units \in 1 .. MaxUnits \ {page[u].units} :
       /\ page' = [page EXCEPT ![u] = [Opened(units) EXCEPT !.quote = page[u].quote]]
       /\ AsksForQuote(w)
       /\ Refresh(w, u, units)
  /\ UNCHANGED <<price, coupon, points, known, orders, history>>

\* A late answer of getUserCart changes the units under the page: its quote is dropped, but
\* not those on their way, and it asks again.
Recount(w, u) ==
  /\ page[u].open
  /\ \E units \in 1 .. MaxUnits \ {page[u].units} :
       /\ page' = [page EXCEPT ![u] = Opened(units)]
       /\ AsksForQuote(w)
       /\ Refresh(w, u, units)
  /\ UNCHANGED <<price, coupon, points, known, orders, history>>

\* The catalogue comes; an open page asks again, its own prices being others now.
Load(w, u) ==
  /\ known[u] = 0 /\ price > 0
  /\ known' = [known EXCEPT ![u] = price]
  /\ IF page[u].open
     THEN /\ page' = [page EXCEPT ![u].busy = TRUE]
          /\ AsksForQuote(w)
          /\ Refresh(w, u, page[u].units)
     ELSE UNCHANGED <<page, pc, loc, counters>>
  /\ UNCHANGED <<price, coupon, points, orders, history>>

\* The page of a request is gone: its answer goes nowhere.
Orphans(u) == [w \in Workers |-> [loc[w] EXCEPT !.here = @ /\ loc[w].user # u]]

\* The quote is forgotten; so is the catalogue when the browser loads the shop anew.
Leave(u) ==
  /\ page[u].open
  /\ page' = [page EXCEPT ![u] = NewPage]
  /\ loc' = Orphans(u)
  /\ known' \in {known, [known EXCEPT ![u] = 0]}
  /\ UNCHANGED <<price, coupon, points, orders, pc, counters, history>>

\* The customer applies or removes the coupon, with the points of the quote; or redeems
\* points the page offers, or removes them, with the coupon of the quote.  One at a time.
Quote(w, u) ==
  LET q == Shown(u)
      new == Request("change", u, page[u].units)
  IN /\ page[u].open /\ ~page[u].busy
     /\ page' = [page EXCEPT ![u].busy = TRUE]
     /\ AsksForQuote(w)
     /\ \/ loc' = [loc EXCEPT ![w] = [new EXCEPT !.used = ~q.of.used, !.points = q.of.points]]
        \/ \E p \in PointsChoices :
             /\ Offered(p, q.of.base, page[u].units, q.available)
             /\ loc' = [loc EXCEPT ![w] =
                  [new EXCEPT !.used = q.of.used, !.points = p, !.offered = q.fresh]]
        \/ /\ q.of.points > 0
           /\ loc' = [loc EXCEPT ![w] = [new EXCEPT !.used = q.of.used]]
     /\ UNCHANGED <<price, coupon, points, known, orders, history>>

Placing == {w \in Workers : pc[w] # "idle" /\ loc[w].kind = "place"}

\* onSubmitHandler, with the coupon and the points of what is shown, whether a preview is in
\* or not; one order at a time.
Place(w, u) ==
  LET q == Shown(u)
  IN /\ page[u].open
     /\ Len(orders) + Cardinality(Placing) < MaxOrders
     /\ ~\E v \in Placing : loc[v].user = u /\ loc[v].here
     /\ Asks(w)
     /\ loc' = [loc EXCEPT ![w] = [Request("place", u, page[u].units) EXCEPT
                                     !.used = q.of.used, !.points = q.of.points,
                                     !.fair = q.fresh, !.to = q.of.amount]]
     /\ UNCHANGED <<price, coupon, points, known, page, orders, counters, history>>

-----------------------------------------------------------------------------
(* calculateCheckoutPricing, for a quote and for an order                  *)

ReadPrice(w) ==
  /\ pc[w] = "price"
  /\ loc' = [loc EXCEPT ![w].price = price]
  /\ GoTo(w, "discount")
  /\ UNCHANGED <<price, coupon, points, known, page, orders, counters, history>>

Uses == {i \in 1 .. Len(orders) : orders[i].used /\ ~orders[i].cancelled}
UsesOf(u) == {i \in Uses : orders[i].user = u}

\* Mutant of CouponAllowed: one use too many.
CouponAllowedOnceMore(u, subtotal) ==
  /\ coupon.active
  /\ subtotal >= coupon.terms.min
  /\ Cardinality(Uses) <= UsageLimit
  /\ Cardinality(UsesOf(u)) <= PerUserLimit

\* resolveCouponForCheckout does not throw: orders that were neither cancelled nor failed count.
CouponAllowed(u, subtotal) ==
  /\ coupon.active
  /\ subtotal >= coupon.terms.min
  /\ Cardinality(Uses) < UsageLimit
  /\ Cardinality(UsesOf(u)) < PerUserLimit

\* Checkouts that have found the coupon allowed and not created their order yet.
UsingCoupon == {w \in Workers : pc[w] \in {"reserve", "create"} /\ loc[w].of.used}

\* What a request keeps of its locals once the price is made.
Kept(l) == [NoLocals EXCEPT !.kind = l.kind, !.user = l.user, !.here = l.here]

\* The page that asked for a quote, if it is still there, has its answer.
Answered(w, quote) ==
  page' = IF loc[w].here THEN [page EXCEPT ![loc[w].user].busy = FALSE, ![loc[w].user].quote = quote]
          ELSE page

\* When it is refused the page shows the message and keeps its quote.
Discount(w) ==
  LET l == loc[w]
      made == Pricing(l.price, l.units, coupon.terms, l.used, l.points)
      allowed == /\ l.used => CouponAllowed(loc[w].user, l.price * l.units)
                 /\ Redeemable(l.points, made.base, l.units, points[loc[w].user])
  IN /\ pc[w] = "discount"
     /\ IF allowed
        THEN /\ GoTo(w, IF l.kind = "place" THEN "reserve" ELSE "quoted")
             /\ loc' = [loc EXCEPT ![w] =
                  IF l.kind = "place"
                  THEN [Kept(l) EXCEPT !.of = made, !.to = IF l.fair THEN l.to ELSE made.amount]
                  ELSE [Kept(l) EXCEPT !.of = made, !.units = l.units,
                                       !.available = points[loc[w].user], !.fair = l.fair]]
             /\ crowded' = (crowded \/ (l.kind = "place" /\ l.used /\ UsingCoupon # {}))
             /\ UNCHANGED <<page, denied>>
        ELSE /\ Ends(w)
             /\ IF l.kind = "place" THEN UNCHANGED page ELSE Answered(w, page[loc[w].user].quote)
             /\ denied' = (denied \/ (l.offered /\ l.fair))
             /\ UNCHANGED crowded
     /\ UNCHANGED <<price, coupon, points, known, orders, counters>>

\* What the quotes of these users are made of changes: they are not fresh, and those on
\* their way will not be.
StalePages(us) == [u \in Users |-> [page[u] EXCEPT !.quote.fresh = @ /\ u \notin us]]
StaleLocals(us) == [w \in Workers |-> [loc[w] EXCEPT !.fair = @ /\ loc[w].user \notin us]]

\* Whatever answer comes last is shown, also when the page has other units by now.
Quoted(w) ==
  /\ pc[w] = "quoted"
  /\ Answered(w, [given |-> TRUE, of |-> loc[w].of, available |-> loc[w].available,
                  fresh |-> loc[w].fair /\ loc[w].units = page[loc[w].user].units])
  /\ Ends(w)
  /\ UNCHANGED <<price, coupon, points, known, orders, counters, history>>

\* A quote has no effect on the server, so one step stands for every way to lose it: the page
\* falls back on its own prices, or keeps the quote it has if this one was a change to it.
QuoteFails(w) ==
  /\ pc[w] = "price" /\ loc[w].kind # "place"
  /\ Answered(w, IF loc[w].kind = "refresh" THEN NoQuote ELSE page[loc[w].user].quote)
  /\ Ends(w)
  /\ UNCHANGED <<price, coupon, points, known, orders, counters, history>>

-----------------------------------------------------------------------------
(* The order                                                               *)

Stales ==
  /\ page' = StalePages(Users)
  /\ loc' = StaleLocals(Users)

\* Points and stock are taken, or one of them is not there (or nothing is to be paid online).
Reserve(w) ==
  LET u == loc[w].user
      l == loc[w]
      affected == IF l.of.points > 0 THEN {u} ELSE {}
  IN /\ pc[w] = "reserve"
     /\ \/ /\ l.of.points <= points[u]
           /\ points' = [points EXCEPT ![u] = @ - l.of.points]
           /\ GoTo(w, "create")
           /\ page' = StalePages(affected)
           /\ loc' = StaleLocals(affected)
        \/ Ends(w) /\ UNCHANGED <<points, page>>
     /\ UNCHANGED <<price, coupon, known, orders, counters, history>>

\* The payment fails, is given up, or is never made; or storing the order for cash fails.
Abandon(w) ==
  /\ pc[w] = "create"
  /\ points' = [points EXCEPT ![loc[w].user] = @ + loc[w].of.points]
  /\ GoTo(w, "idle")
  /\ page' = StalePages({loc[w].user})
  /\ loc' = [StaleLocals({loc[w].user}) EXCEPT ![w] = NoLocals]
  /\ UNCHANGED <<price, coupon, known, orders, counters, history>>

\* At once for cash, or when the payment is captured; to the page that waits for it the
\* amount shown is still the one of its quote, if nothing has changed since.
CreateOrder(w) ==
  /\ pc[w] = "create"
  /\ orders' = Append(orders,
       [user |-> loc[w].user, used |-> loc[w].of.used, points |-> loc[w].of.points, cancelled |-> FALSE])
  /\ GoTo(w, "placed")
  /\ page' = StalePages(Users)
  /\ loc' = [StaleLocals(Users) EXCEPT ![w] = Kept(loc[w])]
  /\ UNCHANGED <<price, coupon, points, known, counters, history>>

\* The browser goes on to the orders page, or the answer is lost.
Placed(w) ==
  /\ pc[w] = "placed"
  /\ GoTo(w, "idle")
  /\ \/ /\ page' = [page EXCEPT ![loc[w].user] = NewPage]
        /\ loc' = [Orphans(loc[w].user) EXCEPT ![w] = NoLocals]
     \/ /\ loc' = [loc EXCEPT ![w] = NoLocals]
        /\ UNCHANGED page
  /\ UNCHANGED <<price, coupon, points, known, orders, counters, history>>

\* An order that is cancelled no longer counts as a use, and gives its points back.
Cancel(i) ==
  /\ ~orders[i].cancelled
  /\ orders' = [orders EXCEPT ![i].cancelled = TRUE]
  /\ points' = [points EXCEPT ![orders[i].user] = @ + orders[i].points]
  /\ Stales
  /\ UNCHANGED <<price, coupon, known, pc, counters, history>>

\* The admin changes the price, pauses or resumes the coupon, or changes its terms.
Edit ==
  /\ edits < MaxEdits /\ edits' = edits + 1
  /\ \/ price' \in Prices \ {price} /\ UNCHANGED coupon
     \/ coupon' = [coupon EXCEPT !.active = ~@] /\ UNCHANGED price
     \/ \E c \in Coupons \ {coupon.terms} : coupon' = [coupon EXCEPT !.terms = c] /\ UNCHANGED price
  /\ Stales
  /\ UNCHANGED <<points, known, orders, pc, visits, quotes, history>>

Next ==
  \/ \E w \in Workers :
       \/ \E u \in Users : Open(w, u) \/ Recount(w, u) \/ Load(w, u) \/ Quote(w, u) \/ Place(w, u)
       \/ ReadPrice(w) \/ Discount(w) \/ Quoted(w) \/ QuoteFails(w)
       \/ Reserve(w) \/ Abandon(w) \/ CreateOrder(w) \/ Placed(w)
  \/ \E u \in Users : Leave(u)
  \/ \E i \in 1 .. Len(orders) : Cancel(i)
  \/ Edit

Spec == Init /\ [][Next]_vars

-----------------------------------------------------------------------------
(* Properties                                                              *)

Labels == {"idle", "price", "discount", "quoted", "reserve", "create", "placed"}
PriceRecords == [subtotal : Nat, fee : Nat, base : Nat, discount : Nat, used : BOOLEAN, points : Nat, amount : Nat]

\* Types.
TypeOK ==
  /\ price \in Prices
  /\ coupon \in [active : BOOLEAN, terms : Coupons]
  /\ points \in [Users -> Nat]
  /\ known \in [Users -> Prices \cup {0}]
  /\ page \in [Users -> [open : BOOLEAN, units : 0 .. MaxUnits, busy : BOOLEAN,
                          quote : [given : BOOLEAN, of : PriceRecords, available : Nat, fresh : BOOLEAN]]]
  /\ orders \in Seq([user : Users, used : BOOLEAN, points : Nat, cancelled : BOOLEAN])
  /\ pc \in [Workers -> Labels]
  /\ visits \in 0 .. MaxVisits /\ quotes \in 0 .. MaxQuotes /\ edits \in 0 .. MaxEdits
  /\ crowded \in BOOLEAN /\ denied \in BOOLEAN

\* A coupon is used no more often than its limits allow, however orders, payments and
\* cancellations follow each other, unless two checkouts were using it at once.
CouponWithinLimits ==
  ~crowded =>
    /\ Cardinality(Uses) <= UsageLimit
    /\ \A u \in Users : Cardinality(UsesOf(u)) <= PerUserLimit

\* Checkouts that take the money, or the order for cash.
Charging == {w \in Workers : pc[w] = "create"}

\* The customer is charged the total the page showed when she ordered, its own or a
\* preview's, however answers come, fail or overtake each other, unless a price, coupon or
\* balance it was made of has changed since.  Two totals are not held against the page: the 0
\* it shows before its catalogue is in, or for a product that is free; and a preview that came
\* for other units than the page had by then.
ChargedAsShown == \A w \in Charging : loc[w].of.amount = loc[w].to

\* Points the page offers to redeem are not refused by the server, unless something changed.
OfferIsAccepted == ~denied

\* Coupons are used within their limits, and what the page offers to redeem is not refused
\* (CouponWithinLimits and OfferIsAccepted; resolveCouponForCheckout,
\* calculateLoyaltyRedemption, maxRedeemableForThisOrder).
DiscountsAreAllowed == CouponWithinLimits /\ OfferIsAccepted

\* The invoice the courier prints comes to what the customer paid.
InvoicedAsPaid == \A w \in Charging : NetTotal(loc[w].of) = loc[w].of.amount
=============================================================================
