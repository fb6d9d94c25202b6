------------------------------- MODULE Checkout -------------------------------
(***************************************************************************)
(* Checkout (server/controllers/orderController.js) with the stock of      *)
(* productInventoryService.js, the points of loyaltyService.js and the     *)
(* idempotency keys of idempotencyService.js.  Customers check out at the  *)
(* same time, and one customer may have several checkouts open.  A worker  *)
(* is one request handler; each action ends where the code awaits.         *)
(*                                                                         *)
(* A checkout is named by its idempotency key.  The payment gateway keeps  *)
(* one order per online checkout and tells of payments by webhook; the     *)
(* customer's browser asks to verify a payment or to cancel the attempt.   *)
(***************************************************************************)
EXTENDS Naturals, Sequences, FiniteSets, FiniteSetsExt

CONSTANTS
  Checkouts,   \* idempotency keys
  Cod,         \* those that pay on delivery; the others pay online
  Products,
  Items,       \* the products of each checkout, one unit each, in the order of the cart
  Points,      \* the loyalty points each checkout redeems
  Stock,       \* units of each product at first
  Balance,     \* the customer's loyalty points at first
  Workers,     \* request handlers
  Settlers,    \* those that handle verify, cancel and webhooks: with one, no two overlap
  MaxFaults    \* bound: database and gateway errors, crashes, expired attempts

ASSUME CheckoutAssumption ==
  /\ IsFiniteSet(Checkouts) /\ IsFiniteSet(Workers)
  /\ Cod \subseteq Checkouts
  /\ Items \in [Checkouts -> Seq(Products)]
  /\ \A c \in Checkouts : Items[c] # <<>>
  /\ Points \in [Checkouts -> Nat]
  /\ Stock \in [Products -> Nat]
ASSUME CheckoutBounds == Balance \in Nat /\ MaxFaults \in Nat /\ Settlers \subseteq Workers
ASSUME NoneAssumption == "none" \notin Checkouts

VARIABLES
  stock,        \* product.stock
  points,       \* user.loyaltyPoints
  reserved,     \* user.reservedLoyaltyPoints
  key,          \* the state of each idempotency record
  attempt,      \* the payment attempt of each online checkout
  orders,       \* the orders, in the order they were created
  gw,           \* the gateway's order of each checkout
  events,       \* webhooks the gateway has not seen acknowledged
  recorded,     \* webhook events stored
  pc, loc,      \* where each worker is, and its local variables
  faults        \* faults so far

userVars == <<points, reserved>>
gatewayVars == <<gw, events, recorded>>
vars == <<stock, points, reserved, key, attempt, orders, gw, events, recorded, pc, loc, faults>>

\* stock: inventoryReserved; points: loyaltyRedemptionStatus; order: createdOrderId;
\* linked: razorpayOrderId is set, so requests find the attempt.
NoAttempt == [status |-> "absent", stock |-> FALSE, points |-> "none",
              linked |-> FALSE, order |-> 0]

\* op: the request; event: its webhook; i: the item to reserve; stock, points: what the
\* request believes it reserved; seen: its copy of the attempt; order: the order it made.
NoLocals == [op |-> "none", c |-> "none", event |-> "none", i |-> 1, stock |-> FALSE,
             points |-> FALSE, seen |-> NoAttempt, order |-> 0]

Init ==
  /\ stock = Stock
  /\ points = Balance
  /\ reserved = 0
  /\ key = [c \in Checkouts |-> "absent"]
  /\ attempt = [c \in Checkouts |-> NoAttempt]
  /\ orders = <<>>
  /\ gw = [c \in Checkouts |-> "none"]
  /\ events = {}
  /\ recorded = {}
  /\ pc = [w \in Workers |-> "idle"]
  /\ loc = [w \in Workers |-> NoLocals]
  /\ faults = 0

-----------------------------------------------------------------------------
(* How a request moves on.                                                 *)

GoTo(w, label) == pc' = [pc EXCEPT ![w] = label] /\ UNCHANGED loc

GoWith(w, label, locals) ==
  /\ pc' = [pc EXCEPT ![w] = label]
  /\ loc' = [loc EXCEPT ![w] = locals]

\* A request about checkout c arrives.
Begin(w, label, c, op, event) ==
  /\ pc[w] = "idle"
  /\ GoWith(w, label, [NoLocals EXCEPT !.c = c, !.op = op, !.event = event])

\* Requests that settle a payment.
BeginSettling(w, label, c, op, event) == w \in Settlers /\ Begin(w, label, c, op, event)

\* Also how verify and cancel fail, and how a webhook is answered 500: the gateway will
\* send it again.
Ends(w) == GoWith(w, "idle", NoLocals)

\* The handler is done: a webhook is acknowledged, other requests are answered, and a
\* failed placement goes on in its catch block.
Answered(w) ==
  /\ IF loc[w].op = "place" THEN GoTo(w, "refuse") ELSE Ends(w)
  /\ events' = IF loc[w].op = "webhook" THEN events \ {<<loc[w].c, loc[w].event>>} ELSE events
  /\ UNCHANGED <<gw, recorded>>

-----------------------------------------------------------------------------
(* The stock and the points.                                               *)

Units(s, p) == Cardinality({i \in DOMAIN s : s[i] = p})

\* releaseInventoryForItems, for the first n items of checkout c.
ReleaseItems(c, n) ==
  stock' = [p \in Products |-> stock[p] + Units(SubSeq(Items[c], 1, n), p)]

\* releaseUserReservedLoyaltyPoints: what is left is given back when it is less.
ReleasePoints(c) ==
  /\ reserved' = IF reserved >= Points[c] THEN reserved - Points[c] ELSE 0
  /\ UNCHANGED points

-----------------------------------------------------------------------------
(* placeOrderCOD and placeOrderRazorpay                                    *)

\* beginIdempotentRequest: a key the lookup finds is answered at once and changes nothing.
StartPlace(w, c) ==
  /\ key[c] = "absent"
  /\ Begin(w, "claim", c, "place", "none")
  /\ UNCHANGED <<stock, userVars, key, attempt, orders, gatewayVars, faults>>

Reserving(c) == IF Points[c] > 0 THEN "points" ELSE "item"

\* Mutant of ClaimKey: the key is taken whoever else has it.
ClaimKeyAnyway(w) ==
  /\ pc[w] = "claim"
  /\ key' = [key EXCEPT ![loc[w].c] = "in_progress"]
  /\ GoTo(w, Reserving(loc[w].c))
  /\ UNCHANGED <<stock, userVars, attempt, orders, gatewayVars, faults>>

\* beginIdempotentRequest: the unique index admits one request; then the checkout is
\* priced, or refused (no cash on delivery, stale cart, too many points).
ClaimKey(w) ==
  /\ pc[w] = "claim"
  /\ IF key[loc[w].c] = "absent"
     THEN /\ key' = [key EXCEPT ![loc[w].c] = "in_progress"]
          /\ GoTo(w, Reserving(loc[w].c)) \/ GoTo(w, "refuse")
     ELSE Ends(w) /\ UNCHANGED key
  /\ UNCHANGED <<stock, userVars, attempt, orders, gatewayVars, faults>>

\* Mutant of ReservePoints: the filter compares with the whole balance.
ReservePointsTwice(w) ==
  /\ pc[w] = "points"
  /\ IF points >= Points[loc[w].c]
     THEN /\ reserved' = reserved + Points[loc[w].c]
          /\ GoWith(w, "item", [loc[w] EXCEPT !.points = TRUE])
     ELSE GoTo(w, "giveStock") /\ UNCHANGED reserved
  /\ UNCHANGED <<stock, points, key, attempt, orders, gatewayVars, faults>>

\* reserveLoyaltyRedemption: one guarded update.
ReservePoints(w) ==
  /\ pc[w] = "points"
  /\ IF points >= reserved + Points[loc[w].c]
     THEN /\ reserved' = reserved + Points[loc[w].c]
          /\ GoWith(w, "item", [loc[w] EXCEPT !.points = TRUE])
     ELSE GoTo(w, "giveStock") /\ UNCHANGED reserved
  /\ UNCHANGED <<stock, points, key, attempt, orders, gatewayVars, faults>>

\* reserveInventoryForItems: one guarded update per item.
ReserveItem(w) ==
  LET c == loc[w].c
      p == Items[c][loc[w].i]
  IN /\ pc[w] = "item"
     /\ IF stock[p] > 0
        THEN /\ stock' = [stock EXCEPT ![p] = @ - 1]
             /\ IF loc[w].i < Len(Items[c])
                THEN GoWith(w, "item", [loc[w] EXCEPT !.i = @ + 1])
                ELSE GoWith(w, "create", [loc[w] EXCEPT !.stock = TRUE])
        ELSE GoTo(w, "shortage") /\ UNCHANGED stock
     /\ UNCHANGED <<userVars, key, attempt, orders, gatewayVars, faults>>

\* Its catch block: the items before the one that ran out are given back.
Shortage(w) ==
  /\ pc[w] = "shortage"
  /\ ReleaseItems(loc[w].c, loc[w].i - 1)
  /\ GoTo(w, "giveStock")
  /\ UNCHANGED <<userVars, key, attempt, orders, gatewayVars, faults>>

NewOrder(c, paid) ==
  [c |-> c, paid |-> paid, stock |-> TRUE,
   points |-> IF Points[c] > 0 THEN "reserved" ELSE "none"]

\* The COD order. What follows it (cart, messages, Shiprocket) changes nothing here; it
\* may fail, like the step after it.
CreateCodOrder(w) ==
  /\ pc[w] = "create" /\ loc[w].c \in Cod
  /\ orders' = Append(orders, NewOrder(loc[w].c, FALSE))
  /\ GoTo(w, "complete")
  /\ UNCHANGED <<stock, userVars, key, attempt, gatewayVars, faults>>

CreateAttempt(w) ==
  /\ pc[w] = "create" /\ loc[w].c \notin Cod
  /\ attempt' = [attempt EXCEPT ![loc[w].c] =
                   [NoAttempt EXCEPT !.status = "pending", !.stock = TRUE,
                      !.points = IF Points[loc[w].c] > 0 THEN "reserved" ELSE "none"]]
  /\ GoTo(w, "gateway")
  /\ UNCHANGED <<stock, userVars, key, orders, gatewayVars, faults>>

\* createRazorpayCheckoutOrder
CreateGatewayOrder(w) ==
  /\ pc[w] = "gateway"
  /\ gw' = [gw EXCEPT ![loc[w].c] = "open"]
  /\ GoTo(w, "link")
  /\ UNCHANGED <<stock, userVars, key, attempt, orders, events, recorded, faults>>

LinkAttempt(w) ==
  /\ pc[w] = "link"
  /\ attempt' = IF attempt[loc[w].c] = NoAttempt THEN attempt
                ELSE [attempt EXCEPT ![loc[w].c].linked = TRUE]
  /\ GoTo(w, "complete")
  /\ UNCHANGED <<stock, userVars, key, orders, gatewayVars, faults>>

\* completeIdempotentRequest stores the answer and it is sent: the order, or a refusal.
CompleteKey(w) ==
  /\ pc[w] \in {"complete", "refuse"}
  /\ key' = [key EXCEPT ![loc[w].c] = IF pc[w] = "complete" THEN "completed" ELSE "refused"]
  /\ Ends(w)
  /\ UNCHANGED <<stock, userVars, attempt, orders, gatewayVars, faults>>

\* The catch block: stock, points, and online the attempt, or both once more.
GiveStock(w) ==
  /\ pc[w] \in {"giveStock", "giveStockAgain"}
  /\ IF loc[w].stock THEN ReleaseItems(loc[w].c, Len(Items[loc[w].c])) ELSE UNCHANGED stock
  /\ GoTo(w, IF pc[w] = "giveStock" THEN "givePoints" ELSE "givePointsAgain")
  /\ UNCHANGED <<userVars, key, attempt, orders, gatewayVars, faults>>

GivePoints(w) ==
  /\ pc[w] \in {"givePoints", "givePointsAgain"}
  /\ IF loc[w].points THEN ReleasePoints(loc[w].c) ELSE UNCHANGED userVars
  /\ IF pc[w] = "givePoints" /\ loc[w].c \notin Cod
     THEN IF attempt[loc[w].c] # NoAttempt
          THEN GoTo(w, "drop")
          ELSE GoTo(w, "giveStockAgain")
     ELSE GoTo(w, "refuse")
  /\ UNCHANGED <<stock, key, attempt, orders, gatewayVars, faults>>

-----------------------------------------------------------------------------
(* A payment is captured: createOrderFromPaymentAttempt, for verifyRazorpay and   *)
(* for the webhooks payment.captured and order.paid.                       *)

\* The attempt as it is stored, if it still is.
Update(c, new) == attempt' = IF attempt[c].status = "absent" THEN attempt ELSE [attempt EXCEPT ![c] = new]

\* verifyRazorpay finds the attempt. Otherwise, and when the order is created, it answers.
StartVerify(w, c) ==
  /\ gw[c] = "captured"
  /\ attempt[c].linked /\ attempt[c].status # "order_created"
  /\ BeginSettling(w, "settle", c, "verify", "none")
  /\ UNCHANGED <<stock, userVars, key, attempt, orders, gatewayVars, faults>>

\* handleRazorpayWebhook stores the event; one that is stored is acknowledged at once.
StartWebhook(w, e) ==
  /\ e \in events \ recorded
  /\ BeginSettling(w, "find", e[1], "webhook", e[2])
  /\ recorded' = recorded \cup {e}
  /\ UNCHANGED <<stock, userVars, key, attempt, orders, gw, events, faults>>

Duplicate(e) ==
  /\ e \in events \cap recorded
  /\ events' = events \ {e}
  /\ UNCHANGED <<stock, userVars, key, attempt, orders, gw, recorded, pc, loc, faults>>

\* Mutant of FindAttempt: the event is stored for a worker that nobody runs.
FindNothing(w) ==
  /\ pc[w] = "find"
  /\ Answered(w)
  /\ UNCHANGED <<stock, userVars, key, attempt, orders, faults>>

\* handleRazorpayPaymentCaptured and handleRazorpayPaymentFailed look for the attempt.
\* Without it they look for the order, which was created paid: nothing is left to do.
FindAttempt(w) ==
  /\ pc[w] = "find"
  /\ IF ~attempt[loc[w].c].linked
     THEN Answered(w)
     ELSE /\ UNCHANGED gatewayVars
          /\ GoTo(w, IF loc[w].event = "payment.failed" THEN "drop" ELSE "settle")
  /\ UNCHANGED <<stock, userVars, key, attempt, orders, faults>>

\* The attempt is read again: its order exists, its resources are gone, or it is bought.
Settle(w) ==
  LET latest == attempt[loc[w].c]
  IN /\ pc[w] = "settle"
     /\ IF latest.status = "absent" \/ latest.order # 0
        THEN Answered(w)
        ELSE /\ UNCHANGED gatewayVars
             /\ IF latest.stock THEN GoWith(w, "order", [loc[w] EXCEPT !.seen = latest])
                                ELSE Ends(w)
     /\ UNCHANGED <<stock, userVars, key, attempt, orders, faults>>

CreatePaidOrder(w) ==
  /\ pc[w] = "order"
  /\ orders' = Append(orders, NewOrder(loc[w].c, TRUE))
  /\ GoWith(w, IF Points[loc[w].c] > 0 THEN "finalize" ELSE "attach",
            [loc[w] EXCEPT !.order = Len(orders')])
  /\ UNCHANGED <<stock, userVars, key, attempt, gatewayVars, faults>>

\* Mutant of FinalizePoints: the reservation is kept.
FinalizePointsOnly(w) ==
  LET n == Points[loc[w].c]
  IN /\ pc[w] = "finalize"
     /\ points >= n /\ reserved >= n
     /\ points' = points - n
     /\ GoTo(w, "redeem")
     /\ UNCHANGED <<reserved, stock, key, attempt, orders, gatewayVars, faults>>

\* finalizeReservedLoyaltyRedemption: one guarded update; when it finds no user the
\* redemption is left as it is.
FinalizePoints(w) ==
  LET n == Points[loc[w].c]
  IN /\ pc[w] = "finalize"
     /\ IF points >= n /\ reserved >= n
        THEN points' = points - n /\ reserved' = reserved - n /\ GoTo(w, "redeem")
        ELSE UNCHANGED userVars /\ GoTo(w, "attach")
     /\ UNCHANGED <<stock, key, attempt, orders, gatewayVars, faults>>

Redeem(w) ==
  /\ pc[w] = "redeem"
  /\ orders' = [orders EXCEPT ![loc[w].order].points = "redeemed"]
  /\ GoTo(w, "attach")
  /\ UNCHANGED <<stock, userVars, key, attempt, gatewayVars, faults>>

Bought(a, order) ==
  [a EXCEPT !.status = "order_created", !.order = order, !.stock = FALSE,
            !.points = IF @ = "none" THEN "none" ELSE "redeemed"]

AttachOrder(w) ==
  /\ pc[w] = "attach"
  /\ Update(loc[w].c, Bought(attempt[loc[w].c], loc[w].order))
  /\ Answered(w)
  /\ UNCHANGED <<stock, userVars, key, orders, faults>>

-----------------------------------------------------------------------------
(* A payment is not completed: markPaymentAttemptAsNotCompleted, for the cancel   *)
(* request, the webhook payment.failed and the catch block of placeOrderRazorpay. *)

\* cancelRazorpayPaymentAttempt, by the customer who was given the attempt's id.
\* An attempt that is bought or cancelled is answered at once.
StartCancel(w, c) ==
  /\ key[c] = "completed"
  /\ attempt[c].status \in {"pending", "failed"}
  /\ BeginSettling(w, "drop", c, "cancel", "none")
  /\ UNCHANGED <<stock, userVars, key, attempt, orders, gatewayVars, faults>>

\* The attempt is read again; a bought one is left alone.
Drop(w) ==
  LET latest == attempt[loc[w].c]
  IN /\ pc[w] = "drop"
     /\ IF latest.status \in {"absent", "order_created"}
        THEN Answered(w)
        ELSE /\ GoWith(w, IF latest.stock THEN "dropStock"
                          ELSE IF latest.points = "reserved" THEN "dropPoints" ELSE "dropMark",
                       [loc[w] EXCEPT !.seen = latest])
             /\ UNCHANGED gatewayVars
     /\ UNCHANGED <<stock, userVars, key, attempt, orders, faults>>

DropStock(w) ==
  /\ pc[w] = "dropStock"
  /\ ReleaseItems(loc[w].c, Len(Items[loc[w].c]))
  /\ GoTo(w, IF loc[w].seen.points = "reserved" THEN "dropPoints" ELSE "dropMark")
  /\ UNCHANGED <<userVars, key, attempt, orders, gatewayVars, faults>>

DropPoints(w) ==
  /\ pc[w] = "dropPoints"
  /\ ReleasePoints(loc[w].c)
  /\ GoTo(w, "dropMark")
  /\ UNCHANGED <<stock, key, attempt, orders, gatewayVars, faults>>

DropMark(w) ==
  /\ pc[w] = "dropMark"
  /\ Update(loc[w].c, [attempt[loc[w].c] EXCEPT !.stock = FALSE,
                         !.points = IF Points[loc[w].c] > 0 THEN "released" ELSE @])
  /\ GoTo(w, "dropStatus")
  /\ UNCHANGED <<stock, userVars, key, orders, gatewayVars, faults>>

DropStatus(w) ==
  /\ pc[w] = "dropStatus"
  /\ Update(loc[w].c, [attempt[loc[w].c] EXCEPT 
       !.status = IF loc[w].op = "cancel" THEN "cancelled" ELSE "failed"])
  /\ Answered(w)
  /\ UNCHANGED <<stock, userVars, key, orders, faults>>

-----------------------------------------------------------------------------
(* The customer pays, and what can go wrong.                               *)

appVars == <<stock, points, reserved, key, attempt, orders, recorded, pc, loc>>

\* The customer who was given the gateway's order pays it; both webhooks are due.
Pay(c) ==
  /\ gw[c] = "open" /\ key[c] = "completed"
  /\ gw' = [gw EXCEPT ![c] = "captured"]
  /\ events' = events \cup {<<c, "payment.captured">>, <<c, "order.paid">>}
  /\ UNCHANGED <<appVars, faults>>

\* A payment is declined, once; the customer may try again.
PaymentFails(c) ==
  /\ gw[c] = "open" /\ key[c] = "completed"
  /\ <<c, "payment.failed">> \notin events \cup recorded
  /\ events' = events \cup {<<c, "payment.failed">>}
  /\ UNCHANGED <<appVars, gw, faults>>

Fault == faults < MaxFaults /\ faults' = faults + 1

\* The TTL index deletes the attempt after a day, with what it reserved.
ExpireAttempt(c) ==
  /\ attempt[c] # NoAttempt
  /\ Fault
  /\ attempt' = [attempt EXCEPT ![c] = NoAttempt]
  /\ UNCHANGED <<stock, userVars, key, orders, gatewayVars, pc, loc>>

\* The database or the gateway fails while an order is placed: the catch blocks.
PlacingFails(w) ==
  /\ Fault
  /\ \/ pc[w] = "item" /\ GoTo(w, "shortage")
     \/ /\ pc[w] \in {"points", "create", "gateway", "link", "complete"}
        /\ GoTo(w, "giveStock")
  /\ UNCHANGED <<stock, userVars, key, attempt, orders, gatewayVars>>

\* The process dies, or an error where nothing catches it or nothing is undone.
Abandons(w) ==
  /\ pc[w] # "idle"
  /\ Fault
  /\ Ends(w)
  /\ UNCHANGED <<stock, userVars, key, attempt, orders, gatewayVars>>

-----------------------------------------------------------------------------
Place(w) ==
  \/ ClaimKey(w) \/ ReservePoints(w) \/ ReserveItem(w) \/ Shortage(w)
  \/ CreateCodOrder(w) \/ CreateAttempt(w) \/ CreateGatewayOrder(w)
  \/ LinkAttempt(w) \/ CompleteKey(w) \/ GiveStock(w) \/ GivePoints(w)

Complete(w) ==
  \/ FindAttempt(w) \/ Settle(w) \/ CreatePaidOrder(w)
  \/ FinalizePoints(w) \/ Redeem(w) \/ AttachOrder(w)

NotComplete(w) ==
  Drop(w) \/ DropStock(w) \/ DropPoints(w) \/ DropMark(w) \/ DropStatus(w)

Continue(w) == Place(w) \/ Complete(w) \/ NotComplete(w)

Events == Checkouts \X {"payment.captured", "order.paid", "payment.failed"}

Next ==
  \/ \E w \in Workers :
       \/ Continue(w) \/ PlacingFails(w) \/ Abandons(w)
       \/ \E c \in Checkouts : StartPlace(w, c) \/ StartVerify(w, c) \/ StartCancel(w, c)
       \/ \E e \in Events : StartWebhook(w, e)
  \/ \E e \in Events : Duplicate(e)
  \/ \E c \in Checkouts : Pay(c) \/ PaymentFails(c) \/ ExpireAttempt(c)

Spec == Init /\ [][Next]_vars

\* A handler that started goes on; the gateway sends payment.captured until it is
\* acknowledged.
FairSpec ==
  /\ Spec
  /\ \A w \in Workers : WF_vars(Continue(w))
  /\ \A c \in Checkouts \ Cod :
       SF_vars(\E w \in Settlers : StartWebhook(w, <<c, "payment.captured">>))

-----------------------------------------------------------------------------
(* Properties                                                              *)

PointStates == {"none", "reserved", "redeemed", "released"}
AttemptStates == {"absent", "pending", "failed", "cancelled", "order_created"}
Attempts == [status : AttemptStates, stock : BOOLEAN, points : PointStates,
             linked : BOOLEAN, order : Nat]
Labels == {"idle", "claim", "points", "item", "shortage", "create",
           "gateway", "link", "complete", "refuse", "giveStock", "givePoints",
           "giveStockAgain", "givePointsAgain", "find", "settle", "order",
           "finalize", "redeem", "attach", "drop", "dropStock", "dropPoints", "dropMark",
           "dropStatus"}

Locals ==
  [op : {"none", "place", "verify", "cancel", "webhook"}, c : Checkouts \cup {"none"},
   event : {"none", "payment.captured", "order.paid", "payment.failed"},
   i : Nat \ {0}, stock : BOOLEAN, points : BOOLEAN, seen : Attempts, order : Nat]
Orders == [c : Checkouts, paid : BOOLEAN, stock : BOOLEAN, points : PointStates]

\* Types. Stock, points and reserved points never go below zero, whatever the handlers
\* race for; an order a handler works on exists.
TypeOK ==
  /\ stock \in [Products -> Nat] /\ points \in Nat /\ reserved \in Nat
  /\ key \in [Checkouts -> {"absent", "in_progress", "completed", "refused"}]
  /\ attempt \in [Checkouts -> Attempts]
  /\ orders \in Seq(Orders)
  /\ gw \in [Checkouts -> {"none", "open", "captured"}]
  /\ events \subseteq Events /\ recorded \subseteq Events
  /\ pc \in [Workers -> Labels]
  /\ loc \in [Workers -> Locals]
  /\ \A w \in Workers : loc[w].order \in 0 .. Len(orders)
  /\ faults \in 0 .. MaxFaults

Quiet == \A w \in Workers : pc[w] = "idle"

HeldFor(p) == [c \in Checkouts |-> IF attempt[c].stock THEN Units(Items[c], p) ELSE 0]
SoldBy(p) ==
  [i \in DOMAIN orders |-> IF orders[i].stock THEN Units(Items[orders[i].c], p) ELSE 0]
Held(p) == SumFunctionOnSet(HeldFor(p), Checkouts)
Sold(p) == SumFunctionOnSet(SoldBy(p), DOMAIN orders)

\* Between requests every unit is on the shelf, held by a payment attempt, or sold, unless
\* something failed; at no moment is more than the stock reserved.
StockAccounted ==
  \A p \in Products :
    /\ stock[p] >= 0
    /\ Quiet /\ faults = 0 => stock[p] + Held(p) + Sold(p) = Stock[p]

PointsFor(state) == [c \in Checkouts |-> IF attempt[c].points = state THEN Points[c] ELSE 0]
PointsIn(state) ==
  [i \in DOMAIN orders |-> IF orders[i].points = state THEN Points[orders[i].c] ELSE 0]
OfAttempts(state) == SumFunctionOnSet(PointsFor(state), Checkouts)
OfOrders(state) == SumFunctionOnSet(PointsIn(state), DOMAIN orders)

\* No online checkout with points was refused: its catch block gives them back twice.
NoneGivenTwice == \A c \in Checkouts \ Cod : key[c] = "refused" => Points[c] = 0

\* Between requests the reserved points are those of open attempts and of unpaid orders,
\* and the points taken are those of paid orders, unless something failed.
LoyaltyAccounted ==
  Quiet /\ faults = 0 /\ NoneGivenTwice =>
    /\ reserved = OfAttempts("reserved") + OfOrders("reserved")
    /\ points + OfOrders("redeemed") = Balance

\* Customers who race for the last unit or the same points, orders refused half way,
\* declined, cancelled and retried payments lose no unit and no point, and sell or spend
\* none twice (productInventoryService.js, loyaltyService.js).
NothingLost == StockAccounted /\ LoyaltyAccounted

\* The same points are never promised twice (reserveLoyaltyRedemption).
PointsCovered == reserved <= points

\* An idempotency key places at most one cash order, however often and however close
\* together the customer sends it, and whatever fails (idempotencyService.js). A key is
\* kept for a day; the model ends there.
OneCashOrderPerKey ==
  \A i, j \in DOMAIN orders :
    orders[i].c = orders[j].c /\ orders[i].c \in Cod => i = j

\* What the end-to-end test of an online checkout expects of a payment that verify and a
\* webhook report: one order.
OneOrderPerPayment ==
  \A i, j \in DOMAIN orders : orders[i].c = orders[j].c /\ orders[i].paid => i = j

\* With one settler and no fault the test is right.
OneOrderUndisturbed == faults = 0 => OneOrderPerPayment

\* Between two requests units and points are somewhere, and an online order, once placed, is
\* undisturbed by the rest of what is reported of its payment (releaseInventoryForItems,
\* createOrderFromPaymentAttempt, markPaymentAttemptAsNotCompleted).
OrdersAddUp == NothingLost /\ OneOrderUndisturbed

\* A captured payment becomes an order, by verify or by webhook, unless the attempt was
\* given up before (or something failed).
PaymentsAreSettled ==
  \A c \in Checkouts \ Cod :
    gw[c] = "captured" ~>
      \/ \E i \in DOMAIN orders : orders[i].c = c /\ orders[i].paid
      \/ attempt[c].status \in {"failed", "cancelled"}
      \/ faults > 0

=============================================================================
