------------------------------ MODULE OrderStatus ------------------------------
(***************************************************************************)
(* The life of an order after it was placed: services/orderStatusService.js*)
(* with the points, rewards and referrals of services/loyaltyService.js.   *)
(* A worker handles one request at a time: a customer's cancellation, an   *)
(* admin's new status, or a status heard from the courier.  Each action    *)
(* ends where the code awaits; a request decides from the copy of the      *)
(* order it read first.                                                    *)
(*                                                                         *)
(* One customer, whom another one referred, owns every order; an order     *)
(* holds one unit of stock.  Messages, e-mails and pushes are left out:    *)
(* they change nothing here.                                               *)
(***************************************************************************)
EXTENDS Integers, FiniteSets, FiniteSetsExt

CONSTANTS
  Orders,
  Cod,          \* those paid on delivery; the others were paid when they were placed
  Synced,       \* those the courier knows (shiprocket.orderId)
  Points,       \* the loyalty points each order redeems
  Balance,      \* the customer's loyalty points at first
  Reward,       \* the points a delivery earns; a referral earns each side as many
  Workers,
  MaxRequests,  \* bound: requests handled
  MaxFaults     \* bound: database errors and crashes

ASSUME OrderAssumption ==
  /\ IsFiniteSet(Orders) /\ Cod \subseteq Orders /\ Synced \subseteq Orders
  /\ Points \in [Orders -> Nat]
ASSUME OrderBounds ==
  Balance \in Nat /\ Reward \in Nat \ {0} /\ MaxRequests \in Nat /\ MaxFaults \in Nat
ASSUME WorkerAssumption == IsFiniteSet(Workers)
ASSUME NoOrderAssumption == "none" \notin Orders

VARIABLES
  order,      \* the stored orders
  shelf,      \* product.stock
  points,     \* loyaltyPoints of the customer and of the referrer
  reserved,   \* the customer's reservedLoyaltyPoints
  unlocked,   \* the customer's referralRewardUnlocked
  referrals,  \* the referrer's successfulReferralCount
  ledger,     \* loyalty transactions: how many of each type for each order
  entered,    \* history: how often each order became Delivered or Cancelled
  raced,      \* history: the orders that two requests have worked on at once
  pc, loc,    \* where each worker is, and its local variables
  requests, faults

userVars == <<points, reserved, unlocked, referrals, ledger>>
historyVars == <<entered, raced>>
vars == <<order, shelf, userVars, historyVars, pc, loc, requests, faults>>

Pipeline == {"Order Placed", "Shipped", "Out for delivery"}
Final == {"Delivered", "Cancelled"}
Status == Pipeline \cup Final
Types == {"redeemed", "delivered", "referrer", "newCustomer"}

\* paid: payment; payment: paymentStatus; stock: inventoryReserved; points:
\* loyaltyRedemptionStatus; awarded: loyaltyAwardedAt is set; reminded:
\* reviewReminderQueuedAt is set; mirror: cancelStatus.
Placed(o) ==
  [status |-> "Order Placed", paid |-> o \notin Cod,
   payment |-> IF o \in Cod THEN "pending" ELSE "paid", stock |-> TRUE,
   points |-> IF Points[o] = 0 THEN "none" ELSE IF o \in Cod THEN "reserved" ELSE "redeemed",
   awarded |-> FALSE, reminded |-> FALSE, mirror |-> "none"]

\* The points that the stored orders hold of the customer's.
PointsHeld(orders) ==
  SumFunctionOnSet([o \in Orders |-> IF orders[o].points = "reserved" THEN Points[o] ELSE 0], Orders)

\* The placement reserves no more points than the customer has.
ASSUME ReservedAssumption == PointsHeld([o \in Orders |-> Placed(o)]) <= Balance

NoOrder ==
  [status |-> "Order Placed", paid |-> FALSE, payment |-> "pending", stock |-> FALSE,
   points |-> "none", awarded |-> FALSE, reminded |-> FALSE, mirror |-> "none"]

\* o, to: the order and its new status; seen: the copy read; new: the order as the
\* request's own update returned it; locked: the copy of the customer has no referral yet.
NoLocals == [o |-> "none", to |-> "none", seen |-> NoOrder, new |-> NoOrder, locked |-> FALSE]

Init ==
  /\ order = [o \in Orders |-> Placed(o)]
  /\ shelf = 0
  /\ points = [customer |-> Balance, referrer |-> 0]
  /\ reserved = PointsHeld(order)
  /\ unlocked = FALSE
  /\ referrals = 0
  /\ ledger = [t \in Types |-> [o \in Orders |-> 0]]
  /\ entered = [o \in Orders |-> [Delivered |-> 0, Cancelled |-> 0]]
  /\ raced = {}
  /\ pc = [w \in Workers |-> "idle"]
  /\ loc = [w \in Workers |-> NoLocals]
  /\ requests = 0
  /\ faults = 0

-----------------------------------------------------------------------------
(* How a request moves on.                                                 *)

GoTo(w, label) == pc' = [pc EXCEPT ![w] = label] /\ UNCHANGED loc

GoWith(w, label, locals) ==
  /\ pc' = [pc EXCEPT ![w] = label]
  /\ loc' = [loc EXCEPT ![w] = locals]

\* The transition is over: the request is answered.
Ends(w) == GoWith(w, "idle", NoLocals)

\* The transition writes a status: the history notes when it is a new one.
Write(o, new) ==
  /\ order' = [order EXCEPT ![o] = new]
  /\ entered' = IF new.status \in Final /\ new.status # order[o].status
                THEN [entered EXCEPT ![o][new.status] = @ + 1]
                ELSE entered
  /\ UNCHANGED raced

-----------------------------------------------------------------------------
(* The request reads the order and decides.                                *)

\* Mutant of MayBecome: the pipeline accepts every status.
MayBecomeAnything(from, to) == ~(from = "Cancelled" /\ to = "Cancelled")

\* validateOrderStatusTransition; cancelling what is cancelled changes nothing.
MayBecome(from, to) ==
  /\ from \in Final => to = from
  /\ ~(from = "Cancelled" /\ to = "Cancelled")

\* What a request does with its copy of order o; a refused one is answered at once.
Decide(w, o, to) ==
  /\ MayBecome(order[o].status, to)
  /\ GoWith(w, "write", [NoLocals EXCEPT !.o = o, !.to = to, !.seen = order[o]])

\* updateOrderStatus, by an admin or for the courier; the status is the schema's choice.
StartTransition(w, o, to) ==
  /\ pc[w] = "idle"
  /\ requests < MaxRequests
  /\ requests' = requests + 1
  /\ Decide(w, o, to)
  /\ raced' = IF \E v \in Workers : loc[v].o = o THEN raced \cup {o} ELSE raced
  /\ UNCHANGED <<order, shelf, userVars, entered, faults>>

\* cancelUserOrder: only an order that is still placed, and for six hours.
StartCancel(w, o) ==
  /\ order[o].status = "Order Placed"
  /\ StartTransition(w, o, "Cancelled")

-----------------------------------------------------------------------------
(* performOrderCancellation                                                *)

\* Mutant of AfterCancel: it gives the unit back and forgets the reserved points.
AfterCancelUnit(seen) == IF seen.stock THEN "restock" ELSE "mirror"

\* What is left to give back, from the copy the request read.
AfterCancel(seen) ==
  IF seen.points = "reserved" /\ seen.status # "Delivered" THEN "unreserve"
  ELSE IF seen.stock THEN "restock" ELSE "mirror"

\* One guarded update; who does not find the order any more gives nothing back.
CancelOrder(w) ==
  LET l == loc[w]
  IN /\ pc[w] = "write" /\ l.to = "Cancelled"
     /\ IF order[l.o].status # "Cancelled"
        THEN /\ Write(l.o, [order[l.o] EXCEPT !.status = "Cancelled", !.payment = "cancelled"])
             /\ GoWith(w, AfterCancel(l.seen), [l EXCEPT !.new = order'[l.o]])
        ELSE Ends(w) /\ UNCHANGED <<order, historyVars>>
     /\ UNCHANGED <<shelf, userVars, requests, faults>>

\* releaseUserReservedLoyaltyPoints: what is left is given back when it is less.
Unreserve(w) ==
  LET n == Points[loc[w].o]
      next == IF loc[w].seen.stock THEN "restock" ELSE "mirror"
  IN /\ pc[w] = "unreserve"
     /\ reserved' = IF reserved >= n THEN reserved - n ELSE 0
     /\ GoTo(w, IF reserved > 0 THEN "release" ELSE next)
     /\ UNCHANGED <<order, shelf, points, unlocked, referrals, ledger, historyVars, requests, faults>>

\* releaseReservedLoyaltyRedemption
Release(w) ==
  /\ pc[w] = "release"
  /\ order' = [order EXCEPT ![loc[w].o].points = "released"]
  /\ GoTo(w, IF loc[w].seen.stock THEN "restock" ELSE "mirror")
  /\ UNCHANGED <<shelf, userVars, historyVars, requests, faults>>

\* releaseInventoryForOrder
Restock(w) ==
  /\ pc[w] = "restock"
  /\ shelf' = shelf + 1
  /\ GoTo(w, "unstock")
  /\ UNCHANGED <<order, userVars, historyVars, requests, faults>>

Unstock(w) ==
  /\ pc[w] = "unstock"
  /\ order' = [order EXCEPT ![loc[w].o].stock = FALSE]
  /\ GoTo(w, "mirror")
  /\ UNCHANGED <<shelf, userVars, historyVars, requests, faults>>

\* cancelShiprocketForOrder, from the order as the cancellation returned it.
Mirror(w) ==
  LET o == loc[w].o
  IN /\ pc[w] = "mirror"
     /\ IF o \in Synced /\ loc[w].new.mirror # "cancelled"
        THEN /\ order' = [order EXCEPT ![o].mirror = "pending"]
             /\ Ends(w) \/ GoTo(w, "courier")
        ELSE Ends(w) /\ UNCHANGED order
     /\ UNCHANGED <<shelf, userVars, historyVars, requests, faults>>

\* The courier answers, or not; either is stored and the cancellation stands.
CourierAnswers(w) ==
  /\ pc[w] = "courier"
  /\ \E answer \in {"cancelled", "failed"} :
       order' = [order EXCEPT ![loc[w].o].mirror = answer]
  /\ Ends(w)
  /\ UNCHANGED <<shelf, userVars, historyVars, requests, faults>>

-----------------------------------------------------------------------------
(* applyOrderStatusTransition                                              *)

\* Packing, shipped, out for delivery: written whatever the order is by now.
MoveOrder(w) ==
  LET l == loc[w]
  IN /\ pc[w] = "write" /\ l.to \in Pipeline
     /\ Write(l.o, [order[l.o] EXCEPT !.status = l.to])
     /\ Ends(w)
     /\ UNCHANGED <<shelf, userVars, requests, faults>>

\* Cash is taken on delivery, when the request's copy says it has not been.
Delivered(o, seen) ==
  LET new == [order[o] EXCEPT !.status = "Delivered"]
  IN IF o \in Cod /\ ~seen.paid THEN [new EXCEPT !.paid = TRUE, !.payment = "paid"] ELSE new

AfterDelivery(o, new) == IF new.points = "reserved" THEN "redeem" ELSE "readUser"

\* Mutant of DeliverOrder: every request that delivers the order rewards it.
DeliverOrderAnyway(w) ==
  LET l == loc[w]
      new == Delivered(l.o, l.seen)
  IN /\ pc[w] = "write" /\ l.to = "Delivered"
     /\ Write(l.o, new)
     /\ GoWith(w, AfterDelivery(l.o, new), [l EXCEPT !.new = new])
     /\ UNCHANGED <<shelf, userVars, requests, faults>>

\* One guarded update: one request delivers the order, and rewards it.
DeliverOrder(w) ==
  LET l == loc[w]
      new == Delivered(l.o, l.seen)
  IN /\ pc[w] = "write" /\ l.to = "Delivered"
     /\ IF order[l.o].status # "Delivered"
        THEN /\ Write(l.o, new)
             /\ GoWith(w, AfterDelivery(l.o, new), [l EXCEPT !.new = new])
        ELSE Ends(w) /\ UNCHANGED <<order, historyVars>>
     /\ UNCHANGED <<shelf, userVars, requests, faults>>

-----------------------------------------------------------------------------
(* processDeliveredOrderEffects                                            *)

Record(type, o) == ledger' = [ledger EXCEPT ![type][o] = @ + 1]

\* Mutant of Redeem: the delivery gives up when the points are not there.
RedeemOrStop(w) ==
  LET n == Points[loc[w].o]
  IN /\ pc[w] = "redeem"
     /\ IF points.customer >= n /\ reserved >= n
        THEN /\ points' = [points EXCEPT !.customer = @ - n]
             /\ reserved' = reserved - n
             /\ GoTo(w, "redeemRow")
        ELSE Ends(w) /\ UNCHANGED <<points, reserved>>
     /\ UNCHANGED <<order, shelf, unlocked, referrals, ledger, historyVars, requests, faults>>

\* finalizeReservedLoyaltyRedemption: one guarded update; when it finds no user the
\* redemption is left as it is.
Redeem(w) ==
  LET n == Points[loc[w].o]
  IN /\ pc[w] = "redeem"
     /\ IF points.customer >= n /\ reserved >= n
        THEN /\ points' = [points EXCEPT !.customer = @ - n]
             /\ reserved' = reserved - n
             /\ GoTo(w, "redeemRow")
        ELSE GoTo(w, "readUser") /\ UNCHANGED <<points, reserved>>
     /\ UNCHANGED <<order, shelf, unlocked, referrals, ledger, historyVars, requests, faults>>

RedeemRow(w) ==
  /\ pc[w] = "redeemRow"
  /\ Record("redeemed", loc[w].o)
  /\ GoTo(w, "redeemMark")
  /\ UNCHANGED <<order, shelf, points, reserved, unlocked, referrals, historyVars, requests, faults>>

RedeemMark(w) ==
  /\ pc[w] = "redeemMark"
  /\ order' = [order EXCEPT ![loc[w].o].points = "redeemed"]
  /\ GoTo(w, "readUser")
  /\ UNCHANGED <<shelf, userVars, historyVars, requests, faults>>

\* awardOrderDeliveryRewards reads the customer, and rewards what its order has not been.
ReadUser(w) ==
  LET l == [loc[w] EXCEPT !.locked = ~unlocked]
  IN /\ pc[w] = "readUser"
     /\ GoWith(w, IF ~l.new.awarded THEN "award" ELSE IF l.locked THEN "claim" ELSE "mark", l)
     /\ UNCHANGED <<order, shelf, userVars, historyVars, requests, faults>>

\* awardLoyaltyPoints: the balance, then the transaction.
Award(w, from, next, who) ==
  /\ pc[w] = from
  /\ points' = [points EXCEPT ![who] = @ + Reward]
  /\ GoTo(w, next)
  /\ UNCHANGED <<order, shelf, reserved, unlocked, referrals, ledger, historyVars, requests, faults>>

AwardRow(w, from, next, type) ==
  /\ pc[w] = from
  /\ Record(type, loc[w].o)
  /\ GoTo(w, next)
  /\ UNCHANGED <<order, shelf, points, reserved, unlocked, referrals, historyVars, requests, faults>>

\* Mutant of ClaimReferral: the copy of the customer decides.
ClaimReferralFromCopy(w) ==
  /\ pc[w] = "claim"
  /\ unlocked' = TRUE
  /\ GoTo(w, "referrer")
  /\ UNCHANGED <<order, shelf, points, reserved, referrals, ledger, historyVars, requests, faults>>

\* claimReferralRewardUnlock: one guarded update, before anybody is rewarded.
ClaimReferral(w) ==
  /\ pc[w] = "claim"
  /\ unlocked' = TRUE
  /\ GoTo(w, IF unlocked THEN "mark" ELSE "referrer")
  /\ UNCHANGED <<order, shelf, points, reserved, referrals, ledger, historyVars, requests, faults>>

Mark(w) ==
  /\ pc[w] = "mark"
  /\ order' = [order EXCEPT ![loc[w].o].awarded = TRUE]
  /\ GoTo(w, "remind")
  /\ UNCHANGED <<shelf, userVars, historyVars, requests, faults>>

\* The customer is asked for a review, unless the order says so already.
Remind(w) ==
  /\ pc[w] = "remind"
  /\ order' = [order EXCEPT ![loc[w].o].reminded = TRUE]
  /\ Ends(w)
  /\ UNCHANGED <<shelf, userVars, historyVars, requests, faults>>

CountReferral(w) ==
  /\ pc[w] = "count"
  /\ referrals' = referrals + 1
  /\ GoTo(w, "mark")
  /\ UNCHANGED <<order, shelf, points, reserved, unlocked, ledger, historyVars, requests, faults>>

AfterAward(w) == IF loc[w].locked THEN "claim" ELSE "mark"

Rewards(w) ==
  \/ Redeem(w) \/ RedeemRow(w) \/ RedeemMark(w) \/ ReadUser(w)
  \/ Award(w, "award", "awardRow", "customer")
  \/ AwardRow(w, "awardRow", AfterAward(w), "delivered")
  \/ ClaimReferral(w)
  \/ Award(w, "referrer", "referrerRow", "referrer")
  \/ AwardRow(w, "referrerRow", "newCustomer", "referrer")
  \/ Award(w, "newCustomer", "newCustomerRow", "customer")
  \/ AwardRow(w, "newCustomerRow", "count", "newCustomer")
  \/ CountReferral(w) \/ Mark(w) \/ Remind(w)

-----------------------------------------------------------------------------
\* The process dies, or the database fails: the request is answered 500 and what it had
\* left to do is not done.
Abandons(w) ==
  /\ pc[w] # "idle"
  /\ faults < MaxFaults
  /\ faults' = faults + 1
  /\ Ends(w)
  /\ UNCHANGED <<order, shelf, userVars, historyVars, requests>>

Cancellation(w) ==
  CancelOrder(w) \/ Unreserve(w) \/ Release(w) \/ Restock(w) \/ Unstock(w) \/ Mirror(w)
    \/ CourierAnswers(w)

Continue(w) == Cancellation(w) \/ MoveOrder(w) \/ DeliverOrder(w) \/ Rewards(w)

Next ==
  \E w \in Workers :
    \/ Continue(w) \/ Abandons(w)
    \/ \E o \in Orders :
         StartCancel(w, o) \/ \E to \in Status : StartTransition(w, o, to)

Spec == Init /\ [][Next]_vars

\* A request that started goes on.
FairSpec == Spec /\ \A w \in Workers : WF_vars(Continue(w))
-----------------------------------------------------------------------------
(* Properties                                                              *)

PointStates == {"none", "reserved", "redeemed", "released"}
StoredOrders ==
  [status : Status, paid : BOOLEAN, payment : {"pending", "paid", "cancelled"},
   stock : BOOLEAN, points : PointStates, awarded : BOOLEAN, reminded : BOOLEAN,
   mirror : {"none", "pending", "cancelled", "failed"}]
Labels ==
  {"idle", "write", "unreserve", "release", "restock", "unstock", "mirror", "courier",
   "redeem", "redeemRow", "redeemMark", "readUser", "award", "awardRow", "claim", "referrer",
   "referrerRow", "newCustomer", "newCustomerRow", "count", "mark", "remind"}
Locals ==
  [o : Orders \cup {"none"}, to : Status \cup {"none"}, seen : StoredOrders,
   new : StoredOrders, locked : BOOLEAN]

\* Types. Neither the balances nor the reserved points go below zero.
TypeOK ==
  /\ order \in [Orders -> StoredOrders]
  /\ shelf \in Nat /\ points \in [{"customer", "referrer"} -> Nat] /\ reserved \in Nat
  /\ unlocked \in BOOLEAN /\ referrals \in Nat
  /\ ledger \in [Types -> [Orders -> Nat]]
  /\ entered \in [Orders -> [Final -> Nat]]
  /\ raced \subseteq Orders
  /\ pc \in [Workers -> Labels] /\ loc \in [Workers -> Locals]
  /\ \A w \in Workers : pc[w] # "idle" => loc[w].o \in Orders /\ loc[w].to \in Status
  /\ requests \in 0 .. MaxRequests /\ faults \in 0 .. MaxFaults

Quiet == \A w \in Workers : pc[w] = "idle"

\* A delivered or cancelled order stays so ("cannot be moved back into the fulfillment
\* pipeline"), unless two requests worked on it at once; whatever fails.
FinalIsKept ==
  [][\A o \in Orders \ raced' :
       order[o].status \in Final => order'[o].status = order[o].status]_vars

\* An order is rewarded at most once for each time it became delivered, however many
\* requests deliver it at once and whatever fails.
RewardsFollowDelivery == \A o \in Orders : ledger.delivered[o] <= entered[o].Delivered

\* The first delivered order of a referred customer rewards both sides, once, even when
\* two of his orders are delivered at the same time (claimReferralRewardUnlock).
ReferralOnce ==
  LET Rows(o) == ledger.referrer[o] + ledger.newCustomer[o]
  IN /\ referrals <= 1
     /\ \A o \in Orders : ledger.referrer[o] <= 1 /\ ledger.newCustomer[o] <= 1
     /\ \A o, p \in Orders : Rows(o) > 0 /\ Rows(p) > 0 => o = p

\* What a delivery and a cancellation leave behind.
Settled(o) ==
  /\ order[o].status = "Delivered" =>
       /\ order[o].paid /\ order[o].payment = "paid" /\ order[o].stock
       /\ order[o].points \in {"none", "redeemed"}
       /\ order[o].awarded /\ order[o].reminded /\ ledger.delivered[o] = 1
  /\ order[o].status = "Cancelled" =>
       /\ order[o].payment = "cancelled" /\ ~order[o].stock
       /\ order[o].points # "reserved" /\ ledger.delivered[o] = 0
  /\ order[o].status \in Pipeline => order[o].stock /\ ~order[o].awarded

\* The transactions explain the balances: the customer's rewards less what he redeemed,
\* the referrer's rewards.
BalancesMatchLedger ==
  /\ points.customer = Balance +
       SumFunctionOnSet([o \in Orders |-> Reward * (ledger.delivered[o] + ledger.newCustomer[o])
                                           - ledger.redeemed[o] * Points[o]], Orders)
  /\ points.referrer = SumFunctionOnSet([o \in Orders |-> Reward * ledger.referrer[o]], Orders)

\* Between requests, if nothing failed, the transactions explain the balances, however the
\* requests of one customer interleaved.  While no two worked on one order at once, every
\* order is settled besides, and reserved points and the shelf are those the orders say.
OrdersSettled ==
  Quiet /\ faults = 0 =>
    /\ BalancesMatchLedger
    /\ raced = {} =>
         /\ \A o \in Orders : Settled(o)
         /\ reserved = PointsHeld(order)
         /\ shelf = Cardinality({o \in Orders : ~order[o].stock})

\* A delivered order is rewarded in the end, unless something failed.
DeliveredIsRewarded ==
  \A o \in Orders :
    order[o].status = "Delivered" ~> ledger.delivered[o] > 0 \/ faults > 0
=============================================================================
