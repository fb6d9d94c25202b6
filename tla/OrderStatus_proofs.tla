-------------------------- MODULE OrderStatus_proofs --------------------------
(***************************************************************************)
(* OrderStatus, for every set of orders and of workers, any number of      *)
(* requests and any faults: types, the finality of a status, one referral, *)
(* one reward for each delivery, and what the requests leave behind.        *)
(***************************************************************************)
EXTENDS OrderStatus, Sums

LEMMA RecordTypes ==
  /\ NoOrder \in StoredOrders
  /\ NoLocals \in Locals
  /\ \A o \in Orders : Placed(o) \in StoredOrders
<1>1. NoOrder \in StoredOrders
  BY DEF NoOrder, StoredOrders, PointStates, Status, Pipeline, Final
<1>2. NoLocals \in Locals
  BY <1>1 DEF NoLocals, Locals
<1>3. ASSUME NEW o \in Orders PROVE Placed(o) \in StoredOrders
  BY DEF Placed, StoredOrders, PointStates, Status, Pipeline, Final
<1> QED
  BY <1>1, <1>2, <1>3

\* Every update of a stored order keeps its type.
LEMMA OrderUpdates ==
  ASSUME NEW r \in StoredOrders
  PROVE  /\ [r EXCEPT !.status = "Cancelled", !.payment = "cancelled"] \in StoredOrders
         /\ \A s \in Status : [r EXCEPT !.status = s] \in StoredOrders
         /\ \A p \in PointStates : [r EXCEPT !.points = p] \in StoredOrders
         /\ [r EXCEPT !.stock = FALSE] \in StoredOrders
         /\ \A m \in {"pending", "cancelled", "failed"} : [r EXCEPT !.mirror = m] \in StoredOrders
         /\ [r EXCEPT !.awarded = TRUE] \in StoredOrders
         /\ [r EXCEPT !.reminded = TRUE] \in StoredOrders
BY DEF StoredOrders, Status, Final

\* What a worker's move needs to keep the types of pc and loc.
WorkersOK ==
  /\ pc \in [Workers -> Labels] /\ loc \in [Workers -> Locals]
  /\ \A w \in Workers : pc[w] # "idle" => loc[w].o \in Orders /\ loc[w].to \in Status

LEMMA WorkerMoves ==
  ASSUME WorkersOK, NEW w \in Workers, NEW label \in Labels, NEW l \in Locals,
         GoWith(w, label, l), label # "idle" => l.o \in Orders /\ l.to \in Status
  PROVE  WorkersOK'
BY DEF WorkersOK, GoWith

LEMMA WorkerGoes ==
  ASSUME WorkersOK, NEW w \in Workers, NEW label \in Labels, GoTo(w, label),
         pc[w] # "idle"
  PROVE  WorkersOK'
BY DEF WorkersOK, GoTo

LEMMA WorkerEnds ==
  ASSUME WorkersOK, NEW w \in Workers, Ends(w)
  PROVE  WorkersOK'
<1>1. "idle" \in Labels
  BY DEF Labels
<1> QED
  BY <1>1, RecordTypes, WorkerMoves DEF Ends

DataOK ==
  /\ order \in [Orders -> StoredOrders]
  /\ shelf \in Nat /\ points \in [{"customer", "referrer"} -> Nat] /\ reserved \in Nat
  /\ unlocked \in BOOLEAN /\ referrals \in Nat
  /\ ledger \in [Types -> [Orders -> Nat]]
  /\ entered \in [Orders -> [Final -> Nat]]
  /\ raced \subseteq Orders
  /\ requests \in 0 .. MaxRequests /\ faults \in 0 .. MaxFaults

LEMMA TypeParts == TypeOK <=> DataOK /\ WorkersOK
BY DEF TypeOK, DataOK, WorkersOK

LEMMA TypePartsNext == DataOK' /\ WorkersOK' => TypeOK'
BY DEF TypeOK, DataOK, WorkersOK

LEMMA WriteType ==
  ASSUME DataOK, NEW o \in Orders, NEW new \in StoredOrders, Write(o, new)
  PROVE  /\ order' \in [Orders -> StoredOrders] /\ entered' \in [Orders -> [Final -> Nat]]
         /\ order'[o] = new
<1>1. ASSUME new.status \in Final
      PROVE  [entered EXCEPT ![o][new.status] = @ + 1] \in [Orders -> [Final -> Nat]]
  BY <1>1 DEF DataOK
<1> QED
  BY <1>1 DEF DataOK, Write

LEMMA RecordType ==
  ASSUME DataOK, NEW type \in Types, NEW o \in Orders, Record(type, o)
  PROVE  ledger' \in [Types -> [Orders -> Nat]]
BY DEF DataOK, Record

LEMMA DeliveredType ==
  ASSUME NEW o \in Orders, NEW r \in StoredOrders, DataOK
  PROVE  Delivered(o, r) \in StoredOrders /\ Delivered(o, r).status = "Delivered"
<1>1. order[o] \in StoredOrders
  BY DEF DataOK
<1>2. "Delivered" \in Status
  BY DEF Status, Final
<1>3. [order[o] EXCEPT !.status = "Delivered"] \in StoredOrders
  BY <1>1, <1>2, OrderUpdates
<1> QED
  BY <1>1, <1>2, <1>3 DEF Delivered, StoredOrders

\* The points held are as many as their sum says.
LEMMA PointsHeldType ==
  ASSUME NEW orders
  PROVE  PointsHeld(orders) \in Nat
<1> DEFINE f == [o \in Orders |-> IF orders[o].points = "reserved" THEN Points[o] ELSE 0]
<1>1. \A o \in Orders : f[o] \in Nat
  BY OrderAssumption
<1> HIDE DEF f
<1>2. SumFunctionOnSet(f, Orders) \in Nat
  BY <1>1, SumIsNat, OrderAssumption
<1> QED
  BY <1>2 DEF PointsHeld, f

LEMMA TypeInit == Init => TypeOK
<1> SUFFICES ASSUME Init PROVE TypeOK
  OBVIOUS
<1>1. order \in [Orders -> StoredOrders]
  BY RecordTypes DEF Init
<1>2. reserved \in Nat
  BY <1>1, PointsHeldType DEF Init
<1>3. /\ shelf = 0 /\ unlocked \in BOOLEAN /\ referrals = 0 /\ raced = {}
      /\ requests = 0 /\ faults = 0
  BY DEF Init
<1>7. ledger \in [Types -> [Orders -> Nat]]
  BY DEF Init
<1>6. points \in [{"customer", "referrer"} -> Nat]
  BY OrderBounds DEF Init
<1>4. entered \in [Orders -> [Final -> Nat]]
  BY DEF Init, Final
<1>5. WorkersOK
  BY RecordTypes DEF Init, WorkersOK, Labels
<1> QED
  BY <1>1, <1>2, <1>3, <1>4, <1>5, <1>6, <1>7, OrderBounds, TypeParts DEF DataOK

\* The order a working worker is at, and its copies.
LEMMA WorkerType ==
  ASSUME TypeOK, NEW w \in Workers, pc[w] # "idle"
  PROVE  /\ loc[w] \in Locals /\ loc[w].o \in Orders /\ loc[w].to \in Status
         /\ loc[w].seen \in StoredOrders /\ loc[w].new \in StoredOrders
         /\ order[loc[w].o] \in StoredOrders
         /\ \A r \in StoredOrders : [loc[w] EXCEPT !.new = r] \in Locals
         /\ \A b \in BOOLEAN : [loc[w] EXCEPT !.locked = b] \in Locals
BY DEF TypeOK, Locals

LEMMA StartType ==
  ASSUME TypeOK, NEW w \in Workers, NEW o \in Orders, NEW to \in Status,
         StartTransition(w, o, to)
  PROVE  TypeOK'
<1>0. DataOK /\ WorkersOK
  BY TypeParts
<1> DEFINE l == [NoLocals EXCEPT !.o = o, !.to = to, !.seen = order[o]]
<1>1. l \in Locals /\ l.o \in Orders /\ l.to \in Status
  BY <1>0, RecordTypes DEF DataOK, Locals, NoLocals
<1>2. WorkersOK'
  <2>1. GoWith(w, "write", l) /\ "write" \in Labels
    BY DEF StartTransition, Decide, Labels
  <2> QED
    BY <1>0, <1>1, <2>1, WorkerMoves
<1>3. requests' \in 0 .. MaxRequests
  BY <1>0, OrderBounds DEF StartTransition, DataOK
<1>4. raced' \subseteq Orders
  BY <1>0 DEF StartTransition, DataOK
<1>5. DataOK'
  BY <1>0, <1>3, <1>4 DEF StartTransition, DataOK, userVars
<1> QED
  BY <1>2, <1>5, TypePartsNext

LEMMA AbandonType ==
  ASSUME TypeOK, NEW w \in Workers, Abandons(w)
  PROVE  TypeOK'
<1>0. DataOK /\ WorkersOK
  BY TypeParts
<1>1. WorkersOK'
  BY <1>0, WorkerEnds DEF Abandons
<1>2. DataOK'
  BY <1>0, OrderBounds DEF Abandons, DataOK, userVars, historyVars
<1> QED
  BY <1>1, <1>2, TypePartsNext

\* An action that stores a new version of the worker's order, without a new status.
LEMMA StoreType ==
  ASSUME TypeOK, NEW o \in Orders, NEW r \in StoredOrders, WorkersOK',
         order' = [order EXCEPT ![o] = r],
         UNCHANGED <<shelf, userVars, historyVars, requests, faults>>
  PROVE  TypeOK'
<1>1. DataOK
  BY TypeParts
<1>2. DataOK'
  BY <1>1 DEF DataOK, userVars, historyVars
<1> QED
  BY <1>2, TypePartsNext

LEMMA CancellationType ==
  ASSUME TypeOK, NEW w \in Workers, Cancellation(w)
  PROVE  TypeOK'
<1>0. DataOK /\ WorkersOK
  BY TypeParts
<1> DEFINE o == loc[w].o
           next == IF loc[w].seen.stock THEN "restock" ELSE "mirror"
<1>1. pc[w] # "idle"
  BY DEF Cancellation, CancelOrder, Unreserve, Release, Restock, Unstock, Mirror, CourierAnswers
<1>2. /\ loc[w] \in Locals /\ o \in Orders /\ loc[w].to \in Status
      /\ order[o] \in StoredOrders
      /\ \A r \in StoredOrders : [loc[w] EXCEPT !.new = r] \in Locals
  BY <1>1, WorkerType
<1>3. next \in Labels /\ AfterCancel(loc[w].seen) \in Labels /\ "release" \in Labels
      /\ "unstock" \in Labels /\ "mirror" \in Labels /\ "courier" \in Labels
  BY DEF Labels, AfterCancel
<1>4. CASE CancelOrder(w)
  <2> DEFINE r == [order[o] EXCEPT !.status = "Cancelled", !.payment = "cancelled"]
  <2>1. r \in StoredOrders
    BY <1>2, OrderUpdates
  <2>2. CASE order[o].status # "Cancelled"
    <3>1. Write(o, r) /\ GoWith(w, AfterCancel(loc[w].seen), [loc[w] EXCEPT !.new = order'[o]])
      BY <1>4, <2>2 DEF CancelOrder
    <3>2. order' \in [Orders -> StoredOrders] /\ entered' \in [Orders -> [Final -> Nat]]
          /\ order'[o] = r
      BY <1>0, <1>2, <2>1, <3>1, WriteType
    <3>3. /\ [loc[w] EXCEPT !.new = order'[o]] \in Locals
          /\ [loc[w] EXCEPT !.new = order'[o]].o = o /\ [loc[w] EXCEPT !.new = order'[o]].to = loc[w].to
      BY <1>2, <2>1, <3>2 DEF Locals
    <3>4. WorkersOK'
      BY <1>0, <1>2, <1>3, <3>1, <3>3, WorkerMoves
    <3>5. DataOK'
      BY <1>0, <1>4, <3>1, <3>2 DEF CancelOrder, DataOK, userVars, Write
    <3> QED
      BY <3>4, <3>5, TypePartsNext
  <2>3. CASE order[o].status = "Cancelled"
    <3>1. Ends(w) /\ UNCHANGED <<order, shelf, userVars, historyVars, requests, faults>>
      BY <1>4, <2>3 DEF CancelOrder
    <3>2. WorkersOK'
      BY <1>0, <3>1, WorkerEnds
    <3>3. DataOK'
      BY <1>0, <3>1 DEF DataOK, userVars, historyVars
    <3> QED
      BY <3>2, <3>3, TypePartsNext
  <2> QED
    BY <2>2, <2>3
<1>5. CASE Unreserve(w)
  <2>1. WorkersOK'
    <3>1. GoTo(w, "release") \/ GoTo(w, next)
      BY <1>5 DEF Unreserve
    <3> QED
      BY <1>0, <1>1, <1>3, <3>1, WorkerGoes
  <2>2. reserved' \in Nat
    BY <1>0, <1>2, <1>5, OrderAssumption DEF Unreserve, DataOK
  <2>3. DataOK'
    BY <1>0, <1>5, <2>2 DEF Unreserve, DataOK, historyVars
  <2> QED
    BY <2>1, <2>3, TypePartsNext
<1>6. CASE Release(w)
  <2>1. WorkersOK'
    BY <1>0, <1>1, <1>3, <1>6, WorkerGoes DEF Release
  <2>2. [order[o] EXCEPT !.points = "released"] \in StoredOrders
    BY <1>2, OrderUpdates DEF PointStates
  <2>3. order' = [order EXCEPT ![o] = [order[o] EXCEPT !.points = "released"]]
    BY <1>6 DEF Release
  <2> QED
    BY <1>2, <1>6, <2>1, <2>2, <2>3, StoreType DEF Release
<1>7. CASE Restock(w)
  <2>1. WorkersOK'
    BY <1>0, <1>1, <1>3, <1>7, WorkerGoes DEF Restock
  <2>2. DataOK'
    BY <1>0, <1>7 DEF Restock, DataOK, userVars, historyVars
  <2> QED
    BY <2>1, <2>2, TypePartsNext
<1>8. CASE Unstock(w)
  <2>1. WorkersOK'
    BY <1>0, <1>1, <1>3, <1>8, WorkerGoes DEF Unstock
  <2>2. [order[o] EXCEPT !.stock = FALSE] \in StoredOrders
    BY <1>2, OrderUpdates
  <2>3. order' = [order EXCEPT ![o] = [order[o] EXCEPT !.stock = FALSE]]
    BY <1>8 DEF Unstock
  <2> QED
    BY <1>2, <1>8, <2>1, <2>2, <2>3, StoreType DEF Unstock
<1>9. CASE Mirror(w)
  <2>1. WorkersOK'
    <3>1. GoTo(w, "courier") \/ Ends(w)
      BY <1>9 DEF Mirror
    <3> QED
      BY <1>0, <1>1, <1>3, <3>1, WorkerGoes, WorkerEnds
  <2>2. CASE order' = [order EXCEPT ![o].mirror = "pending"]
    <3>1. [order[o] EXCEPT !.mirror = "pending"] \in StoredOrders
      BY <1>2, OrderUpdates
    <3>2. order' = [order EXCEPT ![o] = [order[o] EXCEPT !.mirror = "pending"]]
      BY <2>2
    <3> QED
      BY <1>2, <1>9, <2>1, <3>1, <3>2, StoreType DEF Mirror
  <2>3. CASE UNCHANGED order
    <3>1. DataOK'
      BY <1>0, <1>9, <2>3 DEF Mirror, DataOK, userVars, historyVars
    <3> QED
      BY <2>1, <3>1, TypePartsNext
  <2> QED
    BY <1>9, <2>2, <2>3 DEF Mirror
<1>10. CASE CourierAnswers(w)
  <2>1. WorkersOK'
    BY <1>0, <1>10, WorkerEnds DEF CourierAnswers
  <2>2. PICK answer \in {"cancelled", "failed"} : order' = [order EXCEPT ![o].mirror = answer]
    BY <1>10 DEF CourierAnswers
  <2>3. [order[o] EXCEPT !.mirror = answer] \in StoredOrders
    BY <1>2, OrderUpdates
  <2>4. order' = [order EXCEPT ![o] = [order[o] EXCEPT !.mirror = answer]]
    BY <2>2
  <2> QED
    BY <1>2, <1>10, <2>1, <2>3, <2>4, StoreType DEF CourierAnswers
<1> QED
  BY <1>4, <1>5, <1>6, <1>7, <1>8, <1>9, <1>10 DEF Cancellation

LEMMA MoveType ==
  ASSUME TypeOK, NEW w \in Workers, MoveOrder(w)
  PROVE  TypeOK'
<1> DEFINE o == loc[w].o
           r == [order[o] EXCEPT !.status = loc[w].to]
<1>0. DataOK /\ WorkersOK
  BY TypeParts
<1>1. o \in Orders /\ loc[w].to \in Status /\ order[o] \in StoredOrders
  BY WorkerType DEF MoveOrder
<1>2. r \in StoredOrders
  BY <1>1, OrderUpdates
<1>3. Write(o, r) /\ Ends(w)
  BY DEF MoveOrder
<1>4. order' \in [Orders -> StoredOrders] /\ entered' \in [Orders -> [Final -> Nat]]
  BY <1>0, <1>1, <1>2, <1>3, WriteType
<1>5. WorkersOK'
  BY <1>0, <1>3, WorkerEnds
<1>6. DataOK'
  BY <1>0, <1>3, <1>4 DEF MoveOrder, DataOK, userVars, Write
<1> QED
  BY <1>5, <1>6, TypePartsNext

LEMMA DeliverType ==
  ASSUME TypeOK, NEW w \in Workers, DeliverOrder(w)
  PROVE  TypeOK'
<1> DEFINE o == loc[w].o
           r == Delivered(o, loc[w].seen)
           l == [loc[w] EXCEPT !.new = r]
<1>0. DataOK /\ WorkersOK
  BY TypeParts
<1>1. o \in Orders /\ loc[w] \in Locals /\ loc[w].to \in Status /\ loc[w].seen \in StoredOrders
  BY WorkerType DEF DeliverOrder
<1>2. r \in StoredOrders
  BY <1>0, <1>1, DeliveredType
<1>3. l \in Locals /\ l.o = o /\ l.to = loc[w].to
  BY <1>1, <1>2 DEF Locals
<1>4. AfterDelivery(o, r) \in Labels
  BY DEF AfterDelivery, Labels
<1>5. CASE order[o].status # "Delivered"
  <2>1. Write(o, r) /\ GoWith(w, AfterDelivery(o, r), l)
    BY <1>5 DEF DeliverOrder
  <2>2. order' \in [Orders -> StoredOrders] /\ entered' \in [Orders -> [Final -> Nat]]
    BY <1>0, <1>1, <1>2, <2>1, WriteType
  <2>3. WorkersOK'
    BY <1>0, <1>1, <1>3, <1>4, <2>1, WorkerMoves
  <2>4. DataOK'
    BY <1>0, <2>1, <2>2 DEF DeliverOrder, DataOK, userVars, Write
  <2> QED
    BY <2>3, <2>4, TypePartsNext
<1>6. CASE order[o].status = "Delivered"
  <2>1. Ends(w) /\ UNCHANGED <<order, historyVars, shelf, userVars, requests, faults>>
    BY <1>6 DEF DeliverOrder
  <2>2. WorkersOK'
    BY <1>0, <2>1, WorkerEnds
  <2>3. DataOK'
    BY <1>0, <2>1 DEF DataOK, userVars, historyVars
  <2> QED
    BY <2>2, <2>3, TypePartsNext
<1> QED
  BY <1>5, <1>6

\* Types of the steps that reward: the worker moves on, the data changes in one place.
LEMMA AwardType ==
  ASSUME TypeOK, NEW w \in Workers, NEW from \in Labels \ {"idle"}, NEW next \in Labels,
         NEW who \in {"customer", "referrer"}, Award(w, from, next, who)
  PROVE  TypeOK'
<1>0. DataOK /\ WorkersOK
  BY TypeParts
<1>1. WorkersOK'
  BY <1>0, WorkerGoes DEF Award
<1>2. points' \in [{"customer", "referrer"} -> Nat]
  BY <1>0, OrderBounds DEF Award, DataOK
<1>3. DataOK'
  BY <1>0, <1>2 DEF Award, DataOK, historyVars
<1> QED
  BY <1>1, <1>3, TypePartsNext

LEMMA AwardRowType ==
  ASSUME TypeOK, NEW w \in Workers, NEW from \in Labels \ {"idle"}, NEW next \in Labels,
         NEW type \in Types, AwardRow(w, from, next, type)
  PROVE  TypeOK'
<1>0. DataOK /\ WorkersOK
  BY TypeParts
<1>1. WorkersOK'
  BY <1>0, WorkerGoes DEF AwardRow
<1>2. loc[w].o \in Orders
  BY WorkerType DEF AwardRow
<1>3. ledger' \in [Types -> [Orders -> Nat]]
  BY <1>0, <1>2, RecordType DEF AwardRow
<1>4. DataOK'
  BY <1>0, <1>3 DEF AwardRow, DataOK, historyVars
<1> QED
  BY <1>1, <1>4, TypePartsNext

LEMMA RewardsType ==
  ASSUME TypeOK, NEW w \in Workers, Rewards(w)
  PROVE  TypeOK'
<1> DEFINE o == loc[w].o
<1>0. DataOK /\ WorkersOK
  BY TypeParts
<1>1. pc[w] # "idle"
  BY DEF Rewards, Redeem, RedeemRow, RedeemMark, ReadUser, Award, AwardRow, ClaimReferral,
         CountReferral, Mark, Remind
<1>2. /\ loc[w] \in Locals /\ o \in Orders /\ order[o] \in StoredOrders
      /\ loc[w].to \in Status
      /\ \A b \in BOOLEAN : [loc[w] EXCEPT !.locked = b] \in Locals
  BY <1>1, WorkerType
<1>3. {"redeemRow", "readUser", "redeemMark", "award", "awardRow", "claim", "mark", "referrer",
       "referrerRow", "newCustomer", "newCustomerRow", "count", "remind"}
        \subseteq Labels \ {"idle"}
  BY DEF Labels
<1>4. CASE Redeem(w)
  <2>1. Points[o] \in Nat
    BY <1>2, OrderAssumption
  <2>2. WorkersOK'
    <3>1. GoTo(w, "redeemRow") \/ GoTo(w, "readUser")
      BY <1>4 DEF Redeem
    <3> QED
      BY <1>0, <1>1, <1>3, <3>1, WorkerGoes
  <2>3. points' \in [{"customer", "referrer"} -> Nat] /\ reserved' \in Nat
    <3>1. points.customer \in Nat /\ reserved \in Nat
      BY <1>0 DEF DataOK
    <3>2. CASE points.customer >= Points[o] /\ reserved >= Points[o]
      <4>1. points.customer - Points[o] \in Nat /\ reserved - Points[o] \in Nat
        BY <2>1, <3>1, <3>2
      <4> QED
        BY <1>0, <1>4, <3>2, <4>1 DEF Redeem, DataOK
    <3>3. CASE ~(points.customer >= Points[o] /\ reserved >= Points[o])
      BY <1>0, <1>4, <3>3 DEF Redeem, DataOK
    <3> QED
      BY <3>2, <3>3
  <2>4. DataOK'
    BY <1>0, <1>4, <2>3 DEF Redeem, DataOK, historyVars
  <2> QED
    BY <2>2, <2>4, TypePartsNext
<1>5. CASE RedeemRow(w)
  <2>1. WorkersOK'
    BY <1>0, <1>1, <1>3, <1>5, WorkerGoes DEF RedeemRow
  <2>2. ledger' \in [Types -> [Orders -> Nat]]
    BY <1>0, <1>2, <1>5, RecordType DEF RedeemRow, Types
  <2>3. DataOK'
    BY <1>0, <1>5, <2>2 DEF RedeemRow, DataOK, historyVars
  <2> QED
    BY <2>1, <2>3, TypePartsNext
<1>6. CASE RedeemMark(w)
  <2>1. WorkersOK'
    BY <1>0, <1>1, <1>3, <1>6, WorkerGoes DEF RedeemMark
  <2>2. [order[o] EXCEPT !.points = "redeemed"] \in StoredOrders
    BY <1>2, OrderUpdates DEF PointStates
  <2>3. order' = [order EXCEPT ![o] = [order[o] EXCEPT !.points = "redeemed"]]
    BY <1>6 DEF RedeemMark
  <2> QED
    BY <1>2, <1>6, <2>1, <2>2, <2>3, StoreType DEF RedeemMark
<1>7. CASE ReadUser(w)
  <2> DEFINE l == [loc[w] EXCEPT !.locked = ~unlocked]
             next == IF ~l.new.awarded THEN "award" ELSE IF l.locked THEN "claim" ELSE "mark"
  <2>1. l \in Locals /\ l.o = o /\ l.to = loc[w].to
    BY <1>0, <1>2 DEF DataOK, Locals
  <2>2. next \in Labels
    BY <1>3
  <2>3. GoWith(w, next, l)
    BY <1>7 DEF ReadUser
  <2>4. WorkersOK'
    BY <1>0, <1>2, <2>1, <2>2, <2>3, WorkerMoves
  <2>5. DataOK'
    BY <1>0, <1>7 DEF ReadUser, DataOK, userVars, historyVars
  <2> QED
    BY <2>4, <2>5, TypePartsNext
<1>8. CASE Award(w, "award", "awardRow", "customer")
  BY <1>3, <1>8, AwardType
<1>9. CASE AwardRow(w, "awardRow", AfterAward(w), "delivered")
  <2>1. AfterAward(w) \in Labels
    BY <1>3 DEF AfterAward
  <2> QED
    BY <1>3, <1>9, <2>1, AwardRowType DEF Types
<1>10. CASE ClaimReferral(w)
  <2>1. WorkersOK'
    <3>1. GoTo(w, "mark") \/ GoTo(w, "referrer")
      BY <1>10 DEF ClaimReferral
    <3> QED
      BY <1>0, <1>1, <1>3, <3>1, WorkerGoes
  <2>2. DataOK'
    BY <1>0, <1>10 DEF ClaimReferral, DataOK, historyVars
  <2> QED
    BY <2>1, <2>2, TypePartsNext
<1>11. CASE Award(w, "referrer", "referrerRow", "referrer")
  BY <1>3, <1>11, AwardType
<1>12. CASE AwardRow(w, "referrerRow", "newCustomer", "referrer")
  BY <1>3, <1>12, AwardRowType DEF Types
<1>13. CASE Award(w, "newCustomer", "newCustomerRow", "customer")
  BY <1>3, <1>13, AwardType
<1>14. CASE AwardRow(w, "newCustomerRow", "count", "newCustomer")
  BY <1>3, <1>14, AwardRowType DEF Types
<1>15. CASE CountReferral(w)
  <2>1. WorkersOK'
    BY <1>0, <1>1, <1>3, <1>15, WorkerGoes DEF CountReferral
  <2>2. DataOK'
    BY <1>0, <1>15 DEF CountReferral, DataOK, historyVars
  <2> QED
    BY <2>1, <2>2, TypePartsNext
<1>16. CASE Mark(w)
  <2>1. WorkersOK'
    BY <1>0, <1>1, <1>3, <1>16, WorkerGoes DEF Mark
  <2>2. [order[o] EXCEPT !.awarded = TRUE] \in StoredOrders
    BY <1>2, OrderUpdates
  <2>3. order' = [order EXCEPT ![o] = [order[o] EXCEPT !.awarded = TRUE]]
    BY <1>16 DEF Mark
  <2> QED
    BY <1>2, <1>16, <2>1, <2>2, <2>3, StoreType DEF Mark
<1>17. CASE Remind(w)
  <2>1. WorkersOK'
    BY <1>0, <1>17, WorkerEnds DEF Remind
  <2>2. [order[o] EXCEPT !.reminded = TRUE] \in StoredOrders
    BY <1>2, OrderUpdates
  <2>3. order' = [order EXCEPT ![o] = [order[o] EXCEPT !.reminded = TRUE]]
    BY <1>17 DEF Remind
  <2> QED
    BY <1>2, <1>17, <2>1, <2>2, <2>3, StoreType DEF Remind
<1> QED
  BY <1>4, <1>5, <1>6, <1>7, <1>8, <1>9, <1>10, <1>11, <1>12, <1>13, <1>14, <1>15, <1>16, <1>17
     DEF Rewards

LEMMA TypeNext ==
  ASSUME TypeOK, [Next]_vars
  PROVE  TypeOK'
<1>1. CASE UNCHANGED vars
  BY <1>1 DEF vars, TypeOK, userVars, historyVars
<1>2. ASSUME NEW w \in Workers, Continue(w) PROVE TypeOK'
  BY <1>2, CancellationType, MoveType, DeliverType, RewardsType DEF Continue
<1>3. ASSUME NEW w \in Workers, NEW o \in Orders, StartCancel(w, o) PROVE TypeOK'
  BY <1>3, StartType DEF StartCancel, Status, Final
<1> QED
  BY <1>1, <1>2, <1>3, StartType, AbandonType DEF Next

\* However many requests work on however many orders, and whatever fails, every variable
\* keeps its type: the balances and the reserved points never go below zero.
THEOREM TypeCorrect == Spec => []TypeOK
<1>1. Init => TypeOK
  BY TypeInit
<1>2. TypeOK /\ [Next]_vars => TypeOK'
  BY TypeNext
<1> QED
  BY <1>1, <1>2, PTL DEF Spec

-----------------------------------------------------------------------------
(* What is delivered or cancelled stays so.                                *)

\* What a request that goes on, or is abandoned, does to workers and orders.
Moves(w) ==
  /\ pc[w] # "idle"
  /\ pc' \in [Workers -> Labels] /\ loc' \in [Workers -> Locals]
  /\ \A v \in Workers \ {w} : pc'[v] = pc[v] /\ loc'[v] = loc[v]
  /\ pc'[w] # "write"
  /\ \/ pc'[w] = "idle" /\ loc'[w].o = "none"
     \/ pc'[w] # "idle" /\ loc'[w].o = loc[w].o
  /\ raced' = raced
  /\ \A o \in Orders \ {loc[w].o} : order'[o] = order[o]
  /\ \/ order'[loc[w].o].status = order[loc[w].o].status
     \/ pc[w] = "write" /\ order'[loc[w].o].status = loc[w].to

\* The worker's part of it follows from how its action leaves it.
LEMMA MovesOn ==
  ASSUME TypeOK, NEW w \in Workers, NEW label, label # "write", label # "idle",
         GoTo(w, label) \/ \E l : GoWith(w, label, l) /\ l.o = loc[w].o
  PROVE  /\ \A v \in Workers \ {w} : pc'[v] = pc[v] /\ loc'[v] = loc[v]
         /\ pc'[w] # "write" /\ pc'[w] # "idle" /\ loc'[w].o = loc[w].o
BY DEF TypeOK, GoTo, GoWith

LEMMA MovesOff ==
  ASSUME TypeOK, NEW w \in Workers, Ends(w)
  PROVE  /\ \A v \in Workers \ {w} : pc'[v] = pc[v] /\ loc'[v] = loc[v]
         /\ pc'[w] # "write" /\ pc'[w] = "idle" /\ loc'[w].o = "none"
BY DEF TypeOK, GoWith, Ends, NoLocals

LEMMA CancellationMoves ==
  ASSUME TypeOK, TypeOK', NEW w \in Workers, Cancellation(w)
  PROVE  Moves(w)
<1> DEFINE o == loc[w].o
           next == IF loc[w].seen.stock THEN "restock" ELSE "mirror"
<1>1. pc[w] # "idle"
  BY DEF Cancellation, CancelOrder, Unreserve, Release, Restock, Unstock, Mirror, CourierAnswers
<1>2. o \in Orders /\ order \in [Orders -> StoredOrders] /\ order[o] \in StoredOrders
      /\ loc[w] \in Locals
  BY <1>1, WorkerType DEF TypeOK
<1>3. pc' \in [Workers -> Labels] /\ loc' \in [Workers -> Locals]
  BY DEF TypeOK
<1> USE <1>1, <1>2, <1>3
<1>4. CASE CancelOrder(w)
  <2>1. AfterCancel(loc[w].seen) \notin {"write", "idle"}
    BY DEF AfterCancel
  <2>2. CASE order[o].status # "Cancelled"
    <3> DEFINE l == [loc[w] EXCEPT !.new = order'[o]]
    <3>1. GoWith(w, AfterCancel(loc[w].seen), l) /\ l.o = o
      BY <1>4, <2>2 DEF CancelOrder, Locals
    <3>2. order' = [order EXCEPT ![o] = [order[o] EXCEPT !.status = "Cancelled", !.payment = "cancelled"]]
          /\ raced' = raced /\ loc[w].to = "Cancelled" /\ pc[w] = "write"
      BY <1>4, <2>2 DEF CancelOrder, Write
    <3>3. order'[o].status = "Cancelled"
      BY <3>2 DEF StoredOrders
    <3> HIDE DEF l
    <3> QED
      BY <2>1, <3>1, <3>2, <3>3, MovesOn DEF Moves
  <2>3. CASE order[o].status = "Cancelled"
    BY <1>4, <2>3, MovesOff DEF CancelOrder, Moves, historyVars
  <2> QED
    BY <2>2, <2>3
<1>5. CASE Unreserve(w)
  <2>1. GoTo(w, "release") \/ GoTo(w, next)
    BY <1>5 DEF Unreserve
  <2> QED
    BY <1>5, <2>1, MovesOn DEF Unreserve, Moves, historyVars
<1>6. CASE Release(w)
  <2>1. order'[o].status = order[o].status
    BY <1>6 DEF Release, StoredOrders
  <2>2. GoTo(w, next)
    BY <1>6 DEF Release
  <2> QED
    BY <1>6, <2>1, <2>2, MovesOn DEF Release, Moves, historyVars
<1>7. CASE Restock(w)
  BY <1>7, MovesOn DEF Restock, Moves, historyVars
<1>8. CASE Unstock(w)
  <2>1. order'[o].status = order[o].status
    BY <1>8 DEF Unstock, StoredOrders
  <2> QED
    BY <1>8, <2>1, MovesOn DEF Unstock, Moves, historyVars
<1>9. CASE Mirror(w)
  <2>1. order'[o].status = order[o].status /\ \A p \in Orders \ {o} : order'[p] = order[p]
    BY <1>9 DEF Mirror, StoredOrders
  <2>2. GoTo(w, "courier") \/ Ends(w)
    BY <1>9 DEF Mirror
  <2> QED
    BY <1>9, <2>1, <2>2, MovesOn, MovesOff DEF Mirror, Moves, historyVars
<1>10. CASE CourierAnswers(w)
  <2>1. order'[o].status = order[o].status /\ \A p \in Orders \ {o} : order'[p] = order[p]
    BY <1>10 DEF CourierAnswers, StoredOrders
  <2> QED
    BY <1>10, <2>1, MovesOff DEF CourierAnswers, Moves, historyVars
<1> QED
  BY <1>4, <1>5, <1>6, <1>7, <1>8, <1>9, <1>10 DEF Cancellation

LEMMA MoveOrderMoves ==
  ASSUME TypeOK, TypeOK', NEW w \in Workers, MoveOrder(w)
  PROVE  Moves(w)
<1> DEFINE o == loc[w].o
<1>1. o \in Orders /\ order \in [Orders -> StoredOrders] /\ pc[w] = "write"
  BY WorkerType DEF MoveOrder, TypeOK
<1>2. order' = [order EXCEPT ![o] = [order[o] EXCEPT !.status = loc[w].to]] /\ raced' = raced
  BY DEF MoveOrder, Write
<1>3. order'[o].status = loc[w].to
  BY <1>1, <1>2 DEF StoredOrders
<1> QED
  BY <1>1, <1>2, <1>3, MovesOff DEF MoveOrder, Moves, TypeOK

LEMMA DeliverOrderMoves ==
  ASSUME TypeOK, TypeOK', NEW w \in Workers, DeliverOrder(w)
  PROVE  Moves(w)
<1> DEFINE o == loc[w].o
           r == Delivered(o, loc[w].seen)
           l == [loc[w] EXCEPT !.new = r]
<1>1. o \in Orders /\ order \in [Orders -> StoredOrders] /\ pc[w] = "write"
      /\ loc[w] \in Locals /\ loc[w].seen \in StoredOrders
  BY WorkerType DEF DeliverOrder, TypeOK
<1>2. r.status = "Delivered"
  BY <1>1, TypeParts, DeliveredType
<1>3. CASE order[o].status # "Delivered"
  <2>1. order' = [order EXCEPT ![o] = r] /\ raced' = raced /\ loc[w].to = "Delivered"
    BY <1>3 DEF DeliverOrder, Write
  <2>2. GoWith(w, AfterDelivery(o, r), l) /\ l.o = o
    BY <1>1, <1>3 DEF DeliverOrder, Locals
  <2>3. AfterDelivery(o, r) \notin {"write", "idle"}
    BY DEF AfterDelivery
  <2>4. order'[o].status = "Delivered"
    BY <1>1, <1>2, <2>1
  <2> HIDE DEF l, r
  <2> QED
    BY <1>1, <2>1, <2>2, <2>3, <2>4, MovesOn, ZenonT(30) DEF Moves, TypeOK
<1>4. CASE order[o].status = "Delivered"
  BY <1>1, <1>4, MovesOff DEF DeliverOrder, Moves, historyVars, TypeOK
<1> QED
  BY <1>3, <1>4

LEMMA RewardsMoves ==
  ASSUME TypeOK, TypeOK', NEW w \in Workers, Rewards(w)
  PROVE  Moves(w)
<1> DEFINE o == loc[w].o
<1>1. pc[w] # "idle"
  BY DEF Rewards, Redeem, RedeemRow, RedeemMark, ReadUser, Award, AwardRow, ClaimReferral,
         CountReferral, Mark, Remind
<1>2. o \in Orders /\ order \in [Orders -> StoredOrders] /\ loc[w] \in Locals
  BY <1>1, WorkerType DEF TypeOK
<1>3. pc' \in [Workers -> Labels] /\ loc' \in [Workers -> Locals]
  BY DEF TypeOK
<1> USE <1>1, <1>2, <1>3
<1>4. ASSUME UNCHANGED <<order, historyVars>>,
             NEW label, label # "write", label # "idle", GoTo(w, label)
      PROVE  Moves(w)
  BY <1>4, MovesOn DEF Moves, historyVars
<1>5. CASE Redeem(w)
  <2>1. GoTo(w, "redeemRow") \/ GoTo(w, "readUser")
    BY <1>5 DEF Redeem
  <2> QED
    BY <1>4, <1>5, <2>1 DEF Redeem
<1>6. CASE RedeemRow(w)
  BY <1>4, <1>6 DEF RedeemRow
<1>7. CASE RedeemMark(w)
  <2>1. order'[o].status = order[o].status
    BY <1>7 DEF RedeemMark, StoredOrders
  <2> QED
    BY <1>7, <2>1, MovesOn DEF RedeemMark, Moves, historyVars
<1>8. CASE ReadUser(w)
  <2> DEFINE l == [loc[w] EXCEPT !.locked = ~unlocked]
             next == IF ~l.new.awarded THEN "award" ELSE IF l.locked THEN "claim" ELSE "mark"
  <2>1. GoWith(w, next, l) /\ l.o = o
    BY <1>8 DEF ReadUser, Locals
  <2>2. next \notin {"write", "idle"}
    OBVIOUS
  <2> HIDE DEF l, next
  <2> QED
    BY <1>8, <2>1, <2>2, MovesOn DEF ReadUser, Moves, historyVars
<1>9. ASSUME NEW from, NEW next, NEW who, next # "write", next # "idle", Award(w, from, next, who)
      PROVE  Moves(w)
  BY <1>4, <1>9 DEF Award
<1>10. ASSUME NEW from, NEW next, NEW type, next # "write", next # "idle",
              AwardRow(w, from, next, type)
       PROVE  Moves(w)
  BY <1>4, <1>10 DEF AwardRow
<1>11. AfterAward(w) # "write" /\ AfterAward(w) # "idle"
  BY DEF AfterAward
<1>12. CASE ClaimReferral(w)
  <2>1. GoTo(w, "mark") \/ GoTo(w, "referrer")
    BY <1>12 DEF ClaimReferral
  <2> QED
    BY <1>4, <1>12, <2>1 DEF ClaimReferral
<1>13. CASE CountReferral(w)
  BY <1>4, <1>13 DEF CountReferral
<1>14. CASE Mark(w)
  <2>1. order'[o].status = order[o].status
    BY <1>14 DEF Mark, StoredOrders
  <2> QED
    BY <1>14, <2>1, MovesOn DEF Mark, Moves, historyVars
<1>15. CASE Remind(w)
  <2>1. order'[o].status = order[o].status
    BY <1>15 DEF Remind, StoredOrders
  <2> QED
    BY <1>15, <2>1, MovesOff DEF Remind, Moves, historyVars
<1>16. CASE Award(w, "award", "awardRow", "customer") \/ Award(w, "referrer", "referrerRow", "referrer")
         \/ Award(w, "newCustomer", "newCustomerRow", "customer")
  BY <1>9, <1>16
<1>17. CASE AwardRow(w, "awardRow", AfterAward(w), "delivered")
         \/ AwardRow(w, "referrerRow", "newCustomer", "referrer")
         \/ AwardRow(w, "newCustomerRow", "count", "newCustomer")
  BY <1>10, <1>11, <1>17
<1> QED
  BY <1>5, <1>6, <1>7, <1>8, <1>12, <1>13, <1>14, <1>15, <1>16, <1>17 DEF Rewards

LEMMA AbandonsMoves ==
  ASSUME TypeOK, TypeOK', NEW w \in Workers, Abandons(w)
  PROVE  Moves(w)
BY MovesOff DEF Abandons, Moves, historyVars, TypeOK

LEMMA StepMoves ==
  ASSUME TypeOK, TypeOK', NEW w \in Workers, Continue(w) \/ Abandons(w)
  PROVE  Moves(w)
BY CancellationMoves, MoveOrderMoves, DeliverOrderMoves, RewardsMoves, AbandonsMoves DEF Continue

\* Unless two requests have worked on an order, the copy that a request decided from is
\* still current when it writes, and nobody else is at the order.
SeenIsCurrent ==
  \A w \in Workers :
    /\ pc[w] = "idle" => loc[w].o = "none"
    /\ pc[w] = "write" =>
         /\ MayBecome(loc[w].seen.status, loc[w].to)
         /\ loc[w].o \notin raced => loc[w].seen.status = order[loc[w].o].status
    /\ \A v \in Workers :
         v # w /\ loc[v].o = loc[w].o /\ loc[w].o # "none" => loc[w].o \in raced

LEMMA SeenStart ==
  ASSUME TypeOK, SeenIsCurrent, NEW w \in Workers, NEW o \in Orders, NEW to \in Status,
         StartTransition(w, o, to)
  PROVE  SeenIsCurrent'
<1> DEFINE l == [NoLocals EXCEPT !.o = o, !.to = to, !.seen = order[o]]
<1>1. /\ pc[w] = "idle" /\ MayBecome(order[o].status, to)
      /\ pc' = [pc EXCEPT ![w] = "write"] /\ loc' = [loc EXCEPT ![w] = l]
      /\ raced' = IF \E v \in Workers : loc[v].o = o THEN raced \cup {o} ELSE raced
      /\ order' = order
  BY DEF StartTransition, Decide, GoWith
<1>2. l.o = o /\ l.to = to /\ l.seen = order[o]
  BY DEF NoLocals
<1>3. pc'[w] = "write" /\ loc'[w] = l /\ \A v \in Workers \ {w} : pc'[v] = pc[v] /\ loc'[v] = loc[v]
  BY <1>1 DEF TypeOK
<1>4. o # "none"
  BY NoOrderAssumption
<1> HIDE DEF l
<1>5. raced \subseteq raced' /\ \A v \in Workers : loc[v].o = o => o \in raced'
  BY <1>1
<1>6. ASSUME NEW v \in Workers
      PROVE  /\ pc'[v] = "idle" => loc'[v].o = "none"
             /\ pc'[v] = "write" =>
                  /\ MayBecome(loc'[v].seen.status, loc'[v].to)
                  /\ loc'[v].o \notin raced' => loc'[v].seen.status = order'[loc'[v].o].status
  BY <1>1, <1>2, <1>3, <1>5 DEF SeenIsCurrent
<1>7. ASSUME NEW u \in Workers, NEW v \in Workers, v # u, loc'[v].o = loc'[u].o, loc'[u].o # "none"
      PROVE  loc'[u].o \in raced'
  BY <1>2, <1>3, <1>5, <1>7 DEF SeenIsCurrent
<1> QED
  BY <1>6, <1>7 DEF SeenIsCurrent

LEMMA SeenMoves ==
  ASSUME TypeOK, SeenIsCurrent, NEW w \in Workers, Moves(w)
  PROVE  SeenIsCurrent'
<1>1. loc[w].o \in Orders
  BY DEF TypeOK, Moves
<1>2. ASSUME NEW v \in Workers
      PROVE  /\ pc'[v] = "idle" => loc'[v].o = "none"
             /\ pc'[v] = "write" =>
                  /\ MayBecome(loc'[v].seen.status, loc'[v].to)
                  /\ loc'[v].o \notin raced' => loc'[v].seen.status = order'[loc'[v].o].status
  <2>1. CASE v = w
    <3>1. loc[w].o # "none"
      BY <1>1, NoOrderAssumption
    <3>2. pc'[w] # "write"
      BY DEF Moves
    <3>3. pc'[w] = "idle" => loc'[w].o = "none"
      BY DEF Moves
    <3> QED
      BY <2>1, <3>2, <3>3
  <2>2. CASE v # w
    <3>1. pc'[v] = pc[v] /\ loc'[v] = loc[v] /\ raced' = raced
      BY <2>2 DEF Moves
    <3>2. ASSUME pc[v] = "write", loc[v].o \notin raced
          PROVE  order'[loc[v].o] = order[loc[v].o]
      <4>1. loc[v].o \in Orders
        BY <3>2 DEF TypeOK
      <4>2. loc[v].o # loc[w].o
        BY <2>2, <3>2, <4>1, NoOrderAssumption DEF SeenIsCurrent
      <4> QED
        BY <4>1, <4>2 DEF Moves
    <3> QED
      BY <3>1, <3>2 DEF SeenIsCurrent
  <2> QED
    BY <2>1, <2>2
<1>3. ASSUME NEW u \in Workers, NEW v \in Workers, v # u, loc'[v].o = loc'[u].o, loc'[u].o # "none"
      PROVE  loc'[u].o \in raced'
  <2>1. loc'[u].o = loc[u].o /\ loc'[v].o = loc[v].o /\ raced' = raced
    BY <1>3 DEF Moves
  <2> QED
    BY <1>3, <2>1 DEF SeenIsCurrent
<1> QED
  BY <1>2, <1>3 DEF SeenIsCurrent

LEMMA SeenNext ==
  ASSUME TypeOK, TypeOK', SeenIsCurrent, [Next]_vars
  PROVE  SeenIsCurrent'
<1>1. CASE UNCHANGED vars
  BY <1>1 DEF vars, SeenIsCurrent, historyVars
<1>2. ASSUME NEW w \in Workers, NEW o \in Orders, StartCancel(w, o) PROVE SeenIsCurrent'
  BY <1>2, SeenStart DEF StartCancel, Status, Final
<1> QED
  BY <1>1, <1>2, SeenStart, SeenMoves, StepMoves DEF Next

\* One order's status, over one step.
Keeps(o) ==
  o \notin raced' => (order[o].status \in Final => order'[o].status = order[o].status)

LEMMA FinalStep ==
  ASSUME TypeOK, TypeOK', SeenIsCurrent, [Next]_vars, NEW o \in Orders
  PROVE  Keeps(o)
<1>1. CASE UNCHANGED order
  BY <1>1 DEF Keeps
<1>2. ASSUME NEW w \in Workers, Moves(w) PROVE Keeps(o)
  <2>1. CASE o # loc[w].o
    BY <1>2, <2>1 DEF Moves, Keeps
  <2>2. CASE o = loc[w].o /\ pc[w] = "write" /\ order'[o].status = loc[w].to
    <3>1. o \notin raced' => MayBecome(order[o].status, loc[w].to)
      BY <1>2, <2>2 DEF Moves, SeenIsCurrent
    <3> QED
      BY <2>2, <3>1 DEF Keeps, MayBecome
  <2> QED
    BY <1>2, <2>1, <2>2 DEF Moves, Keeps
<1>3. ASSUME NEW w \in Workers, NEW p \in Orders, NEW to \in Status, StartTransition(w, p, to)
      PROVE  UNCHANGED order
  BY <1>3 DEF StartTransition
<1>4. ASSUME NEW w \in Workers, NEW p \in Orders, StartCancel(w, p)
      PROVE  UNCHANGED order
  BY <1>4 DEF StartCancel, StartTransition
<1> QED
  BY <1>1, <1>2, <1>3, <1>4, StepMoves DEF Next, vars

\* For any number of requests and orders, and whatever fails: an order that was delivered
\* or cancelled stays so, unless two requests have worked on it at once.
THEOREM FinalStatusIsKept == Spec => FinalIsKept
<1> DEFINE Inv == TypeOK /\ SeenIsCurrent
<1>1. Init => Inv
  BY TypeInit DEF Init, SeenIsCurrent, NoLocals
<1>2. Inv /\ [Next]_vars => Inv'
  BY TypeNext, SeenNext
<1>3. Inv /\ [Next]_vars =>
        [\A o \in Orders \ raced' :
           order[o].status \in Final => order'[o].status = order[o].status]_vars
  BY TypeNext, FinalStep DEF Keeps
<1> QED
  BY <1>1, <1>2, <1>3, PTL DEF Spec, FinalIsKept

-----------------------------------------------------------------------------
(* One referral is rewarded, once.                                         *)

Past == {"referrer", "referrerRow", "newCustomer", "newCustomerRow", "count"}

\* No referral is recorded for an order other than those of P; none is counted.
Unpaid(type, P) == \A o \in Orders \ P : ledger[type][o] = 0

ReferralInv ==
  /\ ReferralOnce
  /\ \A v, w \in Workers : pc[v] \in Past /\ pc[w] \in Past => v = w
  /\ ~unlocked => /\ \A w \in Workers : pc[w] \notin Past
                  /\ referrals = 0 /\ Unpaid("referrer", {}) /\ Unpaid("newCustomer", {})
  /\ \A w \in Workers :
       /\ pc[w] \in Past => referrals = 0
       /\ pc[w] \in {"referrer", "referrerRow"} =>
            Unpaid("referrer", {}) /\ Unpaid("newCustomer", {})
       /\ pc[w] \in {"newCustomer", "newCustomerRow"} =>
            Unpaid("referrer", {loc[w].o}) /\ Unpaid("newCustomer", {})

referralVars == <<unlocked, referrals, ledger.referrer, ledger.newCustomer>>

\* A step that leaves the referral alone and brings no worker past the claim.
LEMMA ReferralAside ==
  ASSUME TypeOK, ReferralInv, NEW w \in Workers, UNCHANGED referralVars,
         \A v \in Workers : (pc'[v] = pc[v] /\ loc'[v] = loc[v]) \/ pc'[v] \notin Past
  PROVE  ReferralInv'
BY DEF ReferralInv, referralVars, ReferralOnce, Unpaid, Past

\* A step of the worker that is past the claim, to its next label there.
LEMMA ReferralFurther ==
  ASSUME TypeOK, ReferralInv, NEW w \in Workers, pc[w] \in Past, UNCHANGED referralVars,
         NEW label \in Past, GoTo(w, label),
         label = "newCustomer" => pc[w] = "newCustomer",
         label \in {"referrer", "referrerRow"} => pc[w] \in {"referrer", "referrerRow"},
         label \in {"newCustomer", "newCustomerRow"} => pc[w] \in {"newCustomer", "newCustomerRow"}
  PROVE  ReferralInv'
<1>1. loc' = loc /\ pc'[w] = label /\ \A v \in Workers \ {w} : pc'[v] = pc[v]
  BY DEF GoTo, TypeOK
<1> QED
  BY <1>1 DEF ReferralInv, referralVars, ReferralOnce, Unpaid, Past

LEMMA ReferralClaim ==
  ASSUME TypeOK, ReferralInv, NEW w \in Workers, ClaimReferral(w)
  PROVE  ReferralInv'
<1>1. unlocked' = TRUE /\ loc' = loc /\ UNCHANGED <<referrals, ledger>> /\ pc[w] = "claim"
  BY DEF ClaimReferral, GoTo
<1>2. pc' = [pc EXCEPT ![w] = IF unlocked THEN "mark" ELSE "referrer"]
  BY DEF ClaimReferral, GoTo
<1>3. pc'[w] = (IF unlocked THEN "mark" ELSE "referrer") /\ \A v \in Workers \ {w} : pc'[v] = pc[v]
  BY <1>2 DEF TypeOK
<1>4. unlocked \in BOOLEAN
  BY DEF TypeOK
<1>5. ReferralOnce'
  BY <1>1 DEF ReferralInv, ReferralOnce
<1> QED
  BY <1>1, <1>3, <1>4, <1>5 DEF ReferralInv, Unpaid, Past

\* A transaction of the referral is recorded.
LEMMA ReferralRow ==
  ASSUME TypeOK, ReferralInv, NEW w \in Workers,
         \/ AwardRow(w, "referrerRow", "newCustomer", "referrer")
         \/ AwardRow(w, "newCustomerRow", "count", "newCustomer")
  PROVE  ReferralInv'
<1> DEFINE o == loc[w].o
<1>1. o \in Orders
  BY WorkerType DEF AwardRow
<1>2. loc' = loc /\ UNCHANGED <<referrals, unlocked>> /\ pc[w] \in Past /\ referrals = 0 /\ unlocked
  BY DEF AwardRow, GoTo, Past, ReferralInv
<1>3. CASE AwardRow(w, "referrerRow", "newCustomer", "referrer")
  <2>1. /\ \A p \in Orders : ledger.referrer[p] = 0 /\ ledger.newCustomer[p] = 0
        /\ pc[w] = "referrerRow"
    BY <1>3 DEF AwardRow, ReferralInv, Unpaid
  <2>2. ledger' = [ledger EXCEPT !["referrer"][o] = @ + 1]
    BY <1>3 DEF AwardRow, Record
  <2>3. \A p \in Orders : ledger'.referrer[p] = (IF p = o THEN 1 ELSE 0) /\ ledger'.newCustomer[p] = 0
    BY <1>1, <2>1, <2>2 DEF TypeOK, Types
  <2>4. pc'[w] = "newCustomer" /\ \A v \in Workers \ {w} : pc'[v] = pc[v]
    BY <1>3 DEF AwardRow, GoTo, TypeOK
  <2>5. ReferralOnce'
    BY <1>2, <2>3 DEF ReferralOnce
  <2> QED
    BY <1>2, <2>3, <2>4, <2>5 DEF ReferralInv, Unpaid, Past
<1>4. CASE AwardRow(w, "newCustomerRow", "count", "newCustomer")
  <2>1. /\ \A p \in Orders : ledger.newCustomer[p] = 0 /\ (p # o => ledger.referrer[p] = 0)
        /\ pc[w] = "newCustomerRow"
    BY <1>4 DEF AwardRow, ReferralInv, Unpaid
  <2>2. ledger' = [ledger EXCEPT !["newCustomer"][o] = @ + 1]
    BY <1>4 DEF AwardRow, Record
  <2>3. \A p \in Orders : ledger'.newCustomer[p] = (IF p = o THEN 1 ELSE 0)
                         /\ ledger'.referrer[p] = ledger.referrer[p]
    BY <1>1, <2>1, <2>2 DEF TypeOK, Types
  <2>4. pc'[w] = "count" /\ \A v \in Workers \ {w} : pc'[v] = pc[v]
    BY <1>4 DEF AwardRow, GoTo, TypeOK
  <2>5. ReferralOnce'
    <3>1. \A p \in Orders : ledger.referrer[p] <= 1
      BY DEF ReferralInv, ReferralOnce
    <3> QED
      BY <1>2, <2>1, <2>3, <3>1 DEF ReferralOnce
  <2> QED
    BY <1>2, <2>3, <2>4, <2>5 DEF ReferralInv, Past
<1> QED
  BY <1>3, <1>4

LEMMA ReferralCount ==
  ASSUME TypeOK, ReferralInv, NEW w \in Workers, CountReferral(w)
  PROVE  ReferralInv'
<1>1. loc' = loc /\ UNCHANGED <<ledger, unlocked>> /\ pc[w] \in Past /\ referrals = 0 /\ unlocked
  BY DEF CountReferral, GoTo, Past, ReferralInv
<1>2. pc'[w] = "mark" /\ \A v \in Workers \ {w} : pc'[v] = pc[v] /\ pc'[v] \notin Past
  BY <1>1 DEF CountReferral, GoTo, TypeOK, ReferralInv
<1>3. referrals' = 1
  BY <1>1 DEF CountReferral
<1> QED
  BY <1>1, <1>2, <1>3 DEF ReferralInv, ReferralOnce, Past, Unpaid

\* A worker goes anywhere but past the claim, and the referral is left alone.
LEMMA ReferralElsewhere ==
  ASSUME TypeOK, ReferralInv, NEW w \in Workers, UNCHANGED referralVars,
         \/ Ends(w)
         \/ \E label : label \notin Past /\ (GoTo(w, label) \/ \E l : GoWith(w, label, l))
  PROVE  ReferralInv'
<1>1. \A v \in Workers : (pc'[v] = pc[v] /\ loc'[v] = loc[v]) \/ pc'[v] \notin Past
  BY DEF TypeOK, Ends, GoTo, GoWith, Past
<1> QED
  BY <1>1, ReferralAside

LEMMA ReferralCancellation ==
  ASSUME TypeOK, ReferralInv, NEW w \in Workers,
         Cancellation(w) \/ MoveOrder(w) \/ DeliverOrder(w) \/ Abandons(w)
  PROVE  ReferralInv'
<1>1. UNCHANGED referralVars
  BY DEF Cancellation, CancelOrder, Unreserve, Release, Restock, Unstock, Mirror, CourierAnswers,
         MoveOrder, DeliverOrder, Abandons, userVars, referralVars
<1>2. CASE CancelOrder(w)
  <2>1. AfterCancel(loc[w].seen) \notin Past
    BY DEF AfterCancel, Past
  <2>2. Ends(w) \/ GoWith(w, AfterCancel(loc[w].seen), [loc[w] EXCEPT !.new = order'[loc[w].o]])
    BY <1>2 DEF CancelOrder
  <2> QED
    BY <1>1, <2>1, <2>2, ReferralElsewhere
<1>3. CASE DeliverOrder(w)
  <2> DEFINE r == Delivered(loc[w].o, loc[w].seen)
  <2>1. AfterDelivery(loc[w].o, r) \notin Past
    BY DEF AfterDelivery, Past
  <2>2. Ends(w) \/ GoWith(w, AfterDelivery(loc[w].o, r), [loc[w] EXCEPT !.new = r])
    BY <1>3 DEF DeliverOrder
  <2> QED
    BY <1>1, <2>1, <2>2, ReferralElsewhere
<1>4. CASE Unreserve(w) \/ Release(w) \/ Restock(w) \/ Unstock(w) \/ Mirror(w)
             \/ CourierAnswers(w) \/ MoveOrder(w) \/ Abandons(w)
  <2>1. Ends(w) \/ \E label \in {"release", "restock", "unstock", "mirror", "courier"} : GoTo(w, label)
    BY <1>4 DEF Unreserve, Release, Restock, Unstock, Mirror, CourierAnswers, MoveOrder, Abandons
  <2> QED
    BY <1>1, <2>1, ReferralElsewhere DEF Past
<1> QED
  BY <1>2, <1>3, <1>4 DEF Cancellation

LEMMA ReferralRewards ==
  ASSUME TypeOK, ReferralInv, NEW w \in Workers, Rewards(w)
  PROVE  ReferralInv'
<1>1. ASSUME NEW label \in Labels \ Past, GoTo(w, label), UNCHANGED referralVars
      PROVE  ReferralInv'
  BY <1>1, ReferralElsewhere
<1>2. CASE Redeem(w) \/ RedeemMark(w) \/ Mark(w) \/ Remind(w)
  <2>1. Ends(w) \/ \E label \in {"redeemRow", "readUser", "remind"} : GoTo(w, label)
    BY <1>2 DEF Redeem, RedeemMark, Mark, Remind
  <2>2. UNCHANGED referralVars
    BY <1>2 DEF Redeem, RedeemMark, Mark, Remind, userVars, referralVars
  <2> QED
    BY <2>1, <2>2, ReferralElsewhere DEF Past
<1>3. CASE RedeemRow(w)
  <2>1. GoTo(w, "redeemMark") /\ ledger' = [ledger EXCEPT !["redeemed"][loc[w].o] = @ + 1]
    BY <1>3 DEF RedeemRow, Record
  <2>2. UNCHANGED referralVars
    BY <1>3, <2>1 DEF RedeemRow, referralVars, TypeOK, Types
  <2> QED
    BY <2>1, <2>2, ReferralElsewhere DEF Past
<1>4. CASE ReadUser(w)
  <2> DEFINE l == [loc[w] EXCEPT !.locked = ~unlocked]
             next == IF ~l.new.awarded THEN "award" ELSE IF l.locked THEN "claim" ELSE "mark"
  <2>1. GoWith(w, next, l) /\ next \notin Past
    BY <1>4 DEF ReadUser, Past
  <2>2. UNCHANGED referralVars
    BY <1>4 DEF ReadUser, userVars, referralVars
  <2> HIDE DEF l, next
  <2> QED
    BY <2>1, <2>2, ReferralElsewhere
<1>5. CASE Award(w, "award", "awardRow", "customer")
  BY <1>5, ReferralElsewhere DEF Award, Past, referralVars
<1>6. CASE AwardRow(w, "awardRow", AfterAward(w), "delivered")
  <2>1. GoTo(w, AfterAward(w)) /\ ledger' = [ledger EXCEPT !["delivered"][loc[w].o] = @ + 1]
    BY <1>6 DEF AwardRow, Record
  <2>2. UNCHANGED referralVars
    BY <1>6, <2>1 DEF AwardRow, referralVars, TypeOK, Types
  <2>3. AfterAward(w) \notin Past
    BY DEF AfterAward, Past
  <2> QED
    BY <2>1, <2>2, <2>3, ReferralElsewhere
<1>7. CASE Award(w, "referrer", "referrerRow", "referrer")
  BY <1>7, ReferralFurther DEF Award, Past, referralVars
<1>8. CASE Award(w, "newCustomer", "newCustomerRow", "customer")
  BY <1>8, ReferralFurther DEF Award, Past, referralVars
<1> QED
  BY <1>2, <1>3, <1>4, <1>5, <1>6, <1>7, <1>8, ReferralClaim, ReferralRow, ReferralCount DEF Rewards

LEMMA ReferralNext ==
  ASSUME TypeOK, ReferralInv, [Next]_vars
  PROVE  ReferralInv'
<1>1. CASE UNCHANGED vars
  BY <1>1 DEF vars, userVars, ReferralInv, ReferralOnce, Unpaid
<1>2. ASSUME NEW w \in Workers, NEW o \in Orders, NEW to, StartTransition(w, o, to)
      PROVE  ReferralInv'
  <2>1. UNCHANGED referralVars /\ \E l : GoWith(w, "write", l)
    BY <1>2 DEF StartTransition, Decide, userVars, referralVars
  <2> QED
    BY <2>1, ReferralElsewhere DEF Past
<1> QED
  BY <1>1, <1>2, ReferralCancellation, ReferralRewards DEF Next, Continue, StartCancel

\* Whatever the number of orders that are delivered at once, and whatever fails: the
\* referral is rewarded once, for one order, to each side.
THEOREM ReferralRewardedOnce == Spec => []ReferralOnce
<1>1. Init => ReferralInv
  <2> SUFFICES ASSUME Init PROVE ReferralInv
    OBVIOUS
  <2>1. referrals = 0 /\ \A t \in Types, o \in Orders : ledger[t][o] = 0
    BY DEF Init
  <2>2. \A w \in Workers : pc[w] \notin Past
    BY DEF Init, Past
  <2> QED
    BY <2>1, <2>2 DEF ReferralInv, ReferralOnce, Unpaid, Past, Types
<1>2. TypeOK /\ ReferralInv /\ [Next]_vars => ReferralInv'
  BY ReferralNext
<1>3. ReferralInv => ReferralOnce
  BY DEF ReferralInv
<1> QED
  BY <1>1, <1>2, <1>3, TypeCorrect, PTL DEF Spec

-----------------------------------------------------------------------------
(* One reward for each delivery.                                           *)

Owing == {"redeem", "redeemRow", "redeemMark", "readUser", "award", "awardRow"}

\* The workers that will reward o.
Owed(o) == {w \in Workers : pc[w] \in Owing /\ loc[w].o = o}

RewardInv ==
  \A o \in Orders : ledger.delivered[o] + Cardinality(Owed(o)) <= entered[o].Delivered

LEMMA OwedFinite ==
  ASSUME NEW o
  PROVE  IsFiniteSet(Owed(o)) /\ Cardinality(Owed(o)) \in Nat
BY WorkerAssumption, FS_Subset, FS_CardinalityType DEF Owed

\* A step by which nobody comes to owe a reward.
LEMMA RewardAside ==
  ASSUME TypeOK, TypeOK', RewardInv,
         \A o \in Orders : Owed(o)' \subseteq Owed(o),
         \A o \in Orders : ledger'.delivered[o] = ledger.delivered[o],
         \A o \in Orders : entered'[o].Delivered >= entered[o].Delivered
  PROVE  RewardInv'
<1> SUFFICES ASSUME NEW o \in Orders
             PROVE  (ledger.delivered[o] + Cardinality(Owed(o)) <= entered[o].Delivered)'
  BY DEF RewardInv
<1>1. Cardinality(Owed(o)') <= Cardinality(Owed(o)) /\ Cardinality(Owed(o)') \in Nat
  BY OwedFinite, FS_Subset, FS_CardinalityType
<1>2. Cardinality(Owed(o)) \in Nat
  BY OwedFinite
<1>3. ledger.delivered[o] \in Nat /\ entered[o].Delivered \in Nat /\ entered'[o].Delivered \in Nat
  BY DEF TypeOK, Types, Final
<1> QED
  BY <1>1, <1>2, <1>3 DEF RewardInv

LEMMA RewardDeliver ==
  ASSUME TypeOK, TypeOK', RewardInv, NEW w \in Workers, DeliverOrder(w)
  PROVE  RewardInv'
<1>0. PICK o \in Orders : o = loc[w].o
  BY WorkerType DEF DeliverOrder
<1> DEFINE r == Delivered(o, loc[w].seen)
           l == [loc[w] EXCEPT !.new = r]
<1>1. o = loc[w].o /\ loc[w] \in Locals /\ loc[w].seen \in StoredOrders /\ pc[w] = "write"
  BY <1>0, WorkerType DEF DeliverOrder
<1>2. CASE order[o].status = "Delivered"
  <2>1. UNCHANGED <<entered, ledger>> /\ Ends(w)
    BY <1>1, <1>2 DEF DeliverOrder, userVars, historyVars
  <2>2. \A p \in Orders : Owed(p)' \subseteq Owed(p)
    BY <2>1, MovesOff DEF Owed, Owing
  <2>3. \A p \in Orders : entered[p].Delivered \in Nat
    BY DEF TypeOK, Final
  <2> QED
    BY <2>1, <2>2, <2>3, RewardAside
<1>3. CASE order[o].status # "Delivered"
  <2>1. r.status = "Delivered"
    BY <1>1, TypeParts, DeliveredType
  <2>2. entered' = [entered EXCEPT ![o]["Delivered"] = @ + 1]
    BY <1>1, <1>3, <2>1 DEF DeliverOrder, Write, Final
  <2>3. \A p \in Orders : entered'[p].Delivered = entered[p].Delivered + (IF p = o THEN 1 ELSE 0)
    BY <1>1, <2>2 DEF TypeOK, Final
  <2>4. GoWith(w, AfterDelivery(o, r), l) /\ l.o = o /\ AfterDelivery(o, r) \in Owing
    BY <1>1, <1>3 DEF DeliverOrder, Locals, AfterDelivery, Owing
  <2> HIDE DEF l, r
  <2>5. /\ pc'[w] \in Owing /\ loc'[w].o = o
        /\ \A v \in Workers \ {w} : pc'[v] = pc[v] /\ loc'[v] = loc[v]
    BY <2>4 DEF GoWith, TypeOK
  <2>6. w \notin Owed(o)
    BY <1>1 DEF Owed, Owing
  <2>7. Owed(o)' = Owed(o) \cup {w} /\ \A p \in Orders \ {o} : Owed(p)' = Owed(p)
    BY <1>1, <2>5 DEF Owed, Owing
  <2>8. Cardinality(Owed(o)') = Cardinality(Owed(o)) + 1
    BY <2>6, <2>7, OwedFinite, FS_AddElement
  <2>9. UNCHANGED ledger
    BY DEF DeliverOrder, userVars
  <2>10. \A p \in Orders : ledger.delivered[p] \in Nat /\ entered[p].Delivered \in Nat
                           /\ Cardinality(Owed(p)) \in Nat
    BY OwedFinite DEF TypeOK, Types, Final
  <2> SUFFICES ASSUME NEW p \in Orders
               PROVE  (ledger.delivered[p] + Cardinality(Owed(p)) <= entered[p].Delivered)'
    BY DEF RewardInv
  <2>11. ledger.delivered[p] + Cardinality(Owed(p)) <= entered[p].Delivered
    BY DEF RewardInv
  <2>12. CASE p = o
    <3>1. Cardinality(Owed(p)') = Cardinality(Owed(p)) + 1
      BY <2>8, <2>12
    <3>2. entered'[p].Delivered = entered[p].Delivered + 1
      BY <2>3, <2>12
    <3> QED
      BY <2>9, <2>10, <2>11, <3>1, <3>2
  <2>13. CASE p # o
    <3>1. Cardinality(Owed(p)') = Cardinality(Owed(p))
      BY <2>7, <2>13
    <3>2. entered'[p].Delivered = entered[p].Delivered
      BY <2>3, <2>10, <2>13
    <3> QED
      BY <2>9, <2>11, <3>1, <3>2
  <2> QED
    BY <2>12, <2>13
<1> QED
  BY <1>2, <1>3

LEMMA RewardPaid ==
  ASSUME TypeOK, TypeOK', RewardInv, NEW w \in Workers,
         AwardRow(w, "awardRow", AfterAward(w), "delivered")
  PROVE  RewardInv'
<1>0. PICK o \in Orders : o = loc[w].o
  BY WorkerType DEF AwardRow
<1>1. o = loc[w].o /\ pc[w] = "awardRow"
  BY <1>0 DEF AwardRow
<1>2. ledger' = [ledger EXCEPT !["delivered"][o] = @ + 1] /\ UNCHANGED <<entered, loc>>
  BY <1>1 DEF AwardRow, Record, GoTo, historyVars
<1>3. \A p \in Orders : ledger'.delivered[p] = ledger.delivered[p] + (IF p = o THEN 1 ELSE 0)
  BY <1>1, <1>2 DEF TypeOK, Types
<1>4. pc'[w] \notin Owing /\ \A v \in Workers \ {w} : pc'[v] = pc[v]
  BY DEF AwardRow, GoTo, AfterAward, Owing, TypeOK
<1>5. w \in Owed(o)
  BY <1>1 DEF Owed, Owing
<1>6. Owed(o)' = Owed(o) \ {w} /\ \A p \in Orders \ {o} : Owed(p)' = Owed(p)
  BY <1>1, <1>2, <1>4 DEF Owed
<1>7. Cardinality(Owed(o)') = Cardinality(Owed(o)) - 1
  BY <1>5, <1>6, OwedFinite, FS_RemoveElement
<1>8. \A p \in Orders : ledger.delivered[p] \in Nat /\ entered[p].Delivered \in Nat
                        /\ Cardinality(Owed(p)) \in Nat
  BY OwedFinite DEF TypeOK, Types, Final
<1> SUFFICES ASSUME NEW p \in Orders
             PROVE  (ledger.delivered[p] + Cardinality(Owed(p)) <= entered[p].Delivered)'
  BY DEF RewardInv
<1>9. ledger.delivered[p] + Cardinality(Owed(p)) <= entered[p].Delivered
  BY DEF RewardInv
<1>10. CASE p = o
  <2>1. Cardinality(Owed(p)') = Cardinality(Owed(p)) - 1 /\ ledger'.delivered[p] = ledger.delivered[p] + 1
    BY <1>3, <1>7, <1>10
  <2> QED
    BY <1>2, <1>8, <1>9, <2>1
<1>11. CASE p # o
  <2>1. Cardinality(Owed(p)') = Cardinality(Owed(p)) /\ ledger'.delivered[p] = ledger.delivered[p]
    BY <1>3, <1>6, <1>8, <1>11
  <2> QED
    BY <1>2, <1>9, <2>1
<1> QED
  BY <1>10, <1>11

\* A worker that stays or goes elsewhere, with the order it is at.
LEMMA OwedShrinks ==
  ASSUME NEW w \in Workers,
         \A v \in Workers \ {w} : pc'[v] = pc[v] /\ loc'[v] = loc[v],
         pc'[w] \notin Owing \/ (pc[w] \in Owing /\ loc'[w].o = loc[w].o)
  PROVE  \A o \in Orders : Owed(o)' \subseteq Owed(o)
BY DEF Owed

LEMMA MovesAt ==
  ASSUME NEW w \in Workers, Moves(w), pc'[w] \notin Owing \/ pc[w] \in Owing
  PROVE  \A o \in Orders : Owed(o)' \subseteq Owed(o)
<1>1. pc'[w] = "idle" \/ loc'[w].o = loc[w].o
  BY DEF Moves
<1>2. "idle" \notin Owing
  BY DEF Owing
<1>3. \A v \in Workers \ {w} : pc'[v] = pc[v] /\ loc'[v] = loc[v]
  BY DEF Moves
<1>4. pc'[w] \notin Owing \/ (pc[w] \in Owing /\ loc'[w].o = loc[w].o)
  BY <1>1, <1>2
<1> QED
  BY <1>3, <1>4, OwedShrinks

LEMMA RewardElsewhere ==
  ASSUME TypeOK, TypeOK', RewardInv, NEW w \in Workers, Moves(w),
         pc'[w] \notin Owing \/ pc[w] \in Owing,
         UNCHANGED <<ledger, entered>>
  PROVE  RewardInv'
<1>2. \A o \in Orders : Owed(o)' \subseteq Owed(o)
  BY MovesAt
<1>3. \A o \in Orders : entered[o].Delivered \in Nat
  BY DEF TypeOK, Final
<1> QED
  BY <1>2, <1>3, RewardAside

LEMMA RewardCancellation ==
  ASSUME TypeOK, TypeOK', RewardInv, NEW w \in Workers,
         Cancellation(w) \/ MoveOrder(w)
  PROVE  RewardInv'
<1>1. Moves(w)
  BY CancellationMoves, MoveOrderMoves
<1>2. loc[w].o \in Orders /\ order \in [Orders -> StoredOrders]
  BY <1>1 DEF Moves, TypeOK
<1>3. pc'[w] \notin Owing
  BY DEF Cancellation, CancelOrder, Unreserve, Release, Restock, Unstock, Mirror, CourierAnswers,
         MoveOrder, AfterCancel, GoTo, GoWith, Ends, Owing, TypeOK
<1>4. UNCHANGED ledger
  BY DEF Cancellation, CancelOrder, Unreserve, Release, Restock, Unstock, Mirror, CourierAnswers,
         MoveOrder, userVars
<1>5. \A o \in Orders : entered'[o].Delivered = entered[o].Delivered
  <2>1. CASE UNCHANGED entered
    BY <2>1
  <2>2. ASSUME NEW new, new.status # "Delivered", Write(loc[w].o, new)
        PROVE  \A o \in Orders : entered'[o].Delivered = entered[o].Delivered
    BY <1>2, <2>2 DEF Write, TypeOK, Final
  <2>3. CASE CancelOrder(w)
    <3> DEFINE r == [order[loc[w].o] EXCEPT !.status = "Cancelled", !.payment = "cancelled"]
    <3>1. r.status = "Cancelled"
      BY <1>2 DEF StoredOrders
    <3>2. Write(loc[w].o, r) \/ UNCHANGED entered
      BY <2>3 DEF CancelOrder, historyVars
    <3> QED
      BY <2>1, <2>2, <3>1, <3>2
  <2>4. CASE MoveOrder(w)
    <3> DEFINE r == [order[loc[w].o] EXCEPT !.status = loc[w].to]
    <3>1. r.status # "Delivered"
      BY <1>2, <2>4 DEF MoveOrder, StoredOrders, Pipeline
    <3>2. Write(loc[w].o, r)
      BY <2>4 DEF MoveOrder
    <3> QED
      BY <2>2, <3>1, <3>2
  <2> QED
    BY <2>1, <2>3, <2>4
       DEF Cancellation, Unreserve, Release, Restock, Unstock, Mirror, CourierAnswers, historyVars
<1>6. \A o \in Orders : Owed(o)' \subseteq Owed(o)
  BY <1>1, <1>3, MovesAt
<1>7. \A o \in Orders : entered[o].Delivered \in Nat
  BY DEF TypeOK, Final
<1> QED
  BY <1>4, <1>5, <1>6, <1>7, RewardAside

LEMMA RewardRewards ==
  ASSUME TypeOK, TypeOK', RewardInv, NEW w \in Workers, Rewards(w)
  PROVE  RewardInv'
<1>1. Moves(w)
  BY RewardsMoves
<1>2. UNCHANGED entered
  BY DEF Rewards, Redeem, RedeemRow, RedeemMark, ReadUser, Award, AwardRow, ClaimReferral,
         CountReferral, Mark, Remind, historyVars
<1>3. CASE Redeem(w) \/ RedeemMark(w) \/ ReadUser(w) \/ ClaimReferral(w) \/ CountReferral(w)
             \/ Mark(w) \/ Remind(w)
  <2>1. UNCHANGED ledger
    BY <1>3 DEF Redeem, RedeemMark, ReadUser, ClaimReferral, CountReferral, Mark, Remind, userVars
  <2>2. pc'[w] \notin Owing \/ pc[w] \in Owing
    BY <1>3 DEF Redeem, RedeemMark, ReadUser, ClaimReferral, CountReferral, Mark, Remind,
                GoTo, GoWith, Ends, Owing, TypeOK
  <2> QED
    BY <1>1, <1>2, <2>1, <2>2, RewardElsewhere
<1>4. ASSUME NEW from, NEW next, NEW who, Award(w, from, next, who),
             next \notin Owing \/ from \in Owing
      PROVE  RewardInv'
  <2>1. UNCHANGED ledger /\ (pc'[w] \notin Owing \/ pc[w] \in Owing)
    BY <1>4 DEF Award, GoTo, TypeOK
  <2> QED
    BY <1>1, <1>2, <2>1, RewardElsewhere
<1>5. CASE Award(w, "award", "awardRow", "customer") \/ Award(w, "referrer", "referrerRow", "referrer")
             \/ Award(w, "newCustomer", "newCustomerRow", "customer")
  BY <1>4, <1>5 DEF Owing
\* A transaction of another type.
<1>6. ASSUME NEW type \in Types \ {"delivered"}, Record(type, loc[w].o),
             pc'[w] \notin Owing \/ pc[w] \in Owing
      PROVE  RewardInv'
  <2>1. \A o \in Orders : ledger'.delivered[o] = ledger.delivered[o]
    BY <1>6 DEF Record, TypeOK, Types
  <2>2. \A o \in Orders : Owed(o)' \subseteq Owed(o)
    BY <1>1, <1>6, MovesAt
  <2>3. \A o \in Orders : entered[o].Delivered \in Nat
    BY DEF TypeOK, Final
  <2> QED
    BY <1>2, <2>1, <2>2, <2>3, RewardAside
<1>7. CASE RedeemRow(w)
  <2>1. Record("redeemed", loc[w].o) /\ pc[w] \in Owing
    BY <1>7 DEF RedeemRow, Owing
  <2> QED
    BY <1>6, <2>1 DEF Types
<1>8. CASE AwardRow(w, "referrerRow", "newCustomer", "referrer")
  <2>1. Record("referrer", loc[w].o) /\ pc'[w] \notin Owing
    BY <1>8 DEF AwardRow, GoTo, Owing, TypeOK
  <2> QED
    BY <1>6, <2>1 DEF Types
<1>9. CASE AwardRow(w, "newCustomerRow", "count", "newCustomer")
  <2>1. Record("newCustomer", loc[w].o) /\ pc'[w] \notin Owing
    BY <1>9 DEF AwardRow, GoTo, Owing, TypeOK
  <2> QED
    BY <1>6, <2>1 DEF Types
<1> QED
  BY <1>3, <1>5, <1>7, <1>8, <1>9, RewardPaid DEF Rewards

LEMMA RewardNext ==
  ASSUME TypeOK, TypeOK', RewardInv, [Next]_vars
  PROVE  RewardInv'
<1>1. CASE UNCHANGED vars
  BY <1>1 DEF vars, userVars, historyVars, RewardInv, Owed
<1>2. ASSUME NEW w \in Workers, NEW o \in Orders, NEW to, StartTransition(w, o, to)
      PROVE  RewardInv'
  <2>1. UNCHANGED <<ledger, entered>> /\ \E l : GoWith(w, "write", l)
    BY <1>2 DEF StartTransition, Decide, userVars
  <2>2. \A p \in Orders : Owed(p)' \subseteq Owed(p)
    BY <2>1 DEF GoWith, Owed, Owing, TypeOK
  <2>3. \A p \in Orders : entered[p].Delivered \in Nat
    BY DEF TypeOK, Final
  <2> QED
    BY <2>1, <2>2, <2>3, RewardAside
<1>3. ASSUME NEW w \in Workers, Abandons(w) PROVE RewardInv'
  <2>1. UNCHANGED <<ledger, entered>> /\ pc'[w] \notin Owing
    BY <1>3 DEF Abandons, userVars, historyVars, Ends, GoWith, Owing, TypeOK
  <2> QED
    BY <1>3, <2>1, AbandonsMoves, RewardElsewhere
<1> QED
  BY <1>1, <1>2, <1>3, RewardCancellation, RewardDeliver, RewardRewards DEF Next, Continue, StartCancel

\* Whatever the number of requests that deliver an order at once, and whatever fails: it
\* is rewarded at most once for each time it became delivered.
THEOREM RewardedOncePerDelivery == Spec => []RewardsFollowDelivery
<1>1. Init => RewardInv
  <2> SUFFICES ASSUME Init, NEW o \in Orders
               PROVE  ledger.delivered[o] + Cardinality(Owed(o)) <= entered[o].Delivered
    BY DEF RewardInv
  <2>1. Owed(o) = {}
    BY DEF Init, Owed, Owing
  <2>2. Cardinality(Owed(o)) = 0
    BY <2>1, FS_EmptySet
  <2>3. ledger.delivered[o] = 0 /\ entered[o].Delivered = 0
    BY DEF Init, Types
  <2> QED
    BY <2>2, <2>3
<1>2. TypeOK /\ TypeOK' /\ RewardInv /\ [Next]_vars => RewardInv'
  BY RewardNext
<1>3. TypeOK /\ RewardInv => RewardsFollowDelivery
  <2> SUFFICES ASSUME TypeOK, RewardInv, NEW o \in Orders
               PROVE  ledger.delivered[o] <= entered[o].Delivered
    BY DEF RewardsFollowDelivery
  <2>1. ledger.delivered[o] \in Nat /\ entered[o].Delivered \in Nat /\ Cardinality(Owed(o)) \in Nat
    BY OwedFinite DEF TypeOK, Types, Final
  <2> QED
    BY <2>1 DEF RewardInv
<1> QED
  BY <1>1, <1>2, <1>3, TypeCorrect, PTL DEF Spec

-----------------------------------------------------------------------------
(* The transactions explain the balances.                                  *)

\* What the transactions of an order say of each balance.
Earned == [o \in Orders |-> Reward * (ledger.delivered[o] + ledger.newCustomer[o])
                              - ledger.redeemed[o] * Points[o]]
Referred == [o \in Orders |-> Reward * ledger.referrer[o]]

\* What a worker has moved and not recorded yet.
InHand ==
  [w \in Workers |-> IF pc[w] \in {"awardRow", "newCustomerRow"} THEN Reward
                     ELSE IF pc[w] = "redeemRow" THEN 0 - Points[loc[w].o] ELSE 0]
InHandReferrer == [w \in Workers |-> IF pc[w] = "referrerRow" THEN Reward ELSE 0]

LedgerInv ==
  faults = 0 =>
    /\ points.customer =
         Balance + SumFunctionOnSet(Earned, Orders) + SumFunctionOnSet(InHand, Workers)
    /\ points.referrer =
         SumFunctionOnSet(Referred, Orders) + SumFunctionOnSet(InHandReferrer, Workers)

LEMMA Recorded ==
  ASSUME TypeOK, NEW type \in Types, NEW o \in Orders, Record(type, o)
  PROVE  \A t \in Types : \A p \in Orders :
           ledger'[t][p] = ledger[t][p] + (IF t = type /\ p = o THEN 1 ELSE 0)
BY DEF TypeOK, Record

\* The sums are of integers.
SumTypes ==
  /\ \A o \in Orders : Earned[o] \in Int /\ Referred[o] \in Int
  /\ \A w \in Workers : InHand[w] \in Int /\ InHandReferrer[w] \in Int

LEMMA LedgerTypes == TypeOK => SumTypes
<1> SUFFICES ASSUME TypeOK PROVE SumTypes
  OBVIOUS
<1>1. ASSUME NEW o \in Orders PROVE Earned[o] \in Int /\ Referred[o] \in Int
  <2>1. /\ ledger.delivered[o] \in Nat /\ ledger.newCustomer[o] \in Nat
        /\ ledger.redeemed[o] \in Nat /\ ledger.referrer[o] \in Nat
        /\ Points[o] \in Nat /\ Reward \in Nat
    BY OrderAssumption, OrderBounds DEF TypeOK, Types
  <2> QED
    BY <2>1 DEF Earned, Referred
<1>2. ASSUME NEW w \in Workers PROVE InHand[w] \in Int /\ InHandReferrer[w] \in Int
  <2>1. pc[w] = "redeemRow" => Points[loc[w].o] \in Nat
    BY OrderAssumption DEF TypeOK
  <2> QED
    BY <2>1, OrderBounds DEF InHand, InHandReferrer
<1> QED
  BY <1>1, <1>2 DEF SumTypes

LEMMA LedgerTypesNext == TypeOK' => SumTypes'
<1>1. (TypeOK => SumTypes)'
  BY LedgerTypes, PTL
<1> QED
  BY <1>1

\* A balance changes by as much as the transactions of one order and what one worker
\* has in hand do.
LEMMA LedgerStep ==
  ASSUME TypeOK, TypeOK', LedgerInv, faults' = faults, NEW w \in Workers, NEW o \in Orders,
         \A v \in Workers \ {w} : pc'[v] = pc[v] /\ loc'[v] = loc[v],
         \A t \in Types : \A p \in Orders \ {o} : ledger'[t][p] = ledger[t][p],
         points'.customer = points.customer + (Earned'[o] - Earned[o]) + (InHand'[w] - InHand[w]),
         points'.referrer = points.referrer + (Referred'[o] - Referred[o])
                              + (InHandReferrer'[w] - InHandReferrer[w])
  PROVE  LedgerInv'
<1>1. SumTypes /\ SumTypes'
  BY LedgerTypes, LedgerTypesNext
<1>2. IsFiniteSet(Orders) /\ IsFiniteSet(Workers)
  BY OrderAssumption, WorkerAssumption
<1>3. \A p \in Orders : p # o => Earned'[p] = Earned[p] /\ Referred'[p] = Referred[p]
  BY DEF Earned, Referred, Types
<1>4. \A v \in Workers : v # w => InHand'[v] = InHand[v] /\ InHandReferrer'[v] = InHandReferrer[v]
  BY DEF InHand, InHandReferrer
<1>5. \A p \in Orders : Earned[p] \in Int /\ Earned'[p] \in Int
                         /\ Referred[p] \in Int /\ Referred'[p] \in Int
  BY <1>1 DEF SumTypes
<1>6. \A v \in Workers : InHand[v] \in Int /\ InHand'[v] \in Int
                          /\ InHandReferrer[v] \in Int /\ InHandReferrer'[v] \in Int
  BY <1>1 DEF SumTypes
<1> HIDE DEF Earned, Referred, InHand, InHandReferrer
<1>7. SumFunctionOnSet(Earned', Orders) = SumFunctionOnSet(Earned, Orders) - Earned[o] + Earned'[o]
  BY <1>2, <1>3, <1>5, SumChanged
<1>8. SumFunctionOnSet(Referred', Orders)
         = SumFunctionOnSet(Referred, Orders) - Referred[o] + Referred'[o]
  BY <1>2, <1>3, <1>5, SumChanged
<1>9. SumFunctionOnSet(InHand', Workers) = SumFunctionOnSet(InHand, Workers) - InHand[w] + InHand'[w]
  BY <1>2, <1>4, <1>6, SumChanged, SMTT(30)
<1>10. SumFunctionOnSet(InHandReferrer', Workers)
         = SumFunctionOnSet(InHandReferrer, Workers) - InHandReferrer[w] + InHandReferrer'[w]
  BY <1>2, <1>4, <1>6, SumChanged, SMTT(30)
<1>11. /\ SumFunctionOnSet(Earned, Orders) \in Int /\ SumFunctionOnSet(Referred, Orders) \in Int
      /\ SumFunctionOnSet(InHand, Workers) \in Int
      /\ SumFunctionOnSet(InHandReferrer, Workers) \in Int
  BY <1>2, <1>5, <1>6, SumIsInt
<1>12. /\ Earned[o] \in Int /\ Earned'[o] \in Int /\ Referred[o] \in Int /\ Referred'[o] \in Int
       /\ InHand[w] \in Int /\ InHand'[w] \in Int /\ InHandReferrer[w] \in Int
       /\ InHandReferrer'[w] \in Int /\ Balance \in Int
  BY <1>5, <1>6, OrderBounds
<1>13. points.customer \in Int /\ points.referrer \in Int
  BY DEF TypeOK
<1> SUFFICES ASSUME faults' = 0
             PROVE  /\ points'.customer =
                         Balance + SumFunctionOnSet(Earned', Orders) + SumFunctionOnSet(InHand', Workers)
                    /\ points'.referrer =
                         SumFunctionOnSet(Referred', Orders) + SumFunctionOnSet(InHandReferrer', Workers)
  BY DEF LedgerInv
<1>14. /\ points.customer =
            Balance + SumFunctionOnSet(Earned, Orders) + SumFunctionOnSet(InHand, Workers)
       /\ points.referrer =
            SumFunctionOnSet(Referred, Orders) + SumFunctionOnSet(InHandReferrer, Workers)
  BY DEF LedgerInv
<1> QED
  BY <1>7, <1>9, <1>11, <1>12, <1>13, <1>14, <1>8, <1>10

\* The labels at which a worker has something in hand.
Carrying == {"awardRow", "newCustomerRow", "redeemRow", "referrerRow"}

\* A step that moves no points, by a worker with nothing in hand before or after.
LEMMA LedgerAside ==
  ASSUME TypeOK, TypeOK', LedgerInv, faults' = faults, NEW w \in Workers,
         \A v \in Workers \ {w} : pc'[v] = pc[v] /\ loc'[v] = loc[v],
         pc[w] \notin Carrying, pc'[w] \notin Carrying, UNCHANGED <<points, ledger>>
  PROVE  LedgerInv'
<1>1. Earned' = Earned /\ Referred' = Referred
  BY DEF Earned, Referred
<1>2. InHand' = InHand /\ InHandReferrer' = InHandReferrer
  BY DEF InHand, InHandReferrer, Carrying
<1> QED
  BY <1>1, <1>2 DEF LedgerInv

\* The points of a balance move before the transaction is recorded.
LEMMA LedgerMoves ==
  ASSUME TypeOK, TypeOK', LedgerInv, NEW w \in Workers, Moves(w),
         \/ Redeem(w) \/ Award(w, "award", "awardRow", "customer")
         \/ Award(w, "referrer", "referrerRow", "referrer")
         \/ Award(w, "newCustomer", "newCustomerRow", "customer")
  PROVE  LedgerInv'
<1>0. PICK o \in Orders : o = loc[w].o
  BY WorkerType DEF Redeem, Award
<1>1. /\ \A v \in Workers \ {w} : pc'[v] = pc[v] /\ loc'[v] = loc[v]
      /\ faults' = faults /\ ledger' = ledger /\ loc' = loc
  BY DEF Moves, Redeem, Award, GoTo
<1>2. Earned' = Earned /\ Referred' = Referred
  BY <1>1 DEF Earned, Referred
<1>3. points.customer \in Nat /\ points.referrer \in Nat /\ Reward \in Nat /\ Points[o] \in Nat
      /\ points \in [{"customer", "referrer"} -> Nat]
  BY OrderBounds, OrderAssumption DEF TypeOK
<1>4. Earned[o] \in Int /\ Referred[o] \in Int
  BY LedgerTypes DEF SumTypes
<1>5. CASE Redeem(w) /\ ~(points.customer >= Points[o] /\ reserved >= Points[o])
  <2>1. pc[w] = "redeem" /\ pc'[w] = "readUser" /\ points' = points
    BY <1>0, <1>5 DEF Redeem, GoTo, TypeOK
  <2> QED
    BY <1>1, <2>1, LedgerAside DEF Carrying
<1>6. CASE Redeem(w) /\ points.customer >= Points[o] /\ reserved >= Points[o]
  <2>1. /\ pc[w] = "redeem" /\ pc'[w] = "redeemRow"
        /\ points' = [points EXCEPT !.customer = @ - Points[o]]
    BY <1>0, <1>6 DEF Redeem, GoTo, TypeOK
  <2>2. /\ InHand[w] = 0 /\ InHand'[w] = 0 - Points[o]
        /\ InHandReferrer[w] = 0 /\ InHandReferrer'[w] = 0
    BY <1>0, <1>1, <2>1 DEF InHand, InHandReferrer
  <2>3. points'.customer = points.customer - Points[o] /\ points'.referrer = points.referrer
    BY <1>3, <2>1
  <2> QED
    BY <1>1, <1>2, <1>3, <1>4, <2>2, <2>3, LedgerStep
<1>7. CASE Award(w, "award", "awardRow", "customer") \/ Award(w, "newCustomer", "newCustomerRow", "customer")
  <2>1. /\ pc[w] \in {"award", "newCustomer"} /\ pc'[w] \in {"awardRow", "newCustomerRow"}
        /\ points' = [points EXCEPT !.customer = @ + Reward]
    BY <1>7 DEF Award, GoTo, TypeOK
  <2>2. /\ InHand[w] = 0 /\ InHand'[w] = Reward
        /\ InHandReferrer[w] = 0 /\ InHandReferrer'[w] = 0
    BY <2>1 DEF InHand, InHandReferrer
  <2>3. points'.customer = points.customer + Reward /\ points'.referrer = points.referrer
    BY <1>3, <2>1
  <2> QED
    BY <1>1, <1>2, <1>3, <1>4, <2>2, <2>3, LedgerStep
<1>8. CASE Award(w, "referrer", "referrerRow", "referrer")
  <2>1. /\ pc[w] = "referrer" /\ pc'[w] = "referrerRow"
        /\ points' = [points EXCEPT !.referrer = @ + Reward]
    BY <1>8 DEF Award, GoTo, TypeOK
  <2>2. /\ InHand[w] = 0 /\ InHand'[w] = 0
        /\ InHandReferrer[w] = 0 /\ InHandReferrer'[w] = Reward
    BY <2>1 DEF InHand, InHandReferrer
  <2>3. points'.customer = points.customer /\ points'.referrer = points.referrer + Reward
    BY <1>3, <2>1
  <2> QED
    BY <1>1, <1>2, <1>3, <1>4, <2>2, <2>3, LedgerStep
<1> QED
  BY <1>5, <1>6, <1>7, <1>8

\* What one transaction more of a type says.
LEMMA EarnedBy ==
  ASSUME TypeOK, NEW type \in Types, NEW o \in Orders, Record(type, o)
  PROVE  /\ Earned'[o] = Earned[o] + (IF type \in {"delivered", "newCustomer"} THEN Reward
                                       ELSE IF type = "redeemed" THEN 0 - Points[o] ELSE 0)
         /\ Referred'[o] = Referred[o] + (IF type = "referrer" THEN Reward ELSE 0)
<1>1. /\ ledger.delivered[o] \in Nat /\ ledger.newCustomer[o] \in Nat
      /\ ledger.redeemed[o] \in Nat /\ ledger.referrer[o] \in Nat
      /\ Points[o] \in Nat /\ Reward \in Nat
  BY OrderAssumption, OrderBounds DEF TypeOK, Types
<1>2. \A t \in Types : ledger'[t][o] = ledger[t][o] + (IF t = type THEN 1 ELSE 0)
  BY Recorded
<1>3. /\ ledger'.delivered[o] = ledger.delivered[o] + (IF type = "delivered" THEN 1 ELSE 0)
      /\ ledger'.newCustomer[o] = ledger.newCustomer[o] + (IF type = "newCustomer" THEN 1 ELSE 0)
      /\ ledger'.redeemed[o] = ledger.redeemed[o] + (IF type = "redeemed" THEN 1 ELSE 0)
      /\ ledger'.referrer[o] = ledger.referrer[o] + (IF type = "referrer" THEN 1 ELSE 0)
  BY <1>2 DEF Types
<1>4. \A a, b \in Int : a * (b + 1) = a * b + a
  OBVIOUS
<1> DEFINE d == ledger.delivered[o]
           n == ledger.newCustomer[o]
           p == ledger.redeemed[o]
           f == ledger.referrer[o]
<1>5. /\ Earned[o] = Reward * (d + n) - p * Points[o] /\ Referred[o] = Reward * f
      /\ Earned'[o] = Reward * (ledger'.delivered[o] + ledger'.newCustomer[o])
                         - ledger'.redeemed[o] * Points[o]
      /\ Referred'[o] = Reward * ledger'.referrer[o]
  BY DEF Earned, Referred
<1>6. d \in Nat /\ n \in Nat /\ p \in Nat /\ f \in Nat
  BY <1>1
<1> HIDE DEF d, n, p, f
<1>7. CASE type \in {"delivered", "newCustomer"}
  <2>1. /\ ledger'.delivered[o] + ledger'.newCustomer[o] = (d + n) + 1
        /\ ledger'.redeemed[o] = p /\ ledger'.referrer[o] = f
    BY <1>1, <1>3, <1>7 DEF d, n, p, f
  <2>2. Reward * ((d + n) + 1) = Reward * (d + n) + Reward
    BY <1>1, <1>4, <1>6
  <2>3. Reward * (d + n) \in Int /\ p * Points[o] \in Int /\ Reward * f \in Int
    BY <1>1, <1>6
  <2> QED
    BY <1>1, <1>7, <1>5, <2>1, <2>2, <2>3
<1>8. CASE type = "redeemed"
  <2>1. /\ ledger'.delivered[o] + ledger'.newCustomer[o] = d + n
        /\ ledger'.redeemed[o] = p + 1 /\ ledger'.referrer[o] = f
    BY <1>1, <1>3, <1>8 DEF d, n, p, f
  <2>2. (p + 1) * Points[o] = p * Points[o] + Points[o]
    BY <1>1, <1>6
  <2>3. Reward * (d + n) \in Int /\ p * Points[o] \in Int /\ Reward * f \in Int
    BY <1>1, <1>6
  <2> QED
    BY <1>1, <1>8, <1>5, <2>1, <2>2, <2>3
<1>9. CASE type = "referrer"
  <2>1. /\ ledger'.delivered[o] + ledger'.newCustomer[o] = d + n
        /\ ledger'.redeemed[o] = p /\ ledger'.referrer[o] = f + 1
    BY <1>1, <1>3, <1>9 DEF d, n, p, f
  <2>2. Reward * (f + 1) = Reward * f + Reward
    BY <1>1, <1>4, <1>6
  <2>3. Reward * (d + n) \in Int /\ p * Points[o] \in Int /\ Reward * f \in Int
    BY <1>1, <1>6
  <2> QED
    BY <1>1, <1>9, <1>5, <2>1, <2>2, <2>3
<1> QED
  BY <1>7, <1>8, <1>9 DEF Types

\* Then the transaction is.
LEMMA LedgerRecords ==
  ASSUME TypeOK, TypeOK', LedgerInv, NEW w \in Workers, Moves(w),
         \/ RedeemRow(w) \/ AwardRow(w, "awardRow", AfterAward(w), "delivered")
         \/ AwardRow(w, "referrerRow", "newCustomer", "referrer")
         \/ AwardRow(w, "newCustomerRow", "count", "newCustomer")
  PROVE  LedgerInv'
<1>0. PICK o \in Orders : o = loc[w].o
  BY WorkerType DEF RedeemRow, AwardRow
<1>1. /\ \A v \in Workers \ {w} : pc'[v] = pc[v] /\ loc'[v] = loc[v]
      /\ faults' = faults /\ points' = points
  BY DEF Moves, RedeemRow, AwardRow
<1>2. PICK type \in Types :
        /\ Record(type, o) /\ pc'[w] \notin Carrying
        /\ \/ pc[w] = "redeemRow" /\ type = "redeemed"
           \/ pc[w] = "awardRow" /\ type = "delivered"
           \/ pc[w] = "referrerRow" /\ type = "referrer"
           \/ pc[w] = "newCustomerRow" /\ type = "newCustomer"
  <2>1. CASE RedeemRow(w)
    BY <1>0, <2>1 DEF RedeemRow, GoTo, Carrying, TypeOK, Types
  <2>2. CASE AwardRow(w, "awardRow", AfterAward(w), "delivered")
    BY <1>0, <2>2 DEF AwardRow, AfterAward, GoTo, Carrying, TypeOK, Types
  <2>3. CASE AwardRow(w, "referrerRow", "newCustomer", "referrer")
    BY <1>0, <2>3 DEF AwardRow, GoTo, Carrying, TypeOK, Types
  <2>4. CASE AwardRow(w, "newCustomerRow", "count", "newCustomer")
    BY <1>0, <2>4 DEF AwardRow, GoTo, Carrying, TypeOK, Types
  <2> QED
    BY <2>1, <2>2, <2>3, <2>4
<1>3. \A t \in Types : \A p \in Orders \ {o} : ledger'[t][p] = ledger[t][p]
  <2>1. \A t \in Types : \A p \in Orders : ledger[t][p] \in Nat
    BY DEF TypeOK
  <2> QED
    BY <1>2, <2>1, Recorded
<1>4. InHand'[w] = 0 /\ InHandReferrer'[w] = 0
  BY <1>2 DEF InHand, InHandReferrer, Carrying
<1>5. /\ InHand[w] = (IF type \in {"delivered", "newCustomer"} THEN Reward
                       ELSE IF type = "redeemed" THEN 0 - Points[o] ELSE 0)
      /\ InHandReferrer[w] = (IF type = "referrer" THEN Reward ELSE 0)
  BY <1>0, <1>2 DEF InHand, InHandReferrer
<1>6. /\ Earned'[o] = Earned[o] + InHand[w]
      /\ Referred'[o] = Referred[o] + InHandReferrer[w]
  BY <1>2, <1>5, EarnedBy
<1>7. /\ Earned[o] \in Int /\ Referred[o] \in Int /\ InHand[w] \in Int
      /\ InHandReferrer[w] \in Int /\ points.customer \in Int /\ points.referrer \in Int
  BY LedgerTypes DEF SumTypes, TypeOK
<1> QED
  BY <1>1, <1>3, <1>4, <1>6, <1>7, LedgerStep

LEMMA LedgerNext ==
  ASSUME TypeOK, TypeOK', LedgerInv, [Next]_vars
  PROVE  LedgerInv'
<1>1. CASE UNCHANGED vars
  <2>1. /\ Earned' = Earned /\ Referred' = Referred /\ InHand' = InHand
        /\ InHandReferrer' = InHandReferrer
    BY <1>1 DEF vars, userVars, historyVars, Earned, Referred, InHand, InHandReferrer
  <2> QED
    BY <1>1, <2>1 DEF vars, userVars, LedgerInv
<1>2. ASSUME NEW w \in Workers, NEW o \in Orders, NEW to, StartTransition(w, o, to)
      PROVE  LedgerInv'
  <2>1. /\ \A v \in Workers \ {w} : pc'[v] = pc[v] /\ loc'[v] = loc[v]
        /\ pc[w] = "idle" /\ pc'[w] = "write"
    BY <1>2 DEF StartTransition, Decide, GoWith, TypeOK
  <2>2. UNCHANGED <<points, ledger>> /\ faults' = faults
    BY <1>2 DEF StartTransition, userVars
  <2> QED
    BY <2>1, <2>2, LedgerAside DEF Carrying
<1>3. ASSUME NEW w \in Workers, Abandons(w) PROVE LedgerInv'
  BY <1>3 DEF Abandons, LedgerInv, TypeOK
<1>4. ASSUME NEW w \in Workers, Moves(w), UNCHANGED <<points, ledger>>, faults' = faults,
             pc[w] \notin Carrying, pc'[w] \notin Carrying
      PROVE  LedgerInv'
  BY <1>4, LedgerAside DEF Moves
<1>5. ASSUME NEW w \in Workers, Cancellation(w) \/ MoveOrder(w) \/ DeliverOrder(w) PROVE LedgerInv'
  <2>1. Moves(w)
    BY <1>5, CancellationMoves, MoveOrderMoves, DeliverOrderMoves
  <2>2. UNCHANGED <<points, ledger>> /\ faults' = faults
    BY <1>5 DEF Cancellation, CancelOrder, Unreserve, Release, Restock, Unstock, Mirror,
                CourierAnswers, MoveOrder, DeliverOrder, userVars
  <2>3. pc[w] \notin Carrying /\ pc'[w] \notin Carrying
    BY <1>5 DEF Cancellation, CancelOrder, Unreserve, Release, Restock, Unstock, Mirror,
                CourierAnswers, MoveOrder, DeliverOrder, AfterCancel, AfterDelivery, GoTo, GoWith,
                Ends, Carrying, TypeOK
  <2> QED
    BY <1>4, <2>1, <2>2, <2>3
<1>6. ASSUME NEW w \in Workers, RedeemMark(w) \/ ReadUser(w) \/ ClaimReferral(w) \/ CountReferral(w)
                                \/ Mark(w) \/ Remind(w)
      PROVE  LedgerInv'
  <2>1. Moves(w)
    BY <1>6, RewardsMoves DEF Rewards
  <2>2. UNCHANGED <<points, ledger>> /\ faults' = faults
    BY <1>6 DEF RedeemMark, ReadUser, ClaimReferral, CountReferral, Mark, Remind, userVars
  <2>3. pc[w] \notin Carrying /\ pc'[w] \notin Carrying
    BY <1>6 DEF RedeemMark, ReadUser, ClaimReferral, CountReferral, Mark, Remind, GoTo, GoWith,
                Ends, Carrying, TypeOK
  <2> QED
    BY <1>4, <2>1, <2>2, <2>3
<1>7. ASSUME NEW w \in Workers, Rewards(w) PROVE LedgerInv'
  <2>1. Moves(w)
    BY <1>7, RewardsMoves
  <2> QED
    BY <1>6, <1>7, <2>1, LedgerMoves, LedgerRecords DEF Rewards
<1> QED
  BY <1>1, <1>2, <1>3, <1>5, <1>7 DEF Next, Continue, StartCancel

-----------------------------------------------------------------------------
(* What a delivery and a cancellation leave behind.                        *)

\* The labels of a cancellation and of a delivery that has written its status.
Undoing == {"unreserve", "release", "restock", "unstock", "mirror", "courier"}
Rewarding ==
  {"redeem", "redeemRow", "redeemMark", "readUser", "award", "awardRow", "claim", "referrer",
   "referrerRow", "newCustomer", "newCustomerRow", "count", "mark", "remind"}

\* An order nobody has delivered or cancelled yet.
Fresh(o) ==
  /\ order[o].status \in Pipeline
  /\ order[o].paid = Placed(o).paid /\ order[o].payment = Placed(o).payment
  /\ order[o].points = Placed(o).points
  /\ order[o].stock /\ ~order[o].awarded /\ ledger.delivered[o] = 0

\* The order a cancellation, or a delivery, is at.
BeingCancelled(w, o) ==
  /\ order[o].status = "Cancelled" /\ order[o].payment = "cancelled" /\ loc[w].seen.stock
  /\ ledger.delivered[o] = 0
  /\ order[o].points = "reserved" <=> pc[w] \in {"unreserve", "release"}
  /\ order[o].stock <=> pc[w] \in {"unreserve", "release", "restock", "unstock"}

BeingRewarded(w, o) ==
  /\ order[o].status = "Delivered" /\ order[o].paid /\ order[o].payment = "paid" /\ order[o].stock
  /\ order[o].points \in (IF pc[w] \in {"redeem", "redeemRow", "redeemMark"} THEN {"reserved"}
                          ELSE {"none", "redeemed"})
  /\ order[o].awarded <=> pc[w] = "remind"
  /\ pc[w] \in Owing => ~loc[w].new.awarded
  /\ ledger.delivered[o] = (IF pc[w] \in Owing THEN 0 ELSE 1)

\* Nobody has begun to deliver or cancel the order, or somebody is done with it.
AtRest(o) == \A w \in Workers : loc[w].o = o => pc[w] = "write"
Rested(o) == Fresh(o) \/ (order[o].status \in Final /\ Settled(o))

\* The points the reserved ones of an order count in: those nobody has moved yet.
Holds(o) ==
  /\ order[o].points = "reserved"
  /\ \A w \in Workers : loc[w].o = o => pc[w] \notin {"release", "redeemRow", "redeemMark"}
Held == [o \in Orders |-> IF Holds(o) THEN Points[o] ELSE 0]

\* The orders whose unit is back on the shelf.
Back(o) == ~order[o].stock \/ \E w \in Workers : loc[w].o = o /\ pc[w] = "unstock"
OnShelf == {o \in Orders : Back(o)}

WorkInv ==
  /\ \A w \in Workers :
       /\ pc[w] = "write" => loc[w].seen = order[loc[w].o]
       /\ pc[w] \in Undoing => BeingCancelled(w, loc[w].o)
       /\ pc[w] \in Rewarding => BeingRewarded(w, loc[w].o)
  /\ \A o \in Orders : AtRest(o) => Rested(o)
  /\ \A o \in Orders : order[o].points = "reserved" => Points[o] > 0

CountInv ==
  /\ reserved = SumFunctionOnSet(Held, Orders)
  /\ reserved <= points.customer
  /\ shelf = Cardinality(OnShelf)

Calm == faults = 0 /\ raced = {}
SettledInv == Calm => WorkInv /\ CountInv

\* While no order had two requests at once, a worker is alone at its order.
LEMMA Alone ==
  ASSUME SeenIsCurrent, raced = {}, NEW w \in Workers, NEW o \in Orders, o = loc[w].o
  PROVE  \A v \in Workers \ {w} : loc[v].o # o
BY NoOrderAssumption DEF SeenIsCurrent

\* What holds of the order of the worker that moves, before and after.
LEMMA MoverOrder ==
  ASSUME TypeOK, TypeOK', SeenIsCurrent, Calm, NEW w \in Workers, Moves(w),
         NEW o \in Orders, o = loc[w].o
  PROVE  /\ Holds(o) <=> order[o].points = "reserved" /\ pc[w] \notin {"release", "redeemRow", "redeemMark"}
         /\ Holds(o)' <=> /\ order'[o].points = "reserved"
                         /\ pc'[w] \notin {"release", "redeemRow", "redeemMark"}
         /\ Back(o) <=> ~order[o].stock \/ pc[w] = "unstock"
         /\ Back(o)' <=> ~order'[o].stock \/ pc'[w] = "unstock"
         /\ AtRest(o) <=> pc[w] = "write"
         /\ \A p \in Orders \ {o} :
              /\ Holds(p)' <=> Holds(p)
              /\ Back(p)' <=> Back(p)
              /\ AtRest(p)' <=> AtRest(p)
<1>1. \A v \in Workers \ {w} : loc[v].o # o /\ loc'[v] = loc[v] /\ pc'[v] = pc[v]
  BY Alone DEF Calm, Moves
<1>2. /\ pc'[w] = "idle" => loc'[w].o = "none"
      /\ pc'[w] # "idle" => loc'[w].o = o
      /\ \A p \in Orders \ {o} : order'[p] = order[p]
  BY DEF Moves
<1>3. \A p \in Orders : p # "none"
  BY NoOrderAssumption
<1> QED
  BY <1>1, <1>2, <1>3 DEF Holds, Back, AtRest

\* The work of the others goes on as it was; the rest is left to say of the worker.
LEMMA WorkMoves ==
  ASSUME TypeOK, TypeOK', SeenIsCurrent, Calm, WorkInv, NEW w \in Workers, Moves(w),
         NEW o \in Orders, o = loc[w].o,
         \A p \in Orders \ {o} : ledger'.delivered[p] = ledger.delivered[p],
         pc'[w] \in Undoing => BeingCancelled(w, o)',
         pc'[w] \in Rewarding => BeingRewarded(w, o)',
         pc'[w] = "idle" => Rested(o)',
         order'[o].points = "reserved" => Points[o] > 0
  PROVE  WorkInv'
<1>1. \A v \in Workers \ {w} : loc[v].o # o /\ loc'[v] = loc[v] /\ pc'[v] = pc[v]
  BY Alone DEF Calm, Moves
<1>2. /\ pc'[w] = "idle" => loc'[w].o = "none"
      /\ pc'[w] # "idle" => loc'[w].o = o
      /\ pc'[w] # "write"
      /\ \A p \in Orders \ {o} : order'[p] = order[p]
  BY DEF Moves
<1>3. ASSUME NEW v \in Workers
      PROVE  (/\ pc[v] = "write" => loc[v].seen = order[loc[v].o]
              /\ pc[v] \in Undoing => BeingCancelled(v, loc[v].o)
              /\ pc[v] \in Rewarding => BeingRewarded(v, loc[v].o))'
  <2>1. CASE v = w
    <3>1. pc'[w] # "idle" => loc'[w].o = o
      BY <1>2
    <3>2. pc'[w] \in Undoing \cup Rewarding => pc'[w] # "idle"
      BY DEF Undoing, Rewarding
    <3> QED
      BY <1>2, <2>1, <3>1, <3>2 DEF BeingCancelled, BeingRewarded
  <2>2. CASE v # w
    <3>1. loc'[v] = loc[v] /\ pc'[v] = pc[v] /\ loc[v].o # o
      BY <1>1, <2>2
    <3>2. CASE pc[v] = "idle"
      BY <3>1, <3>2 DEF Undoing, Rewarding
    <3>3. CASE pc[v] # "idle"
      <4>1. PICK p \in Orders : p = loc[v].o
        BY <3>3 DEF TypeOK
      <4>2. p # o /\ order'[p] = order[p] /\ ledger'.delivered[p] = ledger.delivered[p]
        BY <1>2, <3>1, <4>1
      <4>3. /\ pc[v] = "write" => loc[v].seen = order[p]
            /\ pc[v] \in Undoing => BeingCancelled(v, p)
            /\ pc[v] \in Rewarding => BeingRewarded(v, p)
        BY <4>1 DEF WorkInv
      <4>4. loc'[v].o = p
        BY <3>1, <4>1
      <4> QED
        BY <3>1, <4>2, <4>3, <4>4 DEF BeingCancelled, BeingRewarded
    <3> QED
      BY <3>2, <3>3
  <2> QED
    BY <2>1, <2>2
<1>4. ASSUME NEW p \in Orders, AtRest(p)' PROVE Rested(p)'
  <2>1. CASE p = o
    <3>1. pc'[w] = "idle"
      BY <1>2, <1>4, <2>1 DEF AtRest
    <3> QED
      BY <2>1, <3>1
  <2>2. CASE p # o
    <3>1. AtRest(p)
      BY <1>4, <2>2, MoverOrder
    <3>2. order'[p] = order[p] /\ ledger'.delivered[p] = ledger.delivered[p]
      BY <1>2, <2>2
    <3>3. Rested(p)
      BY <3>1 DEF WorkInv
    <3> QED
      BY <3>2, <3>3 DEF Rested, Fresh, Settled
  <2> QED
    BY <2>1, <2>2
<1>5. \A p \in Orders : order'[p].points = "reserved" => Points[p] > 0
  BY <1>2 DEF WorkInv
<1> QED
  BY <1>3, <1>4, <1>5 DEF WorkInv

LEMMA HeldTypes ==
  /\ \A o \in Orders : Held[o] \in Nat
  /\ IsFiniteSet(OnShelf)
  /\ Cardinality(OnShelf) \in Nat
<1>1. OnShelf \subseteq Orders
  BY DEF OnShelf
<1>2. IsFiniteSet(OnShelf)
  BY <1>1, OrderAssumption, FS_Subset
<1> QED
  BY <1>2, OrderAssumption, FS_CardinalityType DEF Held

LEMMA HeldTypesNext == \A o \in Orders : Held'[o] \in Nat
<1>1. (\A o \in Orders : Held[o] \in Nat)'
  BY HeldTypes, PTL
<1> QED
  BY <1>1

\* The reserved points follow what the worker's order holds.
LEMMA HeldChanges ==
  ASSUME reserved = SumFunctionOnSet(Held, Orders), NEW o \in Orders,
         \A p \in Orders \ {o} : Holds(p)' <=> Holds(p),
         reserved' = reserved - Held[o] + Held'[o]
  PROVE  reserved' = SumFunctionOnSet(Held', Orders)
<1>1. \A p \in Orders : p # o => Held'[p] = Held[p]
  BY DEF Held
<1>2. \A p \in Orders : Held[p] \in Int /\ Held'[p] \in Int
  BY HeldTypes, HeldTypesNext
<1> HIDE DEF Held
<1>3. SumFunctionOnSet(Held', Orders) = SumFunctionOnSet(Held, Orders) - Held[o] + Held'[o]
  BY <1>1, <1>2, OrderAssumption, SumChanged
<1> QED
  BY <1>3

\* What a step counts when it moves no reserved point and no unit.
LEMMA CountAside ==
  ASSUME TypeOK, TypeOK', CountInv, NEW w \in Workers, NEW o \in Orders,
         \A p \in Orders : (Holds(p)' <=> Holds(p)) /\ (Back(p)' <=> Back(p)),
         reserved' = reserved, shelf' = shelf, points'.customer >= points.customer
  PROVE  CountInv'
<1>1. Held' = Held
  BY DEF Held
<1>2. OnShelf' = OnShelf
  BY DEF OnShelf
<1>3. reserved \in Nat /\ points.customer \in Nat /\ points'.customer \in Nat
  BY DEF TypeOK
<1> QED
  BY <1>1, <1>2, <1>3 DEF CountInv

\* A request that starts decides from the order as it rests.
LEMMA SettledStart ==
  ASSUME TypeOK, TypeOK', SeenIsCurrent, SettledInv, NEW w \in Workers, NEW o \in Orders, NEW to \in Status,
         StartTransition(w, o, to)
  PROVE  SettledInv'
<1> SUFFICES ASSUME Calm' PROVE WorkInv' /\ CountInv'
  BY DEF SettledInv
<1> DEFINE l == [NoLocals EXCEPT !.o = o, !.to = to, !.seen = order[o]]
<1>1. /\ pc[w] = "idle" /\ loc[w].o = "none"
      /\ pc' = [pc EXCEPT ![w] = "write"] /\ loc' = [loc EXCEPT ![w] = l]
      /\ raced' = IF \E v \in Workers : loc[v].o = o THEN raced \cup {o} ELSE raced
      /\ UNCHANGED <<order, shelf, points, reserved, ledger, faults>>
  BY DEF StartTransition, Decide, GoWith, SeenIsCurrent, userVars
<1>2. l.o = o /\ l.seen = order[o]
  BY DEF NoLocals
<1>3. /\ pc'[w] = "write" /\ loc'[w] = l
      /\ \A v \in Workers \ {w} : pc'[v] = pc[v] /\ loc'[v] = loc[v]
  BY <1>1 DEF TypeOK
<1> HIDE DEF l
<1>4. raced = {} /\ \A v \in Workers : loc[v].o # o
  BY <1>1 DEF Calm
<1>5. Calm /\ WorkInv /\ CountInv
  BY <1>1, <1>4 DEF Calm, SettledInv
<1>6. \A p \in Orders : p # "none"
  BY NoOrderAssumption
<1>7. \A p \in Orders : (Holds(p)' <=> Holds(p)) /\ (Back(p)' <=> Back(p)) /\ (AtRest(p)' => AtRest(p))
  BY <1>1, <1>2, <1>3, <1>4, <1>6 DEF Holds, Back, AtRest
<1>8. ASSUME NEW v \in Workers
      PROVE  (/\ pc[v] = "write" => loc[v].seen = order[loc[v].o]
              /\ pc[v] \in Undoing => BeingCancelled(v, loc[v].o)
              /\ pc[v] \in Rewarding => BeingRewarded(v, loc[v].o))'
  <2>1. CASE v = w
    BY <1>1, <1>2, <1>3, <2>1 DEF Undoing, Rewarding
  <2>2. CASE v # w
    <3>1. pc'[v] = pc[v] /\ loc'[v] = loc[v]
      BY <1>3, <2>2
    <3>2. /\ pc[v] = "write" => loc[v].seen = order[loc[v].o]
          /\ pc[v] \in Undoing => BeingCancelled(v, loc[v].o)
          /\ pc[v] \in Rewarding => BeingRewarded(v, loc[v].o)
      BY <1>5 DEF WorkInv
    <3> QED
      BY <1>1, <3>1, <3>2 DEF BeingCancelled, BeingRewarded
  <2> QED
    BY <2>1, <2>2
<1>9. ASSUME NEW p \in Orders, AtRest(p)' PROVE Rested(p)'
  <2>1. Rested(p)
    BY <1>5, <1>7, <1>9 DEF WorkInv
  <2> QED
    BY <1>1, <2>1 DEF Rested, Fresh, Settled
<1>10. \A p \in Orders : order'[p].points = "reserved" => Points[p] > 0
  BY <1>1, <1>5 DEF WorkInv
<1>11. WorkInv'
  BY <1>8, <1>9, <1>10 DEF WorkInv
<1>12. points'.customer >= points.customer
  BY <1>1 DEF TypeOK
<1>13. CountInv'
  BY <1>1, <1>5, <1>7, <1>12, CountAside
<1> QED
  BY <1>11, <1>13

\* What the steps of a worker have in common, while all is calm.
Mover(w, o) ==
  /\ TypeOK /\ SeenIsCurrent /\ Calm /\ WorkInv /\ CountInv
  /\ w \in Workers /\ o \in Orders /\ o = loc[w].o
  /\ order \in [Orders -> StoredOrders] /\ order[o] \in StoredOrders
  /\ loc[w] \in Locals /\ loc[w].seen \in StoredOrders

\* A step that moves no reserved point and no unit.
LEMMA SettledAside ==
  ASSUME TypeOK', NEW w \in Workers, NEW o \in Orders, Mover(w, o), Moves(w), UNCHANGED <<reserved, shelf>>,
         \A p \in Orders \ {o} : ledger'.delivered[p] = ledger.delivered[p],
         points'.customer >= points.customer,
         pc'[w] \in Undoing => BeingCancelled(w, o)',
         pc'[w] \in Rewarding => BeingRewarded(w, o)',
         pc'[w] = "idle" => Rested(o)',
         order'[o].points = "reserved" => order[o].points = "reserved",
         (order'[o].points = "reserved" /\ pc'[w] \notin {"release", "redeemRow", "redeemMark"})
           <=> (order[o].points = "reserved" /\ pc[w] \notin {"release", "redeemRow", "redeemMark"}),
         (~order'[o].stock \/ pc'[w] = "unstock") <=> (~order[o].stock \/ pc[w] = "unstock")
  PROVE  WorkInv' /\ CountInv'
<1>1. TypeOK /\ SeenIsCurrent /\ Calm /\ WorkInv /\ CountInv /\ o = loc[w].o
  BY DEF Mover
<1>2. order'[o].points = "reserved" => Points[o] > 0
  BY <1>1 DEF WorkInv
<1>3. WorkInv'
  BY <1>1, <1>2, WorkMoves
<1>4. \A p \in Orders : (Holds(p)' <=> Holds(p)) /\ (Back(p)' <=> Back(p))
  BY <1>1, MoverOrder
<1>5. CountInv'
  BY <1>1, <1>4, CountAside
<1> QED
  BY <1>3, <1>5

LEMMA AtWrite ==
  ASSUME NEW w \in Workers, NEW o \in Orders, Mover(w, o), pc[w] = "write"
  PROVE  /\ loc[w].seen = order[o] /\ Rested(o)
         /\ order[o].status \notin Final \cup {loc[w].to} => Fresh(o)
         /\ loc[w].to \in Pipeline => Fresh(o)
<1>1. loc[w].seen = order[o] /\ MayBecome(order[o].status, loc[w].to)
  BY DEF Mover, WorkInv, SeenIsCurrent
<1>2. AtRest(o)
  BY Alone DEF Mover, Calm, AtRest
<1>3. Rested(o)
  BY <1>2 DEF Mover, WorkInv
<1>4. order[o].status \in Final => order[o].status = loc[w].to
  BY <1>1 DEF MayBecome
<1>5. Pipeline \cap Final = {}
  BY DEF Pipeline, Final
<1> QED
  BY <1>1, <1>3, <1>4, <1>5 DEF Rested

LEMMA SettledCancel ==
  ASSUME TypeOK', NEW w \in Workers, NEW o \in Orders, Mover(w, o), Moves(w), CancelOrder(w)
  PROVE  WorkInv' /\ CountInv'
<1>1. /\ pc[w] = "write" /\ loc[w].to = "Cancelled" /\ order \in [Orders -> StoredOrders]
      /\ order[o] \in StoredOrders /\ o = loc[w].o /\ loc[w] \in Locals
  BY DEF CancelOrder, Mover
<1>2. UNCHANGED <<shelf, points, reserved, ledger>> /\ points'.customer >= points.customer
  BY DEF CancelOrder, userVars, TypeOK
<1>3. loc[w].seen = order[o] /\ Rested(o)
  BY <1>1, AtWrite
<1>4. CASE order[o].status # "Cancelled"
  <2>1. Fresh(o)
    <3>1. order[o].status \in Final => order[o].status = loc[w].to
      BY <1>1, <1>3 DEF Mover, SeenIsCurrent, MayBecome
    <3> QED
      BY <1>1, <1>3, <1>4, <3>1 DEF Rested
  <2>2. order' = [order EXCEPT ![o] = [order[o] EXCEPT !.status = "Cancelled", !.payment = "cancelled"]]
    BY <1>1, <1>4 DEF CancelOrder, Write
  <2>3. /\ order'[o].status = "Cancelled" /\ order'[o].payment = "cancelled"
        /\ order'[o].points = order[o].points /\ order'[o].stock = order[o].stock
    BY <1>1, <2>2 DEF StoredOrders
  <2>4. /\ pc'[w] = AfterCancel(loc[w].seen) /\ loc'[w].seen = loc[w].seen
    <3>1. GoWith(w, AfterCancel(loc[w].seen), [loc[w] EXCEPT !.new = order'[o]])
      BY <1>1, <1>4 DEF CancelOrder
    <3> QED
      BY <1>1, <3>1 DEF GoWith, Mover, TypeOK, Locals
  <2>5. order[o].stock /\ ledger.delivered[o] = 0 /\ order[o].status # "Delivered"
    BY <2>1 DEF Fresh, Pipeline
  <2>6. pc'[w] = (IF order[o].points = "reserved" THEN "unreserve" ELSE "restock")
    BY <1>3, <2>4, <2>5 DEF AfterCancel
  <2>7. BeingCancelled(w, o)'
    BY <1>2, <1>3, <2>3, <2>4, <2>5, <2>6 DEF BeingCancelled
  <2>8. pc'[w] \notin Rewarding /\ pc'[w] # "idle"
    BY <2>6 DEF Rewarding
  <2> QED
    BY <1>1, <1>2, <2>3, <2>5, <2>6, <2>7, <2>8, SettledAside
<1>5. CASE order[o].status = "Cancelled"
  <2>1. pc'[w] = "idle" /\ order' = order
    BY <1>1, <1>5 DEF CancelOrder, Ends, GoWith, Mover, TypeOK
  <2>2. Rested(o)'
    BY <1>2, <1>3, <2>1 DEF Rested, Fresh, Settled
  <2>3. pc'[w] \notin Undoing \cup Rewarding
    BY <2>1 DEF Undoing, Rewarding
  <2> QED
    BY <1>1, <1>2, <2>1, <2>2, <2>3, SettledAside
<1> QED
  BY <1>4, <1>5

\* The points are there to be given back, or redeemed.
LEMMA HeldIsThere ==
  ASSUME NEW w \in Workers, NEW o \in Orders, Mover(w, o), order[o].points = "reserved",
         pc[w] \notin {"release", "redeemRow", "redeemMark"}
  PROVE  /\ Held[o] = Points[o] /\ Points[o] \in Nat \ {0}
         /\ Points[o] <= reserved /\ reserved <= points.customer
<1>1. Holds(o)
  BY Alone DEF Mover, Calm, Holds
<1>2. Held[o] = Points[o]
  BY <1>1 DEF Held
<1>3. Points[o] \in Nat \ {0}
  BY OrderAssumption DEF Mover, WorkInv
<1>4. \A p \in Orders : Held[p] \in Nat
  BY HeldTypes
<1> HIDE DEF Held
<1>5. Held[o] <= SumFunctionOnSet(Held, Orders)
  BY <1>4, OrderAssumption, SumIsNat
<1> QED
  BY <1>2, <1>3, <1>5 DEF Mover, CountInv

\* A step by which the worker's order does not hold its points any more.
LEMMA SettledMoved ==
  ASSUME TypeOK', NEW w \in Workers, NEW o \in Orders, Mover(w, o), Moves(w),
         order[o].points = "reserved", pc[w] \notin {"release", "redeemRow", "redeemMark"},
         pc'[w] \in {"release", "redeemRow"}, pc[w] # "unstock",
         UNCHANGED <<order, shelf, ledger>>,
         reserved' = reserved - Points[o],
         points'.customer >= points.customer - Points[o],
         pc'[w] \in Undoing => BeingCancelled(w, o)',
         pc'[w] \in Rewarding => BeingRewarded(w, o)'
  PROVE  WorkInv' /\ CountInv'
<1>1. TypeOK /\ SeenIsCurrent /\ Calm /\ WorkInv /\ CountInv /\ o = loc[w].o
  BY DEF Mover
<1>2. order'[o].points = "reserved" => Points[o] > 0
  BY <1>1 DEF WorkInv
<1>3. WorkInv'
  BY <1>1, <1>2, WorkMoves
<1>4. Held[o] = Points[o] /\ Points[o] \in Nat /\ reserved <= points.customer
  BY HeldIsThere
<1>5. ~Holds(o)' /\ \A p \in Orders \ {o} : Holds(p)' <=> Holds(p)
  BY <1>1, MoverOrder
<1>6. \A p \in Orders : Back(p)' <=> Back(p)
  BY <1>1, MoverOrder
<1>7. Held'[o] = 0
  BY <1>5 DEF Held
<1>8. reserved \in Nat /\ points.customer \in Nat /\ points'.customer \in Nat
  BY <1>1 DEF TypeOK
<1>9. reserved' = reserved - Held[o] + Held'[o]
  BY <1>4, <1>7, <1>8
<1>10. reserved = SumFunctionOnSet(Held, Orders) /\ shelf = Cardinality(OnShelf)
  BY <1>1 DEF CountInv
<1>11. reserved' = SumFunctionOnSet(Held', Orders)
  BY <1>5, <1>9, <1>10, HeldChanges
<1>12. shelf' = Cardinality(OnShelf')
  BY <1>6, <1>10 DEF OnShelf
<1>13. reserved' <= points'.customer
  BY <1>4, <1>8
<1> QED
  BY <1>3, <1>11, <1>12, <1>13 DEF CountInv

LEMMA SettledUnreserve ==
  ASSUME TypeOK', NEW w \in Workers, NEW o \in Orders, Mover(w, o), Moves(w), Unreserve(w)
  PROVE  WorkInv' /\ CountInv'
<1>1. pc[w] = "unreserve" /\ o = loc[w].o /\ UNCHANGED <<order, shelf, points, ledger, loc>>
  BY DEF Unreserve, GoTo, Mover
<1>2. BeingCancelled(w, o)
  BY <1>1 DEF Mover, WorkInv, Undoing
<1>3. order[o].points = "reserved"
  BY <1>1, <1>2 DEF BeingCancelled
<1>4. Points[o] \in Nat \ {0} /\ Points[o] <= reserved /\ reserved \in Nat
  BY <1>1, <1>3, HeldIsThere DEF Mover, TypeOK
<1>5. reserved' = reserved - Points[o] /\ pc'[w] = "release"
  BY <1>1, <1>4 DEF Unreserve, GoTo, Mover, TypeOK
<1>6. BeingCancelled(w, o)'
  BY <1>1, <1>2, <1>5 DEF BeingCancelled
<1>7. "release" \notin Rewarding
  BY DEF Rewarding
<1>8. points'.customer >= points.customer /\ points'.customer >= points.customer - Points[o]
  BY <1>1, <1>4 DEF Mover, TypeOK
<1> QED
  BY <1>1, <1>3, <1>5, <1>6, <1>7, <1>8, SettledMoved

LEMMA SettledRedeem ==
  ASSUME TypeOK', NEW w \in Workers, NEW o \in Orders, Mover(w, o), Moves(w), Redeem(w)
  PROVE  WorkInv' /\ CountInv'
<1>1. pc[w] = "redeem" /\ o = loc[w].o /\ UNCHANGED <<order, shelf, ledger, loc>>
  BY DEF Redeem, GoTo, Mover
<1>2. BeingRewarded(w, o)
  BY <1>1 DEF Mover, WorkInv, Rewarding
<1>3. order[o].points = "reserved"
  BY <1>1, <1>2 DEF BeingRewarded
<1>4. /\ Points[o] \in Nat /\ Points[o] <= reserved /\ reserved <= points.customer
      /\ reserved \in Nat /\ points.customer \in Nat
  BY <1>1, <1>3, HeldIsThere DEF Mover, TypeOK
<1>5. /\ reserved' = reserved - Points[o] /\ pc'[w] = "redeemRow"
      /\ points'.customer = points.customer - Points[o]
  BY <1>1, <1>4 DEF Redeem, GoTo, Mover, TypeOK
<1>6. BeingRewarded(w, o)'
  BY <1>1, <1>2, <1>5 DEF BeingRewarded, Owing
<1>7. "redeemRow" \notin Undoing
  BY DEF Undoing
<1>8. points'.customer >= points.customer - Points[o]
  BY <1>4, <1>5
<1> QED
  BY <1>1, <1>3, <1>5, <1>6, <1>7, <1>8, SettledMoved

LEMMA SettledRestock ==
  ASSUME TypeOK', NEW w \in Workers, NEW o \in Orders, Mover(w, o), Moves(w), Restock(w)
  PROVE  WorkInv' /\ CountInv'
<1>1. /\ pc[w] = "restock" /\ pc'[w] = "unstock" /\ o = loc[w].o /\ shelf' = shelf + 1
      /\ UNCHANGED <<order, points, reserved, ledger, loc>>
  BY DEF Restock, GoTo, Mover, TypeOK, userVars
<1>2. TypeOK /\ SeenIsCurrent /\ Calm /\ WorkInv /\ CountInv
  BY DEF Mover
<1>3. BeingCancelled(w, o)
  BY <1>1, <1>2 DEF WorkInv, Undoing
<1>4. order[o].stock /\ BeingCancelled(w, o)'
  BY <1>1, <1>3 DEF BeingCancelled
<1>5. "unstock" \notin Rewarding
  BY DEF Rewarding
<1>6. order'[o].points = "reserved" => Points[o] > 0
  BY <1>1, <1>2 DEF WorkInv
<1>7. WorkInv'
  BY <1>1, <1>2, <1>4, <1>5, <1>6, WorkMoves
<1>8. /\ \A p \in Orders : Holds(p)' <=> Holds(p)
      /\ \A p \in Orders \ {o} : Back(p)' <=> Back(p)
      /\ Back(o)' /\ ~Back(o)
  BY <1>1, <1>2, <1>4, MoverOrder
<1>9. OnShelf' = OnShelf \cup {o} /\ o \notin OnShelf
  BY <1>8 DEF OnShelf
<1>10. Cardinality(OnShelf') = Cardinality(OnShelf) + 1
  BY <1>9, HeldTypes, FS_AddElement
<1>11. Held' = Held
  BY <1>8 DEF Held
<1> QED
  BY <1>1, <1>2, <1>7, <1>10, <1>11 DEF CountInv

LEMMA SettledUndo ==
  ASSUME TypeOK', NEW w \in Workers, NEW o \in Orders, Mover(w, o), Moves(w),
         Release(w) \/ Unstock(w) \/ Mirror(w) \/ CourierAnswers(w)
  PROVE  WorkInv' /\ CountInv'
<1>1. /\ o = loc[w].o /\ order \in [Orders -> StoredOrders] /\ order[o] \in StoredOrders
      /\ pc[w] \in {"release", "unstock", "mirror", "courier"}
      /\ UNCHANGED <<shelf, points, reserved, ledger>>
      /\ points'.customer >= points.customer
  BY DEF Release, Unstock, Mirror, CourierAnswers, Mover, userVars, TypeOK
<1>2. BeingCancelled(w, o)
  BY <1>1 DEF Mover, WorkInv, Undoing
<1>3. pc'[w] \notin Rewarding
  BY DEF Release, Unstock, Mirror, CourierAnswers, GoTo, Ends, GoWith, Rewarding, Mover, TypeOK
<1>4. CASE Release(w)
  <2>1. /\ order'[o].status = order[o].status /\ order'[o].payment = order[o].payment
        /\ order'[o].stock = order[o].stock /\ order'[o].points = "released" /\ loc' = loc
        /\ pc[w] = "release" /\ pc'[w] = IF loc[w].seen.stock THEN "restock" ELSE "mirror"
    BY <1>1, <1>4 DEF Release, GoTo, StoredOrders, Mover, TypeOK
  <2>2. loc[w].seen.stock /\ order[o].stock
    BY <1>2, <2>1 DEF BeingCancelled
  <2>3. BeingCancelled(w, o)'
    BY <1>1, <1>2, <2>1, <2>2 DEF BeingCancelled
  <2> QED
    BY <1>1, <1>3, <2>1, <2>2, <2>3, SettledAside
<1>5. CASE Unstock(w)
  <2>1. /\ order'[o].status = order[o].status /\ order'[o].payment = order[o].payment
        /\ order'[o].stock = FALSE /\ order'[o].points = order[o].points /\ loc' = loc
        /\ pc[w] = "unstock" /\ pc'[w] = "mirror"
    BY <1>1, <1>5 DEF Unstock, GoTo, StoredOrders, Mover, TypeOK
  <2>2. order[o].points # "reserved"
    BY <1>2, <2>1 DEF BeingCancelled
  <2>3. BeingCancelled(w, o)'
    BY <1>1, <1>2, <2>1, <2>2 DEF BeingCancelled
  <2> QED
    BY <1>1, <1>3, <2>1, <2>2, <2>3, SettledAside
<1>6. CASE Mirror(w) \/ CourierAnswers(w)
  <2>1. /\ order'[o].status = order[o].status /\ order'[o].payment = order[o].payment
        /\ order'[o].stock = order[o].stock /\ order'[o].points = order[o].points
        /\ pc[w] \in {"mirror", "courier"} /\ pc'[w] \in {"courier", "idle"}
        /\ pc'[w] = "courier" => loc' = loc
    BY <1>1, <1>6 DEF Mirror, CourierAnswers, GoTo, Ends, GoWith, StoredOrders, Mover, TypeOK
  <2>2. order[o].points # "reserved" /\ ~order[o].stock /\ order[o].payment = "cancelled"
        /\ order[o].status = "Cancelled" /\ ledger.delivered[o] = 0
    BY <1>2, <2>1 DEF BeingCancelled
  <2>3. pc'[w] \in Undoing => BeingCancelled(w, o)'
    BY <1>1, <1>2, <2>1, <2>2 DEF BeingCancelled, Undoing
  <2>4. Rested(o)'
    BY <1>1, <2>1, <2>2 DEF Rested, Settled, Final, Pipeline
  <2> QED
    BY <1>1, <1>3, <2>1, <2>2, <2>3, <2>4, SettledAside
<1> QED
  BY <1>4, <1>5, <1>6

LEMMA SettledMove ==
  ASSUME TypeOK', NEW w \in Workers, NEW o \in Orders, Mover(w, o), Moves(w), MoveOrder(w)
  PROVE  WorkInv' /\ CountInv'
<1>1. /\ o = loc[w].o /\ order \in [Orders -> StoredOrders] /\ order[o] \in StoredOrders
      /\ pc[w] = "write" /\ loc[w].to \in Pipeline /\ pc'[w] = "idle"
      /\ UNCHANGED <<shelf, points, reserved, ledger>>
      /\ points'.customer >= points.customer
  BY DEF MoveOrder, Ends, GoWith, Mover, userVars, TypeOK
<1>2. Fresh(o)
  BY <1>1, AtWrite
<1>3. order' = [order EXCEPT ![o] = [order[o] EXCEPT !.status = loc[w].to]]
  BY <1>1 DEF MoveOrder, Write
<1>4. /\ order'[o].status = loc[w].to /\ order'[o].paid = order[o].paid
      /\ order'[o].payment = order[o].payment /\ order'[o].points = order[o].points
      /\ order'[o].stock = order[o].stock /\ order'[o].awarded = order[o].awarded
  BY <1>1, <1>3 DEF StoredOrders
<1>5. Rested(o)'
  BY <1>1, <1>2, <1>4 DEF Rested, Fresh
<1>6. pc'[w] \notin Undoing \cup Rewarding
  BY <1>1 DEF Undoing, Rewarding
<1> QED
  BY <1>1, <1>4, <1>5, <1>6, SettledAside

LEMMA SettledDeliver ==
  ASSUME TypeOK', NEW w \in Workers, NEW o \in Orders, Mover(w, o), Moves(w), DeliverOrder(w)
  PROVE  WorkInv' /\ CountInv'
<1> DEFINE r == Delivered(o, loc[w].seen)
<1>1. /\ o = loc[w].o /\ order \in [Orders -> StoredOrders] /\ order[o] \in StoredOrders
      /\ pc[w] = "write" /\ loc[w].to = "Delivered" /\ loc[w] \in Locals
      /\ UNCHANGED <<shelf, points, reserved, ledger>>
      /\ points'.customer >= points.customer
  BY DEF DeliverOrder, Mover, userVars, TypeOK
<1>2. loc[w].seen = order[o] /\ Rested(o)
  BY <1>1, AtWrite
<1>3. CASE order[o].status = "Delivered"
  <2>1. pc'[w] = "idle" /\ order' = order
    BY <1>1, <1>3 DEF DeliverOrder, Ends, GoWith, Mover, TypeOK
  <2>2. Rested(o)'
    BY <1>1, <1>2, <2>1 DEF Rested, Fresh, Settled
  <2>3. pc'[w] \notin Undoing \cup Rewarding
    BY <2>1 DEF Undoing, Rewarding
  <2> QED
    BY <1>1, <2>1, <2>2, <2>3, SettledAside
<1>4. CASE order[o].status # "Delivered"
  <2>1. Fresh(o)
    <3>1. order[o].status \in Final => order[o].status = loc[w].to
      BY <1>1, <1>2 DEF Mover, SeenIsCurrent, MayBecome
    <3> QED
      BY <1>1, <1>2, <1>4, <3>1 DEF Rested
  <2>2. order' = [order EXCEPT ![o] = r]
    BY <1>1, <1>4 DEF DeliverOrder, Write
  <2>3. /\ r.status = "Delivered" /\ r.points = order[o].points /\ r.stock = order[o].stock
        /\ r.awarded = order[o].awarded
        /\ r.paid = (order[o].paid \/ (o \in Cod /\ ~order[o].paid))
        /\ r.payment = IF o \in Cod /\ ~order[o].paid THEN "paid" ELSE order[o].payment
    BY <1>1, <1>2 DEF Delivered, StoredOrders
  <2>4. /\ order[o].stock /\ ~order[o].awarded /\ ledger.delivered[o] = 0
        /\ order[o].points \in {"none", "reserved", "redeemed"}
        /\ order[o].paid = (o \notin Cod)
        /\ order[o].payment = IF o \in Cod THEN "pending" ELSE "paid"
    BY <2>1 DEF Fresh, Placed
  <2>5. /\ pc'[w] = IF order[o].points = "reserved" THEN "redeem" ELSE "readUser"
        /\ loc'[w].new = r
    <3>1. GoWith(w, AfterDelivery(o, r), [loc[w] EXCEPT !.new = r])
      BY <1>1, <1>4 DEF DeliverOrder
    <3>2. pc'[w] = AfterDelivery(o, r) /\ loc'[w] = [loc[w] EXCEPT !.new = r]
      BY <3>1 DEF GoWith, Mover, TypeOK
    <3>3. loc'[w].new = r
      BY <1>1, <3>2 DEF Locals
    <3> QED
      BY <2>3, <3>2, <3>3 DEF AfterDelivery
  <2> HIDE DEF r
  <2>6. order'[o] = r
    BY <1>1, <2>2
  <2>7. /\ order'[o].status = "Delivered" /\ order'[o].paid /\ order'[o].payment = "paid"
        /\ order'[o].stock /\ ~order'[o].awarded /\ order'[o].points = order[o].points
    BY <2>3, <2>4, <2>6
  <2>8. BeingRewarded(w, o)'
    BY <1>1, <2>3, <2>4, <2>5, <2>7 DEF BeingRewarded, Owing
  <2>9. pc'[w] \notin Undoing /\ pc'[w] # "idle"
    BY <2>5 DEF Undoing
  <2> QED
    BY <1>1, <2>4, <2>5, <2>7, <2>8, <2>9, SettledAside
<1> QED
  BY <1>3, <1>4

\* The steps of a reward that leave the stored order alone.
LEMMA SettledReward ==
  ASSUME TypeOK', NEW w \in Workers, NEW o \in Orders, Mover(w, o), Moves(w),
         UNCHANGED <<order, shelf, reserved>>, points'.customer >= points.customer,
         pc[w] \in Rewarding \ {"redeem", "remind"},
         pc'[w] \in Rewarding \ {"redeem", "redeemRow", "remind"},
         pc'[w] = "redeemMark" <=> pc[w] = "redeemRow",
         pc[w] # "redeemMark",
         loc'[w].new = loc[w].new, pc'[w] \in Owing => pc[w] \in Owing,
         \A p \in Orders : ledger'.delivered[p] = ledger.delivered[p] +
           (IF p = o /\ pc[w] \in Owing /\ pc'[w] \notin Owing THEN 1 ELSE 0)
  PROVE  WorkInv' /\ CountInv'
<1>1. o = loc[w].o /\ \A p \in Orders : ledger.delivered[p] \in Nat
  BY DEF Mover, TypeOK, Types
<1>2. BeingRewarded(w, o)
  BY <1>1 DEF Mover, WorkInv
<1>3. BeingRewarded(w, o)'
  BY <1>1, <1>2 DEF BeingRewarded, Rewarding
<1>4. pc'[w] \notin Undoing /\ pc'[w] # "idle" /\ pc'[w] # "release" /\ pc'[w] # "unstock"
      /\ pc[w] # "release" /\ pc[w] # "unstock"
  BY DEF Undoing, Rewarding
<1>5. pc[w] # "redeemRow" => order[o].points # "reserved"
  BY <1>2 DEF BeingRewarded
<1>6. \A p \in Orders \ {o} : ledger'.delivered[p] = ledger.delivered[p]
  BY <1>1
<1> QED
  BY <1>3, <1>4, <1>5, <1>6, SettledAside

LEMMA SettledRewards ==
  ASSUME TypeOK', NEW w \in Workers, NEW o \in Orders, Mover(w, o), Moves(w), Rewards(w)
  PROVE  WorkInv' /\ CountInv'
<1>1. /\ o = loc[w].o /\ order \in [Orders -> StoredOrders] /\ order[o] \in StoredOrders
      /\ points.customer \in Nat /\ TypeOK /\ loc[w] \in Locals
      /\ \A p \in Orders : ledger.delivered[p] \in Nat
  BY DEF Mover, TypeOK, Types
<1>2. pc[w] \in Rewarding => BeingRewarded(w, o)
  BY <1>1 DEF Mover, WorkInv
<1>3. ASSUME Record("delivered", o)
      PROVE  \A p \in Orders : ledger'.delivered[p] = ledger.delivered[p] + (IF p = o THEN 1 ELSE 0)
  BY <1>1, <1>3, Recorded DEF Types
<1>4. ASSUME NEW type \in Types \ {"delivered"}, Record(type, o)
      PROVE  \A p \in Orders : ledger'.delivered[p] = ledger.delivered[p]
  <2>1. \A p \in Orders : ledger'.delivered[p] = ledger.delivered[p] + 0
    BY <1>1, <1>4, Recorded DEF Types
  <2> QED
    BY <1>1, <2>1
<1>5. CASE RedeemRow(w)
  <2>1. /\ pc[w] = "redeemRow" /\ pc'[w] = "redeemMark" /\ Record("redeemed", o) /\ loc' = loc
        /\ UNCHANGED <<order, shelf, points, reserved>>
    BY <1>1, <1>5 DEF RedeemRow, GoTo, TypeOK
  <2>2. \A p \in Orders : ledger'.delivered[p] = ledger.delivered[p]
    BY <1>4, <2>1 DEF Types
  <2> QED
    BY <1>1, <2>1, <2>2, SettledReward DEF Rewarding, Owing
<1>6. CASE RedeemMark(w)
  <2>1. /\ order'[o].status = order[o].status /\ order'[o].paid = order[o].paid
        /\ order'[o].payment = order[o].payment /\ order'[o].stock = order[o].stock
        /\ order'[o].awarded = order[o].awarded /\ order'[o].points = "redeemed" /\ loc' = loc
        /\ pc[w] = "redeemMark" /\ pc'[w] = "readUser"
        /\ UNCHANGED <<shelf, points, reserved, ledger>>
    BY <1>1, <1>6 DEF RedeemMark, GoTo, StoredOrders, TypeOK, userVars
  <2>2. BeingRewarded(w, o)
    BY <1>2, <2>1 DEF Rewarding
  <2>3. BeingRewarded(w, o)'
    BY <2>1, <2>2 DEF BeingRewarded, Owing
  <2>4. "readUser" \notin Undoing
    BY DEF Undoing
  <2> QED
    BY <1>1, <2>1, <2>3, <2>4, SettledAside
<1>7. CASE ReadUser(w)
  <2> DEFINE l == [loc[w] EXCEPT !.locked = ~unlocked]
             next == IF ~l.new.awarded THEN "award" ELSE IF l.locked THEN "claim" ELSE "mark"
  <2>1. /\ pc[w] = "readUser" /\ pc'[w] = next /\ loc'[w] = l
        /\ UNCHANGED <<order, shelf, points, reserved, ledger>>
    BY <1>1, <1>7 DEF ReadUser, GoWith, TypeOK, userVars
  <2>2. l.new = loc[w].new
    BY <1>1 DEF Locals
  <2>3. ~loc[w].new.awarded
    BY <1>2, <2>1 DEF BeingRewarded, Rewarding, Owing
  <2>4. pc'[w] = "award" /\ loc'[w].new = loc[w].new
    BY <2>1, <2>2, <2>3
  <2> HIDE DEF l, next
  <2> QED
    BY <1>1, <2>1, <2>4, SettledReward DEF Rewarding, Owing
<1>8. ASSUME NEW from \in {"award", "referrer", "newCustomer"},
             NEW next \in {"awardRow", "referrerRow", "newCustomerRow"},
             NEW who \in {"customer", "referrer"}, Award(w, from, next, who),
             next = "awardRow" <=> from = "award"
      PROVE  WorkInv' /\ CountInv'
  <2>1. /\ pc[w] = from /\ pc'[w] = next /\ loc' = loc /\ UNCHANGED <<order, shelf, reserved, ledger>>
        /\ points' = [points EXCEPT ![who] = @ + Reward]
    BY <1>1, <1>8 DEF Award, GoTo, TypeOK
  <2>2. points'.customer >= points.customer
    BY <1>1, <1>8, <2>1, OrderBounds DEF TypeOK
  <2>3. \A p \in Orders : ledger'.delivered[p] = ledger.delivered[p] +
          (IF p = o /\ pc[w] \in Owing /\ pc'[w] \notin Owing THEN 1 ELSE 0)
    BY <1>1, <1>8, <2>1 DEF Owing
  <2> QED
    BY <1>8, <2>1, <2>2, <2>3, SettledReward DEF Rewarding, Owing
<1>9. CASE \/ Award(w, "award", "awardRow", "customer") \/ Award(w, "referrer", "referrerRow", "referrer")
           \/ Award(w, "newCustomer", "newCustomerRow", "customer")
  BY <1>8, <1>9
<1>10. CASE AwardRow(w, "awardRow", AfterAward(w), "delivered")
  <2>1. /\ pc[w] = "awardRow" /\ pc'[w] \in {"claim", "mark"} /\ loc' = loc /\ Record("delivered", o)
        /\ UNCHANGED <<order, shelf, points, reserved>>
    BY <1>1, <1>10 DEF AwardRow, AfterAward, GoTo, TypeOK
  <2>2. \A p \in Orders : ledger'.delivered[p] = ledger.delivered[p] + (IF p = o THEN 1 ELSE 0)
    BY <1>3, <2>1
  <2> QED
    BY <1>1, <2>1, <2>2, SettledReward DEF Rewarding, Owing
<1>11. CASE \/ AwardRow(w, "referrerRow", "newCustomer", "referrer")
            \/ AwardRow(w, "newCustomerRow", "count", "newCustomer")
  <2>1. PICK type \in Types \ {"delivered"} :
          /\ pc[w] \in {"referrerRow", "newCustomerRow"} /\ pc'[w] \in {"newCustomer", "count"}
          /\ loc' = loc /\ Record(type, o) /\ UNCHANGED <<order, shelf, points, reserved>>
    BY <1>1, <1>11 DEF AwardRow, GoTo, TypeOK, Types
  <2>2. \A p \in Orders : ledger'.delivered[p] = ledger.delivered[p]
    BY <1>4, <2>1
  <2> QED
    BY <1>1, <2>1, <2>2, SettledReward DEF Rewarding, Owing
<1>12. CASE ClaimReferral(w) \/ CountReferral(w)
  <2>1. /\ pc[w] \in {"claim", "count"} /\ pc'[w] \in {"mark", "referrer"} /\ loc' = loc
        /\ UNCHANGED <<order, shelf, points, reserved, ledger>>
    BY <1>1, <1>12 DEF ClaimReferral, CountReferral, GoTo, TypeOK
  <2> QED
    BY <1>1, <2>1, SettledReward DEF Rewarding, Owing
<1>13. CASE Mark(w)
  <2>1. /\ order'[o].status = order[o].status /\ order'[o].paid = order[o].paid
        /\ order'[o].payment = order[o].payment /\ order'[o].stock = order[o].stock
        /\ order'[o].awarded = TRUE /\ order'[o].points = order[o].points /\ loc' = loc
        /\ pc[w] = "mark" /\ pc'[w] = "remind"
        /\ UNCHANGED <<shelf, points, reserved, ledger>>
    BY <1>1, <1>13 DEF Mark, GoTo, StoredOrders, TypeOK, userVars
  <2>2. BeingRewarded(w, o)
    BY <1>2, <2>1 DEF Rewarding
  <2>3. BeingRewarded(w, o)'
    BY <2>1, <2>2 DEF BeingRewarded, Owing
  <2>4. "remind" \notin Undoing
    BY DEF Undoing
  <2> QED
    BY <1>1, <2>1, <2>3, <2>4, SettledAside
<1>14. CASE Remind(w)
  <2>1. /\ order'[o].status = order[o].status /\ order'[o].paid = order[o].paid
        /\ order'[o].payment = order[o].payment /\ order'[o].stock = order[o].stock
        /\ order'[o].awarded = order[o].awarded /\ order'[o].points = order[o].points
        /\ order'[o].reminded = TRUE /\ pc[w] = "remind" /\ pc'[w] = "idle"
        /\ UNCHANGED <<shelf, points, reserved, ledger>>
    BY <1>1, <1>14 DEF Remind, Ends, GoWith, StoredOrders, TypeOK, userVars
  <2>2. BeingRewarded(w, o)
    BY <1>2, <2>1 DEF Rewarding
  <2>3. Rested(o)'
    BY <2>1, <2>2 DEF BeingRewarded, Rested, Settled, Final, Pipeline, Owing
  <2>4. "idle" \notin Undoing \cup Rewarding
    BY DEF Undoing, Rewarding
  <2> QED
    BY <1>1, <2>1, <2>3, <2>4, SettledAside
<1> QED
  BY <1>5, <1>6, <1>7, <1>9, <1>10, <1>11, <1>12, <1>13, <1>14, SettledRedeem DEF Rewards

LEMMA SettledNext ==
  ASSUME TypeOK, TypeOK', SeenIsCurrent, SettledInv, [Next]_vars
  PROVE  SettledInv'
<1>1. CASE UNCHANGED vars
  <2>1. Held' = Held /\ OnShelf' = OnShelf /\ \A o \in Orders : AtRest(o)' <=> AtRest(o)
    BY <1>1 DEF vars, Held, Holds, OnShelf, Back, AtRest
  <2>2. Calm' => Calm /\ WorkInv /\ CountInv
    BY <1>1 DEF vars, historyVars, Calm, SettledInv
  <2>3. Calm' => CountInv'
    BY <1>1, <2>1, <2>2 DEF vars, userVars, CountInv
  <2>4. Calm' => WorkInv'
    BY <1>1, <2>1, <2>2 DEF vars, userVars, WorkInv, BeingCancelled, BeingRewarded, Rested, Fresh, Settled
  <2> QED
    BY <2>3, <2>4 DEF SettledInv
<1>2. ASSUME NEW w \in Workers, NEW o \in Orders, StartCancel(w, o) PROVE SettledInv'
  BY <1>2, SettledStart DEF StartCancel, Status, Final
<1>3. ASSUME NEW w \in Workers, Abandons(w) PROVE SettledInv'
  BY <1>3 DEF Abandons, SettledInv, Calm, TypeOK
<1>4. ASSUME NEW w \in Workers, Continue(w) PROVE SettledInv'
  <2> SUFFICES ASSUME Calm' PROVE WorkInv' /\ CountInv'
    BY DEF SettledInv
  <2>1. Moves(w)
    BY <1>4, StepMoves
  <2>2. faults' = faults
    BY <1>4 DEF Continue, Cancellation, CancelOrder, Unreserve, Release, Restock, Unstock, Mirror,
                CourierAnswers, MoveOrder, DeliverOrder, Rewards, Redeem, RedeemRow, RedeemMark,
                ReadUser, Award, AwardRow, ClaimReferral, CountReferral, Mark, Remind
  <2>3. Calm
    BY <2>1, <2>2 DEF Calm, Moves
  <2>4. PICK o \in Orders : o = loc[w].o
    BY <2>1 DEF Moves, TypeOK
  <2>5. Mover(w, o)
    BY <2>1, <2>3, <2>4, WorkerType DEF Mover, SettledInv, Moves, TypeOK
  <2> QED
    BY <1>4, <2>1, <2>5, SettledCancel, SettledUnreserve, SettledRestock, SettledUndo,
       SettledMove, SettledDeliver, SettledRewards
       DEF Continue, Cancellation
<1> QED
  BY <1>1, <1>2, <1>3, <1>4, SettledStart DEF Next

LEMMA SettledInit == Init => LedgerInv /\ SettledInv
<1> SUFFICES ASSUME Init PROVE LedgerInv /\ SettledInv
  OBVIOUS
<1>1. /\ order = [o \in Orders |-> Placed(o)] /\ shelf = 0
      /\ points.customer = Balance /\ points.referrer = 0
      /\ reserved = PointsHeld(order)
      /\ ledger = [t \in Types |-> [o \in Orders |-> 0]]
      /\ \A w \in Workers : pc[w] = "idle" /\ loc[w].o = "none"
  BY DEF Init, NoLocals
<1>2. \A o \in Orders : o # "none"
  BY NoOrderAssumption
<1>3. \A o \in Orders : Earned[o] = 0 /\ Referred[o] = 0
  BY <1>1, OrderBounds, OrderAssumption DEF Earned, Referred, Types
<1>4. \A w \in Workers : InHand[w] = 0 /\ InHandReferrer[w] = 0
  BY <1>1 DEF InHand, InHandReferrer
<1>5. /\ SumFunctionOnSet(Earned, Orders) = 0 /\ SumFunctionOnSet(Referred, Orders) = 0
      /\ SumFunctionOnSet(InHand, Workers) = 0 /\ SumFunctionOnSet(InHandReferrer, Workers) = 0
  <2> HIDE DEF Earned, Referred, InHand, InHandReferrer
  <2> QED
    BY <1>3, <1>4, SumOfZeros, OrderAssumption, WorkerAssumption
<1>6. LedgerInv
  BY <1>1, <1>5, OrderBounds DEF LedgerInv
<1>7. \A o \in Orders : Fresh(o) /\ order[o].stock /\ (order[o].points = "reserved" => Points[o] > 0)
  <2> TAKE o \in Orders
  <2>1. Points[o] \in Nat /\ order[o] = Placed(o) /\ ledger["delivered"] = [p \in Orders |-> 0]
    BY <1>1, OrderAssumption DEF Types
  <2>2. Placed(o).points = "reserved" => Points[o] > 0
    <3>1. CASE Points[o] = 0
      <4>1. Placed(o).points = "none"
        BY <3>1 DEF Placed
      <4> QED
        BY <4>1
    <3>2. CASE Points[o] # 0
      BY <2>1, <3>2
    <3> QED
      BY <3>1, <3>2
  <2>3. Placed(o).status = "Order Placed" /\ Placed(o).stock /\ ~Placed(o).awarded
    BY DEF Placed
  <2>4. "Order Placed" \in Pipeline
    BY DEF Pipeline
  <2> QED
    BY <2>1, <2>2, <2>3, <2>4 DEF Fresh
<1>8. WorkInv
  BY <1>1, <1>7 DEF WorkInv, Rested, Undoing, Rewarding
<1>9. Held = [o \in Orders |-> IF order[o].points = "reserved" THEN Points[o] ELSE 0]
  BY <1>1, <1>2 DEF Held, Holds
<1>10. reserved = SumFunctionOnSet(Held, Orders)
  BY <1>1, <1>9 DEF PointsHeld
<1>11. OnShelf = {}
  BY <1>1, <1>7 DEF OnShelf, Back
<1>12. shelf = Cardinality(OnShelf)
  BY <1>1, <1>11, FS_EmptySet
<1>13. reserved <= points.customer
  BY <1>1, ReservedAssumption
<1> QED
  BY <1>6, <1>8, <1>10, <1>12, <1>13 DEF SettledInv, CountInv

\* Between requests, the invariants say that the orders are settled.
LEMMA SettledThen ==
  ASSUME TypeOK, SeenIsCurrent, LedgerInv, SettledInv
  PROVE  OrdersSettled
<1> SUFFICES ASSUME Quiet, faults = 0
             PROVE  /\ BalancesMatchLedger
                    /\ raced = {} =>
                         /\ \A o \in Orders : Settled(o)
                         /\ reserved = PointsHeld(order)
                         /\ shelf = Cardinality({o \in Orders : ~order[o].stock})
  BY DEF OrdersSettled
<1>1. \A w \in Workers : pc[w] = "idle" /\ loc[w].o = "none"
  BY DEF Quiet, SeenIsCurrent
<1>2. \A w \in Workers : InHand[w] = 0 /\ InHandReferrer[w] = 0
  BY <1>1 DEF InHand, InHandReferrer
<1>3. SumFunctionOnSet(InHand, Workers) = 0 /\ SumFunctionOnSet(InHandReferrer, Workers) = 0
  <2> HIDE DEF InHand, InHandReferrer
  <2> QED
    BY <1>2, SumOfZeros, WorkerAssumption
<1>4. SumFunctionOnSet(Earned, Orders) \in Int /\ SumFunctionOnSet(Referred, Orders) \in Int
  <2>1. \A o \in Orders : Earned[o] \in Int /\ Referred[o] \in Int
    BY LedgerTypes DEF SumTypes
  <2> HIDE DEF Earned, Referred
  <2> QED
    BY <2>1, SumIsInt, OrderAssumption
<1>5. /\ points.customer = Balance + SumFunctionOnSet(Earned, Orders)
      /\ points.referrer = SumFunctionOnSet(Referred, Orders)
  BY <1>3, <1>4, OrderBounds DEF LedgerInv
<1>6. BalancesMatchLedger
  BY <1>5 DEF BalancesMatchLedger, Earned, Referred
<1>7. ASSUME raced = {}
      PROVE  /\ \A o \in Orders : Settled(o)
             /\ reserved = PointsHeld(order)
             /\ shelf = Cardinality({o \in Orders : ~order[o].stock})
  <2>1. WorkInv /\ CountInv
    BY <1>7 DEF SettledInv, Calm
  <2>2. \A o \in Orders : o # "none"
    BY NoOrderAssumption
  <2>3. ASSUME NEW o \in Orders PROVE Settled(o)
    <3>1. Rested(o)
      BY <1>1, <2>1, <2>2 DEF WorkInv, AtRest
    <3> QED
      BY <3>1 DEF Rested, Fresh, Settled, Pipeline
  <2>4. Held = [o \in Orders |-> IF order[o].points = "reserved" THEN Points[o] ELSE 0]
    BY <1>1, <2>2 DEF Held, Holds
  <2>5. OnShelf = {o \in Orders : ~order[o].stock}
    BY <1>1, <2>2 DEF OnShelf, Back
  <2> QED
    BY <2>1, <2>3, <2>4, <2>5 DEF CountInv, PointsHeld
<1> QED
  BY <1>6, <1>7

\* For any number of orders, workers and requests, between requests and while nothing
\* failed: the transactions explain the balances, however the requests interleaved; and
\* while no two worked on one order at once, every order is settled, the reserved points
\* are those the orders hold and the shelf has the units of the cancelled ones.
THEOREM WhatRequestsLeave == Spec => []OrdersSettled
<1> DEFINE Inv == TypeOK /\ SeenIsCurrent /\ LedgerInv /\ SettledInv
<1>1. Init => Inv
  BY TypeInit, SettledInit DEF Init, SeenIsCurrent, NoLocals
<1>2. Inv /\ [Next]_vars => Inv'
  BY TypeNext, SeenNext, LedgerNext, SettledNext
<1>3. Inv => OrdersSettled
  BY SettledThen
<1> QED
  BY <1>1, <1>2, <1>3, PTL DEF Spec

=============================================================================
