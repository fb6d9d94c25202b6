--------------------------- MODULE Checkout_proofs ---------------------------
(***************************************************************************)
(* Checkout, for every set of checkouts, products and workers: types,      *)
(* points that cover what is reserved, one cash order per key; and, while  *)
(* nothing fails and one handler settles payments, books that add up.      *)
(***************************************************************************)
EXTENDS Checkout, Sums

WorkersOK ==
  /\ pc \in [Workers -> Labels]
  /\ loc \in [Workers -> Locals]
  /\ \A w \in Workers : loc[w].order \in 0 .. Len(orders)

\* A request is about a checkout, and while it reserves it is at one of its items.
AtItem == {"claim", "points", "item", "shortage"}

Working ==
  \A w \in Workers :
    /\ pc[w] # "idle" => loc[w].c \in Checkouts
    /\ pc[w] \in AtItem => loc[w].i <= Len(Items[loc[w].c])

DataOK ==
  /\ stock \in [Products -> Nat] /\ points \in Nat /\ reserved \in Nat
  /\ key \in [Checkouts -> {"absent", "in_progress", "completed", "refused"}]
  /\ attempt \in [Checkouts -> Attempts]
  /\ orders \in Seq(Orders)
  /\ gw \in [Checkouts -> {"none", "open", "captured"}]
  /\ events \subseteq Events /\ recorded \subseteq Events
  /\ faults \in 0 .. MaxFaults

TypeInv == DataOK /\ WorkersOK /\ Working

LEMMA TypeInvIsTypeOK == TypeInv => TypeOK
BY DEF TypeInv, DataOK, WorkersOK, TypeOK

LEMMA ItemsType ==
  ASSUME NEW c \in Checkouts
  PROVE  /\ Items[c] \in Seq(Products) /\ Len(Items[c]) \in Nat
         /\ Len(Items[c]) >= 1
         /\ Points[c] \in Nat
BY CheckoutAssumption

LEMMA NothingType == NoAttempt \in Attempts /\ NoLocals \in Locals
<1>1. NoAttempt \in Attempts
  BY DEF NoAttempt, Attempts, AttemptStates, PointStates
<1> QED
  BY <1>1 DEF NoLocals, Locals

\* Every way a worker moves keeps pc and loc well-typed.
LEMMA WorkerMoves ==
  ASSUME TypeInv, NEW w \in Workers, NEW label \in Labels, NEW l \in Locals,
         GoWith(w, label, l),
         orders' \in Seq(Orders), Len(orders) <= Len(orders'), l.order <= Len(orders'),
         label # "idle" => l.c \in Checkouts,
         label \in AtItem => l.i <= Len(Items[l.c])
  PROVE  WorkersOK' /\ Working'
<1> USE DEF TypeInv, WorkersOK, DataOK
<1>1. pc' = [pc EXCEPT ![w] = label] /\ loc' = [loc EXCEPT ![w] = l]
  BY DEF GoWith
<1>2. Len(orders) \in Nat /\ Len(orders') \in Nat /\ l.order \in Nat
  BY DEF Locals
<1>3. WorkersOK'
  BY <1>1, <1>2
<1>4. Working'
  BY <1>1 DEF Working
<1> QED
  BY <1>3, <1>4

LEMMA WorkerType ==
  ASSUME TypeInv, NEW w \in Workers
  PROVE  /\ loc[w] \in Locals /\ loc[w].order \in 0 .. Len(orders) /\ Len(orders) \in Nat
         /\ pc[w] # "idle" => loc[w].c \in Checkouts
BY DEF TypeInv, WorkersOK, DataOK, Working

LEMMA LocalsUpdates ==
  ASSUME NEW l \in Locals
  PROVE  /\ \A i \in Nat \ {0} : [l EXCEPT !.i = i] \in Locals
         /\ [l EXCEPT !.stock = TRUE] \in Locals
         /\ [l EXCEPT !.points = TRUE] \in Locals
         /\ \A a \in Attempts : [l EXCEPT !.seen = a] \in Locals
         /\ \A n \in Nat : [l EXCEPT !.order = n] \in Locals
<1>1. \A i \in Nat \ {0} : [l EXCEPT !.i = i] \in Locals
  BY DEF Locals
<1>2. [l EXCEPT !.stock = TRUE] \in Locals
  BY DEF Locals
<1>3. [l EXCEPT !.points = TRUE] \in Locals
  BY DEF Locals
<1>4. \A a \in Attempts : [l EXCEPT !.seen = a] \in Locals
  BY DEF Locals
<1>5. \A n \in Nat : [l EXCEPT !.order = n] \in Locals
  BY DEF Locals
<1> QED
  BY <1>1, <1>2, <1>3, <1>4, <1>5

LEMMA WorkerGoes ==
  ASSUME TypeInv, NEW w \in Workers, NEW label \in Labels, GoTo(w, label),
         orders' \in Seq(Orders), Len(orders) <= Len(orders'),
         pc[w] # "idle",
         label \in AtItem => loc[w].i <= Len(Items[loc[w].c])
  PROVE  WorkersOK' /\ Working'
<1>1. loc[w] \in Locals /\ loc[w].order <= Len(orders') /\ loc[w].c \in Checkouts
  BY DEF TypeInv, WorkersOK, Working, DataOK, Locals
<1>2. GoWith(w, label, loc[w])
  BY DEF GoTo, GoWith, TypeInv, WorkersOK
<1> QED
  BY <1>1, <1>2, WorkerMoves

LEMMA WorkerEnds ==
  ASSUME TypeInv, NEW w \in Workers, Ends(w), orders' \in Seq(Orders), Len(orders) <= Len(orders')
  PROVE  WorkersOK' /\ Working'
<1>1. NoLocals.order = 0 /\ "idle" \in Labels /\ "idle" \notin AtItem
  BY DEF NoLocals, Labels, AtItem
<1>2. Len(orders') \in Nat
  OBVIOUS
<1> QED
  BY <1>1, <1>2, NothingType, WorkerMoves DEF Ends

LEMMA WorkerBegins ==
  ASSUME TypeInv, NEW w \in Workers, NEW label \in Labels, NEW c \in Checkouts,
         NEW op \in {"place", "verify", "cancel", "webhook"},
         NEW event \in {"none", "payment.captured", "order.paid", "payment.failed"},
         Begin(w, label, c, op, event), 
         UNCHANGED orders
  PROVE  WorkersOK' /\ Working'
<1> DEFINE l == [NoLocals EXCEPT !.c = c, !.op = op, !.event = event]
<1>1. l \in Locals /\ l.c = c /\ l.order = 0
  BY NothingType DEF NoLocals, Locals
<1>2. orders' \in Seq(Orders) /\ Len(orders) <= Len(orders') /\ Len(orders') \in Nat
  BY DEF TypeInv, DataOK
<1>3. GoWith(w, label, l)
  BY DEF Begin
<1>4. l.i <= Len(Items[c])
  BY ItemsType DEF NoLocals
<1> HIDE DEF l
<1> QED
  BY <1>1, <1>2, <1>3, <1>4, WorkerMoves

LEMMA WorkerAnswers ==
  ASSUME TypeInv, NEW w \in Workers, Answered(w), orders' \in Seq(Orders),
         Len(orders) <= Len(orders'), pc[w] # "idle"
  PROVE  /\ WorkersOK' /\ Working'
         /\ events' \subseteq Events /\ recorded' = recorded /\ gw' = gw
<1>1. WorkersOK' /\ Working'
  <2>1. "refuse" \in Labels /\ "refuse" \notin AtItem
    BY DEF Labels, AtItem
  <2> QED
    BY <2>1, WorkerGoes, WorkerEnds DEF Answered
<1>2. events' \subseteq Events /\ recorded' = recorded /\ gw' = gw
  BY DEF Answered, TypeInv, DataOK
<1> QED
  BY <1>1, <1>2

-----------------------------------------------------------------------------
(* What the operations on stock, points and attempts return.               *)

LEMMA UnitsType ==
  ASSUME NEW s \in Seq(Products), NEW p \in Products
  PROVE  Units(s, p) \in Nat
<1>1. IsFiniteSet(1 .. Len(s)) /\ DOMAIN s = 1 .. Len(s)
  BY FS_Interval
<1>2. IsFiniteSet({i \in DOMAIN s : s[i] = p})
  BY <1>1, FS_Subset
<1> QED
  BY <1>2, FS_CardinalityType DEF Units

LEMMA ReleaseItemsType ==
  ASSUME TypeInv, NEW c \in Checkouts, NEW n \in 0 .. Len(Items[c]), ReleaseItems(c, n)
  PROVE  stock' \in [Products -> Nat]
<1>1. Items[c] \in Seq(Products)
  BY ItemsType
<1>2. SubSeq(Items[c], 1, n) \in Seq(Products)
  BY <1>1
<1>3. \A p \in Products : Units(SubSeq(Items[c], 1, n), p) \in Nat
  BY <1>2, UnitsType
<1>4. \A p \in Products : stock[p] \in Nat
  BY DEF TypeInv, DataOK
<1>5. \A p \in Products : stock[p] + Units(SubSeq(Items[c], 1, n), p) \in Nat
  BY <1>3, <1>4
<1> QED
  BY <1>5 DEF ReleaseItems

LEMMA ReleasePointsType ==
  ASSUME TypeInv, NEW c \in Checkouts, ReleasePoints(c)
  PROVE  points' \in Nat /\ reserved' \in Nat /\ points' = points /\ reserved' <= reserved
BY ItemsType DEF ReleasePoints, TypeInv, DataOK

LEMMA UpdateType ==
  ASSUME TypeInv, NEW c \in Checkouts, NEW new,
         attempt[c] \in Attempts => new \in Attempts, Update(c, new)
  PROVE  attempt' \in [Checkouts -> Attempts]
BY DEF Update, TypeInv, DataOK

LEMMA NewOrderType ==
  ASSUME TypeInv, NEW c \in Checkouts, NEW paid \in BOOLEAN
  PROVE  /\ NewOrder(c, paid) \in Orders
         /\ Append(orders, NewOrder(c, paid)) \in Seq(Orders)
         /\ Len(Append(orders, NewOrder(c, paid))) = Len(orders) + 1
         /\ Len(orders) \in Nat
<1>1. NewOrder(c, paid) \in Orders
  BY DEF NewOrder, Orders, PointStates
<1> QED
  BY <1>1 DEF TypeInv, DataOK

-----------------------------------------------------------------------------
(* Each step keeps the types: placing an order.                            *)

LEMMA ClaimType ==
  ASSUME TypeInv, NEW w \in Workers, ClaimKey(w)
  PROVE  TypeInv'
<1> DEFINE c == loc[w].c
<1>1. pc[w] = "claim" /\ c \in Checkouts /\ loc[w].i <= Len(Items[c])
  BY DEF ClaimKey, TypeInv, Working, AtItem
<1>2. orders' \in Seq(Orders) /\ Len(orders) <= Len(orders')
  BY DEF ClaimKey, TypeInv, DataOK
<1>3. Reserving(c) \in Labels /\ "refuse" \in Labels /\ "refuse" \notin AtItem
  BY DEF Reserving, Labels, AtItem
<1>4. WorkersOK' /\ Working'
  <2>1. CASE Ends(w)
    BY <1>2, <2>1, WorkerEnds
  <2>2. CASE GoTo(w, Reserving(c))
    BY <1>1, <1>2, <1>3, <2>2, WorkerGoes
  <2>3. CASE GoTo(w, "refuse")
    BY <1>1, <1>2, <1>3, <2>3, WorkerGoes
  <2> QED
    BY <2>1, <2>2, <2>3 DEF ClaimKey
<1>5. DataOK'
  <2>1. key' \in [Checkouts -> {"absent", "in_progress", "completed", "refused"}]
    BY DEF ClaimKey, TypeInv, DataOK
  <2> QED
    BY <2>1 DEF ClaimKey, TypeInv, DataOK, userVars, gatewayVars
<1> QED
  BY <1>4, <1>5 DEF TypeInv

LEMMA ReservePointsType ==
  ASSUME TypeInv, NEW w \in Workers, ReservePoints(w)
  PROVE  TypeInv' /\ (PointsCovered => PointsCovered')
<1> DEFINE c == loc[w].c
           l == [loc[w] EXCEPT !.points = TRUE]
<1>1. pc[w] = "points" /\ c \in Checkouts /\ loc[w].i <= Len(Items[c]) /\ Points[c] \in Nat
  BY ItemsType DEF ReservePoints, TypeInv, Working, AtItem
<1>2. orders' \in Seq(Orders) /\ Len(orders) <= Len(orders') /\ Len(orders') = Len(orders)
  BY DEF ReservePoints, TypeInv, DataOK
<1>3. "item" \in Labels /\ "giveStock" \in Labels /\ "giveStock" \notin AtItem
  BY DEF Labels, AtItem
<1>4. l \in Locals /\ l.c = c /\ l.i = loc[w].i /\ l.order <= Len(orders')
  <2>1. loc[w] \in Locals /\ loc[w].order <= Len(orders)
    BY WorkerType
  <2>2. l \in Locals
    BY <2>1, LocalsUpdates
  <2>3. l.c = c /\ l.i = loc[w].i /\ l.order = loc[w].order
    BY <2>1 DEF Locals
  <2> QED
    BY <1>2, <2>1, <2>2, <2>3
<1>5. WorkersOK' /\ Working'
  <2>1. CASE GoWith(w, "item", l)
    <3> HIDE DEF l
    <3> QED
      BY <1>1, <1>2, <1>3, <1>4, <2>1, WorkerMoves
  <2>2. CASE GoTo(w, "giveStock")
    BY <1>1, <1>2, <1>3, <2>2, WorkerGoes
  <2> QED
    BY <2>1, <2>2 DEF ReservePoints
<1>6. DataOK' /\ (PointsCovered => PointsCovered')
  BY <1>1 DEF ReservePoints, TypeInv, DataOK, PointsCovered, gatewayVars
<1> QED
  BY <1>5, <1>6 DEF TypeInv

LEMMA ReserveItemType ==
  ASSUME TypeInv, NEW w \in Workers, ReserveItem(w)
  PROVE  TypeInv'
<1> DEFINE c == loc[w].c
           p == Items[c][loc[w].i]
           next == [loc[w] EXCEPT !.i = @ + 1]
           done == [loc[w] EXCEPT !.stock = TRUE]
<1>1. /\ pc[w] = "item" /\ c \in Checkouts /\ loc[w].i <= Len(Items[c])
      /\ loc[w].i \in Nat \ {0} /\ Len(Items[c]) \in Nat
  BY ItemsType DEF ReserveItem, TypeInv, Working, WorkersOK, AtItem, Locals
<1>2. orders' \in Seq(Orders) /\ Len(orders) <= Len(orders') /\ Len(orders') = Len(orders)
  BY DEF ReserveItem, TypeInv, DataOK
<1>3. /\ {"item", "create", "shortage"} \subseteq Labels
      /\ "create" \notin AtItem /\ "shortage" \in AtItem /\ "item" \in AtItem
  BY DEF Labels, AtItem
<1>4. p \in Products
  BY <1>1, ItemsType
<1>5. /\ next \in Locals /\ next.c = c /\ next.i = loc[w].i + 1 /\ next.order <= Len(orders')
      /\ done \in Locals /\ done.c = c /\ done.order <= Len(orders')
  <2>1. loc[w] \in Locals /\ loc[w].order <= Len(orders)
    BY WorkerType
  <2>2. next \in Locals /\ done \in Locals
    <3>1. loc[w].i + 1 \in Nat \ {0}
      BY <1>1
    <3>2. next = [loc[w] EXCEPT !.i = loc[w].i + 1]
      OBVIOUS
    <3> QED
      BY <2>1, <3>1, <3>2, LocalsUpdates
  <2>3. /\ next.c = c /\ next.i = loc[w].i + 1 /\ next.order = loc[w].order
        /\ done.c = c /\ done.order = loc[w].order
    BY <2>1 DEF Locals
  <2> QED
    BY <1>2, <2>1, <2>2, <2>3
<1>6. WorkersOK' /\ Working'
  <2>1. CASE loc[w].i < Len(Items[c]) /\ GoWith(w, "item", next)
    <3>1. next.i <= Len(Items[c])
      BY <1>1, <1>5, <2>1
    <3> HIDE DEF next
    <3> QED
      BY <1>1, <1>2, <1>3, <1>5, <2>1, <3>1, WorkerMoves
  <2>2. CASE GoWith(w, "create", done)
    <3> HIDE DEF done
    <3> QED
      BY <1>1, <1>2, <1>3, <1>5, <2>2, WorkerMoves
  <2>3. CASE GoTo(w, "shortage")
    BY <1>1, <1>2, <1>3, <2>3, WorkerGoes
  <2> QED
    BY <2>1, <2>2, <2>3 DEF ReserveItem
<1>7. stock' \in [Products -> Nat]
  <2>1. stock \in [Products -> Nat]
    BY DEF TypeInv, DataOK
  <2>2. CASE stock[p] > 0 /\ stock' = [stock EXCEPT ![p] = @ - 1]
    BY <1>4, <2>1, <2>2
  <2>3. CASE UNCHANGED stock
    BY <2>1, <2>3
  <2> QED
    BY <2>2, <2>3 DEF ReserveItem
<1>8. DataOK'
  BY <1>7 DEF ReserveItem, TypeInv, DataOK, userVars, gatewayVars
<1> QED
  BY <1>6, <1>8 DEF TypeInv

\* Steps that leave the orders alone and move the worker on, after reserving.
LEMMA SimpleMove ==
  ASSUME TypeInv, NEW w \in Workers, NEW label \in Labels \ AtItem, GoTo(w, label),
         pc[w] # "idle", UNCHANGED orders
  PROVE  WorkersOK' /\ Working'
<1>1. orders' \in Seq(Orders) /\ Len(orders) <= Len(orders')
  BY DEF TypeInv, DataOK
<1> QED
  BY <1>1, WorkerGoes

LEMMA LabelsAfter ==
  Labels \ AtItem =
    {"idle", "create", "gateway", "link", "complete", "refuse", "giveStock", "givePoints",
     "giveStockAgain", "givePointsAgain", "find", "settle", "order",
     "finalize", "redeem", "attach", "drop", "dropStock", "dropPoints", "dropMark", "dropStatus"}
BY DEF Labels, AtItem

LEMMA ShortageType ==
  ASSUME TypeInv, NEW w \in Workers, Shortage(w)
  PROVE  TypeInv'
<1>1. /\ pc[w] = "shortage" /\ loc[w].c \in Checkouts
      /\ loc[w].i - 1 \in 0 .. Len(Items[loc[w].c])
  BY ItemsType DEF Shortage, TypeInv, Working, WorkersOK, AtItem, Locals
<1>2. stock' \in [Products -> Nat]
  BY <1>1, ReleaseItemsType DEF Shortage
<1>3. WorkersOK' /\ Working'
  BY <1>1, SimpleMove, LabelsAfter DEF Shortage
<1> QED
  BY <1>2, <1>3 DEF Shortage, TypeInv, DataOK, userVars, gatewayVars

LEMMA CreateCodOrderType ==
  ASSUME TypeInv, NEW w \in Workers, CreateCodOrder(w)
  PROVE  TypeInv'
<1>1. pc[w] = "create" /\ loc[w].c \in Checkouts
  BY WorkerType DEF CreateCodOrder
<1>2. orders' \in Seq(Orders) /\ Len(orders) <= Len(orders')
  <2> DEFINE n == NewOrder(loc[w].c, FALSE)
  <2>1. orders' = Append(orders, n) /\ orders \in Seq(Orders)
    BY DEF CreateCodOrder, TypeInv, DataOK
  <2>2. n \in Orders
    BY <1>1 DEF NewOrder, Orders, PointStates
  <2> QED
    <3> HIDE DEF n
    <3> QED
      BY <2>1, <2>2
<1>3. WorkersOK' /\ Working'
  BY <1>1, <1>2, WorkerGoes, LabelsAfter DEF CreateCodOrder
<1> QED
  BY <1>2, <1>3 DEF CreateCodOrder, TypeInv, DataOK, userVars, gatewayVars

LEMMA CreateAttemptType ==
  ASSUME TypeInv, NEW w \in Workers, CreateAttempt(w)
  PROVE  TypeInv'
<1> DEFINE a == [NoAttempt EXCEPT !.status = "pending", !.stock = TRUE,
                   !.points = IF Points[loc[w].c] > 0 THEN "reserved" ELSE "none"]
<1>1. a \in Attempts
  BY DEF NoAttempt, Attempts, AttemptStates, PointStates
<1>2. attempt' \in [Checkouts -> Attempts]
  BY <1>1 DEF CreateAttempt, TypeInv, DataOK
<1>3. WorkersOK' /\ Working'
  BY SimpleMove, LabelsAfter DEF CreateAttempt
<1> QED
  BY <1>2, <1>3 DEF CreateAttempt, TypeInv, DataOK, userVars, gatewayVars

LEMMA CreateGatewayOrderType ==
  ASSUME TypeInv, NEW w \in Workers, CreateGatewayOrder(w)
  PROVE  TypeInv'
<1>1. gw' \in [Checkouts -> {"none", "open", "captured"}]
  BY DEF CreateGatewayOrder, TypeInv, DataOK
<1>2. WorkersOK' /\ Working'
  BY SimpleMove, LabelsAfter DEF CreateGatewayOrder
<1> QED
  BY <1>1, <1>2 DEF CreateGatewayOrder, TypeInv, DataOK, userVars

LEMMA LinkAttemptType ==
  ASSUME TypeInv, NEW w \in Workers, LinkAttempt(w)
  PROVE  TypeInv'
<1>1. attempt' \in [Checkouts -> Attempts]
  BY ZenonT(30) DEF LinkAttempt, TypeInv, DataOK, Attempts
<1>2. WorkersOK' /\ Working'
  BY SimpleMove, LabelsAfter DEF LinkAttempt
<1> QED
  BY <1>1, <1>2 DEF LinkAttempt, TypeInv, DataOK, userVars, gatewayVars

LEMMA CompleteKeyType ==
  ASSUME TypeInv, NEW w \in Workers, CompleteKey(w)
  PROVE  TypeInv'
<1>1. key' \in [Checkouts -> {"absent", "in_progress", "completed", "refused"}]
  BY DEF CompleteKey, TypeInv, DataOK
<1>2. orders' \in Seq(Orders) /\ Len(orders) <= Len(orders')
  BY DEF CompleteKey, TypeInv, DataOK
<1>3. WorkersOK' /\ Working'
  BY <1>2, WorkerEnds DEF CompleteKey
<1> QED
  BY <1>1, <1>3 DEF CompleteKey, TypeInv, DataOK, userVars, gatewayVars

LEMMA GiveStockType ==
  ASSUME TypeInv, NEW w \in Workers, GiveStock(w)
  PROVE  TypeInv'
<1>1. pc[w] # "idle" /\ loc[w].c \in Checkouts /\ UNCHANGED orders
  BY WorkerType DEF GiveStock
<1>2. stock' \in [Products -> Nat]
  <2>1. CASE ReleaseItems(loc[w].c, Len(Items[loc[w].c]))
    BY <1>1, <2>1, ItemsType, ReleaseItemsType
  <2>2. CASE UNCHANGED stock
    BY <2>2 DEF TypeInv, DataOK
  <2> QED
    BY <2>1, <2>2 DEF GiveStock
<1>3. WorkersOK' /\ Working'
  BY <1>1, SimpleMove, LabelsAfter DEF GiveStock
<1> QED
  BY <1>2, <1>3 DEF GiveStock, TypeInv, DataOK, userVars, gatewayVars

LEMMA GivePointsType ==
  ASSUME TypeInv, NEW w \in Workers, GivePoints(w)
  PROVE  TypeInv' /\ (PointsCovered => PointsCovered')
<1>1. pc[w] # "idle" /\ loc[w].c \in Checkouts /\ UNCHANGED orders
  BY WorkerType DEF GivePoints
<1>2. points' \in Nat /\ reserved' \in Nat /\ points' = points /\ reserved' <= reserved
  <2>1. CASE ReleasePoints(loc[w].c)
    BY <1>1, <2>1, ReleasePointsType
  <2>2. CASE UNCHANGED userVars
    BY <2>2 DEF TypeInv, DataOK, userVars
  <2> QED
    BY <2>1, <2>2 DEF GivePoints
<1>3. WorkersOK' /\ Working'
  BY <1>1, SimpleMove, LabelsAfter DEF GivePoints
<1> QED
  BY <1>2, <1>3 DEF GivePoints, TypeInv, DataOK, gatewayVars, PointsCovered

LEMMA PlaceType ==
  ASSUME TypeInv, NEW w \in Workers, Place(w)
  PROVE  TypeInv' /\ (PointsCovered => PointsCovered')
<1>1. CASE ClaimKey(w) \/ ReserveItem(w) \/ Shortage(w) \/ CreateCodOrder(w)
           \/ CreateAttempt(w) \/ CreateGatewayOrder(w) \/ LinkAttempt(w) \/ CompleteKey(w)
           \/ GiveStock(w)
  <2>1. TypeInv'
    BY <1>1, ClaimType, ReserveItemType, ShortageType, CreateCodOrderType, CreateAttemptType,
       CreateGatewayOrderType, LinkAttemptType, CompleteKeyType, GiveStockType
  <2>2. UNCHANGED userVars
    BY <1>1 DEF ClaimKey, ReserveItem, Shortage, CreateCodOrder, CreateAttempt,
       CreateGatewayOrder, LinkAttempt, CompleteKey, GiveStock
  <2> QED
    BY <2>1, <2>2 DEF userVars, PointsCovered
<1> QED
  BY <1>1, ReservePointsType, GivePointsType DEF Place

-----------------------------------------------------------------------------
(* Each step keeps the types: settling a payment.                          *)

LEMMA EventsType ==
  \A e \in Events : /\ e[1] \in Checkouts
                    /\ e[2] \in {"payment.captured", "order.paid", "payment.failed"}
BY DEF Events

LEMMA FindAttemptType ==
  ASSUME TypeInv, NEW w \in Workers, FindAttempt(w)
  PROVE  TypeInv'
<1>1. pc[w] # "idle" /\ UNCHANGED orders /\ orders' \in Seq(Orders) /\ Len(orders) <= Len(orders')
  BY DEF FindAttempt, TypeInv, DataOK
<1>2. WorkersOK' /\ Working' /\ events' \subseteq Events /\ recorded' = recorded /\ gw' = gw
  <2>1. CASE Answered(w)
    BY <1>1, <2>1, WorkerAnswers
  <2>2. CASE /\ UNCHANGED gatewayVars
             /\ GoTo(w, IF loc[w].event = "payment.failed" THEN "drop" ELSE "settle")
    BY <1>1, <2>2, SimpleMove, LabelsAfter DEF gatewayVars, TypeInv, DataOK
  <2> QED
    BY <2>1, <2>2 DEF FindAttempt
<1> QED
  BY <1>2 DEF FindAttempt, TypeInv, DataOK, userVars

LEMMA SettleType ==
  ASSUME TypeInv, NEW w \in Workers, Settle(w)
  PROVE  TypeInv'
<1> DEFINE latest == attempt[loc[w].c]
           l == [loc[w] EXCEPT !.seen = latest]
<1>1. pc[w] # "idle" /\ UNCHANGED orders /\ orders' \in Seq(Orders) /\ Len(orders) <= Len(orders')
  BY DEF Settle, TypeInv, DataOK
<1>2. loc[w].c \in Checkouts /\ loc[w] \in Locals /\ latest \in Attempts
      /\ loc[w].order <= Len(orders')
  BY <1>1, WorkerType DEF TypeInv, DataOK
<1>3. l \in Locals /\ l.c = loc[w].c /\ l.order = loc[w].order
  BY <1>2, LocalsUpdates DEF Locals
<1>4. WorkersOK' /\ Working' /\ events' \subseteq Events /\ recorded' = recorded /\ gw' = gw
  <2>1. CASE Answered(w)
    BY <1>1, <2>1, WorkerAnswers
  <2>2. CASE UNCHANGED gatewayVars /\ GoWith(w, "order", l)
    <3> HIDE DEF l
    <3>1. WorkersOK' /\ Working'
      BY <1>1, <1>2, <1>3, <2>2, WorkerMoves, LabelsAfter
    <3> QED
      BY <2>2, <3>1 DEF gatewayVars, TypeInv, DataOK
  <2>3. CASE UNCHANGED gatewayVars /\ Ends(w)
    BY <1>1, <2>3, WorkerEnds DEF gatewayVars, TypeInv, DataOK
  <2> QED
    BY <2>1, <2>2, <2>3 DEF Settle
<1> QED
  BY <1>4 DEF Settle, TypeInv, DataOK, userVars

LEMMA CreatePaidOrderType ==
  ASSUME TypeInv, NEW w \in Workers, CreatePaidOrder(w)
  PROVE  TypeInv'
<1> DEFINE l == [loc[w] EXCEPT !.order = Len(orders')]
           label == IF Points[loc[w].c] > 0 THEN "finalize" ELSE "attach"
<1>1. pc[w] # "idle" /\ loc[w].c \in Checkouts /\ loc[w] \in Locals
  BY WorkerType DEF CreatePaidOrder
<1>2. orders' \in Seq(Orders) /\ Len(orders') = Len(orders) + 1 /\ Len(orders) \in Nat
  <2>1. orders' = Append(orders, NewOrder(loc[w].c, TRUE)) /\ TRUE \in BOOLEAN
    BY DEF CreatePaidOrder
  <2> QED
    BY <1>1, <2>1, NewOrderType
<1>3. l \in Locals
  <2>1. Len(orders') \in Nat
    BY <1>2
  <2> QED
    BY <1>1, <2>1, LocalsUpdates
<1>4. l.c = loc[w].c /\ l.order = Len(orders')
  BY <1>1 DEF Locals
<1>5. label \in Labels /\ label \notin AtItem /\ GoWith(w, label, l)
  BY LabelsAfter DEF CreatePaidOrder
<1>6. WorkersOK' /\ Working'
  <2> HIDE DEF l, label
  <2> QED
    BY <1>1, <1>2, <1>3, <1>4, <1>5, WorkerMoves
<1> QED
  BY <1>2, <1>6 DEF CreatePaidOrder, TypeInv, DataOK, userVars, gatewayVars

LEMMA FinalizePointsType ==
  ASSUME TypeInv, NEW w \in Workers, FinalizePoints(w)
  PROVE  TypeInv' /\ (PointsCovered => PointsCovered')
<1>1. pc[w] # "idle" /\ loc[w].c \in Checkouts /\ Points[loc[w].c] \in Nat /\ UNCHANGED orders
  BY WorkerType, ItemsType DEF FinalizePoints
<1>2. /\ points' \in Nat /\ reserved' \in Nat
      /\ PointsCovered => PointsCovered'
  BY <1>1 DEF FinalizePoints, TypeInv, DataOK, userVars, PointsCovered
<1>3. WorkersOK' /\ Working'
  BY <1>1, SimpleMove, LabelsAfter DEF FinalizePoints
<1> QED
  BY <1>2, <1>3 DEF FinalizePoints, TypeInv, DataOK, gatewayVars

LEMMA RedeemOrders ==
  ASSUME TypeInv, NEW w \in Workers, Redeem(w)
  PROVE  /\ orders' \in Seq(Orders) /\ Len(orders') = Len(orders) /\ Len(orders) \in Nat
         /\ \A i \in 1 .. Len(orders) :
              orders'[i].c = orders[i].c /\ orders'[i].paid = orders[i].paid
<1> DEFINE n == loc[w].order
<1>1. orders' = [orders EXCEPT ![n].points = "redeemed"]
  BY DEF Redeem
<1>2. orders \in Seq(Orders) /\ Len(orders) \in Nat
  BY DEF TypeInv, DataOK
<1>3. \A i \in 1 .. Len(orders) : orders[i] \in Orders
  BY <1>2
<1>4. \A i \in 1 .. Len(orders) : [orders[i] EXCEPT !.points = "redeemed"] \in Orders
  BY <1>3 DEF Orders, PointStates
<1>5. \A i \in 1 .. Len(orders) : orders'[i] \in Orders
  BY <1>1, <1>2, <1>3, <1>4
<1>6. DOMAIN orders' = 1 .. Len(orders)
  BY <1>1, <1>2
<1>7. orders' = [i \in 1 .. Len(orders) |-> orders'[i]]
  BY <1>1, <1>2, <1>6
<1>8. orders' \in Seq(Orders) /\ Len(orders') = Len(orders)
  BY <1>2, <1>5, <1>7
<1>9. \A i \in 1 .. Len(orders) :
        orders'[i].c = orders[i].c /\ orders'[i].paid = orders[i].paid
  BY <1>1, <1>2, <1>3 DEF Orders
<1> QED
  BY <1>2, <1>8, <1>9

LEMMA RedeemType ==
  ASSUME TypeInv, NEW w \in Workers, Redeem(w)
  PROVE  TypeInv'
<1>1. orders' \in Seq(Orders) /\ Len(orders) <= Len(orders')
  BY RedeemOrders
<1>2. WorkersOK' /\ Working'
  BY <1>1, WorkerGoes, LabelsAfter DEF Redeem
<1> QED
  BY <1>1, <1>2 DEF Redeem, TypeInv, DataOK, userVars, gatewayVars

LEMMA AttachOrderType ==
  ASSUME TypeInv, NEW w \in Workers, AttachOrder(w)
  PROVE  TypeInv'
<1>1. /\ pc[w] # "idle" /\ loc[w].c \in Checkouts /\ loc[w].order \in Nat
      /\ orders' \in Seq(Orders) /\ Len(orders) <= Len(orders')
  BY WorkerType DEF AttachOrder, TypeInv, DataOK
<1>2. attempt[loc[w].c] \in Attempts => Bought(attempt[loc[w].c], loc[w].order) \in Attempts
  BY <1>1 DEF Bought, Attempts, AttemptStates, PointStates
<1>3. attempt' \in [Checkouts -> Attempts]
  BY <1>1, <1>2, UpdateType DEF AttachOrder
<1>4. WorkersOK' /\ Working' /\ events' \subseteq Events /\ recorded' = recorded /\ gw' = gw
  BY <1>1, WorkerAnswers DEF AttachOrder
<1> QED
  BY <1>3, <1>4 DEF AttachOrder, TypeInv, DataOK, userVars

LEMMA DropType ==
  ASSUME TypeInv, NEW w \in Workers, Drop(w)
  PROVE  TypeInv'
<1> DEFINE latest == attempt[loc[w].c]
           l == [loc[w] EXCEPT !.seen = latest]
           label == IF latest.stock THEN "dropStock"
                    ELSE IF latest.points = "reserved" THEN "dropPoints" ELSE "dropMark"
<1>1. pc[w] # "idle" /\ UNCHANGED orders /\ orders' \in Seq(Orders) /\ Len(orders) <= Len(orders')
  BY DEF Drop, TypeInv, DataOK
<1>2. loc[w].c \in Checkouts /\ loc[w] \in Locals /\ latest \in Attempts
      /\ loc[w].order <= Len(orders')
  BY <1>1, WorkerType DEF TypeInv, DataOK
<1>3. l \in Locals /\ l.c = loc[w].c /\ l.order = loc[w].order
  BY <1>2, LocalsUpdates DEF Locals
<1>4. label \in Labels /\ label \notin AtItem
  BY LabelsAfter
<1>5. WorkersOK' /\ Working' /\ events' \subseteq Events /\ recorded' = recorded /\ gw' = gw
  <2>1. CASE Answered(w)
    BY <1>1, <2>1, WorkerAnswers
  <2>2. CASE UNCHANGED gatewayVars /\ GoWith(w, label, l)
    <3> HIDE DEF l, label
    <3>1. WorkersOK' /\ Working'
      BY <1>1, <1>2, <1>3, <1>4, <2>2, WorkerMoves
    <3> QED
      BY <2>2, <3>1 DEF gatewayVars, TypeInv, DataOK
  <2> QED
    BY <2>1, <2>2 DEF Drop
<1> QED
  BY <1>5 DEF Drop, TypeInv, DataOK, userVars

LEMMA DropStockType ==
  ASSUME TypeInv, NEW w \in Workers, DropStock(w)
  PROVE  TypeInv'
<1>1. pc[w] # "idle" /\ loc[w].c \in Checkouts /\ UNCHANGED orders
  BY WorkerType DEF DropStock
<1>2. stock' \in [Products -> Nat]
  BY <1>1, ItemsType, ReleaseItemsType DEF DropStock
<1>3. WorkersOK' /\ Working'
  BY <1>1, SimpleMove, LabelsAfter DEF DropStock
<1> QED
  BY <1>2, <1>3 DEF DropStock, TypeInv, DataOK, userVars, gatewayVars

LEMMA DropPointsType ==
  ASSUME TypeInv, NEW w \in Workers, DropPoints(w)
  PROVE  TypeInv' /\ (PointsCovered => PointsCovered')
<1>1. pc[w] # "idle" /\ loc[w].c \in Checkouts /\ UNCHANGED orders
  BY WorkerType DEF DropPoints
<1>2. points' \in Nat /\ reserved' \in Nat /\ points' = points /\ reserved' <= reserved
  BY <1>1, ReleasePointsType DEF DropPoints
<1>3. WorkersOK' /\ Working'
  BY <1>1, SimpleMove, LabelsAfter DEF DropPoints
<1> QED
  BY <1>2, <1>3 DEF DropPoints, TypeInv, DataOK, gatewayVars, PointsCovered

LEMMA DropMarkType ==
  ASSUME TypeInv, NEW w \in Workers, DropMark(w)
  PROVE  TypeInv'
<1> DEFINE a == attempt[loc[w].c]
           new == [a EXCEPT !.stock = FALSE,
                            !.points = IF Points[loc[w].c] > 0 THEN "released" ELSE @]
<1>1. pc[w] # "idle" /\ loc[w].c \in Checkouts /\ UNCHANGED orders
  BY WorkerType DEF DropMark
<1>2. a \in Attempts => new \in Attempts
  BY DEF Attempts, PointStates
<1>3. Update(loc[w].c, new)
  BY DEF DropMark
<1>4. attempt' \in [Checkouts -> Attempts]
  BY <1>1, <1>2, <1>3, UpdateType
<1>5. WorkersOK' /\ Working'
  BY <1>1, SimpleMove, LabelsAfter DEF DropMark
<1> QED
  BY <1>4, <1>5 DEF DropMark, TypeInv, DataOK, userVars, gatewayVars

LEMMA DropStatusType ==
  ASSUME TypeInv, NEW w \in Workers, DropStatus(w)
  PROVE  TypeInv'
<1> DEFINE a == attempt[loc[w].c]
           new == [a EXCEPT !.status = IF loc[w].op = "cancel" THEN "cancelled" ELSE "failed"]
<1>1. /\ pc[w] # "idle" /\ loc[w].c \in Checkouts
      /\ orders' \in Seq(Orders) /\ Len(orders) <= Len(orders')
  BY WorkerType DEF DropStatus, TypeInv, DataOK
<1>2. a \in Attempts => new \in Attempts
  BY DEF Attempts, AttemptStates
<1>3. Update(loc[w].c, new)
  BY DEF DropStatus
<1>4. attempt' \in [Checkouts -> Attempts]
  BY <1>1, <1>2, <1>3, UpdateType
<1>5. WorkersOK' /\ Working' /\ events' \subseteq Events /\ recorded' = recorded /\ gw' = gw
  BY <1>1, WorkerAnswers DEF DropStatus
<1> QED
  BY <1>4, <1>5 DEF DropStatus, TypeInv, DataOK, userVars

-----------------------------------------------------------------------------
(* Each step keeps the types: requests that arrive, the customer, faults.  *)

LEMMA ArrivalType ==
  ASSUME TypeInv, NEW w \in Workers,
         \/ \E c \in Checkouts : StartPlace(w, c) \/ StartVerify(w, c) \/ StartCancel(w, c)
         \/ \E e \in Events : StartWebhook(w, e)
  PROVE  TypeInv'
<1> USE LabelsAfter
<1>1. ASSUME NEW c \in Checkouts, StartPlace(w, c)
      PROVE  TypeInv'
  <2>1. "claim" \in Labels
    BY DEF Labels
  <2>2. WorkersOK' /\ Working'
    BY <1>1, <2>1, WorkerBegins DEF StartPlace
  <2> QED
    BY <1>1, <2>2 DEF StartPlace, TypeInv, DataOK, userVars, gatewayVars
<1>2. ASSUME NEW c \in Checkouts, StartVerify(w, c)
      PROVE  TypeInv'
  <2>1. WorkersOK' /\ Working'
    BY <1>2, WorkerBegins DEF StartVerify, BeginSettling
  <2> QED
    BY <1>2, <2>1 DEF StartVerify, TypeInv, DataOK, userVars, gatewayVars
<1>3. ASSUME NEW c \in Checkouts, StartCancel(w, c)
      PROVE  TypeInv'
  <2>1. WorkersOK' /\ Working'
    BY <1>3, WorkerBegins DEF StartCancel, BeginSettling
  <2> QED
    BY <1>3, <2>1 DEF StartCancel, TypeInv, DataOK, userVars, gatewayVars
<1>4. ASSUME NEW e \in Events, StartWebhook(w, e)
      PROVE  TypeInv'
  <2>1. /\ e[1] \in Checkouts
        /\ e[2] \in {"none", "payment.captured", "order.paid", "payment.failed"}
    BY EventsType
  <2>2. Begin(w, "find", e[1], "webhook", e[2]) /\ UNCHANGED orders
    BY <1>4 DEF StartWebhook, BeginSettling
  <2>3. WorkersOK' /\ Working'
    BY <2>1, <2>2, WorkerBegins
  <2>4. recorded' \subseteq Events
    BY <1>4 DEF StartWebhook, TypeInv, DataOK
  <2> QED
    BY <1>4, <2>3, <2>4 DEF StartWebhook, TypeInv, DataOK, userVars
<1> QED
  BY <1>1, <1>2, <1>3, <1>4

LEMMA FaultType ==
  ASSUME TypeInv, NEW w \in Workers, PlacingFails(w) \/ Abandons(w)
  PROVE  TypeInv'
<1>1. faults' \in 0 .. MaxFaults
  BY CheckoutBounds DEF PlacingFails, Abandons, Fault, TypeInv, DataOK
<1>2. orders' \in Seq(Orders) /\ Len(orders) <= Len(orders') /\ UNCHANGED orders
  BY DEF PlacingFails, Abandons, TypeInv, DataOK
<1>3. WorkersOK' /\ Working'
  <2>1. CASE pc[w] = "item" /\ GoTo(w, "shortage")
    <3>1. "shortage" \in Labels /\ loc[w].i <= Len(Items[loc[w].c])
      BY <2>1 DEF TypeInv, Working, AtItem, Labels
    <3> QED
      BY <1>2, <2>1, <3>1, WorkerGoes
  <2>2. CASE pc[w] # "idle" /\ GoTo(w, "giveStock")
    BY <1>2, <2>2, SimpleMove, LabelsAfter
  <2>3. CASE Ends(w)
    BY <1>2, <2>3, WorkerEnds
  <2> QED
    BY <2>1, <2>2, <2>3 DEF PlacingFails, Abandons
<1> QED
  BY <1>1, <1>3 DEF PlacingFails, Abandons, TypeInv, DataOK, userVars, gatewayVars

LEMMA EnvironmentType ==
  ASSUME TypeInv,
         \/ \E e \in Events : Duplicate(e)
         \/ \E c \in Checkouts : Pay(c) \/ PaymentFails(c) \/ ExpireAttempt(c)
  PROVE  TypeInv'
<1>1. ASSUME NEW e \in Events, Duplicate(e)
      PROVE  TypeInv'
  BY <1>1 DEF Duplicate, TypeInv, DataOK, WorkersOK, Working, userVars
<1>2. ASSUME NEW c \in Checkouts, Pay(c) \/ PaymentFails(c)
      PROVE  TypeInv'
  <2>1. gw' \in [Checkouts -> {"none", "open", "captured"}] /\ UNCHANGED faults
    BY <1>2 DEF Pay, PaymentFails, TypeInv, DataOK
  <2>2. events' \subseteq Events
    <3>1. {<<c, "payment.captured">>, <<c, "order.paid">>, <<c, "payment.failed">>} \subseteq Events
      BY DEF Events
    <3> QED
      BY <1>2, <3>1 DEF Pay, PaymentFails, TypeInv, DataOK
  <2>3. UNCHANGED appVars
    BY <1>2 DEF Pay, PaymentFails
  <2> QED
    BY <2>1, <2>2, <2>3 DEF TypeInv, DataOK, WorkersOK, Working, appVars
<1>3. ASSUME NEW c \in Checkouts, ExpireAttempt(c)
      PROVE  TypeInv'
  <2>1. attempt' \in [Checkouts -> Attempts]
    BY <1>3, NothingType DEF ExpireAttempt, TypeInv, DataOK
  <2>2. faults' \in 0 .. MaxFaults
    BY <1>3, CheckoutBounds DEF ExpireAttempt, Fault, TypeInv, DataOK
  <2> QED
    BY <1>3, <2>1, <2>2
    DEF ExpireAttempt, TypeInv, DataOK, WorkersOK, Working, userVars, gatewayVars
<1> QED
  BY <1>1, <1>2, <1>3

-----------------------------------------------------------------------------
(* The points are covered, and the types hold.                             *)

LEMMA CompleteType ==
  ASSUME TypeInv, NEW w \in Workers, Complete(w)
  PROVE  TypeInv' /\ (PointsCovered => PointsCovered')
<1>1. CASE FindAttempt(w) \/ Settle(w) \/ CreatePaidOrder(w) \/ Redeem(w) \/ AttachOrder(w)
  <2>1. TypeInv'
    BY <1>1, FindAttemptType, SettleType, CreatePaidOrderType, RedeemType, AttachOrderType
  <2>2. UNCHANGED userVars
    BY <1>1 DEF FindAttempt, Settle, CreatePaidOrder, Redeem, AttachOrder
  <2> QED
    BY <2>1, <2>2 DEF userVars, PointsCovered
<1> QED
  BY <1>1, FinalizePointsType DEF Complete

LEMMA NotCompleteType ==
  ASSUME TypeInv, NEW w \in Workers, NotComplete(w)
  PROVE  TypeInv' /\ (PointsCovered => PointsCovered')
<1>1. CASE Drop(w) \/ DropStock(w) \/ DropMark(w) \/ DropStatus(w)
  <2>1. TypeInv'
    BY <1>1, DropType, DropStockType, DropMarkType, DropStatusType
  <2>2. UNCHANGED userVars
    BY <1>1 DEF Drop, DropStock, DropMark, DropStatus
  <2> QED
    BY <2>1, <2>2 DEF userVars, PointsCovered
<1> QED
  BY <1>1, DropPointsType DEF NotComplete

LEMMA InitType == Init => TypeInv /\ PointsCovered
<1> SUFFICES ASSUME Init
             PROVE  TypeInv /\ PointsCovered
  OBVIOUS
<1>1. DataOK /\ PointsCovered
  BY CheckoutAssumption, CheckoutBounds, NothingType DEF Init, DataOK, PointsCovered
<1>2. NoLocals.order = 0 /\ Len(orders) = 0 /\ "idle" \in Labels /\ "idle" \notin AtItem
  BY DEF Init, NoLocals, Labels, AtItem
<1>3. WorkersOK
  BY <1>2, NothingType DEF Init, WorkersOK
<1>4. Working
  BY <1>2 DEF Init, Working
<1> QED
  BY <1>1, <1>3, <1>4 DEF TypeInv

LEMMA NextType ==
  TypeInv /\ [Next]_vars => TypeInv' /\ (PointsCovered => PointsCovered')
<1> SUFFICES ASSUME TypeInv, [Next]_vars
             PROVE  TypeInv' /\ (PointsCovered => PointsCovered')
  OBVIOUS
<1>1. ASSUME NEW w \in Workers, Continue(w)
      PROVE  TypeInv' /\ (PointsCovered => PointsCovered')
  BY <1>1, PlaceType, CompleteType, NotCompleteType DEF Continue
<1>2. ASSUME NEW w \in Workers,
             \/ \E c \in Checkouts : StartPlace(w, c) \/ StartVerify(w, c) \/ StartCancel(w, c)
             \/ \E e \in Events : StartWebhook(w, e)
      PROVE  TypeInv' /\ (PointsCovered => PointsCovered')
  <2>1. UNCHANGED userVars
    BY <1>2 DEF StartPlace, StartVerify, StartCancel, StartWebhook
  <2> QED
    BY <1>2, <2>1, ArrivalType DEF userVars, PointsCovered
<1>3. ASSUME NEW w \in Workers, PlacingFails(w) \/ Abandons(w)
      PROVE  TypeInv' /\ (PointsCovered => PointsCovered')
  <2>1. UNCHANGED userVars
    BY <1>3 DEF PlacingFails, Abandons
  <2> QED
    BY <1>3, <2>1, FaultType DEF userVars, PointsCovered
<1>4. CASE \/ \E e \in Events : Duplicate(e)
           \/ \E c \in Checkouts : Pay(c) \/ PaymentFails(c) \/ ExpireAttempt(c)
  <2>1. UNCHANGED <<points, reserved>>
    BY <1>4 DEF Duplicate, Pay, PaymentFails, ExpireAttempt, appVars, userVars
  <2> QED
    BY <1>4, <2>1, EnvironmentType DEF PointsCovered
<1>5. CASE UNCHANGED vars
  BY <1>5 DEF vars, TypeInv, DataOK, WorkersOK, Working, PointsCovered
<1> QED
  BY <1>1, <1>2, <1>3, <1>4, <1>5 DEF Next

\* Every variable keeps its type; stock, points and reserved points are never negative.
THEOREM TypeCorrect == Spec => []TypeOK
<1>1. Init => TypeInv
  BY InitType
<1>2. TypeInv /\ [Next]_vars => TypeInv'
  BY NextType
<1>3. TypeInv => TypeOK
  BY TypeInvIsTypeOK
<1> QED
  BY <1>1, <1>2, <1>3, PTL DEF Spec

\* The points a customer has cover what is reserved, whatever releases twice: a
\* reservation asks for them and a redemption takes both (loyaltyService.js).
THEOREM PointsAreCovered == Spec => []PointsCovered
<1>1. Init => TypeInv /\ PointsCovered
  BY InitType
<1>2. TypeInv /\ PointsCovered /\ [Next]_vars => (TypeInv /\ PointsCovered)'
  BY NextType
<1> QED
  BY <1>1, <1>2, PTL DEF Spec

-----------------------------------------------------------------------------
(* One cash order per idempotency key.                                     *)

\* A placement that has the key and has not made its order.
BeforeOrder == {"points", "item", "shortage", "create"}
Placing(w) == pc[w] \in BeforeOrder

KeysClaimed ==
  /\ \A w \in Workers : Placing(w) => key[loc[w].c] # "absent"
  /\ \A i \in DOMAIN orders : orders[i].c \in Cod => key[orders[i].c] # "absent"

OnePlacement ==
  /\ \A v, w \in Workers : Placing(v) /\ Placing(w) /\ loc[v].c = loc[w].c => v = w
  /\ \A w \in Workers : Placing(w) /\ loc[w].c \in Cod =>
       \A i \in DOMAIN orders : orders[i].c # loc[w].c

\* Cash orders come from placements alone: nothing settles a payment for their keys.
CashIsPlaced ==
  /\ \A c \in Cod : attempt[c] = NoAttempt
  /\ \A w \in Workers : pc[w] \in {"settle", "order"} => loc[w].c \notin Cod

CashInv == KeysClaimed /\ OnePlacement /\ CashIsPlaced /\ OneCashOrderPerKey

\* Most steps make no order and take no key.
WorkersCalm ==
  \A w \in Workers :
    /\ Placing(w)' => Placing(w) /\ loc'[w].c = loc[w].c
    /\ pc'[w] \in {"settle", "order"} => loc'[w].c \notin Cod

DataCalm ==
  /\ DOMAIN orders' = DOMAIN orders
  /\ \A i \in DOMAIN orders : orders'[i].c = orders[i].c
  /\ \A c \in Checkouts : key[c] # "absent" => key'[c] # "absent"
  /\ \A c \in Cod : attempt'[c] = attempt[c]

LEMMA OrdersType ==
  ASSUME TypeInv
  PROVE  \A i \in DOMAIN orders : orders[i].c \in Checkouts
<1>1. orders \in Seq(Orders)
  BY DEF TypeInv, DataOK
<1>2. \A i \in DOMAIN orders : orders[i] \in Orders
  BY <1>1
<1> QED
  BY <1>2 DEF Orders

LEMMA CalmStep ==
  ASSUME TypeInv, CashInv, WorkersCalm, DataCalm
  PROVE  CashInv'
<1> USE DEF CashInv
<1>1. \A w \in Workers : Placing(w) => loc[w].c \in Checkouts
  BY DEF Placing, BeforeOrder, TypeInv, Working
<1>2. \A i \in DOMAIN orders : orders[i].c \in Checkouts
  BY OrdersType
<1>3. KeysClaimed'
  BY <1>1, <1>2 DEF KeysClaimed, WorkersCalm, DataCalm
<1>4. OnePlacement'
  BY DEF OnePlacement, WorkersCalm, DataCalm
<1>5. CashIsPlaced'
  BY DEF CashIsPlaced, WorkersCalm, DataCalm
<1>6. OneCashOrderPerKey'
  BY DEF OneCashOrderPerKey, DataCalm
<1> QED
  BY <1>3, <1>4, <1>5, <1>6

LEMMA CalmMove ==
  ASSUME TypeInv, CashInv, NEW w \in Workers, NEW label, NEW l, GoWith(w, label, l),
         label \in BeforeOrder => Placing(w) /\ l.c = loc[w].c,
         label \in {"settle", "order"} => l.c \notin Cod
  PROVE  WorkersCalm
<1>1. pc' = [pc EXCEPT ![w] = label] /\ loc' = [loc EXCEPT ![w] = l]
  BY DEF GoWith
<1>2. pc \in [Workers -> Labels] /\ loc \in [Workers -> Locals]
  BY DEF TypeInv, WorkersOK
<1>3. ASSUME NEW v \in Workers, v = w
      PROVE  /\ Placing(v)' => Placing(v) /\ loc'[v].c = loc[v].c
             /\ pc'[v] \in {"settle", "order"} => loc'[v].c \notin Cod
  BY <1>1, <1>2, <1>3 DEF Placing
<1>4. ASSUME NEW v \in Workers, v # w
      PROVE  /\ Placing(v)' => Placing(v) /\ loc'[v].c = loc[v].c
             /\ pc'[v] \in {"settle", "order"} => loc'[v].c \notin Cod
  BY <1>1, <1>2, <1>4 DEF Placing, CashInv, CashIsPlaced
<1> QED
  BY <1>3, <1>4 DEF WorkersCalm

LEMMA CalmGo ==
  ASSUME TypeInv, CashInv, NEW w \in Workers, NEW label, GoTo(w, label),
         label \in BeforeOrder => Placing(w),
         label \in {"settle", "order"} => loc[w].c \notin Cod
  PROVE  WorkersCalm
<1>1. GoWith(w, label, loc[w])
  BY DEF GoTo, GoWith, TypeInv, WorkersOK
<1> QED
  BY <1>1, CalmMove

LEMMA CalmEnd ==
  ASSUME TypeInv, CashInv, NEW w \in Workers, Ends(w) \/ Answered(w)
  PROVE  WorkersCalm
<1>1. "idle" \notin BeforeOrder \cup {"settle", "order"} /\ "refuse" \notin BeforeOrder \cup {"settle", "order"}
  BY DEF BeforeOrder
<1> QED
  BY <1>1, CalmMove, CalmGo DEF Ends, Answered

LEMMA CalmBegin ==
  ASSUME TypeInv, CashInv, NEW w \in Workers, NEW label, NEW c, NEW op, NEW event,
         Begin(w, label, c, op, event), label \notin BeforeOrder,
         label \in {"settle", "order"} => c \notin Cod
  PROVE  WorkersCalm
<1> DEFINE l == [NoLocals EXCEPT !.c = c, !.op = op, !.event = event]
<1>1. l.c = c /\ GoWith(w, label, l)
  BY DEF Begin, NoLocals
<1> HIDE DEF l
<1> QED
  BY <1>1, CalmMove

\* Who settles found an attempt, and cash checkouts have none.
LEMMA AttemptsAreOnline ==
  ASSUME CashInv, NEW c \in Cod
  PROVE  /\ attempt[c].linked = FALSE /\ attempt[c].status = "absent"
         /\ ~attempt[c].stock
BY DEF CashInv, CashIsPlaced, NoAttempt

LEMMA CalmUpdate ==
  ASSUME TypeInv, CashInv, NEW c \in Checkouts, NEW new, Update(c, new)
  PROVE  \A d \in Cod : attempt'[d] = attempt[d]
<1>1. attempt \in [Checkouts -> Attempts]
  BY DEF TypeInv, DataOK
<1>2. c \in Cod => attempt' = attempt
  BY AttemptsAreOnline DEF Update
<1>3. c \notin Cod => \A d \in Cod : attempt'[d] = attempt[d]
  BY <1>1, CheckoutAssumption DEF Update
<1> QED
  BY <1>2, <1>3

-----------------------------------------------------------------------------
(* The steps that make orders and take keys.                               *)

LEMMA ClaimKeyCash ==
  ASSUME TypeInv, CashInv, NEW w \in Workers, ClaimKey(w)
  PROVE  CashInv'
<1> DEFINE c == loc[w].c
<1>1. /\ pc[w] = "claim" /\ c \in Checkouts /\ UNCHANGED <<orders, attempt>>
      /\ pc \in [Workers -> Labels] /\ loc \in [Workers -> Locals]
  BY DEF ClaimKey, TypeInv, WorkersOK, Working
<1>2. CASE key[c] = "absent" /\ key' = [key EXCEPT ![c] = "in_progress"]
           /\ GoTo(w, Reserving(c))
  <2>1. /\ loc' = loc /\ pc'[w] \in {"points", "item"}
        /\ \A v \in Workers : v # w => pc'[v] = pc[v]
    BY <1>1, <1>2 DEF GoTo, Reserving
  <2>2. /\ \A d \in Checkouts : key'[d] # "absent" <=> key[d] # "absent" \/ d = c
    BY <1>1, <1>2 DEF TypeInv, DataOK
  <2>3. \A v \in Workers : Placing(v) => loc[v].c \in Checkouts /\ loc[v].c # c
    BY <1>1, <1>2 DEF CashInv, KeysClaimed, Placing, BeforeOrder, TypeInv, Working
  <2>4. \A v \in Workers : Placing(v)' <=> Placing(v) \/ v = w
    BY <1>1, <2>1 DEF Placing, BeforeOrder
  <2>5. KeysClaimed'
    BY <1>1, <2>1, <2>2, <2>3, <2>4, OrdersType DEF CashInv, KeysClaimed
  <2>6. OnePlacement'
    <3>1. \A u, v \in Workers : Placing(u)' /\ Placing(v)' /\ loc[u].c = loc[v].c => u = v
      BY <2>3, <2>4 DEF CashInv, OnePlacement
    <3>2. \A v \in Workers : Placing(v)' /\ loc[v].c \in Cod =>
            \A i \in DOMAIN orders : orders[i].c # loc[v].c
      BY <1>2, <2>4 DEF CashInv, OnePlacement, KeysClaimed
    <3> QED
      BY <1>1, <2>1, <3>1, <3>2 DEF OnePlacement
  <2>7. CashIsPlaced' /\ OneCashOrderPerKey'
    <3>1. CashIsPlaced'
      BY <1>1, <2>1 DEF CashInv, CashIsPlaced
    <3> QED
      BY <1>1, <3>1 DEF CashInv, OneCashOrderPerKey
  <2> QED
    BY <2>5, <2>6, <2>7 DEF CashInv
<1>3. CASE key' = [key EXCEPT ![c] = "in_progress"] /\ GoTo(w, "refuse")
  <2>1. WorkersCalm
    BY <1>3, CalmGo DEF BeforeOrder
  <2>2. DataCalm
    BY <1>1, <1>3 DEF DataCalm, TypeInv, DataOK
  <2> QED
    BY <2>1, <2>2, CalmStep
<1>4. CASE Ends(w) /\ UNCHANGED key
  BY <1>1, <1>4, CalmEnd, CalmStep DEF DataCalm
<1> QED
  BY <1>2, <1>3, <1>4 DEF ClaimKey

\* What a new order leaves as it was.
LEMMA AppendedOrder ==
  ASSUME TypeInv, NEW c \in Checkouts, NEW paid,
         orders' = Append(orders, NewOrder(c, paid))
  PROVE  \A i \in DOMAIN orders' :
           \/ i \in DOMAIN orders /\ orders'[i].c = orders[i].c
           \/ i = Len(orders) + 1 /\ orders'[i].c = c
<1> DEFINE o == NewOrder(c, paid)
<1>1. orders \in Seq(Orders)
  BY DEF TypeInv, DataOK
<1>2. o.c = c
  BY DEF NewOrder
<1>3. orders' = Append(orders, o)
  OBVIOUS
<1>4. \A i \in DOMAIN orders' :
        \/ i \in DOMAIN orders /\ orders'[i] = orders[i]
        \/ i = Len(orders) + 1 /\ orders'[i] = o
  <2> HIDE DEF o
  <2> QED
    BY <1>1, <1>3
<1> QED
  BY <1>2, <1>4

LEMMA CreateCodOrderCash ==
  ASSUME TypeInv, CashInv, NEW w \in Workers, CreateCodOrder(w)
  PROVE  CashInv'
<1> DEFINE c == loc[w].c
<1>1. /\ pc[w] = "create" /\ c \in Checkouts /\ c \in Cod /\ UNCHANGED <<key, attempt>>
      /\ orders' = Append(orders, NewOrder(c, FALSE))
      /\ pc' = [pc EXCEPT ![w] = "complete"] /\ loc' = loc
      /\ pc \in [Workers -> Labels]
  BY DEF CreateCodOrder, GoTo, TypeInv, WorkersOK, Working
<1>2. \A i \in DOMAIN orders' :
        \/ i \in DOMAIN orders /\ orders'[i].c = orders[i].c
        \/ i = Len(orders) + 1 /\ orders'[i].c = c
  BY <1>1, AppendedOrder
<1>3. Placing(w) /\ \A v \in Workers : Placing(v)' <=> Placing(v) /\ v # w
  BY <1>1 DEF Placing, BeforeOrder
<1>4. \A i \in DOMAIN orders : orders[i].c # c
  BY <1>1, <1>3 DEF CashInv, OnePlacement
<1>5. KeysClaimed'
  <2>1. \A v \in Workers : Placing(v)' => key[loc[v].c] # "absent"
    BY <1>3 DEF CashInv, KeysClaimed
  <2>2. key[c] # "absent"
    BY <1>3 DEF CashInv, KeysClaimed
  <2>3. \A i \in DOMAIN orders' : orders'[i].c \in Cod => key[orders'[i].c] # "absent"
    BY <1>2, <2>2 DEF CashInv, KeysClaimed
  <2> QED
    BY <1>1, <2>1, <2>3 DEF KeysClaimed
<1>6. OnePlacement'
  <2>1. \A u, v \in Workers : Placing(u)' /\ Placing(v)' /\ loc[u].c = loc[v].c => u = v
    BY <1>3 DEF CashInv, OnePlacement
  <2>2. \A v \in Workers : Placing(v)' => loc[v].c # c
    BY <1>3 DEF CashInv, OnePlacement
  <2>3. \A v \in Workers : Placing(v)' /\ loc[v].c \in Cod =>
          \A i \in DOMAIN orders' : orders'[i].c # loc[v].c
    BY <1>2, <1>3, <2>2 DEF CashInv, OnePlacement
  <2> QED
    BY <1>1, <2>1, <2>3 DEF OnePlacement
<1>7. CashIsPlaced'
  BY <1>1 DEF CashInv, CashIsPlaced
<1>8. OneCashOrderPerKey'
  BY <1>2, <1>4 DEF CashInv, OneCashOrderPerKey
<1> QED
  BY <1>5, <1>6, <1>7, <1>8 DEF CashInv

LEMMA CreatePaidOrderCash ==
  ASSUME TypeInv, CashInv, NEW w \in Workers, CreatePaidOrder(w)
  PROVE  CashInv'
<1> DEFINE c == loc[w].c
           l == [loc[w] EXCEPT !.order = Len(orders')]
           label == IF Points[c] > 0 THEN "finalize" ELSE "attach"
<1>1. /\ pc[w] = "order" /\ c \in Checkouts /\ c \notin Cod /\ UNCHANGED <<key, attempt>>
      /\ orders' = Append(orders, NewOrder(c, TRUE))
      /\ GoWith(w, label, l)
  BY DEF CreatePaidOrder, CashInv, CashIsPlaced, TypeInv, Working
<1>2. \A i \in DOMAIN orders' :
        \/ i \in DOMAIN orders /\ orders'[i].c = orders[i].c
        \/ i = Len(orders) + 1 /\ orders'[i].c = c
  BY <1>1, AppendedOrder
<1>3. WorkersCalm
  <2>1. label \notin BeforeOrder /\ label \notin {"settle", "order"}
    BY DEF BeforeOrder
  <2> HIDE DEF l, label
  <2> QED
    BY <1>1, <2>1, CalmMove
<1>4. KeysClaimed'
  <2>1. \A v \in Workers : Placing(v)' => key'[loc'[v].c] # "absent"
    BY <1>1, <1>3 DEF WorkersCalm, CashInv, KeysClaimed
  <2>2. \A i \in DOMAIN orders' : orders'[i].c \in Cod => key'[orders'[i].c] # "absent"
    BY <1>1, <1>2 DEF CashInv, KeysClaimed
  <2> QED
    BY <2>1, <2>2 DEF KeysClaimed
<1>5. OnePlacement'
  <2>1. \A u, v \in Workers : Placing(u)' /\ Placing(v)' /\ loc'[u].c = loc'[v].c => u = v
    BY <1>3 DEF WorkersCalm, CashInv, OnePlacement
  <2>2. \A v \in Workers : Placing(v)' /\ loc'[v].c \in Cod =>
          \A i \in DOMAIN orders' : orders'[i].c # loc'[v].c
    <3> SUFFICES ASSUME NEW v \in Workers, Placing(v)', loc'[v].c \in Cod,
                        NEW i \in DOMAIN orders'
                 PROVE  orders'[i].c # loc'[v].c
      OBVIOUS
    <3>1. Placing(v) /\ loc[v].c = loc'[v].c
      BY <1>3 DEF WorkersCalm
    <3>2. \A n \in DOMAIN orders : orders[n].c # loc[v].c
      BY <3>1 DEF CashInv, OnePlacement
    <3> QED
      BY <1>1, <1>2, <3>1, <3>2
  <2> QED
    BY <2>1, <2>2 DEF OnePlacement
<1>6. CashIsPlaced'
  BY <1>1, <1>3 DEF WorkersCalm, CashInv, CashIsPlaced
<1>7. OneCashOrderPerKey'
  <2>1. \A i \in DOMAIN orders' :
          orders'[i].c \in Cod => i \in DOMAIN orders /\ orders'[i].c = orders[i].c
    BY <1>1, <1>2
  <2> QED
    BY <2>1 DEF CashInv, OneCashOrderPerKey
<1> QED
  BY <1>4, <1>5, <1>6, <1>7 DEF CashInv

-----------------------------------------------------------------------------
(* All other steps are calm.                                               *)

LEMMA PlaceCalm ==
  ASSUME TypeInv, CashInv, NEW w \in Workers, Place(w),
         ~ClaimKey(w), ~CreateCodOrder(w)
  PROVE  WorkersCalm /\ DataCalm
<1> USE DEF BeforeOrder
<1>0. attempt \in [Checkouts -> Attempts] /\ key \in [Checkouts -> {"absent", "in_progress", "completed", "refused"}]
  BY DEF TypeInv, DataOK
<1>1. CASE ReservePoints(w)
  <2> DEFINE l == [loc[w] EXCEPT !.points = TRUE]
  <2>1. Placing(w) /\ l.c = loc[w].c
    BY <1>1, WorkerType DEF ReservePoints, Placing, Locals
  <2>2. GoWith(w, "item", l) \/ GoTo(w, "giveStock")
    BY <1>1 DEF ReservePoints
  <2>3. WorkersCalm
    <3> HIDE DEF l
    <3> QED
      BY <2>1, <2>2, CalmMove, CalmGo
  <2> QED
    BY <1>1, <2>3 DEF ReservePoints, DataCalm
<1>2. CASE ReserveItem(w)
  <2> DEFINE next == [loc[w] EXCEPT !.i = @ + 1]
             done == [loc[w] EXCEPT !.stock = TRUE]
  <2>1. Placing(w) /\ next.c = loc[w].c /\ done.c = loc[w].c
    BY <1>2, WorkerType DEF ReserveItem, Placing, Locals
  <2>2. GoWith(w, "item", next) \/ GoWith(w, "create", done) \/ GoTo(w, "shortage")
    BY <1>2 DEF ReserveItem
  <2>3. WorkersCalm
    <3> HIDE DEF next, done
    <3> QED
      BY <2>1, <2>2, CalmMove, CalmGo
  <2> QED
    BY <1>2, <2>3 DEF ReserveItem, DataCalm
<1>3. CASE CreateAttempt(w)
  <2>1. WorkersCalm
    BY <1>3, CalmGo DEF CreateAttempt
  <2>2. loc[w].c \notin Cod
    BY <1>3 DEF CreateAttempt
  <2>3. \A c \in Cod : attempt'[c] = attempt[c]
    BY <1>0, <1>3, <2>2, CheckoutAssumption DEF CreateAttempt
  <2> QED
    BY <1>3, <2>1, <2>3 DEF CreateAttempt, DataCalm
<1>4. CASE LinkAttempt(w)
  <2>1. WorkersCalm
    BY <1>4, CalmGo DEF LinkAttempt
  <2>2. \A c \in Cod : attempt'[c] = attempt[c]
    BY <1>0, <1>4, CheckoutAssumption DEF LinkAttempt, CashInv, CashIsPlaced
  <2> QED
    BY <1>4, <2>1, <2>2 DEF LinkAttempt, DataCalm
<1>5. CASE CompleteKey(w)
  <2>1. WorkersCalm
    BY <1>5, CalmEnd DEF CompleteKey
  <2>2. \A c \in Checkouts : key[c] # "absent" => key'[c] # "absent"
    BY <1>0, <1>5 DEF CompleteKey
  <2> QED
    BY <1>5, <2>1, <2>2 DEF CompleteKey, DataCalm
<1>6. CASE Shortage(w) \/ CreateGatewayOrder(w) \/ GiveStock(w) \/ GivePoints(w)
  <2>1. WorkersCalm
    BY <1>6, CalmGo DEF Shortage, CreateGatewayOrder, GiveStock, GivePoints
  <2> QED
    BY <1>6, <2>1 DEF Shortage, CreateGatewayOrder, GiveStock, GivePoints, DataCalm
<1> QED
  BY <1>1, <1>2, <1>3, <1>4, <1>5, <1>6 DEF Place

LEMMA CompleteCalm ==
  ASSUME TypeInv, CashInv, NEW w \in Workers, Complete(w), ~CreatePaidOrder(w)
  PROVE  WorkersCalm /\ DataCalm
<1> USE DEF BeforeOrder
<1>0. pc[w] # "idle" => loc[w].c \in Checkouts
  BY WorkerType
<1>1. CASE FindAttempt(w)
  <2>1. WorkersCalm
    <3>1. loc[w].c \in Cod => Answered(w)
      BY <1>1, AttemptsAreOnline DEF FindAttempt
    <3> QED
      BY <1>1, <3>1, CalmEnd, CalmGo DEF FindAttempt
  <2> QED
    BY <1>1, <2>1 DEF FindAttempt, DataCalm
<1>2. CASE Settle(w)
  <2> DEFINE l == [loc[w] EXCEPT !.seen = attempt[loc[w].c]]
  <2>1. l.c = loc[w].c /\ l.c \notin Cod
    BY <1>2, WorkerType DEF Settle, Locals, CashInv, CashIsPlaced
  <2>2. Answered(w) \/ GoWith(w, "order", l) \/ Ends(w)
    BY <1>2 DEF Settle
  <2>3. WorkersCalm
    <3> HIDE DEF l
    <3> QED
      BY <2>1, <2>2, CalmMove, CalmEnd
  <2> QED
    BY <1>2, <2>3 DEF Settle, DataCalm
<1>3. CASE FinalizePoints(w)
  <2>1. WorkersCalm
    BY <1>3, CalmGo DEF FinalizePoints
  <2> QED
    BY <1>3, <2>1 DEF FinalizePoints, DataCalm
<1>4. CASE Redeem(w)
  <2>1. WorkersCalm
    BY <1>4, CalmGo DEF Redeem
  <2>2. DOMAIN orders' = DOMAIN orders /\ \A i \in DOMAIN orders : orders'[i].c = orders[i].c
    BY <1>4, RedeemOrders DEF TypeInv, DataOK
  <2> QED
    BY <1>4, <2>1, <2>2 DEF Redeem, DataCalm
<1>5. CASE AttachOrder(w)
  <2>1. WorkersCalm
    BY <1>5, CalmEnd DEF AttachOrder
  <2>2. \A c \in Cod : attempt'[c] = attempt[c]
    BY <1>0, <1>5, CalmUpdate DEF AttachOrder
  <2> QED
    BY <1>5, <2>1, <2>2 DEF AttachOrder, DataCalm
<1> QED
  BY <1>1, <1>2, <1>3, <1>4, <1>5 DEF Complete

LEMMA NotCompleteCalm ==
  ASSUME TypeInv, CashInv, NEW w \in Workers, NotComplete(w)
  PROVE  WorkersCalm /\ DataCalm
<1> USE DEF BeforeOrder
<1>0. pc[w] # "idle" => loc[w].c \in Checkouts
  BY WorkerType
<1>1. CASE Drop(w)
  <2> DEFINE latest == attempt[loc[w].c]
             l == [loc[w] EXCEPT !.seen = latest]
             label == IF latest.stock THEN "dropStock"
                      ELSE IF latest.points = "reserved" THEN "dropPoints" ELSE "dropMark"
  <2>1. Answered(w) \/ GoWith(w, label, l)
    BY <1>1 DEF Drop
  <2>2. label \notin BeforeOrder \cup {"settle", "order"}
    OBVIOUS
  <2>3. WorkersCalm
    <3> HIDE DEF l, label
    <3> QED
      BY <2>1, <2>2, CalmMove, CalmEnd
  <2> QED
    BY <1>1, <2>3 DEF Drop, DataCalm
<1>2. CASE DropStock(w) \/ DropPoints(w)
  <2>1. WorkersCalm
    BY <1>2, CalmGo DEF DropStock, DropPoints
  <2> QED
    BY <1>2, <2>1 DEF DropStock, DropPoints, DataCalm
<1>3. CASE DropMark(w)
  <2>1. WorkersCalm
    BY <1>3, CalmGo DEF DropMark
  <2>2. \A c \in Cod : attempt'[c] = attempt[c]
    BY <1>0, <1>3, CalmUpdate DEF DropMark
  <2> QED
    BY <1>3, <2>1, <2>2 DEF DropMark, DataCalm
<1>4. CASE DropStatus(w)
  <2>1. WorkersCalm
    BY <1>4, CalmEnd DEF DropStatus
  <2>2. \A c \in Cod : attempt'[c] = attempt[c]
    BY <1>0, <1>4, CalmUpdate DEF DropStatus
  <2> QED
    BY <1>4, <2>1, <2>2 DEF DropStatus, DataCalm
<1> QED
  BY <1>1, <1>2, <1>3, <1>4 DEF NotComplete

LEMMA ArrivalCalm ==
  ASSUME TypeInv, CashInv, NEW w \in Workers,
         \/ \E c \in Checkouts : StartPlace(w, c) \/ StartVerify(w, c) \/ StartCancel(w, c)
         \/ \E e \in Events : StartWebhook(w, e)
  PROVE  WorkersCalm /\ DataCalm
<1> USE DEF BeforeOrder
<1>1. ASSUME NEW c \in Checkouts, StartPlace(w, c) \/ StartCancel(w, c)
      PROVE  WorkersCalm
  BY <1>1, CalmBegin DEF StartPlace, StartCancel, BeginSettling
<1>2. ASSUME NEW c \in Checkouts, StartVerify(w, c)
      PROVE  WorkersCalm
  <2>1. c \notin Cod
    BY <1>2, AttemptsAreOnline DEF StartVerify
  <2> QED
    BY <1>2, <2>1, CalmBegin DEF StartVerify, BeginSettling
<1>3. ASSUME NEW e \in Events, StartWebhook(w, e)
      PROVE  WorkersCalm
  BY <1>3, CalmBegin DEF StartWebhook, BeginSettling
<1> QED
  BY <1>1, <1>2, <1>3 DEF StartPlace, StartVerify, StartCancel, StartWebhook, DataCalm

LEMMA FaultCalm ==
  ASSUME TypeInv, CashInv, NEW w \in Workers, PlacingFails(w) \/ Abandons(w)
  PROVE  WorkersCalm /\ DataCalm
<1>1. WorkersCalm
  <2>1. CASE pc[w] = "item" /\ GoTo(w, "shortage")
    BY <2>1, CalmGo DEF Placing, BeforeOrder
  <2>2. CASE GoTo(w, "giveStock")
    BY <2>2, CalmGo DEF BeforeOrder
  <2>3. CASE Ends(w)
    BY <2>3, CalmEnd
  <2> QED
    BY <2>1, <2>2, <2>3 DEF PlacingFails, Abandons
<1> QED
  BY <1>1 DEF PlacingFails, Abandons, DataCalm

LEMMA EnvironmentCalm ==
  ASSUME TypeInv, CashInv,
         \/ \E e \in Events : Duplicate(e)
         \/ \E c \in Checkouts : Pay(c) \/ PaymentFails(c) \/ ExpireAttempt(c)
  PROVE  WorkersCalm /\ DataCalm
<1>1. UNCHANGED <<pc, loc, orders, key>>
  BY DEF Duplicate, Pay, PaymentFails, ExpireAttempt, appVars
<1>2. WorkersCalm
  BY <1>1 DEF WorkersCalm, Placing, CashInv, CashIsPlaced
<1>3. \A c \in Cod : attempt'[c] = attempt[c]
  <2>1. ASSUME NEW d \in Checkouts, ExpireAttempt(d), NEW c \in Cod
        PROVE  attempt'[c] = attempt[c]
    <3>1. d # c
      BY <2>1 DEF ExpireAttempt, CashInv, CashIsPlaced
    <3> QED
      BY <2>1, <3>1, CheckoutAssumption DEF ExpireAttempt, TypeInv, DataOK
  <2> QED
    BY <2>1 DEF Duplicate, Pay, PaymentFails, appVars
<1> QED
  BY <1>1, <1>2, <1>3 DEF DataCalm

-----------------------------------------------------------------------------
LEMMA InitCash == Init => CashInv
<1> SUFFICES ASSUME Init
             PROVE  CashInv
  OBVIOUS
<1>1. KeysClaimed /\ OnePlacement /\ OneCashOrderPerKey
  BY DEF Init, KeysClaimed, OnePlacement, OneCashOrderPerKey, Placing, BeforeOrder
<1>2. CashIsPlaced
  BY CheckoutAssumption DEF Init, CashIsPlaced
<1> QED
  BY <1>1, <1>2 DEF CashInv

LEMMA NextCash == TypeInv /\ CashInv /\ [Next]_vars => CashInv'
<1> SUFFICES ASSUME TypeInv, CashInv, [Next]_vars
             PROVE  CashInv'
  OBVIOUS
<1>1. ASSUME NEW w \in Workers, Continue(w)
      PROVE  CashInv'
  BY <1>1, ClaimKeyCash, CreateCodOrderCash, CreatePaidOrderCash,
     PlaceCalm, CompleteCalm, NotCompleteCalm, CalmStep DEF Continue
<1>2. ASSUME NEW w \in Workers,
             \/ \E c \in Checkouts : StartPlace(w, c) \/ StartVerify(w, c) \/ StartCancel(w, c)
             \/ \E e \in Events : StartWebhook(w, e)
      PROVE  CashInv'
  BY <1>2, ArrivalCalm, CalmStep
<1>3. ASSUME NEW w \in Workers, PlacingFails(w) \/ Abandons(w)
      PROVE  CashInv'
  BY <1>3, FaultCalm, CalmStep
<1>4. CASE \/ \E e \in Events : Duplicate(e)
           \/ \E c \in Checkouts : Pay(c) \/ PaymentFails(c) \/ ExpireAttempt(c)
  BY <1>4, EnvironmentCalm, CalmStep
<1>5. CASE UNCHANGED vars
  BY <1>5 DEF vars, CashInv, KeysClaimed, OnePlacement, CashIsPlaced, OneCashOrderPerKey, Placing
<1> QED
  BY <1>1, <1>2, <1>3, <1>4, <1>5 DEF Next

\* However often and however close together a cash order is sent under one key, and
\* whatever fails, one order is placed: the unique index on the key admits one request
\* (beginIdempotentRequest), and nothing else makes an order of a cash checkout.
THEOREM OneCashOrder == Spec => []OneCashOrderPerKey
<1>1. Init => TypeInv /\ CashInv
  BY InitType, InitCash
<1>2. TypeInv /\ CashInv /\ [Next]_vars => (TypeInv /\ CashInv)'
  BY NextType, NextCash
<1>3. CashInv => OneCashOrderPerKey
  BY DEF CashInv
<1> QED
  BY <1>1, <1>2, <1>3, PTL DEF Spec

-----------------------------------------------------------------------------
(* Units and points add up. While nothing fails and payments are settled   *)
(* by one handler, a checkout is held by one placement, then by its        *)
(* attempt, and by its order at last.                                      *)

Giving == {"giveStock", "givePoints", "giveStockAgain", "givePointsAgain"}
Placement == BeforeOrder \cup Giving \cup {"gateway", "link", "complete", "refuse"}
Buying == {"finalize", "redeem", "attach"}
Dropping == {"dropStock", "dropPoints", "dropMark"}
Settlement == {"find", "settle", "order", "drop", "dropStatus"} \cup Buying \cup Dropping

\* A placement has its key to itself, and holds what it has reserved.
PlacementFacts(w) ==
  LET l == loc[w] IN
  /\ pc[w] \in Placement => key[l.c] = "in_progress"
  /\ pc[w] \in BeforeOrder \cup Giving => attempt[l.c] = NoAttempt
  /\ pc[w] \in {"claim", "points", "item", "shortage"} \cup Giving => ~l.stock
  /\ pc[w] \in {"claim", "points"} => ~l.points /\ l.i = 1
  /\ pc[w] \in {"item", "shortage", "create"} => (l.points \/ Points[l.c] = 0)
  /\ pc[w] \in {"giveStockAgain", "givePointsAgain"} => l.c \notin Cod

\* Who settles has seen what the attempt still is.
SettlementFacts(w) ==
  LET l == loc[w]
      a == attempt[l.c]
  IN /\ pc[w] \in Settlement => w \in Settlers /\ l.op # "place"
     /\ pc[w] \in Buying \cup Dropping \cup {"order"} => a # NoAttempt
     /\ pc[w] \in Buying \cup {"order"} => a.stock
     /\ pc[w] = "order" => \A i \in DOMAIN orders : orders[i].c # l.c
     /\ pc[w] \in Buying => l.order \in DOMAIN orders
     /\ pc[w] \in {"finalize", "redeem"} =>
          orders[l.order].c = l.c /\ orders[l.order].points = "reserved" /\ Points[l.c] > 0
     /\ pc[w] \in Dropping => l.seen.stock = a.stock /\ l.seen.points = a.points
     /\ pc[w] = "dropStock" => l.seen.stock
     /\ pc[w] = "dropPoints" => l.seen.points = "reserved"

\* An attempt holds units and points together; once it is bought it says so, or is about to.
AttemptFacts(c) ==
  LET a == attempt[c]
  IN /\ a.status = "absent" => a = NoAttempt
     /\ a # NoAttempt => key[c] # "absent"
     /\ a.points = "reserved" <=> a.stock /\ Points[c] > 0
     /\ c \notin Cod /\ (\E i \in DOMAIN orders : orders[i].c = c) =>
          a.order # 0 \/ \E w \in Workers : pc[w] \in Buying /\ loc[w].c = c

OneEach ==
  /\ \A v, w \in Workers : pc[v] \in Placement /\ pc[w] \in Placement /\ loc[v].c = loc[w].c => v = w
  /\ \A i, j \in DOMAIN orders : orders[i].c = orders[j].c /\ orders[i].c \notin Cod => i = j
  /\ \A i \in DOMAIN orders : orders[i].paid => orders[i].c \notin Cod

Orderly ==
  /\ OneEach
  /\ \A w \in Workers : PlacementFacts(w) /\ SettlementFacts(w)
  /\ \A c \in Checkouts : AttemptFacts(c)

OneSettler == \A v, w \in Settlers : v = w

\* Where a worker can be, by what it does.
LEMMA LabelSets ==
  /\ \A x \in Placement : x \notin Settlement /\ x # "idle" /\ x # "claim"
  /\ \A x \in Settlement : x # "idle" /\ x # "claim"
  /\ BeforeOrder \cup Giving \subseteq Placement
  /\ Buying \cup Dropping \subseteq Settlement
BY DEF Placement, Settlement, BeforeOrder, Giving, Buying, Dropping

\* What the others know stays true when a placement takes a step.
LEMMA OthersOfPlacing ==
  ASSUME TypeInv, CashInv, Orderly, NEW w \in Workers, NEW v \in Workers, v # w,
         pc[w] \in Placement \cup {"claim"},
         pc[w] \in Placement => key[loc[w].c] = "in_progress",
         pc'[v] = pc[v] /\ loc'[v] = loc[v],
         \A d \in Checkouts : d # loc[w].c => key'[d] = key[d] /\ attempt'[d] = attempt[d],
         attempt'[loc[w].c] = attempt[loc[w].c] \/ pc[w] \in {"create", "link"},
         pc[w] = "claim" => key'[loc[w].c] = key[loc[w].c] \/ key[loc[w].c] = "absent",
         pc[w] = "link" => attempt'[loc[w].c] = attempt[loc[w].c]
                           \/ attempt'[loc[w].c] = [attempt[loc[w].c] EXCEPT !.linked = TRUE],
         \/ orders' = orders
         \/ /\ orders' = Append(orders, NewOrder(loc[w].c, FALSE))
            /\ loc[w].c \in Cod
  PROVE  PlacementFacts(v)' /\ SettlementFacts(v)'
<1> DEFINE c == loc[w].c
<1>0. /\ c \in Checkouts /\ (pc[v] # "idle" => loc[v].c \in Checkouts)
      /\ PlacementFacts(v) /\ SettlementFacts(v) /\ PlacementFacts(w)
      /\ attempt \in [Checkouts -> Attempts] /\ loc[v] \in Locals
  BY LabelSets DEF Orderly, TypeInv, DataOK, WorkersOK, Working
<1>1. pc[v] \in Placement => loc[v].c # c \/ (pc[w] = "claim" /\ key'[c] = key[c] /\ attempt'[c] = attempt[c])
  <2>1. pc[w] = "claim" /\ pc[v] \in Placement /\ loc[v].c = c => key[c] = "in_progress"
    BY <1>0 DEF PlacementFacts
  <2> QED
    BY <2>1 DEF Orderly, OneEach
<1>2. PlacementFacts(v)'
  <2>1. pc[v] \in Placement => key'[loc[v].c] = key[loc[v].c] /\ attempt'[loc[v].c] = attempt[loc[v].c]
    BY <1>0, <1>1, LabelSets
  <2> QED
    BY <1>0, <2>1, LabelSets DEF PlacementFacts
<1>3. CASE pc[v] \notin Settlement
  BY <1>0, <1>2, <1>3 DEF SettlementFacts, Settlement, Buying, Dropping
<1>4. CASE pc[v] \in Settlement
  <2>1. pc[v] \in Buying \cup Dropping \cup {"order"} =>
          LET a == attempt[loc[v].c]
              b == attempt'[loc[v].c]
          IN b # NoAttempt /\ b.stock = a.stock /\ b.points = a.points
    <3>1. pc[w] \in {"create", "link"} /\ loc[v].c = c /\ attempt[c] # NoAttempt =>
            pc[w] = "link"
      BY <1>0 DEF PlacementFacts, BeforeOrder
    <3>2. loc[v].c \in Checkouts
      BY <1>0, <1>4, LabelSets
    <3>3. attempt[c] \in Attempts
      BY <1>0
    <3>4. [attempt[c] EXCEPT !.linked = TRUE] # NoAttempt
      BY DEF NoAttempt
    <3> QED
      BY <1>0, <3>1, <3>2, <3>3, <3>4 DEF SettlementFacts, Attempts
  <2>2. /\ DOMAIN orders \subseteq DOMAIN orders' /\ \A i \in DOMAIN orders : orders'[i] = orders[i]
        /\ \A i \in DOMAIN orders' : i \in DOMAIN orders \/ orders'[i].c \in Cod
    <3> DEFINE o == NewOrder(c, FALSE)
    <3>1. o.c = c /\ orders \in Seq(Orders)
      BY DEF NewOrder, TypeInv, DataOK
    <3> HIDE DEF o
    <3>2. orders' = Append(orders, o) => (\A i \in DOMAIN orders' : i \in DOMAIN orders \/ orders'[i] = o)
      BY <3>1
    <3>3. orders' = Append(orders, o) =>
            DOMAIN orders \subseteq DOMAIN orders' /\ \A i \in DOMAIN orders : orders'[i] = orders[i]
      BY <3>1
    <3>4. orders' = orders \/ (orders' = Append(orders, o) /\ c \in Cod)
      BY DEF o
    <3> QED
      BY <3>1, <3>2, <3>3, <3>4
  <2>3. pc[v] = "order" => loc[v].c \notin Cod
    BY DEF CashInv, CashIsPlaced
  <2>4. pc[v] = "order" => \A i \in DOMAIN orders' : orders'[i].c # loc[v].c
    BY <1>0, <2>2, <2>3 DEF SettlementFacts
  <2>5. SettlementFacts(v)'
    BY <1>0, <2>1, <2>2, <2>4 DEF SettlementFacts, Buying, Dropping
  <2> QED
    BY <1>2, <2>5
<1> QED
  BY <1>3, <1>4

\* What the others know stays true when a payment is settled.
LEMMA OthersOfSettling ==
  ASSUME TypeInv, Orderly, OneSettler, NEW w \in Workers, NEW v \in Workers, v # w,
         w \in Settlers,
         pc'[v] = pc[v] /\ loc'[v] = loc[v],
         key' = key,
         \A d \in Checkouts : attempt[d] = NoAttempt => attempt'[d] = NoAttempt
  PROVE  PlacementFacts(v)' /\ SettlementFacts(v)'
<1>0. /\ (pc[v] # "idle" => loc[v].c \in Checkouts)
      /\ PlacementFacts(v) /\ SettlementFacts(v) 
  BY DEF Orderly, TypeInv, DataOK, WorkersOK, Working
<1>1. pc[v] \notin Settlement
  BY <1>0 DEF SettlementFacts, OneSettler
<1>2. PlacementFacts(v)'
  BY <1>0, LabelSets DEF PlacementFacts
<1> QED
  BY <1>1, <1>2 DEF SettlementFacts, Settlement, Buying, Dropping

\* An order more, or none: what it leaves as it was.
LEMMA OrdersGrow ==
  ASSUME TypeInv, NEW c \in Checkouts, NEW paid \in BOOLEAN,
         orders' = orders \/ orders' = Append(orders, NewOrder(c, paid))
  PROVE  /\ DOMAIN orders \subseteq DOMAIN orders'
         /\ \A i \in DOMAIN orders : orders'[i] = orders[i]
         /\ \A i \in DOMAIN orders' :
              i \in DOMAIN orders \/ (i = Len(orders) + 1 /\ orders'[i] = NewOrder(c, paid))
         /\ orders' # orders => Len(orders) + 1 \in DOMAIN orders' /\ Len(orders) + 1 \notin DOMAIN orders
         /\ NewOrder(c, paid).c = c /\ NewOrder(c, paid).paid = paid /\ NewOrder(c, paid).stock
         /\ NewOrder(c, paid).points = IF Points[c] > 0 THEN "reserved" ELSE "none"
<1> DEFINE o == NewOrder(c, paid)
<1>1. /\ o.c = c /\ o.paid = paid /\ o.stock
      /\ o.points = IF Points[c] > 0 THEN "reserved" ELSE "none"
  BY DEF NewOrder
<1>2. orders \in Seq(Orders)
  BY DEF TypeInv, DataOK
<1>3. orders' = orders \/ orders' = Append(orders, o)
  OBVIOUS
<1> HIDE DEF o
<1>4. /\ DOMAIN orders \subseteq DOMAIN orders'
      /\ \A i \in DOMAIN orders : orders'[i] = orders[i]
  BY <1>2, <1>3
<1>5. /\ \A i \in DOMAIN orders' : i \in DOMAIN orders \/ (i = Len(orders) + 1 /\ orders'[i] = o)
      /\ orders' # orders => Len(orders) + 1 \in DOMAIN orders' /\ Len(orders) + 1 \notin DOMAIN orders
  BY <1>2, <1>3
<1> QED
  BY <1>1, <1>4, <1>5 DEF o

\* A step of a placement: what is left to show of it.
LEMMA PlacingStep ==
  ASSUME TypeInv, CashInv, Orderly, NEW w \in Workers, NEW c \in Checkouts, c = loc[w].c, NEW label, NEW l, GoWith(w, label, l),
         label \notin Settlement, label # "idle" => l.c = c,
         pc[w] \in Placement \cup {"claim"},
         label \in Placement => pc[w] \in Placement \/ key[c] = "absent",
         \A d \in Checkouts : d # c => key'[d] = key[d] /\ attempt'[d] = attempt[d],
         attempt'[c] = attempt[c] \/ pc[w] \in {"create", "link"},
         pc[w] = "claim" => key'[c] = key[c] \/ key[c] = "absent",
         pc[w] = "link" => attempt'[c] = attempt[c]
                           \/ attempt'[c] = [attempt[c] EXCEPT !.linked = TRUE],
         \/ orders' = orders
         \/ /\ orders' = Append(orders, NewOrder(c, FALSE))
            /\ c \in Cod,
         PlacementFacts(w)', AttemptFacts(c)'
  PROVE  Orderly'
<1>0. /\ PlacementFacts(w)
      /\ pc' = [pc EXCEPT ![w] = label] /\ loc' = [loc EXCEPT ![w] = l]
      /\ pc \in [Workers -> Labels] /\ loc \in [Workers -> Locals]
  BY LabelSets DEF Orderly, TypeInv, DataOK, WorkersOK, Working, GoWith
<1>1. \A v \in Workers : v # w => pc'[v] = pc[v] /\ loc'[v] = loc[v]
  BY <1>0
<1>2. pc'[w] = label /\ loc'[w] = l
  BY <1>0
<1>3. pc[w] \in Placement => key[c] = "in_progress"
  BY <1>0 DEF PlacementFacts
<1>4. \A v \in Workers : PlacementFacts(v)' /\ SettlementFacts(v)'
  <2> SUFFICES ASSUME NEW v \in Workers PROVE PlacementFacts(v)' /\ SettlementFacts(v)'
    OBVIOUS
  <2>1. CASE v # w
    BY <1>1, <1>3, <2>1, OthersOfPlacing
  <2>2. CASE v = w
    <3>1. SettlementFacts(w)'
      BY <1>2 DEF SettlementFacts, Settlement, Buying, Dropping
    <3> QED BY <2>2, <3>1
  <2> QED BY <2>1, <2>2
<1>5. /\ DOMAIN orders \subseteq DOMAIN orders'
      /\ \A i \in DOMAIN orders : orders'[i] = orders[i]
      /\ \A i \in DOMAIN orders' : i \in DOMAIN orders \/ (orders'[i].c \in Cod /\ ~orders'[i].paid)
  <2>1. CASE orders' = orders
    BY <2>1
  <2>2. CASE orders' = Append(orders, NewOrder(c, FALSE)) /\ c \in Cod
    <3>1. /\ DOMAIN orders \subseteq DOMAIN orders'
          /\ \A i \in DOMAIN orders : orders'[i] = orders[i]
          /\ \A i \in DOMAIN orders' :
               i \in DOMAIN orders \/ (i = Len(orders) + 1 /\ orders'[i] = NewOrder(c, FALSE))
          /\ NewOrder(c, FALSE).c = c /\ NewOrder(c, FALSE).paid = FALSE
      BY <2>2, OrdersGrow
    <3> QED BY <2>2, <3>1
  <2> QED BY <2>1, <2>2
<1>6. OneEach'
  <2>1. ASSUME NEW u \in Workers, NEW v \in Workers, pc'[u] \in Placement, pc'[v] \in Placement,
               loc'[u].c = loc'[v].c
        PROVE  u = v
    <3>1. \A x \in Workers : pc'[x] \in Placement /\ x # w => pc[x] \in Placement /\ key[loc[x].c] = "in_progress"
      BY <1>1 DEF Orderly, PlacementFacts
    <3>2. \A x \in Workers : pc'[x] \in Placement => loc'[x].c = loc[x].c
      BY <1>1, <1>2, LabelSets
    <3>3. pc'[w] \in Placement => pc[w] \in Placement \/ key[c] = "absent"
      BY <1>2
    <3> QED
      BY <2>1, <3>1, <3>2, <3>3 DEF Orderly, OneEach
  <2>2. \A i, j \in DOMAIN orders' : orders'[i].c = orders'[j].c /\ orders'[i].c \notin Cod => i = j
    BY <1>5 DEF Orderly, OneEach
  <2>3. \A i \in DOMAIN orders' : orders'[i].paid => orders'[i].c \notin Cod
    BY <1>5 DEF Orderly, OneEach
  <2> QED BY <2>1, <2>2, <2>3 DEF OneEach
<1>7. \A d \in Checkouts : AttemptFacts(d)'
  <2> SUFFICES ASSUME NEW d \in Checkouts, d # c PROVE AttemptFacts(d)'
    OBVIOUS
  <2>1. AttemptFacts(d) /\ attempt'[d] = attempt[d] /\ key'[d] = key[d]
    BY DEF Orderly
  <2>2. \A v \in Workers : pc[v] \in Buying /\ loc[v].c = d => pc'[v] \in Buying /\ loc'[v].c = d
    BY <1>1
  <2>3. d \notin Cod /\ (\E i \in DOMAIN orders' : orders'[i].c = d) => \E i \in DOMAIN orders : orders[i].c = d
    BY <1>5
  <2> QED BY <2>1, <2>2, <2>3 DEF AttemptFacts
<1> QED BY <1>4, <1>6, <1>7 DEF Orderly

\* An attempt that stays as it is.
LEMMA AttemptStays ==
  ASSUME Orderly, NEW c \in Checkouts, attempt'[c] = attempt[c], key[c] # "absent" => key'[c] # "absent",
         c \notin Cod /\ (\E i \in DOMAIN orders' : orders'[i].c = c) => \E i \in DOMAIN orders : orders[i].c = c,
         \A v \in Workers : pc[v] \in Buying /\ loc[v].c = c =>
            (pc'[v] \in Buying /\ loc'[v].c = c) \/ attempt[c].order # 0
  PROVE  AttemptFacts(c)'
<1>1. AttemptFacts(c)
  BY DEF Orderly
<1> QED BY <1>1 DEF AttemptFacts

\* Most steps of a placement change neither key nor attempt, and make no order.
LEMMA PlacingGoes ==
  ASSUME TypeInv, CashInv, Orderly, NEW w \in Workers, NEW c \in Checkouts, c = loc[w].c,
         NEW label, NEW l, GoWith(w, label, l), UNCHANGED <<key, attempt, orders>>,
         label \in Placement, l.c = c, pc[w] \in Placement,
         label \in BeforeOrder \cup Giving => pc[w] \in BeforeOrder \cup Giving,
         label \in {"points", "item", "shortage"} \cup Giving => ~l.stock,
         label = "points" => ~l.points /\ l.i = 1,
         label \in {"item", "shortage", "create"} => (l.points \/ Points[c] = 0),
         label \in {"giveStockAgain", "givePointsAgain"} => c \notin Cod
  PROVE  Orderly'
<1>1. /\ pc' = [pc EXCEPT ![w] = label] /\ loc' = [loc EXCEPT ![w] = l]
      /\ pc \in [Workers -> Labels] /\ loc \in [Workers -> Locals]
      /\ PlacementFacts(w)
  BY DEF Orderly, TypeInv, WorkersOK, GoWith
<1>2. pc'[w] = label /\ loc'[w] = l /\ \A v \in Workers : v # w => pc'[v] = pc[v] /\ loc'[v] = loc[v]
  BY <1>1
<1>3. PlacementFacts(w)'
  <2>1. label # "claim" /\ label \notin Settlement
    BY LabelSets
  <2>2. key[c] = "in_progress" /\ (label \in BeforeOrder \cup Giving => attempt[c] = NoAttempt)
    BY <1>1 DEF PlacementFacts
  <2> QED BY <1>2, <2>1, <2>2 DEF PlacementFacts
<1>4. AttemptFacts(c)'
  <2>1. \A v \in Workers : pc[v] \in Buying => v # w
    BY LabelSets
  <2> QED BY <1>2, <2>1, AttemptStays
<1>5. label \notin Settlement
  BY LabelSets
<1> QED BY <1>3, <1>4, <1>5, PlacingStep

LEMMA GoesWith ==
  ASSUME TypeInv, NEW w \in Workers, NEW label, GoTo(w, label)
  PROVE  GoWith(w, label, loc[w])
BY DEF GoTo, GoWith, TypeInv, WorkersOK

\* The steps of a placement, one by one.
LEMMA ReservePointsOrderly ==
  ASSUME TypeInv, CashInv, Orderly, NEW w \in Workers, ReservePoints(w) PROVE Orderly'
<1> DEFINE l == [loc[w] EXCEPT !.points = TRUE]
<1>1. /\ pc[w] = "points" /\ loc[w].c \in Checkouts /\ loc[w] \in Locals /\ UNCHANGED <<key, attempt, orders>>
      /\ PlacementFacts(w)
  BY WorkerType DEF ReservePoints, Orderly
<1>2. l.c = loc[w].c /\ l.points /\ l.stock = loc[w].stock
  BY <1>1 DEF Locals
<1>3. GoWith(w, "item", l) \/ GoWith(w, "giveStock", loc[w])
  BY GoesWith DEF ReservePoints
<1> HIDE DEF l
<1>4. ~loc[w].stock
  BY <1>1 DEF PlacementFacts
<1> QED
  BY <1>1, <1>2, <1>3, <1>4, PlacingGoes DEF Placement, BeforeOrder, Giving

LEMMA ReserveItemOrderly ==
  ASSUME TypeInv, CashInv, Orderly, NEW w \in Workers, ReserveItem(w) PROVE Orderly'
<1> DEFINE next == [loc[w] EXCEPT !.i = @ + 1]
           done == [loc[w] EXCEPT !.stock = TRUE]
<1>1. /\ pc[w] = "item" /\ loc[w].c \in Checkouts /\ loc[w] \in Locals /\ UNCHANGED <<key, attempt, orders>>
      /\ PlacementFacts(w)
  BY WorkerType DEF ReserveItem, Orderly
<1>2. /\ next.c = loc[w].c /\ next.points = loc[w].points /\ next.stock = loc[w].stock
      /\ done.c = loc[w].c /\ done.points = loc[w].points
  BY <1>1 DEF Locals
<1>3. GoWith(w, "item", next) \/ GoWith(w, "create", done) \/ GoWith(w, "shortage", loc[w])
  BY GoesWith DEF ReserveItem
<1> HIDE DEF next, done
<1>4. ~loc[w].stock /\ (loc[w].points \/ Points[loc[w].c] = 0)
  BY <1>1 DEF PlacementFacts
<1> QED
  BY <1>1, <1>2, <1>3, <1>4, PlacingGoes DEF Placement, BeforeOrder, Giving

LEMMA GivingOrderly ==
  ASSUME TypeInv, CashInv, Orderly, NEW w \in Workers, Shortage(w) \/ GiveStock(w) \/ GivePoints(w) \/ CreateGatewayOrder(w)
  PROVE  Orderly'
<1>1. /\ pc[w] \in {"shortage", "gateway"} \cup Giving /\ loc[w].c \in Checkouts /\ loc[w] \in Locals
      /\ UNCHANGED <<key, attempt, orders>> /\ PlacementFacts(w)
  BY WorkerType DEF Shortage, GiveStock, GivePoints, CreateGatewayOrder, Giving, Orderly
<1>2. /\ pc[w] \in {"shortage"} \cup Giving => ~loc[w].stock /\ attempt[loc[w].c] = NoAttempt
      /\ pc[w] \in Placement
      /\ pc[w] \in {"giveStockAgain", "givePointsAgain"} => loc[w].c \notin Cod
  BY <1>1 DEF PlacementFacts, BeforeOrder, Giving, Placement
<1>3. \E label \in Giving \cup {"link", "refuse"} :
        /\ GoWith(w, label, loc[w]) /\ (label \in Giving => pc[w] # "gateway")
        /\ label \in {"giveStockAgain", "givePointsAgain"} => loc[w].c \notin Cod
  BY <1>1, <1>2, GoesWith DEF Shortage, GiveStock, GivePoints, CreateGatewayOrder, Giving
<1> QED
  BY <1>1, <1>2, <1>3, PlacingGoes DEF Placement, BeforeOrder, Giving

LEMMA ClaimKeyOrderly ==
  ASSUME TypeInv, CashInv, Orderly, NEW w \in Workers, ClaimKey(w) PROVE Orderly'
<1>0. PICK c \in Checkouts : c = loc[w].c
  BY WorkerType DEF ClaimKey
<1>1. /\ pc[w] = "claim" /\ UNCHANGED <<orders, attempt>>
      /\ pc \in [Workers -> Labels] /\ loc \in [Workers -> Locals] /\ PlacementFacts(w) /\ AttemptFacts(c)
      /\ key \in [Checkouts -> {"absent", "in_progress", "completed", "refused"}]
  BY DEF ClaimKey, TypeInv, DataOK, WorkersOK, Working, Orderly
<1>2. CASE /\ key[c] = "absent" /\ key' = [key EXCEPT ![c] = "in_progress"]
           /\ \E label \in {"points", "item", "refuse"} : GoTo(w, label) /\ (label = "item" => Points[c] = 0)
  <2>1. PICK label \in {"points", "item", "refuse"} : GoTo(w, label) /\ (label = "item" => Points[c] = 0)
    BY <1>2
  <2>2. pc'[w] = label /\ loc' = loc /\ \A v \in Workers : v # w => pc'[v] = pc[v]
    BY <1>1, <2>1 DEF GoTo
  <2>3. key'[c] = "in_progress" /\ \A d \in Checkouts : d # c => key'[d] = key[d]
    BY <1>1, <1>2
  <2>4. PlacementFacts(w)'
    <3>1. attempt[c] = NoAttempt /\ ~loc[w].stock /\ ~loc[w].points /\ loc[w].i = 1
      BY <1>0, <1>1, <1>2 DEF AttemptFacts, PlacementFacts
    <3> QED BY <1>0, <1>1, <2>1, <2>2, <2>3, <3>1 DEF PlacementFacts, BeforeOrder, Giving
  <2>5. AttemptFacts(c)'
    BY <1>1, <2>2, <2>3, AttemptStays DEF Buying
  <2>6. label \in Placement /\ label \notin Settlement
    BY <2>1, LabelSets DEF Placement, BeforeOrder
  <2>7. GoWith(w, label, loc[w])
    BY <2>1, GoesWith
  <2> QED BY <1>0, <1>1, <1>2, <2>1, <2>3, <2>4, <2>5, <2>6, <2>7, PlacingStep
<1>3. CASE Ends(w) /\ UNCHANGED key
  <2>1. GoWith(w, "idle", NoLocals)
    BY <1>3 DEF Ends
  <2>2. pc'[w] = "idle" /\ \A v \in Workers : v # w => pc'[v] = pc[v] /\ loc'[v] = loc[v]
    BY <1>1, <2>1 DEF GoWith
  <2>3. PlacementFacts(w)'
    BY <2>2 DEF PlacementFacts, Placement, BeforeOrder, Giving
  <2>4. AttemptFacts(c)'
    BY <1>0, <1>1, <1>3, <2>2, AttemptStays DEF Buying
  <2>5. "idle" \notin Settlement \cup Placement
    BY LabelSets
  <2> QED BY <1>0, <1>1, <1>3, <2>1, <2>3, <2>4, <2>5, PlacingStep
<1> QED
  BY <1>0, <1>1, <1>2, <1>3, ItemsType DEF ClaimKey, Reserving

LEMMA CreateCodOrderOrderly ==
  ASSUME TypeInv, CashInv, Orderly, NEW w \in Workers, CreateCodOrder(w) PROVE Orderly'
<1>0. PICK c \in Checkouts : c = loc[w].c
  BY WorkerType DEF CreateCodOrder
<1>1. /\ pc[w] = "create" /\ c \in Cod /\ UNCHANGED <<key, attempt>>
      /\ orders' = Append(orders, NewOrder(c, FALSE))
      /\ pc \in [Workers -> Labels] /\ PlacementFacts(w) /\ AttemptFacts(c)
      /\ GoTo(w, "complete")
  BY <1>0 DEF CreateCodOrder, TypeInv, WorkersOK, Orderly
<1>2. pc'[w] = "complete" /\ loc' = loc /\ \A v \in Workers : v # w => pc'[v] = pc[v]
  BY <1>1 DEF GoTo
<1>3. PlacementFacts(w)'
  BY <1>0, <1>1, <1>2 DEF PlacementFacts, Placement, BeforeOrder, Giving
<1>4. AttemptFacts(c)'
  BY <1>1, <1>2, AttemptStays DEF Buying
<1>5. "complete" \in Placement /\ pc[w] \in Placement /\ "complete" \notin Settlement
  BY <1>1, LabelSets DEF Placement, BeforeOrder
<1>6. GoWith(w, "complete", loc[w])
  BY <1>1, GoesWith
<1> QED
  BY <1>0, <1>1, <1>3, <1>4, <1>5, <1>6, PlacingStep

LEMMA CreateAttemptOrderly ==
  ASSUME TypeInv, CashInv, Orderly, NEW w \in Workers, CreateAttempt(w) PROVE Orderly'
<1>0. PICK c \in Checkouts : c = loc[w].c
  BY WorkerType DEF CreateAttempt
<1> DEFINE a == [NoAttempt EXCEPT !.status = "pending", !.stock = TRUE,
                   !.points = IF Points[c] > 0 THEN "reserved" ELSE "none"]
<1>1. /\ pc[w] = "create" /\ c \notin Cod /\ UNCHANGED <<key, orders>>
      /\ attempt' = [attempt EXCEPT ![c] = a]
      /\ pc \in [Workers -> Labels] /\ attempt \in [Checkouts -> Attempts] /\ PlacementFacts(w) /\ AttemptFacts(c)
      /\ GoTo(w, "gateway")
  BY <1>0 DEF CreateAttempt, TypeInv, DataOK, WorkersOK, Orderly
<1>2. pc'[w] = "gateway" /\ loc' = loc /\ \A v \in Workers : v # w => pc'[v] = pc[v]
  BY <1>1 DEF GoTo
<1>3. PlacementFacts(w)'
  BY <1>0, <1>1, <1>2 DEF PlacementFacts, Placement, BeforeOrder, Giving
<1>4. AttemptFacts(c)'
  <2>1. a.status = "pending" /\ a.stock /\ (a.points = "reserved" <=> Points[c] > 0) /\ a # NoAttempt
    BY DEF NoAttempt
  <2>2. attempt'[c] = a
    BY <1>1
  <2>3. attempt[c] = NoAttempt /\ key[c] = "in_progress"
    BY <1>0, <1>1 DEF PlacementFacts, BeforeOrder, Placement
  <2>4. attempt[c].order = 0
    BY <2>3 DEF NoAttempt
  <2>5. ~ \E i \in DOMAIN orders : orders[i].c = c
    <3>1. ASSUME NEW v \in Workers, pc[v] \in Buying, loc[v].c = c PROVE FALSE
      <4>1. attempt[c].stock
        BY <3>1 DEF Orderly, SettlementFacts
      <4> QED BY <2>3, <4>1 DEF NoAttempt
    <3> QED BY <1>1, <2>4, <3>1 DEF AttemptFacts
  <2> HIDE DEF a
  <2> QED BY <1>1, <2>1, <2>2, <2>3, <2>5 DEF AttemptFacts
<1>5. "gateway" \in Placement /\ pc[w] \in Placement /\ "gateway" \notin Settlement
  BY <1>1, LabelSets DEF Placement, BeforeOrder
<1>6. GoWith(w, "gateway", loc[w])
  BY <1>1, GoesWith
<1>7. \A d \in Checkouts : d # c => attempt'[d] = attempt[d]
  BY <1>1
<1> QED
  BY <1>0, <1>1, <1>3, <1>4, <1>5, <1>6, <1>7, PlacingStep

LEMMA LinkAttemptOrderly ==
  ASSUME TypeInv, CashInv, Orderly, NEW w \in Workers, LinkAttempt(w) PROVE Orderly'
<1>0. PICK c \in Checkouts : c = loc[w].c
  BY WorkerType DEF LinkAttempt
<1> DEFINE a == [attempt[c] EXCEPT !.linked = TRUE]
<1>1. /\ pc[w] = "link" /\ UNCHANGED <<key, orders>>
      /\ attempt' = IF attempt[c] = NoAttempt THEN attempt ELSE [attempt EXCEPT ![c] = a]
      /\ pc \in [Workers -> Labels] /\ attempt \in [Checkouts -> Attempts] /\ PlacementFacts(w) /\ AttemptFacts(c)
      /\ GoTo(w, "complete")
  BY <1>0 DEF LinkAttempt, TypeInv, DataOK, WorkersOK, Orderly
<1>2. pc'[w] = "complete" /\ loc' = loc /\ \A v \in Workers : v # w => pc'[v] = pc[v]
  BY <1>1 DEF GoTo
<1>3. PlacementFacts(w)'
  BY <1>0, <1>1, <1>2 DEF PlacementFacts, Placement, BeforeOrder, Giving
<1>4. attempt'[c] = attempt[c] \/ attempt'[c] = a
  BY <1>1
<1>5. AttemptFacts(c)'
  <2>1. a.status = attempt[c].status /\ a.stock = attempt[c].stock /\ a.points = attempt[c].points
        /\ a.order = attempt[c].order /\ a.linked
    BY <1>1 DEF Attempts
  <2>2. attempt'[c] = a => attempt[c] # NoAttempt
    BY <1>1, <2>1 DEF NoAttempt
  <2>3. \A v \in Workers : pc[v] \in Buying => pc'[v] = pc[v]
    BY <1>1, <1>2 DEF Buying
  <2> HIDE DEF a
  <2> QED BY <1>1, <1>2, <1>4, <2>1, <2>2, <2>3 DEF AttemptFacts
<1>6. "complete" \in Placement /\ pc[w] \in Placement /\ "complete" \notin Settlement
  BY <1>1, LabelSets DEF Placement, BeforeOrder
<1>7. GoWith(w, "complete", loc[w])
  BY <1>1, GoesWith
<1>8. \A d \in Checkouts : d # c => attempt'[d] = attempt[d]
  BY <1>1
<1> QED
  BY <1>0, <1>1, <1>3, <1>4, <1>5, <1>6, <1>7, <1>8, PlacingStep

LEMMA CompleteKeyOrderly ==
  ASSUME TypeInv, CashInv, Orderly, NEW w \in Workers, CompleteKey(w) PROVE Orderly'
<1>0. PICK c \in Checkouts : c = loc[w].c
  BY WorkerType DEF CompleteKey
<1>1. /\ pc[w] \in {"complete", "refuse"} /\ UNCHANGED <<attempt, orders>>
      /\ pc \in [Workers -> Labels] /\ PlacementFacts(w)
      /\ key \in [Checkouts -> {"absent", "in_progress", "completed", "refused"}]
      /\ GoWith(w, "idle", NoLocals)
      /\ key' = [key EXCEPT ![c] = IF pc[w] = "complete" THEN "completed" ELSE "refused"]
  BY <1>0 DEF CompleteKey, Ends, TypeInv, DataOK, WorkersOK, Orderly
<1>2. pc'[w] = "idle" /\ \A v \in Workers : v # w => pc'[v] = pc[v] /\ loc'[v] = loc[v]
  BY <1>1 DEF GoWith
<1>3. PlacementFacts(w)'
  BY <1>2 DEF PlacementFacts, Placement, BeforeOrder, Giving
<1>4. key'[c] # "absent" /\ \A d \in Checkouts : d # c => key'[d] = key[d]
  BY <1>1
<1>5. AttemptFacts(c)'
  BY <1>1, <1>2, <1>4, AttemptStays DEF Buying
<1>6. "idle" \notin Settlement \cup Placement /\ pc[w] \in Placement /\ pc[w] # "claim"
  BY <1>1, LabelSets DEF Placement
<1> QED
  BY <1>0, <1>1, <1>3, <1>4, <1>5, <1>6, PlacingStep

LEMMA PlaceSteps ==
  ASSUME TypeInv, CashInv, Orderly, NEW w \in Workers, Place(w) PROVE Orderly'
BY ClaimKeyOrderly, ReservePointsOrderly, ReserveItemOrderly, GivingOrderly, CreateCodOrderOrderly,
   CreateAttemptOrderly, LinkAttemptOrderly, CompleteKeyOrderly DEF Place

\* A step that settles a payment: what is left to show of it.
LEMMA SettlingStep ==
  ASSUME TypeInv, CashInv, Orderly, OneSettler, NEW w \in Workers, NEW c \in Checkouts, c = loc[w].c,
         NEW label, NEW l, GoWith(w, label, l),
         pc[w] \in Settlement, label \in Settlement \cup {"idle"},
         key' = key, \A d \in Checkouts : d # c => attempt'[d] = attempt[d],
         attempt[c] = NoAttempt => attempt'[c] = NoAttempt,
         DOMAIN orders \subseteq DOMAIN orders',
         \A i \in DOMAIN orders : orders'[i].c = orders[i].c /\ orders'[i].paid = orders[i].paid,
         \A i \in DOMAIN orders' : i \in DOMAIN orders \/ (orders'[i].c = c /\ pc[w] = "order" /\ i = Len(orders) + 1),
         SettlementFacts(w)', AttemptFacts(c)'
  PROVE  Orderly'
<1>0. /\ SettlementFacts(w) /\ label \notin Placement /\ label # "claim"
      /\ pc' = [pc EXCEPT ![w] = label] /\ loc' = [loc EXCEPT ![w] = l]
      /\ pc \in [Workers -> Labels] /\ loc \in [Workers -> Locals]
  BY LabelSets DEF Orderly, TypeInv, DataOK, WorkersOK, Working, GoWith
<1>1. pc'[w] = label /\ \A v \in Workers : v # w => pc'[v] = pc[v] /\ loc'[v] = loc[v]
  BY <1>0
<1>2. w \in Settlers
  BY <1>0 DEF SettlementFacts
<1>3. \A v \in Workers : PlacementFacts(v)' /\ SettlementFacts(v)'
  <2> SUFFICES ASSUME NEW v \in Workers PROVE PlacementFacts(v)' /\ SettlementFacts(v)'
    OBVIOUS
  <2>1. CASE v # w
    <3>1. \A d \in Checkouts : attempt[d] = NoAttempt => attempt'[d] = NoAttempt
      OBVIOUS
    <3> QED BY <1>1, <1>2, <2>1, <3>1, OthersOfSettling
  <2>2. CASE v = w
    <3>1. PlacementFacts(w)'
      BY <1>0, <1>1 DEF PlacementFacts, Placement, BeforeOrder, Giving
    <3> QED BY <2>2, <3>1
  <2> QED BY <2>1, <2>2
<1>4. OneEach'
  <2>1. \A u, v \in Workers : pc'[u] \in Placement /\ pc'[v] \in Placement /\ loc'[u].c = loc'[v].c => u = v
    BY <1>0, <1>1 DEF Orderly, OneEach
  <2>2. pc[w] = "order" => c \notin Cod /\ \A i \in DOMAIN orders : orders[i].c # c
    BY <1>0 DEF SettlementFacts, CashInv, CashIsPlaced
  <2>3. \A i, j \in DOMAIN orders' : orders'[i].c = orders'[j].c /\ orders'[i].c \notin Cod => i = j
    BY <2>2 DEF Orderly, OneEach
  <2>4. \A i \in DOMAIN orders' : orders'[i].paid => orders'[i].c \notin Cod
    BY <2>2 DEF Orderly, OneEach
  <2> QED BY <2>1, <2>3, <2>4 DEF OneEach
<1>5. \A d \in Checkouts : AttemptFacts(d)'
  <2> SUFFICES ASSUME NEW d \in Checkouts, d # c PROVE AttemptFacts(d)'
    OBVIOUS
  <2>1. attempt'[d] = attempt[d] /\ key'[d] = key[d]
    OBVIOUS
  <2>2. \A v \in Workers : pc[v] \in Buying /\ loc[v].c = d => pc'[v] \in Buying /\ loc'[v].c = d
    BY <1>1
  <2>3. (\E i \in DOMAIN orders' : orders'[i].c = d) => \E i \in DOMAIN orders : orders[i].c = d
    OBVIOUS
  <2> QED BY <2>1, <2>2, <2>3, AttemptStays
<1> QED BY <1>3, <1>4, <1>5 DEF Orderly

\* Who is answered stops.
LEMMA AnsweredEnds ==
  ASSUME Orderly, NEW w \in Workers, pc[w] \in Settlement, Answered(w) \/ Ends(w)
  PROVE  GoWith(w, "idle", NoLocals)
BY DEF Orderly, SettlementFacts, Answered, Ends

\* Steps that leave attempt and orders as they are.
LEMMA SettlingGoes ==
  ASSUME TypeInv, CashInv, Orderly, OneSettler, NEW w \in Workers, NEW label, NEW l,
         GoWith(w, label, l), UNCHANGED <<key, attempt, orders>>,
         pc[w] \in Settlement \ Buying, label \in Settlement \cup {"idle"},
         SettlementFacts(w)'
  PROVE  Orderly'
<1>0. PICK c \in Checkouts : c = loc[w].c
  BY WorkerType, LabelSets
<1>1. \A v \in Workers : v # w => pc'[v] = pc[v] /\ loc'[v] = loc[v]
  BY DEF TypeInv, WorkersOK, GoWith
<1>2. AttemptFacts(c)'
  BY <1>1, AttemptStays
<1>3. \A i \in DOMAIN orders' : i \in DOMAIN orders
  OBVIOUS
<1> QED BY <1>0, <1>2, <1>3, SettlingStep

\* A worker that is done has nothing to know.
LEMMA IdleFacts ==
  ASSUME TypeInv, NEW w \in Workers, GoWith(w, "idle", NoLocals)
  PROVE  SettlementFacts(w)' /\ PlacementFacts(w)'
<1>1. pc'[w] = "idle"
  BY DEF TypeInv, WorkersOK, GoWith
<1> QED BY <1>1 DEF SettlementFacts, Settlement, Buying, Dropping, PlacementFacts, Placement, BeforeOrder, Giving

\* The steps that settle a payment, one by one.
LEMMA FindAttemptOrderly ==
  ASSUME TypeInv, CashInv, Orderly, OneSettler, NEW w \in Workers, FindAttempt(w) PROVE Orderly'
<1>1. pc[w] = "find" /\ SettlementFacts(w) /\ UNCHANGED <<key, attempt, orders>>
  BY DEF FindAttempt, Orderly
<1>2. pc[w] \in Settlement \ Buying
  BY <1>1 DEF Settlement, Buying
<1>3. CASE GoWith(w, "idle", NoLocals)
  BY <1>1, <1>2, <1>3, IdleFacts, SettlingGoes
<1>4. ASSUME NEW label \in {"drop", "settle"}, GoWith(w, label, loc[w]) PROVE Orderly'
  <2>1. pc'[w] = label /\ loc'[w] = loc[w]
    BY <1>4 DEF GoWith, TypeInv, WorkersOK
  <2>2. SettlementFacts(w)'
    BY <1>1, <1>2, <2>1 DEF SettlementFacts, Settlement, Buying, Dropping
  <2>3. label \in Settlement
    BY DEF Settlement
  <2> QED BY <1>1, <1>2, <1>4, <2>2, <2>3, SettlingGoes
<1> QED BY <1>2, <1>3, <1>4, GoesWith, AnsweredEnds DEF FindAttempt

LEMMA SettleOrderly ==
  ASSUME TypeInv, CashInv, Orderly, OneSettler, NEW w \in Workers, Settle(w) PROVE Orderly'
<1>0. PICK c \in Checkouts : c = loc[w].c
  BY WorkerType DEF Settle
<1> DEFINE l == [loc[w] EXCEPT !.seen = attempt[c]]
<1>1. pc[w] = "settle" /\ SettlementFacts(w) /\ UNCHANGED <<key, attempt, orders>> /\ AttemptFacts(c)
  BY DEF Settle, Orderly
<1>2. pc[w] \in Settlement \ Buying
  BY <1>1 DEF Settlement, Buying
<1>3. CASE GoWith(w, "idle", NoLocals)
  BY <1>1, <1>2, <1>3, IdleFacts, SettlingGoes
<1>4. CASE attempt[c].order = 0 /\ attempt[c].stock /\ GoWith(w, "order", l)
  <2>1. pc'[w] = "order" /\ loc'[w] = l
    BY <1>4 DEF GoWith, TypeInv, WorkersOK
  <2>2. l.c = c /\ l.op = loc[w].op
    BY <1>0, WorkerType DEF Locals
  <2>3. c \notin Cod
    BY <1>0, <1>1 DEF CashInv, CashIsPlaced
  <2>4. \A i \in DOMAIN orders : orders[i].c # c
    <3>1. ASSUME NEW v \in Workers, pc[v] \in Buying PROVE FALSE
      <4>1. v \in Settlers /\ w \in Settlers
        BY <1>1, <1>2, <3>1, LabelSets DEF Orderly, SettlementFacts
      <4> QED BY <1>1, <3>1, <4>1 DEF OneSettler, Buying
    <3> QED BY <1>1, <1>4, <2>3, <3>1 DEF AttemptFacts
  <2>5. attempt[c] # NoAttempt
    BY <1>4 DEF NoAttempt
  <2>6. SettlementFacts(w)'
    <3> HIDE DEF l
    <3> QED BY <1>1, <1>2, <1>4, <2>1, <2>2, <2>4, <2>5 DEF SettlementFacts, Settlement, Buying, Dropping
  <2>7. "order" \in Settlement
    BY DEF Settlement
  <2> HIDE DEF l
  <2> QED BY <1>1, <1>2, <1>4, <2>6, <2>7, SettlingGoes
<1> QED BY <1>0, <1>2, <1>3, <1>4, AnsweredEnds DEF Settle

LEMMA CreatePaidOrderOrderly ==
  ASSUME TypeInv, CashInv, Orderly, OneSettler, NEW w \in Workers, CreatePaidOrder(w) PROVE Orderly'
<1>0. PICK c \in Checkouts : c = loc[w].c
  BY WorkerType DEF CreatePaidOrder
<1> DEFINE l == [loc[w] EXCEPT !.order = Len(orders')]
           label == IF Points[c] > 0 THEN "finalize" ELSE "attach"
           o == NewOrder(c, TRUE)
<1>1. /\ pc[w] = "order" /\ SettlementFacts(w) /\ UNCHANGED <<key, attempt>> /\ AttemptFacts(c)
      /\ orders' = Append(orders, o) /\ GoWith(w, label, l) /\ orders \in Seq(Orders)
  BY <1>0 DEF CreatePaidOrder, Orderly, TypeInv, DataOK
<1>2. pc'[w] = label /\ loc'[w] = l /\ \A v \in Workers : v # w => pc'[v] = pc[v] /\ loc'[v] = loc[v]
  BY <1>1 DEF GoWith, TypeInv, WorkersOK
<1>3. l.c = c /\ l.op = loc[w].op /\ l.order = Len(orders) + 1
  BY <1>0, <1>1, WorkerType DEF Locals
<1>4. o.c = c /\ o.points = (IF Points[c] > 0 THEN "reserved" ELSE "none")
  BY DEF NewOrder
<1>5. label \in Buying /\ label \in Settlement /\ pc[w] \in Settlement /\ label \notin Dropping
  BY <1>1 DEF Settlement, Buying, Dropping
<1>6. /\ DOMAIN orders \subseteq DOMAIN orders'
      /\ \A i \in DOMAIN orders : orders'[i] = orders[i]
      /\ \A i \in DOMAIN orders' : i \in DOMAIN orders \/ (i = Len(orders) + 1 /\ orders'[i] = o)
      /\ Len(orders) + 1 \in DOMAIN orders' /\ orders'[Len(orders) + 1] = o
  <2> HIDE DEF o
  <2> QED BY <1>1
<1>7. SettlementFacts(w)'
  <2>1. attempt[c].stock /\ attempt[c] # NoAttempt /\ w \in Settlers /\ loc[w].op # "place"
    BY <1>0, <1>1, <1>5 DEF SettlementFacts
  <2>2. label = "finalize" => Points[c] > 0 /\ o.points = "reserved"
    BY <1>4
  <2>3. label # "order" /\ label # "redeem"
    OBVIOUS
  <2> HIDE DEF l, label, o
  <2>4. label \in {"finalize", "attach"}
    BY DEF label
  <2>5. /\ pc'[w] \in {"finalize", "attach"} /\ loc'[w].c = c /\ loc'[w].op # "place"
        /\ loc'[w].order \in DOMAIN orders' /\ orders'[loc'[w].order] = o /\ attempt'[loc'[w].c] = attempt[c]
    BY <1>1, <1>2, <1>3, <1>6, <2>1, <2>4
  <2>6. pc'[w] = "finalize" => orders'[loc'[w].order].c = c /\ orders'[loc'[w].order].points = "reserved" /\ Points[c] > 0
    BY <1>2, <1>4, <2>2, <2>5
  <2> QED BY <2>1, <2>5, <2>6 DEF SettlementFacts, Settlement, Buying, Dropping
<1>8. AttemptFacts(c)'
  <2>1. pc'[w] \in Buying /\ loc'[w].c = c
    BY <1>2, <1>3, <1>5
  <2> QED BY <1>1, <2>1 DEF AttemptFacts
<1>9. \A i \in DOMAIN orders' : i \in DOMAIN orders \/ (orders'[i].c = c /\ pc[w] = "order" /\ i = Len(orders) + 1)
  BY <1>1, <1>4, <1>6
<1> HIDE DEF l, label, o
<1> QED BY <1>0, <1>1, <1>5, <1>6, <1>7, <1>8, <1>9, SettlingStep

LEMMA FinalizePointsOrderly ==
  ASSUME TypeInv, CashInv, Orderly, OneSettler, NEW w \in Workers, FinalizePoints(w) PROVE Orderly'
<1>0. PICK c \in Checkouts : c = loc[w].c
  BY WorkerType DEF FinalizePoints
<1>1. pc[w] = "finalize" /\ SettlementFacts(w) /\ UNCHANGED <<key, attempt, orders>> /\ pc[w] \in Settlement
  BY DEF FinalizePoints, Orderly, Settlement, Buying
<1>2. PICK label \in {"redeem", "attach"} : GoWith(w, label, loc[w])
  BY GoesWith DEF FinalizePoints
<1>3. pc'[w] = label /\ loc'[w] = loc[w] /\ \A v \in Workers : v # w => pc'[v] = pc[v] /\ loc'[v] = loc[v]
  BY <1>2 DEF GoWith, TypeInv, WorkersOK
<1>4. label \in Settlement /\ label \in Buying
  BY DEF Settlement, Buying
<1>5. SettlementFacts(w)'
  BY <1>1, <1>3 DEF SettlementFacts, Settlement, Buying, Dropping
<1>6. AttemptFacts(c)'
  BY <1>1, <1>3, <1>4, AttemptStays
<1> QED BY <1>0, <1>1, <1>2, <1>4, <1>5, <1>6, SettlingStep

LEMMA RedeemOrderly ==
  ASSUME TypeInv, CashInv, Orderly, OneSettler, NEW w \in Workers, Redeem(w) PROVE Orderly'
<1>0. PICK c \in Checkouts : c = loc[w].c
  BY WorkerType DEF Redeem
<1>1. /\ pc[w] = "redeem" /\ SettlementFacts(w) /\ UNCHANGED <<key, attempt>> /\ pc[w] \in Settlement
      /\ AttemptFacts(c)
  BY DEF Redeem, Orderly, Settlement, Buying
<1>2. GoWith(w, "attach", loc[w])
  BY GoesWith DEF Redeem
<1>3. pc'[w] = "attach" /\ loc'[w] = loc[w] /\ \A v \in Workers : v # w => pc'[v] = pc[v] /\ loc'[v] = loc[v]
  BY <1>2 DEF GoWith, TypeInv, WorkersOK
<1>4. DOMAIN orders' = DOMAIN orders /\ \A i \in DOMAIN orders : orders'[i].c = orders[i].c /\ orders'[i].paid = orders[i].paid
  BY RedeemOrders DEF Redeem, TypeInv, DataOK
<1>5. "attach" \in Settlement /\ "attach" \in Buying
  BY DEF Settlement, Buying
<1>6. SettlementFacts(w)'
  BY <1>1, <1>3, <1>4 DEF SettlementFacts, Settlement, Buying, Dropping
<1>7. AttemptFacts(c)'
  BY <1>1, <1>3, <1>4, <1>5, AttemptStays
<1> QED BY <1>0, <1>1, <1>2, <1>4, <1>5, <1>6, <1>7, SettlingStep

LEMMA AttachOrderOrderly ==
  ASSUME TypeInv, CashInv, Orderly, OneSettler, NEW w \in Workers, AttachOrder(w) PROVE Orderly'
<1>0. PICK c \in Checkouts : c = loc[w].c
  BY WorkerType DEF AttachOrder
<1> DEFINE a == Bought(attempt[c], loc[w].order)
<1>1. /\ pc[w] = "attach" /\ SettlementFacts(w) /\ UNCHANGED <<key, orders>> /\ pc[w] \in Settlement
      /\ AttemptFacts(c) /\ attempt \in [Checkouts -> Attempts] /\ Update(c, a) /\ loc[w].order \in DOMAIN orders
      /\ orders \in Seq(Orders) /\ Answered(w)
  BY <1>0 DEF AttachOrder, Orderly, Settlement, Buying, TypeInv, DataOK, SettlementFacts
<1>2. GoWith(w, "idle", NoLocals)
  BY <1>1, AnsweredEnds
<1>3. attempt[c] # NoAttempt /\ attempt[c].status # "absent"
  BY <1>0, <1>1 DEF SettlementFacts, Buying, AttemptFacts
<1>4. attempt'[c] = a /\ \A d \in Checkouts : d # c => attempt'[d] = attempt[d]
  BY <1>1, <1>3 DEF Update
<1>5. a.status = "order_created" /\ a.order = loc[w].order /\ ~a.stock /\ a.points # "reserved"
  BY <1>1 DEF Bought, Attempts
<1>6. AttemptFacts(c)'
  <2>1. loc[w].order # 0
    BY <1>1
  <2> HIDE DEF a
  <2> QED BY <1>1, <1>3, <1>4, <1>5, <2>1 DEF AttemptFacts
<1>7. SettlementFacts(w)'
  BY <1>2, IdleFacts
<1> QED BY <1>0, <1>1, <1>2, <1>3, <1>4, <1>6, <1>7, SettlingStep

LEMMA CompleteSteps ==
  ASSUME TypeInv, CashInv, Orderly, OneSettler, NEW w \in Workers, Complete(w) PROVE Orderly'
BY FindAttemptOrderly, SettleOrderly, CreatePaidOrderOrderly, FinalizePointsOrderly, RedeemOrderly, AttachOrderOrderly DEF Complete

LEMMA DropOrderly ==
  ASSUME TypeInv, CashInv, Orderly, OneSettler, NEW w \in Workers, Drop(w) PROVE Orderly'
<1>0. PICK c \in Checkouts : c = loc[w].c
  BY WorkerType DEF Drop
<1> DEFINE a == attempt[c]
           l == [loc[w] EXCEPT !.seen = a]
           label == IF a.stock THEN "dropStock" ELSE IF a.points = "reserved" THEN "dropPoints" ELSE "dropMark"
<1>1. /\ pc[w] = "drop" /\ SettlementFacts(w) /\ UNCHANGED <<key, attempt, orders>> /\ AttemptFacts(c)
      /\ pc[w] \in Settlement \ Buying
  BY DEF Drop, Orderly, Settlement, Buying
<1>2. CASE GoWith(w, "idle", NoLocals)
  BY <1>1, <1>2, IdleFacts, SettlingGoes
<1>3. CASE a.status # "absent" /\ GoWith(w, label, l)
  <2>1. pc'[w] = label /\ loc'[w] = l
    BY <1>3 DEF GoWith, TypeInv, WorkersOK
  <2>2. l.c = c /\ l.op = loc[w].op /\ l.seen = a
    BY <1>0, WorkerType DEF Locals
  <2>3. a # NoAttempt
    BY <1>3 DEF NoAttempt
  <2>4. /\ label \in Dropping /\ label \in Settlement /\ label \notin Buying
        /\ label # "order" /\ (label = "dropStock" => a.stock) /\ (label = "dropPoints" => a.points = "reserved")
    BY DEF Dropping, Settlement, Buying
  <2>5. w \in Settlers /\ loc[w].op # "place"
    BY <1>1 DEF SettlementFacts
  <2>6. SettlementFacts(w)'
    <3>1. loc'[w].c = c /\ loc'[w].op # "place" /\ loc'[w].seen = attempt'[c] /\ pc'[w] = label
      BY <1>1, <2>1, <2>2, <2>5
    <3> HIDE DEF l, label
    <3> QED BY <1>1, <2>3, <2>4, <2>5, <3>1 DEF SettlementFacts, Buying
  <2> HIDE DEF l, label
  <2> QED BY <1>1, <1>3, <2>4, <2>6, SettlingGoes
<1> QED BY <1>0, <1>1, <1>2, <1>3, AnsweredEnds DEF Drop

LEMMA DropsOrderly ==
  ASSUME TypeInv, CashInv, Orderly, OneSettler, NEW w \in Workers, DropStock(w) \/ DropPoints(w) PROVE Orderly'
<1>1. /\ pc[w] \in {"dropStock", "dropPoints"} /\ SettlementFacts(w) /\ UNCHANGED <<key, attempt, orders>>
      /\ pc[w] \in Settlement \ Buying
  BY DEF DropStock, DropPoints, Orderly, Settlement, Buying, Dropping
<1>2. PICK label \in {"dropPoints", "dropMark"} :
        GoWith(w, label, loc[w]) /\ (label = "dropPoints" => loc[w].seen.points = "reserved")
  BY GoesWith DEF DropStock, DropPoints
<1>3. pc'[w] = label /\ loc'[w] = loc[w]
  BY <1>2 DEF GoWith, TypeInv, WorkersOK
<1>4. SettlementFacts(w)'
  BY <1>1, <1>2, <1>3 DEF SettlementFacts, Settlement, Buying, Dropping
<1>5. label \in Settlement
  BY DEF Settlement, Dropping
<1> QED BY <1>1, <1>2, <1>4, <1>5, SettlingGoes

LEMMA DropMarkOrderly ==
  ASSUME TypeInv, CashInv, Orderly, OneSettler, NEW w \in Workers, DropMark(w) PROVE Orderly'
<1>0. PICK c \in Checkouts : c = loc[w].c
  BY WorkerType DEF DropMark
<1> DEFINE a == [attempt[c] EXCEPT !.stock = FALSE, !.points = IF Points[c] > 0 THEN "released" ELSE @]
<1>1. /\ pc[w] = "dropMark" /\ SettlementFacts(w) /\ UNCHANGED <<key, orders>> /\ pc[w] \in Settlement
      /\ AttemptFacts(c) /\ attempt \in [Checkouts -> Attempts] /\ Update(c, a)
      /\ GoWith(w, "dropStatus", loc[w])
  BY <1>0, GoesWith DEF DropMark, Orderly, Settlement, Dropping, TypeInv, DataOK
<1>2. pc'[w] = "dropStatus" /\ loc'[w] = loc[w] /\ \A v \in Workers : v # w => pc'[v] = pc[v] /\ loc'[v] = loc[v]
  BY <1>1 DEF GoWith, TypeInv, WorkersOK
<1>3. attempt[c] # NoAttempt /\ attempt[c].status # "absent"
  BY <1>0, <1>1 DEF SettlementFacts, Dropping, AttemptFacts
<1>4. attempt'[c] = a /\ \A d \in Checkouts : d # c => attempt'[d] = attempt[d]
  BY <1>1, <1>3 DEF Update
<1>5. a.status = attempt[c].status /\ a.order = attempt[c].order /\ ~a.stock /\ a.points # "reserved"
  <2>1. a.status = attempt[c].status /\ a.order = attempt[c].order /\ ~a.stock
    BY <1>1 DEF Attempts
  <2>2. a.points = IF Points[c] > 0 THEN "released" ELSE attempt[c].points
    BY <1>1 DEF Attempts
  <2> QED BY <1>1, <2>1, <2>2 DEF AttemptFacts
<1>6. AttemptFacts(c)'
  <2>1. \A v \in Workers : pc[v] \in Buying => pc'[v] = pc[v] /\ loc'[v] = loc[v]
    BY <1>1, <1>2 DEF Buying
  <2> HIDE DEF a
  <2> QED BY <1>1, <1>3, <1>4, <1>5, <2>1 DEF AttemptFacts
<1>7. SettlementFacts(w)'
  BY <1>1, <1>2 DEF SettlementFacts, Settlement, Buying, Dropping
<1>8. "dropStatus" \in Settlement
  BY DEF Settlement
<1> QED BY <1>0, <1>1, <1>3, <1>4, <1>6, <1>7, <1>8, SettlingStep

LEMMA DropStatusOrderly ==
  ASSUME TypeInv, CashInv, Orderly, OneSettler, NEW w \in Workers, DropStatus(w) PROVE Orderly'
<1>0. PICK c \in Checkouts : c = loc[w].c
  BY WorkerType DEF DropStatus
<1> DEFINE a == [attempt[c] EXCEPT !.status = IF loc[w].op = "cancel" THEN "cancelled" ELSE "failed"]
<1>1. /\ pc[w] = "dropStatus" /\ SettlementFacts(w) /\ UNCHANGED <<key, orders>> /\ pc[w] \in Settlement
      /\ AttemptFacts(c) /\ attempt \in [Checkouts -> Attempts] /\ Update(c, a) /\ Answered(w)
  BY <1>0 DEF DropStatus, Orderly, Settlement, TypeInv, DataOK
<1>2. GoWith(w, "idle", NoLocals)
  BY <1>1, AnsweredEnds
<1>3. \A v \in Workers : v # w => pc'[v] = pc[v] /\ loc'[v] = loc[v]
  BY <1>2 DEF GoWith, TypeInv, WorkersOK
<1>4. /\ attempt'[c] = attempt[c] \/ (attempt[c].status # "absent" /\ attempt'[c] = a)
      /\ \A d \in Checkouts : d # c => attempt'[d] = attempt[d]
  BY <1>1 DEF Update
<1>5. a.status # "absent" /\ a.order = attempt[c].order /\ a.stock = attempt[c].stock /\ a.points = attempt[c].points
  BY <1>1 DEF Attempts
<1>6. attempt[c] = NoAttempt => attempt'[c] = NoAttempt
  BY <1>4 DEF NoAttempt
<1>7. AttemptFacts(c)'
  <2>1. \A v \in Workers : pc[v] \in Buying => pc'[v] = pc[v] /\ loc'[v] = loc[v]
    BY <1>1, <1>3 DEF Buying
  <2>2. attempt[c].status # "absent" => attempt[c] # NoAttempt
    BY DEF NoAttempt
  <2> HIDE DEF a
  <2> QED BY <1>1, <1>4, <1>5, <2>1, <2>2 DEF AttemptFacts
<1>8. SettlementFacts(w)'
  BY <1>2, IdleFacts
<1> QED BY <1>0, <1>1, <1>2, <1>4, <1>6, <1>7, <1>8, SettlingStep

LEMMA NotCompleteSteps ==
  ASSUME TypeInv, CashInv, Orderly, OneSettler, NEW w \in Workers, NotComplete(w) PROVE Orderly'
BY DropOrderly, DropsOrderly, DropMarkOrderly, DropStatusOrderly DEF NotComplete

\* A request arrives.
LEMMA ArrivalSteps ==
  ASSUME TypeInv, Orderly, NEW w \in Workers,
         \/ \E c \in Checkouts : StartPlace(w, c) \/ StartVerify(w, c) \/ StartCancel(w, c)
         \/ \E e \in Events : StartWebhook(w, e)
  PROVE  Orderly'
<1>1. UNCHANGED <<key, attempt, orders>>
  BY DEF StartPlace, StartVerify, StartCancel, StartWebhook
<1>2. PICK label \in {"claim", "settle", "drop", "find"}, c \in Checkouts,
           op \in {"place", "verify", "cancel", "webhook"},
           event \in {"none", "payment.captured", "order.paid", "payment.failed"} :
        Begin(w, label, c, op, event) /\ (label # "claim" => w \in Settlers /\ op # "place")
  BY DEF StartPlace, StartVerify, StartCancel, StartWebhook, BeginSettling, Events
<1> DEFINE l == [NoLocals EXCEPT !.c = c, !.op = op, !.event = event]
<1>3. /\ pc[w] = "idle" /\ GoWith(w, label, l) /\ ~l.stock /\ ~l.points /\ l.i = 1
      /\ label # "claim" => w \in Settlers /\ l.op # "place"
  BY <1>2 DEF Begin, NoLocals
<1> HIDE DEF l
<1>4. pc'[w] = label /\ loc'[w] = l /\ \A v \in Workers : v # w => pc'[v] = pc[v] /\ loc'[v] = loc[v]
  BY <1>3 DEF GoWith, TypeInv, WorkersOK
<1>5. \A v \in Workers : PlacementFacts(v)' /\ SettlementFacts(v)'
  <2> SUFFICES ASSUME NEW v \in Workers PROVE PlacementFacts(v)' /\ SettlementFacts(v)'
    OBVIOUS
  <2>1. CASE v # w
    BY <1>1, <1>4, <2>1 DEF Orderly, PlacementFacts, SettlementFacts
  <2>2. CASE v = w
    BY <1>3, <1>4, <2>2 DEF PlacementFacts, SettlementFacts, Placement, BeforeOrder, Giving, Settlement, Buying, Dropping
  <2> QED BY <2>1, <2>2
<1>6. OneEach'
  BY <1>1, <1>4 DEF Orderly, OneEach, Placement, BeforeOrder, Giving
<1>7. \A d \in Checkouts : AttemptFacts(d)'
  <2>1. \A v \in Workers : pc[v] \in Buying => pc'[v] = pc[v] /\ loc'[v] = loc[v]
    BY <1>3, <1>4 DEF Buying
  <2> QED BY <1>1, <2>1, AttemptStays
<1> QED BY <1>5, <1>6, <1>7 DEF Orderly

LEMMA OrderlyUnchanged ==
  ASSUME Orderly, UNCHANGED <<key, attempt, orders, pc, loc>> PROVE Orderly'
BY DEF Orderly, OneEach, PlacementFacts, SettlementFacts, AttemptFacts

\* Without a fault the facts stay facts.
LEMMA OrderlySteps ==
  ASSUME TypeInv, CashInv, Orderly, OneSettler, faults = 0, [Next]_vars, faults' = 0 PROVE Orderly'
<1>1. ASSUME NEW w \in Workers, Continue(w) PROVE Orderly'
  BY <1>1, PlaceSteps, CompleteSteps, NotCompleteSteps DEF Continue
<1>2. ASSUME NEW w \in Workers,
             \/ \E c \in Checkouts : StartPlace(w, c) \/ StartVerify(w, c) \/ StartCancel(w, c)
             \/ \E e \in Events : StartWebhook(w, e)
      PROVE  Orderly'
  BY <1>2, ArrivalSteps
<1>3. ASSUME NEW w \in Workers, PlacingFails(w) \/ Abandons(w) PROVE Orderly'
  BY <1>3 DEF PlacingFails, Abandons, Fault
<1>4. CASE \/ \E e \in Events : Duplicate(e)
           \/ \E c \in Checkouts : Pay(c) \/ PaymentFails(c) \/ ExpireAttempt(c)
  <2>1. ASSUME NEW e \in Events, Duplicate(e) PROVE UNCHANGED <<key, attempt, orders, pc, loc>>
    BY <2>1 DEF Duplicate
  <2>2. ASSUME NEW c \in Checkouts, Pay(c) \/ PaymentFails(c) PROVE UNCHANGED <<key, attempt, orders, pc, loc>>
    BY <2>2 DEF Pay, PaymentFails, appVars
  <2>3. ASSUME NEW c \in Checkouts, ExpireAttempt(c) PROVE FALSE
    BY <2>3 DEF ExpireAttempt, Fault
  <2> QED BY <1>4, <2>1, <2>2, <2>3, OrderlyUnchanged
<1>5. CASE UNCHANGED vars
  BY <1>5, OrderlyUnchanged DEF vars
<1> QED BY <1>1, <1>2, <1>3, <1>4, <1>5 DEF Next

LEMMA OrderlyAtFirst == Init => Orderly
<1> SUFFICES ASSUME Init PROVE Orderly
  OBVIOUS
<1>1. \A w \in Workers : pc[w] = "idle"
  BY DEF Init
<1>2. orders = <<>> /\ \A c \in Checkouts : attempt[c] = NoAttempt
  BY DEF Init
<1>3. OneEach
  BY <1>1, <1>2, LabelSets DEF OneEach
<1>4. \A w \in Workers : PlacementFacts(w) /\ SettlementFacts(w)
  BY <1>1 DEF PlacementFacts, SettlementFacts, Placement, BeforeOrder, Giving, Settlement, Buying, Dropping
<1>5. \A c \in Checkouts : AttemptFacts(c)
  BY <1>2 DEF AttemptFacts, NoAttempt
<1> QED BY <1>3, <1>4, <1>5 DEF Orderly

-----------------------------------------------------------------------------
(* How many units the first items of a cart are.                           *)

LEMMA UnitsIn ==
  ASSUME NEW s \in Seq(Products), NEW p \in Products, NEW i \in 0 .. Len(s)
  PROVE  Units(SubSeq(s, 1, i), p) = Cardinality({k \in 1 .. i : s[k] = p})
<1>1. DOMAIN SubSeq(s, 1, i) = 1 .. i /\ \A k \in 1 .. i : SubSeq(s, 1, i)[k] = s[k]
  OBVIOUS
<1>2. {k \in DOMAIN SubSeq(s, 1, i) : SubSeq(s, 1, i)[k] = p} = {k \in 1 .. i : s[k] = p}
  BY <1>1
<1> QED BY <1>2 DEF Units

LEMMA UnitsOfNone ==
  ASSUME NEW s \in Seq(Products), NEW p \in Products
  PROVE  Units(SubSeq(s, 1, 0), p) = 0
<1>1. {k \in 1 .. 0 : s[k] = p} = {}
  OBVIOUS
<1> QED BY <1>1, UnitsIn, FS_EmptySet

LEMMA UnitsOfAll ==
  ASSUME NEW s \in Seq(Products), NEW p \in Products
  PROVE  Units(SubSeq(s, 1, Len(s)), p) = Units(s, p)
<1>1. DOMAIN s = 1 .. Len(s) /\ Len(s) \in 0 .. Len(s)
  OBVIOUS
<1> QED BY <1>1, UnitsIn DEF Units

LEMMA UnitsOfOneMore ==
  ASSUME NEW s \in Seq(Products), NEW p \in Products, NEW i \in 1 .. Len(s)
  PROVE  Units(SubSeq(s, 1, i), p) = Units(SubSeq(s, 1, i - 1), p) + IF s[i] = p THEN 1 ELSE 0
<1> DEFINE A == {k \in 1 .. (i - 1) : s[k] = p}
           B == {k \in 1 .. i : s[k] = p}
<1>1. Units(SubSeq(s, 1, i), p) = Cardinality(B) /\ Units(SubSeq(s, 1, i - 1), p) = Cardinality(A)
  BY UnitsIn
<1>2. IsFiniteSet(A) /\ i \notin A
  <2>1. IsFiniteSet(1 .. (i - 1))
    BY FS_Interval
  <2> QED BY <2>1, FS_Subset
<1>3. CASE s[i] = p
  <2>1. B = A \cup {i}
    BY <1>3
  <2> HIDE DEF A, B
  <2>2. Cardinality(A \cup {i}) = Cardinality(A) + 1
    BY <1>2, FS_AddElement
  <2> QED BY <1>1, <1>3, <2>1, <2>2
<1>4. CASE s[i] # p
  <2>1. B = A
    BY <1>4
  <2>2. Cardinality(A) \in Nat
    BY <1>2, FS_CardinalityType
  <2> HIDE DEF A, B
  <2> QED BY <1>1, <1>4, <2>1, <2>2
<1> QED BY <1>3, <1>4

-----------------------------------------------------------------------------
(* What is on its way: reserved and not yet stored, or stored twice.       *)

UnitsOf(c, p) == Units(Items[c], p)

\* Units taken from the shelf that no attempt and no order has yet; less than none while
\* both an attempt and an order, or the shelf again, have them.
Carries(label, l, p) ==
  IF label \in {"item", "shortage"} THEN Units(SubSeq(Items[l.c], 1, l.i - 1), p)
  ELSE IF label = "create" THEN UnitsOf(l.c, p)
  ELSE IF label \in Buying \/ (label \in {"dropPoints", "dropMark"} /\ l.seen.stock) THEN -UnitsOf(l.c, p)
  ELSE 0

\* The same of reserved points.
Promises(label, l) ==
  IF label \in {"item", "shortage", "create", "giveStock", "givePoints"} /\ l.points THEN Points[l.c]
  ELSE IF label \in {"finalize", "attach"} \/ (label = "dropMark" /\ l.seen.points = "reserved") THEN -Points[l.c]
  ELSE IF label = "redeem" THEN -(2 * Points[l.c])
  ELSE 0

\* Points taken from the customer for an order that does not say so yet.
Takes(label, l) == IF label = "redeem" THEN Points[l.c] ELSE 0

Carried(p) == [w \in Workers |-> Carries(pc[w], loc[w], p)]
Promised == [w \in Workers |-> Promises(pc[w], loc[w])]
Taken == [w \in Workers |-> Takes(pc[w], loc[w])]

InHands(p) == SumFunctionOnSet(Carried(p), Workers)
InPromise == SumFunctionOnSet(Promised, Workers)
InTaking == SumFunctionOnSet(Taken, Workers)

Holds(a, c, p) == IF a.stock THEN UnitsOf(c, p) ELSE 0
Owes(a, c) == IF a.points = "reserved" THEN Points[c] ELSE 0

UnitsAddUp == \A p \in Products : stock[p] + Held(p) + Sold(p) + InHands(p) = Stock[p]
PointsAddUp ==
  /\ reserved = OfAttempts("reserved") + OfOrders("reserved") + InPromise
  /\ points + OfOrders("redeemed") + InTaking = Balance

\* What is counted are numbers.
LEMMA CartType ==
  ASSUME NEW c \in Checkouts, NEW p \in Products
  PROVE  UnitsOf(c, p) \in Nat /\ Points[c] \in Nat
BY ItemsType, UnitsType DEF UnitsOf

LEMMA WorkTypes ==
  ASSUME TypeInv, NEW w \in Workers, NEW p \in Products
  PROVE  Carries(pc[w], loc[w], p) \in Int
<1>1. pc[w] # "idle" => loc[w].c \in Checkouts
  BY WorkerType
<1>2. loc[w] \in Locals /\ (pc[w] \in {"item", "shortage"} => loc[w].i - 1 \in 0 .. Len(Items[loc[w].c]))
  <2>1. pc[w] \in AtItem => loc[w].i <= Len(Items[loc[w].c])
    BY DEF TypeInv, Working
  <2> QED BY <1>1, <2>1, WorkerType, ItemsType DEF Locals, AtItem
<1>3. pc[w] \in {"item", "shortage"} => Carries(pc[w], loc[w], p) \in Nat
  <2> SUFFICES ASSUME pc[w] \in {"item", "shortage"} PROVE Carries(pc[w], loc[w], p) \in Nat
    OBVIOUS
  <2>1. Items[loc[w].c] \in Seq(Products)
    BY <1>1, ItemsType
  <2>2. SubSeq(Items[loc[w].c], 1, loc[w].i - 1) \in Seq(Products)
    BY <1>2, <2>1
  <2> QED BY <2>2, UnitsType DEF Carries
<1>4. pc[w] # "idle" => UnitsOf(loc[w].c, p) \in Nat
  BY <1>1, CartType
<1> QED BY <1>3, <1>4 DEF Carries, Buying

LEMMA PromiseTypes ==
  ASSUME TypeInv, NEW w \in Workers
  PROVE  Promises(pc[w], loc[w]) \in Int /\ Takes(pc[w], loc[w]) \in Int
<1>1. pc[w] # "idle" => Points[loc[w].c] \in Nat
  BY WorkerType, ItemsType
<1> QED BY <1>1 DEF Promises, Takes

WorkNumbers ==
  \A w \in Workers :
    /\ \A p \in Products : Carries(pc[w], loc[w], p) \in Int
    /\ Promises(pc[w], loc[w]) \in Int /\ Takes(pc[w], loc[w]) \in Int

LEMMA WorkIsNumbers == TypeInv => WorkNumbers
BY WorkTypes, PromiseTypes DEF WorkNumbers

\* A worker moves: the sums over workers change by its part.
LEMMA WorkSums ==
  ASSUME TypeInv, TypeInv', NEW w \in Workers, NEW label, NEW l, GoWith(w, label, l)
  PROVE  /\ \A p \in Products :
              /\ InHands(p) \in Int
              /\ InHands(p)' = InHands(p) - Carries(pc[w], loc[w], p) + Carries(label, l, p)
              /\ Carries(pc[w], loc[w], p) \in Int /\ Carries(label, l, p) \in Int
         /\ InPromise \in Int /\ Promises(pc[w], loc[w]) \in Int /\ Promises(label, l) \in Int
         /\ InPromise' = InPromise - Promises(pc[w], loc[w]) + Promises(label, l)
         /\ InTaking \in Int /\ Takes(pc[w], loc[w]) \in Int /\ Takes(label, l) \in Int
         /\ InTaking' = InTaking - Takes(pc[w], loc[w]) + Takes(label, l)
<1>1. pc'[w] = label /\ loc'[w] = l /\ \A v \in Workers : v # w => pc'[v] = pc[v] /\ loc'[v] = loc[v]
  BY DEF GoWith, TypeInv, WorkersOK
<1>2. IsFiniteSet(Workers)
  BY CheckoutAssumption
<1>3. ASSUME NEW p \in Products
      PROVE  /\ InHands(p) \in Int
             /\ InHands(p)' = InHands(p) - Carries(pc[w], loc[w], p) + Carries(label, l, p)
             /\ Carries(pc[w], loc[w], p) \in Int /\ Carries(label, l, p) \in Int
  <2>1. \A v \in Workers : Carried(p)[v] = Carries(pc[v], loc[v], p) /\ Carried(p)'[v] = Carries(pc'[v], loc'[v], p)
    BY DEF Carried
  <2>2. \A v \in Workers : Carries(pc[v], loc[v], p) \in Int
    BY WorkTypes
  <2>3. \A v \in Workers : Carries(pc'[v], loc'[v], p) \in Int
    <3>1. (TypeInv => WorkNumbers)'
      BY WorkIsNumbers, PTL
    <3> QED BY <3>1 DEF WorkNumbers
  <2>4. \A v \in Workers : v # w => Carried(p)'[v] = Carried(p)[v]
    BY <1>1, <2>1
  <2> HIDE DEF Carried, Carries
  <2>5. SumFunctionOnSet(Carried(p)', Workers) = SumFunctionOnSet(Carried(p), Workers) - Carried(p)[w] + Carried(p)'[w]
    BY <1>2, <2>1, <2>2, <2>3, <2>4, SumChanged
  <2>6. SumFunctionOnSet(Carried(p), Workers) \in Int
    BY <1>2, <2>1, <2>2, SumIsInt
  <2> QED BY <1>1, <2>1, <2>2, <2>3, <2>5, <2>6 DEF InHands
<1>4. /\ InPromise \in Int /\ Promises(pc[w], loc[w]) \in Int /\ Promises(label, l) \in Int
      /\ InPromise' = InPromise - Promises(pc[w], loc[w]) + Promises(label, l)
      /\ InTaking \in Int /\ Takes(pc[w], loc[w]) \in Int /\ Takes(label, l) \in Int
      /\ InTaking' = InTaking - Takes(pc[w], loc[w]) + Takes(label, l)
  <2>1. \A v \in Workers : /\ Promised[v] = Promises(pc[v], loc[v]) /\ Promised'[v] = Promises(pc'[v], loc'[v])
                           /\ Taken[v] = Takes(pc[v], loc[v]) /\ Taken'[v] = Takes(pc'[v], loc'[v])
    BY DEF Promised, Taken
  <2>2. \A v \in Workers : Promises(pc[v], loc[v]) \in Int /\ Takes(pc[v], loc[v]) \in Int
    BY PromiseTypes
  <2>3. \A v \in Workers : Promises(pc'[v], loc'[v]) \in Int /\ Takes(pc'[v], loc'[v]) \in Int
    <3>1. (TypeInv => WorkNumbers)'
      BY WorkIsNumbers, PTL
    <3> QED BY <3>1 DEF WorkNumbers
  <2>4. \A v \in Workers : v # w => Promised'[v] = Promised[v] /\ Taken'[v] = Taken[v]
    BY <1>1, <2>1
  <2>5. /\ SumFunctionOnSet(Promised', Workers) = SumFunctionOnSet(Promised, Workers) - Promised[w] + Promised'[w]
        /\ SumFunctionOnSet(Promised, Workers) \in Int
    BY <1>2, <2>1, <2>2, <2>3, <2>4, SumChanged, SumIsInt
  <2>6. /\ SumFunctionOnSet(Taken', Workers) = SumFunctionOnSet(Taken, Workers) - Taken[w] + Taken'[w]
        /\ SumFunctionOnSet(Taken, Workers) \in Int
    BY <1>2, <2>1, <2>2, <2>3, <2>4, SumChanged, SumIsInt
  <2> QED BY <1>1, <2>1, <2>2, <2>3, <2>5, <2>6 DEF InPromise, InTaking
<1> QED BY <1>3, <1>4

AttemptNumbers ==
  \A c \in Checkouts :
    /\ \A p \in Products : Holds(attempt[c], c, p) \in Nat
    /\ Owes(attempt[c], c) \in Nat

LEMMA AttemptIsNumbers == TypeInv => AttemptNumbers
BY CartType, ItemsType DEF AttemptNumbers, Holds, Owes

\* An attempt changes: the sums over attempts change by its part.
LEMMA AttemptSums ==
  ASSUME TypeInv, TypeInv', NEW c \in Checkouts, \A d \in Checkouts : d # c => attempt'[d] = attempt[d]
  PROVE  /\ \A p \in Products :
              /\ Held(p) \in Int
              /\ Held(p)' = Held(p) - Holds(attempt[c], c, p) + Holds(attempt'[c], c, p)
              /\ Holds(attempt[c], c, p) \in Int /\ Holds(attempt'[c], c, p) \in Int
         /\ OfAttempts("reserved") \in Int /\ Owes(attempt[c], c) \in Int /\ Owes(attempt'[c], c) \in Int
         /\ OfAttempts("reserved")' = OfAttempts("reserved") - Owes(attempt[c], c) + Owes(attempt'[c], c)
<1>1. IsFiniteSet(Checkouts)
  BY CheckoutAssumption
<1>2. AttemptNumbers
  BY AttemptIsNumbers
<1>3. \A d \in Checkouts :
        /\ \A p \in Products : Holds(attempt'[d], d, p) \in Nat
        /\ Owes(attempt'[d], d) \in Nat
  <2>1. (TypeInv => AttemptNumbers)'
    BY AttemptIsNumbers, PTL
  <2> QED BY <2>1 DEF AttemptNumbers
<1>4. ASSUME NEW p \in Products
      PROVE  /\ Held(p) \in Int
             /\ Held(p)' = Held(p) - Holds(attempt[c], c, p) + Holds(attempt'[c], c, p)
             /\ Holds(attempt[c], c, p) \in Int /\ Holds(attempt'[c], c, p) \in Int
  <2>1. \A d \in Checkouts : HeldFor(p)[d] = Holds(attempt[d], d, p) /\ HeldFor(p)'[d] = Holds(attempt'[d], d, p)
    BY DEF HeldFor, Holds, UnitsOf
  <2>2. \A d \in Checkouts : HeldFor(p)[d] \in Int /\ HeldFor(p)'[d] \in Int
    BY <1>2, <1>3, <2>1 DEF AttemptNumbers
  <2>3. \A d \in Checkouts : d # c => HeldFor(p)'[d] = HeldFor(p)[d]
    BY <2>1
  <2> HIDE DEF HeldFor
  <2>4. /\ SumFunctionOnSet(HeldFor(p)', Checkouts) = SumFunctionOnSet(HeldFor(p), Checkouts) - HeldFor(p)[c] + HeldFor(p)'[c]
        /\ SumFunctionOnSet(HeldFor(p), Checkouts) \in Int
    BY <1>1, <2>2, <2>3, SumChanged, SumIsInt
  <2> QED BY <2>1, <2>2, <2>4 DEF Held
<1>5. /\ OfAttempts("reserved") \in Int /\ Owes(attempt[c], c) \in Int /\ Owes(attempt'[c], c) \in Int
      /\ OfAttempts("reserved")' = OfAttempts("reserved") - Owes(attempt[c], c) + Owes(attempt'[c], c)
  <2> DEFINE f == PointsFor("reserved")
  <2>1. \A d \in Checkouts : f[d] = Owes(attempt[d], d) /\ f'[d] = Owes(attempt'[d], d)
    BY DEF PointsFor, Owes
  <2>2. \A d \in Checkouts : f[d] \in Int /\ f'[d] \in Int
    BY <1>2, <1>3, <2>1 DEF AttemptNumbers
  <2>3. \A d \in Checkouts : d # c => f'[d] = f[d]
    BY <2>1
  <2>4. OfAttempts("reserved") = SumFunctionOnSet(f, Checkouts) /\ OfAttempts("reserved")' = SumFunctionOnSet(f', Checkouts)
    BY DEF OfAttempts
  <2> HIDE DEF f
  <2>5. /\ SumFunctionOnSet(f', Checkouts) = SumFunctionOnSet(f, Checkouts) - f[c] + f'[c]
        /\ SumFunctionOnSet(f, Checkouts) \in Int
    BY <1>1, <2>2, <2>3, SumChanged, SumIsInt
  <2> QED BY <2>1, <2>2, <2>4, <2>5
<1> QED BY <1>4, <1>5

\* What the orders say are numbers, and so are their sums.
LEMMA OrderNumbers ==
  ASSUME TypeInv
  PROVE  /\ IsFiniteSet(DOMAIN orders) /\ DOMAIN orders = 1 .. Len(orders) /\ Len(orders) \in Nat
         /\ \A i \in DOMAIN orders : orders[i] \in Orders
         /\ \A p \in Products : \A i \in DOMAIN orders : SoldBy(p)[i] \in Nat
         /\ \A x \in {"reserved", "redeemed"} : \A i \in DOMAIN orders : PointsIn(x)[i] \in Nat
         /\ \A p \in Products : Sold(p) \in Nat
         /\ OfOrders("reserved") \in Nat /\ OfOrders("redeemed") \in Nat
<1>1. DOMAIN orders = 1 .. Len(orders) /\ Len(orders) \in Nat /\ \A i \in DOMAIN orders : orders[i] \in Orders
  BY DEF TypeInv, DataOK
<1>2. IsFiniteSet(DOMAIN orders)
  BY <1>1, FS_Interval
<1>3. \A i \in DOMAIN orders : orders[i].c \in Checkouts
  BY <1>1 DEF Orders
<1>4. \A p \in Products : \A i \in DOMAIN orders : SoldBy(p)[i] \in Nat
  BY <1>3, CartType DEF SoldBy, UnitsOf
<1>5. \A x \in {"reserved", "redeemed"} : \A i \in DOMAIN orders : PointsIn(x)[i] \in Nat
  BY <1>3, ItemsType DEF PointsIn
<1>6. \A p \in Products : Sold(p) \in Nat
  BY <1>2, <1>4, SumIsNat DEF Sold
<1>7. \A x \in {"reserved", "redeemed"} : OfOrders(x) \in Nat
  BY <1>2, <1>5, SumIsNat DEF OfOrders
<1> QED BY <1>1, <1>2, <1>4, <1>5, <1>6, <1>7

\* The same orders, the same sums.
LEMMA OrdersSame ==
  ASSUME TypeInv, orders' = orders
  PROVE  /\ \A p \in Products : Sold(p)' = Sold(p)
         /\ OfOrders("reserved")' = OfOrders("reserved") /\ OfOrders("redeemed")' = OfOrders("redeemed")
BY DEF Sold, SoldBy, OfOrders, PointsIn

\* An order more: what it sold and the points reserved for it are added.
LEMMA OrderAdded ==
  ASSUME TypeInv, TypeInv', NEW c \in Checkouts, NEW paid \in BOOLEAN, orders' = Append(orders, NewOrder(c, paid))
  PROVE  /\ \A p \in Products : Sold(p)' = Sold(p) + UnitsOf(c, p)
         /\ OfOrders("reserved")' = OfOrders("reserved") + Points[c]
         /\ OfOrders("redeemed")' = OfOrders("redeemed")
<1> DEFINE n == Len(orders) + 1
           o == NewOrder(c, paid)
<1>1. /\ \A i \in DOMAIN orders : orders'[i] = orders[i]
      /\ DOMAIN orders' = DOMAIN orders \cup {n} /\ n \notin DOMAIN orders
      /\ orders'[n] = o
  <2> HIDE DEF o
  <2>1. orders \in Seq(Orders) /\ orders' = Append(orders, o)
    BY DEF TypeInv, DataOK, o
  <2> QED BY <2>1
<1>2. o.c = c /\ o.stock /\ o.points = IF Points[c] > 0 THEN "reserved" ELSE "none"
  BY DEF NewOrder
<1> DEFINE D == DOMAIN orders
<1> HIDE DEF n, o, D
<1>3. IsFiniteSet(D) /\ D = DOMAIN orders /\ DOMAIN orders' = D \cup {n} /\ n \notin D
  BY <1>1, OrderNumbers DEF D
<1>4. ASSUME NEW p \in Products PROVE Sold(p)' = Sold(p) + UnitsOf(c, p)
  <2> DEFINE f == SoldBy(p)
             g == SoldBy(p)'
  <2>1. Sold(p) = SumFunctionOnSet(f, D) /\ Sold(p)' = SumFunctionOnSet(g, D \cup {n})
    BY <1>3 DEF Sold
  <2>2. \A i \in D : f[i] \in Int /\ g[i] = f[i]
    BY <1>1, <1>3, OrderNumbers DEF SoldBy
  <2>3. g[n] = UnitsOf(c, p) /\ UnitsOf(c, p) \in Int
    BY <1>1, <1>2, <1>3, CartType DEF SoldBy, UnitsOf
  <2> HIDE DEF f, g
  <2>4. \A i \in D \cup {n} : g[i] \in Int
    BY <2>2, <2>3
  <2>5. SumFunctionOnSet(g, D \cup {n}) = SumFunctionOnSet(g, D) + g[n]
    BY <1>3, <2>4, SumWith
  <2>6. SumFunctionOnSet(g, D) = SumFunctionOnSet(f, D)
    BY <1>3, <2>2, SumOfSame
  <2>7. SumFunctionOnSet(f, D) \in Int
    BY <1>3, <2>2, SumIsInt
  <2> QED BY <2>1, <2>3, <2>5, <2>6, <2>7
<1>5. ASSUME NEW x \in {"reserved", "redeemed"}
      PROVE  OfOrders(x)' = OfOrders(x) + (IF x = "reserved" THEN Points[c] ELSE 0)
  <2> DEFINE f == PointsIn(x)
             g == PointsIn(x)'
  <2>1. OfOrders(x) = SumFunctionOnSet(f, D) /\ OfOrders(x)' = SumFunctionOnSet(g, D \cup {n})
    BY <1>3 DEF OfOrders
  <2>2. \A i \in D : f[i] \in Int /\ g[i] = f[i]
    BY <1>1, <1>3, OrderNumbers DEF PointsIn
  <2>3. g[n] = (IF x = "reserved" THEN Points[c] ELSE 0) /\ Points[c] \in Nat
    <3>1. g[n] = IF o.points = x THEN Points[c] ELSE 0
      BY <1>1, <1>2, <1>3 DEF PointsIn
    <3> QED BY <1>2, <3>1, ItemsType
  <2> HIDE DEF f, g
  <2>4. \A i \in D \cup {n} : g[i] \in Int
    BY <2>2, <2>3
  <2>5. SumFunctionOnSet(g, D \cup {n}) = SumFunctionOnSet(g, D) + g[n]
    BY <1>3, <2>4, SumWith
  <2>6. SumFunctionOnSet(g, D) = SumFunctionOnSet(f, D)
    BY <1>3, <2>2, SumOfSame
  <2> QED BY <2>1, <2>3, <2>5, <2>6
<1>6. OfOrders("redeemed")' = OfOrders("redeemed")
  BY <1>5, OrderNumbers
<1> QED BY <1>4, <1>5, <1>6

\* An order whose points are redeemed.
LEMMA OrderRedeemed ==
  ASSUME TypeInv, TypeInv', NEW n \in DOMAIN orders, orders' = [orders EXCEPT ![n].points = "redeemed"],
         orders[n].points = "reserved"
  PROVE  /\ \A p \in Products : Sold(p)' = Sold(p)
         /\ OfOrders("reserved")' = OfOrders("reserved") - Points[orders[n].c]
         /\ OfOrders("redeemed")' = OfOrders("redeemed") + Points[orders[n].c]
<1> DEFINE D == DOMAIN orders
<1>1. /\ DOMAIN orders' = D /\ IsFiniteSet(D) /\ orders[n] \in Orders
      /\ \A i \in D : orders'[i] = IF i = n THEN [orders[n] EXCEPT !.points = "redeemed"] ELSE orders[i]
      /\ Points[orders[n].c] \in Nat
  BY OrderNumbers, ItemsType DEF Orders
<1>2. /\ \A i \in D : orders'[i].c = orders[i].c /\ orders'[i].stock = orders[i].stock
      /\ \A i \in D : i # n => orders'[i].points = orders[i].points
      /\ orders'[n].points = "redeemed" /\ n \in D
  BY <1>1 DEF Orders
<1>3. ASSUME NEW p \in Products PROVE Sold(p)' = Sold(p)
  <2>1. SoldBy(p)' = SoldBy(p)
    BY <1>1, <1>2 DEF SoldBy
  <2> QED BY <1>1, <2>1 DEF Sold
<1>4. ASSUME NEW x \in {"reserved", "redeemed"}
      PROVE  OfOrders(x)' = OfOrders(x) + (IF x = "reserved" THEN -Points[orders[n].c] ELSE Points[orders[n].c])
  <2> DEFINE f == PointsIn(x)
             g == PointsIn(x)'
  <2>1. OfOrders(x) = SumFunctionOnSet(f, D) /\ OfOrders(x)' = SumFunctionOnSet(g, D)
    BY <1>1 DEF OfOrders
  <2>2. \A i \in D : f[i] \in Int /\ (i # n => g[i] = f[i])
    BY <1>1, <1>2, OrderNumbers DEF PointsIn
  <2>3. /\ f[n] = IF x = "reserved" THEN Points[orders[n].c] ELSE 0
        /\ g[n] = IF x = "reserved" THEN 0 ELSE Points[orders[n].c]
    BY <1>1, <1>2 DEF PointsIn
  <2> HIDE DEF f, g, D
  <2>4. \A i \in D : f[i] \in Int /\ g[i] \in Int
    BY <1>1, <2>2, <2>3
  <2>5. SumFunctionOnSet(g, D) = SumFunctionOnSet(f, D) - f[n] + g[n]
    BY <1>1, <1>2, <2>2, <2>4, SumChanged
  <2>6. SumFunctionOnSet(f, D) \in Int
    BY <1>1, <2>4, SumIsInt
  <2> QED BY <1>1, <2>1, <2>3, <2>5, <2>6
<1>5. OfOrders("reserved") \in Nat /\ OfOrders("redeemed") \in Nat
  BY OrderNumbers
<1> QED BY <1>1, <1>3, <1>4, <1>5

OrderSums ==
  /\ \A p \in Products : Sold(p) \in Nat
  /\ OfOrders("reserved") \in Nat /\ OfOrders("redeemed") \in Nat

LEMMA OrdersAreNumbers == TypeInv => OrderSums
BY OrderNumbers DEF OrderSums

\* A step keeps the sums when what it moves is in one place less and in another more.
StillAddsUp == (UnitsAddUp => UnitsAddUp') /\ (PointsAddUp => PointsAddUp')

\* Units move: from one place to another, none lost.
LEMMA UnitsMoved ==
  ASSUME TypeInv, TypeInv', NEW w \in Workers, NEW label, NEW l, GoWith(w, label, l),
         NEW c \in Checkouts, \A d \in Checkouts : d # c => attempt'[d] = attempt[d],
         \A p \in Products :
           stock'[p] + Holds(attempt'[c], c, p) + Sold(p)' + Carries(label, l, p)
             = stock[p] + Holds(attempt[c], c, p) + Sold(p) + Carries(pc[w], loc[w], p)
  PROVE  UnitsAddUp => UnitsAddUp'
<1>1. OrderSums /\ OrderSums'
  <2>1. (TypeInv => OrderSums)'
    BY OrdersAreNumbers, PTL
  <2> QED BY <2>1, OrdersAreNumbers
<1>2. stock \in [Products -> Nat] /\ stock' \in [Products -> Nat]
  BY DEF TypeInv, DataOK
<1>3. ASSUME NEW p \in Products
      PROVE  stock'[p] + Held(p)' + Sold(p)' + InHands(p)' = stock[p] + Held(p) + Sold(p) + InHands(p)
  <2>1. /\ Held(p) \in Int
        /\ Held(p)' = Held(p) - Holds(attempt[c], c, p) + Holds(attempt'[c], c, p)
        /\ Holds(attempt[c], c, p) \in Int /\ Holds(attempt'[c], c, p) \in Int
    BY AttemptSums
  <2>2. /\ InHands(p) \in Int
        /\ InHands(p)' = InHands(p) - Carries(pc[w], loc[w], p) + Carries(label, l, p)
        /\ Carries(pc[w], loc[w], p) \in Int /\ Carries(label, l, p) \in Int
    BY WorkSums
  <2>3. Sold(p) \in Nat /\ Sold(p)' \in Nat
    BY <1>1 DEF OrderSums
  <2>4. stock[p] \in Nat /\ stock'[p] \in Nat
    BY <1>2
  <2>5. stock'[p] + Holds(attempt'[c], c, p) + Sold(p)' + Carries(label, l, p)
             = stock[p] + Holds(attempt[c], c, p) + Sold(p) + Carries(pc[w], loc[w], p)
    OBVIOUS
  <2> QED BY <2>1, <2>2, <2>3, <2>4, <2>5
<1> QED
  BY <1>3 DEF UnitsAddUp

\* Units and points move.
LEMMA Moved ==
  ASSUME TypeInv, TypeInv', NEW w \in Workers, NEW label, NEW l, GoWith(w, label, l),
         NEW c \in Checkouts, \A d \in Checkouts : d # c => attempt'[d] = attempt[d],
         \A p \in Products :
           stock'[p] + Holds(attempt'[c], c, p) + Sold(p)' + Carries(label, l, p)
             = stock[p] + Holds(attempt[c], c, p) + Sold(p) + Carries(pc[w], loc[w], p),
         PointsAddUp =>
           reserved' - Owes(attempt'[c], c) - OfOrders("reserved")' - Promises(label, l)
             = reserved - Owes(attempt[c], c) - OfOrders("reserved") - Promises(pc[w], loc[w]),
         points' + OfOrders("redeemed")' + Takes(label, l)
           = points + OfOrders("redeemed") + Takes(pc[w], loc[w])
  PROVE  StillAddsUp
<1>1. OrderSums /\ OrderSums'
  <2>1. (TypeInv => OrderSums)'
    BY OrdersAreNumbers, PTL
  <2> QED BY <2>1, OrdersAreNumbers
<1>2. /\ stock \in [Products -> Nat] /\ stock' \in [Products -> Nat]
      /\ points \in Nat /\ points' \in Nat /\ reserved \in Nat /\ reserved' \in Nat
  BY DEF TypeInv, DataOK
<1>4. UnitsAddUp => UnitsAddUp'
  BY UnitsMoved
<1>5. ASSUME PointsAddUp PROVE PointsAddUp'
  <2>1. /\ OfAttempts("reserved") \in Int /\ Owes(attempt[c], c) \in Int /\ Owes(attempt'[c], c) \in Int
        /\ OfAttempts("reserved")' = OfAttempts("reserved") - Owes(attempt[c], c) + Owes(attempt'[c], c)
    BY AttemptSums
  <2>2. /\ InPromise \in Int /\ Promises(pc[w], loc[w]) \in Int /\ Promises(label, l) \in Int
        /\ InPromise' = InPromise - Promises(pc[w], loc[w]) + Promises(label, l)
        /\ InTaking \in Int /\ Takes(pc[w], loc[w]) \in Int /\ Takes(label, l) \in Int
        /\ InTaking' = InTaking - Takes(pc[w], loc[w]) + Takes(label, l)
    BY WorkSums
  <2>3. /\ OfOrders("reserved") \in Nat /\ OfOrders("reserved")' \in Nat
        /\ OfOrders("redeemed") \in Nat /\ OfOrders("redeemed")' \in Nat
    BY <1>1 DEF OrderSums
  <2>4. reserved' = OfAttempts("reserved")' + OfOrders("reserved")' + InPromise'
    BY <1>2, <1>5, <2>1, <2>2, <2>3 DEF PointsAddUp
  <2>5. points' + OfOrders("redeemed")' + InTaking' = Balance
    <3>1. points + OfOrders("redeemed") + InTaking = Balance
      BY <1>5 DEF PointsAddUp
    <3> QED BY <1>2, <2>2, <2>3, <3>1
  <2> QED BY <2>4, <2>5 DEF PointsAddUp
<1> QED BY <1>4, <1>5 DEF StillAddsUp

\* A step that sells nothing and leaves the attempts' holdings alone.
LEMMA Kept ==
  ASSUME TypeInv, TypeInv', NEW w \in Workers, NEW label, NEW l, GoWith(w, label, l),
         NEW c \in Checkouts, orders' = orders, attempt' = attempt,
         \A p \in Products : stock'[p] + Carries(label, l, p) = stock[p] + Carries(pc[w], loc[w], p),
         PointsAddUp => reserved' - Promises(label, l) = reserved - Promises(pc[w], loc[w]),
         points' + Takes(label, l) = points + Takes(pc[w], loc[w])
  PROVE  StillAddsUp
<1>1. OrderSums /\ (OrderSums)' /\ /\ \A p \in Products : Sold(p)' = Sold(p)
                 /\ OfOrders("reserved")' = OfOrders("reserved") /\ OfOrders("redeemed")' = OfOrders("redeemed")
  BY OrdersAreNumbers, OrdersSame DEF OrderSums
<1>2. ASSUME NEW p \in Products
      PROVE  stock'[p] + Holds(attempt'[c], c, p) + Sold(p)' + Carries(label, l, p)
               = stock[p] + Holds(attempt[c], c, p) + Sold(p) + Carries(pc[w], loc[w], p)
  <2>1. stock[p] \in Nat /\ stock'[p] \in Nat /\ Sold(p) \in Nat /\ Sold(p)' = Sold(p) /\ attempt'[c] = attempt[c]
    BY <1>1 DEF OrderSums, TypeInv, DataOK
  <2>2. Holds(attempt[c], c, p) \in Int /\ Carries(pc[w], loc[w], p) \in Int /\ Carries(label, l, p) \in Int
    BY AttemptSums, WorkSums
  <2>3. stock'[p] + Carries(label, l, p) = stock[p] + Carries(pc[w], loc[w], p)
    OBVIOUS
  <2> QED BY <2>1, <2>2, <2>3
<1>3. /\ points \in Nat /\ points' \in Nat /\ reserved \in Nat /\ reserved' \in Nat
      /\ Promises(pc[w], loc[w]) \in Int /\ Promises(label, l) \in Int
      /\ Takes(pc[w], loc[w]) \in Int /\ Takes(label, l) \in Int
      /\ Owes(attempt[c], c) \in Int /\ attempt'[c] = attempt[c]
      /\ OfOrders("reserved") \in Nat /\ OfOrders("redeemed") \in Nat
  BY <1>1, AttemptSums, WorkSums DEF TypeInv, DataOK, OrderSums
<1>4. PointsAddUp =>
        reserved' - Owes(attempt'[c], c) - OfOrders("reserved")' - Promises(label, l)
          = reserved - Owes(attempt[c], c) - OfOrders("reserved") - Promises(pc[w], loc[w])
  BY <1>1, <1>3
<1>5. points' + OfOrders("redeemed")' + Takes(label, l)
        = points + OfOrders("redeemed") + Takes(pc[w], loc[w])
  BY <1>1, <1>3
<1> QED BY <1>2, <1>4, <1>5, Moved

\* A step that leaves shelf and account alone, too.
LEMMA Passed ==
  ASSUME TypeInv, TypeInv', NEW w \in Workers, NEW label, NEW l, GoWith(w, label, l),
         NEW c \in Checkouts, UNCHANGED <<stock, points, reserved, orders, attempt>>,
         \A p \in Products : Carries(label, l, p) = Carries(pc[w], loc[w], p),
         Promises(label, l) = Promises(pc[w], loc[w]), Takes(label, l) = Takes(pc[w], loc[w])
  PROVE  StillAddsUp
BY Kept

\* Every step of a placement keeps the sums.
LEMMA ClaimKeyAddsUp ==
  ASSUME TypeInv, TypeInv', Orderly, NEW w \in Workers, ClaimKey(w) PROVE StillAddsUp
<1>0. PICK c \in Checkouts : c = loc[w].c
  BY WorkerType DEF ClaimKey
<1>1. /\ pc[w] = "claim" /\ UNCHANGED <<stock, points, reserved, orders, attempt>>
      /\ ~loc[w].points /\ loc[w].i = 1
  BY DEF ClaimKey, userVars, Orderly, PlacementFacts
<1>2. /\ \A p \in Products : Carries(pc[w], loc[w], p) = 0
      /\ Promises(pc[w], loc[w]) = 0 /\ Takes(pc[w], loc[w]) = 0
  BY <1>1 DEF Carries, Promises, Takes, Buying
<1>3. PICK label \in {"points", "item", "refuse", "idle"}, l \in {loc[w], NoLocals} :
        GoWith(w, label, l) /\ (label = "item" => l = loc[w])
  BY GoesWith DEF ClaimKey, Reserving, Ends
<1>4. \A p \in Products : Carries(label, l, p) = 0
  <2>1. label = "item" => \A p \in Products : Carries(label, l, p) = Units(SubSeq(Items[c], 1, 1 - 1), p)
    BY <1>0, <1>1, <1>3 DEF Carries
  <2>2. \A p \in Products : Units(SubSeq(Items[c], 1, 1 - 1), p) = 0
    BY UnitsOfNone, ItemsType
  <2> QED BY <2>1, <2>2 DEF Carries, Buying
<1>5. Promises(label, l) = 0 /\ Takes(label, l) = 0
  BY <1>1, <1>3 DEF Promises, Takes
<1> QED BY <1>1, <1>2, <1>3, <1>4, <1>5, Passed

LEMMA ReservePointsAddsUp ==
  ASSUME TypeInv, TypeInv', Orderly, NEW w \in Workers, ReservePoints(w) PROVE StillAddsUp
<1>0. PICK c \in Checkouts : c = loc[w].c
  BY WorkerType DEF ReservePoints
<1> DEFINE l == [loc[w] EXCEPT !.points = TRUE]
<1>1. /\ pc[w] = "points" /\ UNCHANGED <<stock, points, orders, attempt>>
      /\ ~loc[w].points /\ loc[w].i = 1 /\ loc[w] \in Locals /\ Points[c] \in Nat /\ reserved \in Nat
  BY ItemsType DEF ReservePoints, Orderly, PlacementFacts, TypeInv, WorkersOK, DataOK
<1>2. /\ \A p \in Products : Carries(pc[w], loc[w], p) = 0
      /\ Promises(pc[w], loc[w]) = 0 /\ Takes(pc[w], loc[w]) = 0
  BY <1>1 DEF Carries, Promises, Takes, Buying
<1>3. l.c = c /\ l.points /\ l.i = 1
  BY <1>0, <1>1 DEF Locals
<1>4. CASE reserved' = reserved + Points[c] /\ GoWith(w, "item", l)
  <2>1. \A p \in Products : Carries("item", l, p) = 0
    <3>1. \A p \in Products : Carries("item", l, p) = Units(SubSeq(Items[c], 1, 1 - 1), p)
      BY <1>3 DEF Carries
    <3>2. \A p \in Products : Units(SubSeq(Items[c], 1, 1 - 1), p) = 0
      BY UnitsOfNone, ItemsType
    <3> QED BY <3>1, <3>2
  <2>2. Promises("item", l) = Points[c] /\ Takes("item", l) = 0
    BY <1>3 DEF Promises, Takes
  <2> HIDE DEF l
  <2>3. /\ \A p \in Products : stock'[p] + Carries("item", l, p) = stock[p] + Carries(pc[w], loc[w], p)
        /\ points' + Takes("item", l) = points + Takes(pc[w], loc[w])
    BY <1>1, <1>2, <2>1, <2>2
  <2>4. reserved' - Promises("item", l) = reserved - Promises(pc[w], loc[w])
    BY <1>1, <1>2, <1>4, <2>2
  <2> QED BY <1>1, <1>4, <2>3, <2>4, Kept
<1>5. CASE UNCHANGED reserved /\ GoWith(w, "giveStock", loc[w])
  <2>1. /\ \A p \in Products : Carries("giveStock", loc[w], p) = 0
        /\ Promises("giveStock", loc[w]) = 0 /\ Takes("giveStock", loc[w]) = 0
    BY <1>1 DEF Carries, Promises, Takes, Buying
  <2> QED BY <1>1, <1>2, <1>5, <2>1, Passed
<1> QED BY <1>0, <1>4, <1>5, GoesWith DEF ReservePoints

LEMMA ReserveItemAddsUp ==
  ASSUME TypeInv, TypeInv', Orderly, NEW w \in Workers, ReserveItem(w) PROVE StillAddsUp
<1>0. PICK c \in Checkouts : c = loc[w].c
  BY WorkerType DEF ReserveItem
<1>00. PICK i \in Nat : i = loc[w].i
  BY WorkerType DEF Locals
<1> DEFINE q == Items[c][i]
           next == [loc[w] EXCEPT !.i = @ + 1]
           done == [loc[w] EXCEPT !.stock = TRUE]
<1>1. /\ pc[w] = "item" /\ UNCHANGED <<points, reserved, orders, attempt>>
      /\ loc[w] \in Locals /\ Items[c] \in Seq(Products) /\ i \in 1 .. Len(Items[c])
      /\ stock \in [Products -> Nat]
  <2>1. pc[w] = "item" => loc[w].i <= Len(Items[loc[w].c])
    BY DEF TypeInv, Working, AtItem
  <2>2. loc[w].i >= 1 /\ Len(Items[c]) \in Nat
    BY <1>0, WorkerType, ItemsType DEF Locals
  <2> QED BY <1>0, <1>00, <2>1, <2>2, WorkerType, ItemsType DEF ReserveItem, userVars, TypeInv, DataOK
<1>2. q \in Products
  BY <1>1
<1>3. /\ next.c = c /\ next.i = i + 1 /\ next.points = loc[w].points
      /\ done.c = c /\ done.points = loc[w].points
  BY <1>0, <1>00, <1>1 DEF Locals
<1>4. \/ stock[q] > 0 /\ stock' = [stock EXCEPT ![q] = @ - 1] /\ i < Len(Items[c]) /\ GoWith(w, "item", next)
      \/ stock[q] > 0 /\ stock' = [stock EXCEPT ![q] = @ - 1] /\ ~(i < Len(Items[c])) /\ GoWith(w, "create", done)
      \/ GoWith(w, "shortage", loc[w]) /\ UNCHANGED stock
  BY <1>0, <1>00, GoesWith DEF ReserveItem
<1> HIDE DEF q, next, done
<1>5. \A p \in Products : /\ Carries(pc[w], loc[w], p) = Units(SubSeq(Items[c], 1, i - 1), p)
                          /\ Units(SubSeq(Items[c], 1, i - 1), p) \in Nat
  <2>1. SubSeq(Items[c], 1, i - 1) \in Seq(Products)
    BY <1>1
  <2> QED BY <1>0, <1>00, <1>1, <2>1, UnitsType DEF Carries
<1>6. \A p \in Products : Units(SubSeq(Items[c], 1, i), p) = Units(SubSeq(Items[c], 1, i - 1), p) + IF q = p THEN 1 ELSE 0
  BY <1>1, UnitsOfOneMore DEF q
<1>7. ASSUME stock' = [stock EXCEPT ![q] = @ - 1], stock[q] > 0, NEW p \in Products
      PROVE  stock'[p] + Units(SubSeq(Items[c], 1, i), p) = stock[p] + Units(SubSeq(Items[c], 1, i - 1), p)
  <2>1. stock'[p] = IF q = p THEN stock[p] - 1 ELSE stock[p]
    BY <1>1, <1>2, <1>7
  <2>2. stock[p] \in Nat
    BY <1>1
  <2> QED BY <1>5, <1>6, <2>1, <2>2
<1>8. CASE stock[q] > 0 /\ stock' = [stock EXCEPT ![q] = @ - 1] /\ i < Len(Items[c]) /\ GoWith(w, "item", next)
  <2>1. \A p \in Products : Carries("item", next, p) = Units(SubSeq(Items[c], 1, i), p)
    <3>1. next.i - 1 = i
      BY <1>3
    <3> QED BY <1>3, <3>1 DEF Carries
  <2>2. Promises("item", next) = Promises(pc[w], loc[w]) /\ Takes("item", next) = Takes(pc[w], loc[w])
    BY <1>0, <1>1, <1>3 DEF Promises, Takes
  <2>3. \A p \in Products : stock'[p] + Carries("item", next, p) = stock[p] + Carries(pc[w], loc[w], p)
    BY <1>5, <1>7, <1>8, <2>1
  <2>4. points' + Takes("item", next) = points + Takes(pc[w], loc[w]) /\ reserved' = reserved
    BY <1>1, <2>2
  <2> QED BY <1>1, <1>8, <2>2, <2>3, <2>4, Kept
<1>9. CASE stock[q] > 0 /\ stock' = [stock EXCEPT ![q] = @ - 1] /\ ~(i < Len(Items[c])) /\ GoWith(w, "create", done)
  <2>1. \A p \in Products : Carries("create", done, p) = Units(SubSeq(Items[c], 1, i), p)
    <3>1. i = Len(Items[c])
      BY <1>1, <1>9
    <3> QED BY <1>1, <1>3, <3>1, UnitsOfAll DEF Carries, UnitsOf
  <2>2. Promises("create", done) = Promises(pc[w], loc[w]) /\ Takes("create", done) = Takes(pc[w], loc[w])
    BY <1>0, <1>1, <1>3 DEF Promises, Takes
  <2>3. \A p \in Products : stock'[p] + Carries("create", done, p) = stock[p] + Carries(pc[w], loc[w], p)
    BY <1>5, <1>7, <1>9, <2>1
  <2>4. points' + Takes("create", done) = points + Takes(pc[w], loc[w]) /\ reserved' = reserved
    BY <1>1, <2>2
  <2> QED BY <1>1, <1>9, <2>2, <2>3, <2>4, Kept
<1>10. CASE GoWith(w, "shortage", loc[w]) /\ UNCHANGED stock
  <2>1. /\ \A p \in Products : Carries("shortage", loc[w], p) = Carries(pc[w], loc[w], p)
        /\ Promises("shortage", loc[w]) = Promises(pc[w], loc[w]) /\ Takes("shortage", loc[w]) = Takes(pc[w], loc[w])
    BY <1>1 DEF Carries, Promises, Takes
  <2> QED BY <1>1, <1>10, <2>1, Passed
<1> QED BY <1>4, <1>8, <1>9, <1>10

LEMMA ShortageAddsUp ==
  ASSUME TypeInv, TypeInv', Orderly, NEW w \in Workers, Shortage(w) PROVE StillAddsUp
<1>0. PICK c \in Checkouts : c = loc[w].c
  BY WorkerType DEF Shortage
<1>1. /\ pc[w] = "shortage" /\ UNCHANGED <<points, reserved, orders, attempt>>
      /\ stock' = [p \in Products |-> stock[p] + Units(SubSeq(Items[c], 1, loc[w].i - 1), p)]
      /\ GoWith(w, "giveStock", loc[w])
  BY <1>0, GoesWith DEF Shortage, ReleaseItems, userVars
<1>2. /\ \A p \in Products : Carries(pc[w], loc[w], p) = Units(SubSeq(Items[c], 1, loc[w].i - 1), p)
      /\ \A p \in Products : Carries("giveStock", loc[w], p) = 0
      /\ Promises("giveStock", loc[w]) = Promises(pc[w], loc[w]) /\ Takes("giveStock", loc[w]) = Takes(pc[w], loc[w])
  BY <1>0, <1>1 DEF Carries, Promises, Takes, Buying
<1>3. \A p \in Products : stock'[p] \in Nat /\ stock'[p] = stock[p] + Carries(pc[w], loc[w], p)
  BY <1>1, <1>2 DEF TypeInv, DataOK
<1> QED BY <1>1, <1>2, <1>3, Kept

LEMMA CreateCodOrderAddsUp ==
  ASSUME TypeInv, TypeInv', Orderly, NEW w \in Workers, CreateCodOrder(w) PROVE StillAddsUp
<1>0. PICK c \in Checkouts : c = loc[w].c
  BY WorkerType DEF CreateCodOrder
<1>1. /\ pc[w] = "create" /\ UNCHANGED <<stock, points, reserved, attempt>>
      /\ orders' = Append(orders, NewOrder(c, FALSE)) /\ GoWith(w, "complete", loc[w])
      /\ loc[w].points \/ Points[c] = 0
  BY <1>0, GoesWith DEF CreateCodOrder, userVars, Orderly, PlacementFacts
<1>2. /\ \A p \in Products : Sold(p)' = Sold(p) + UnitsOf(c, p)
      /\ OfOrders("reserved")' = OfOrders("reserved") + Points[c]
      /\ OfOrders("redeemed")' = OfOrders("redeemed")
  BY <1>1, OrderAdded
<1>3. /\ \A p \in Products : Carries(pc[w], loc[w], p) = UnitsOf(c, p) /\ Carries("complete", loc[w], p) = 0
      /\ Promises(pc[w], loc[w]) = Points[c] /\ Promises("complete", loc[w]) = 0
      /\ Takes(pc[w], loc[w]) = 0 /\ Takes("complete", loc[w]) = 0
  BY <1>0, <1>1 DEF Carries, Promises, Takes, Buying
<1>4. /\ OrderSums /\ AttemptNumbers /\ Points[c] \in Nat /\ \A p \in Products : UnitsOf(c, p) \in Nat
      /\ stock \in [Products -> Nat] /\ points \in Nat /\ reserved \in Nat
  BY OrdersAreNumbers, AttemptIsNumbers, CartType, ItemsType DEF TypeInv, DataOK
<1>5. \A p \in Products :
        stock'[p] + Holds(attempt'[c], c, p) + Sold(p)' + Carries("complete", loc[w], p)
          = stock[p] + Holds(attempt[c], c, p) + Sold(p) + Carries(pc[w], loc[w], p)
  <2> SUFFICES ASSUME NEW p \in Products
      PROVE  stock[p] + Holds(attempt[c], c, p) + (Sold(p) + UnitsOf(c, p)) + 0
               = stock[p] + Holds(attempt[c], c, p) + Sold(p) + UnitsOf(c, p)
    BY <1>1, <1>2, <1>3
  <2>1. stock[p] \in Nat /\ Holds(attempt[c], c, p) \in Nat /\ Sold(p) \in Nat /\ UnitsOf(c, p) \in Nat
    BY <1>4 DEF OrderSums, AttemptNumbers
  <2> QED BY <2>1
<1>6. /\ OfOrders("reserved") \in Nat /\ OfOrders("redeemed") \in Nat /\ Owes(attempt[c], c) \in Nat
  BY <1>4 DEF OrderSums, AttemptNumbers
<1>7. reserved' - Owes(attempt'[c], c) - OfOrders("reserved")' - Promises("complete", loc[w])
        = reserved - Owes(attempt[c], c) - OfOrders("reserved") - Promises(pc[w], loc[w])
  BY <1>1, <1>2, <1>3, <1>4, <1>6
<1>8. points' + OfOrders("redeemed")' + Takes("complete", loc[w])
        = points + OfOrders("redeemed") + Takes(pc[w], loc[w])
  BY <1>1, <1>2, <1>3, <1>4, <1>6
<1> QED BY <1>1, <1>5, <1>7, <1>8, Moved

\* A step that only hands over, to the attempt or from it.
LEMMA HandedOver ==
  ASSUME TypeInv, TypeInv', NEW w \in Workers, NEW label, NEW l, GoWith(w, label, l),
         NEW c \in Checkouts, \A d \in Checkouts : d # c => attempt'[d] = attempt[d],
         UNCHANGED <<stock, points, reserved, orders>>,
         \A p \in Products : Holds(attempt'[c], c, p) + Carries(label, l, p)
                               = Holds(attempt[c], c, p) + Carries(pc[w], loc[w], p),
         Owes(attempt'[c], c) + Promises(label, l) = Owes(attempt[c], c) + Promises(pc[w], loc[w]),
         Takes(label, l) = Takes(pc[w], loc[w])
  PROVE  StillAddsUp
<1>1. /\ OrderSums /\ \A p \in Products : Sold(p)' = Sold(p)
      /\ OfOrders("reserved")' = OfOrders("reserved") /\ OfOrders("redeemed")' = OfOrders("redeemed")
  BY OrdersAreNumbers, OrdersSame
<1>2. ASSUME NEW p \in Products
      PROVE  stock'[p] + Holds(attempt'[c], c, p) + Sold(p)' + Carries(label, l, p)
               = stock[p] + Holds(attempt[c], c, p) + Sold(p) + Carries(pc[w], loc[w], p)
  <2>1. stock[p] \in Nat /\ stock'[p] = stock[p] /\ Sold(p) \in Nat /\ Sold(p)' = Sold(p)
    BY <1>1 DEF OrderSums, TypeInv, DataOK
  <2>2. /\ Holds(attempt[c], c, p) \in Int /\ Carries(pc[w], loc[w], p) \in Int
        /\ Holds(attempt'[c], c, p) \in Int /\ Carries(label, l, p) \in Int
    BY AttemptSums, WorkSums
  <2>3. Holds(attempt'[c], c, p) + Carries(label, l, p) = Holds(attempt[c], c, p) + Carries(pc[w], loc[w], p)
    OBVIOUS
  <2> QED BY <2>1, <2>2, <2>3
<1>3. /\ points \in Nat /\ reserved \in Nat
      /\ Promises(pc[w], loc[w]) \in Int /\ Promises(label, l) \in Int
      /\ Takes(pc[w], loc[w]) \in Int
      /\ Owes(attempt[c], c) \in Int /\ Owes(attempt'[c], c) \in Int
      /\ OfOrders("reserved") \in Nat /\ OfOrders("redeemed") \in Nat
  BY <1>1, AttemptSums, WorkSums DEF TypeInv, DataOK, OrderSums
<1>4. reserved' - Owes(attempt'[c], c) - OfOrders("reserved")' - Promises(label, l)
        = reserved - Owes(attempt[c], c) - OfOrders("reserved") - Promises(pc[w], loc[w])
  BY <1>1, <1>3
<1>5. points' + OfOrders("redeemed")' + Takes(label, l)
        = points + OfOrders("redeemed") + Takes(pc[w], loc[w])
  BY <1>1, <1>3
<1> QED BY <1>2, <1>4, <1>5, Moved

\* An attempt takes over what the placement reserved.
LEMMA CreateAttemptAddsUp ==
  ASSUME TypeInv, TypeInv', Orderly, NEW w \in Workers, CreateAttempt(w) PROVE StillAddsUp
<1>0. PICK c \in Checkouts : c = loc[w].c
  BY WorkerType DEF CreateAttempt
<1> DEFINE a == [NoAttempt EXCEPT !.status = "pending", !.stock = TRUE,
                   !.points = IF Points[c] > 0 THEN "reserved" ELSE "none"]
<1>1. /\ pc[w] = "create" /\ UNCHANGED <<stock, points, reserved, orders>>
      /\ attempt' = [attempt EXCEPT ![c] = a] /\ attempt \in [Checkouts -> Attempts]
      /\ attempt[c] = NoAttempt /\ GoWith(w, "gateway", loc[w])
      /\ loc[w].points \/ Points[c] = 0
  BY <1>0, GoesWith DEF CreateAttempt, userVars, Orderly, PlacementFacts, BeforeOrder, TypeInv, DataOK
<1>2. attempt'[c] = a /\ \A d \in Checkouts : d # c => attempt'[d] = attempt[d]
  BY <1>1
<1>3. /\ \A p \in Products : Holds(a, c, p) = UnitsOf(c, p) /\ Holds(attempt[c], c, p) = 0
      /\ Owes(a, c) = Points[c] /\ Owes(attempt[c], c) = 0 /\ Points[c] \in Nat
  BY <1>1, ItemsType DEF Holds, Owes, NoAttempt
<1>4. /\ \A p \in Products : Carries(pc[w], loc[w], p) = UnitsOf(c, p) /\ Carries("gateway", loc[w], p) = 0
      /\ Promises(pc[w], loc[w]) = Points[c] /\ Promises("gateway", loc[w]) = 0
      /\ Takes(pc[w], loc[w]) = Takes("gateway", loc[w])
  BY <1>0, <1>1 DEF Carries, Promises, Takes, Buying
<1> HIDE DEF a
<1>5. \A p \in Products : Holds(attempt'[c], c, p) + Carries("gateway", loc[w], p)
                            = Holds(attempt[c], c, p) + Carries(pc[w], loc[w], p)
  BY <1>2, <1>3, <1>4, CartType
<1>6. Owes(attempt'[c], c) + Promises("gateway", loc[w]) = Owes(attempt[c], c) + Promises(pc[w], loc[w])
  BY <1>2, <1>3, <1>4
<1> QED BY <1>1, <1>2, <1>4, <1>5, <1>6, HandedOver

LEMMA LinkAttemptAddsUp ==
  ASSUME TypeInv, TypeInv', Orderly, NEW w \in Workers, LinkAttempt(w) PROVE StillAddsUp
<1>0. PICK c \in Checkouts : c = loc[w].c
  BY WorkerType DEF LinkAttempt
<1> DEFINE a == [attempt[c] EXCEPT !.linked = TRUE]
<1>1. /\ pc[w] = "link" /\ UNCHANGED <<stock, points, reserved, orders>>
      /\ attempt' = IF attempt[c] = NoAttempt THEN attempt ELSE [attempt EXCEPT ![c] = a]
      /\ attempt \in [Checkouts -> Attempts] /\ GoWith(w, "complete", loc[w])
  BY <1>0, GoesWith DEF LinkAttempt, userVars, TypeInv, DataOK
<1>2. (attempt'[c] = attempt[c] \/ attempt'[c] = a) /\ \A d \in Checkouts : d # c => attempt'[d] = attempt[d]
  BY <1>1
<1>3. a.stock = attempt[c].stock /\ a.points = attempt[c].points
  BY <1>1 DEF Attempts
<1> HIDE DEF a
<1>4. Owes(attempt'[c], c) = Owes(attempt[c], c) /\ \A p \in Products : Holds(attempt'[c], c, p) = Holds(attempt[c], c, p)
  BY <1>2, <1>3 DEF Holds, Owes
<1>5. /\ \A p \in Products : Carries(pc[w], loc[w], p) = 0 /\ Carries("complete", loc[w], p) = 0
      /\ Promises(pc[w], loc[w]) = 0 /\ Promises("complete", loc[w]) = 0
      /\ Takes(pc[w], loc[w]) = Takes("complete", loc[w])
  BY <1>1 DEF Carries, Promises, Takes, Buying
<1> QED BY <1>1, <1>2, <1>4, <1>5, HandedOver

LEMMA CreateGatewayOrderAddsUp ==
  ASSUME TypeInv, TypeInv', NEW w \in Workers, CreateGatewayOrder(w) \/ CompleteKey(w) PROVE StillAddsUp
<1>0. PICK c \in Checkouts : c = loc[w].c
  BY WorkerType DEF CreateGatewayOrder, CompleteKey
<1>1. /\ pc[w] \in {"gateway", "complete", "refuse"} /\ UNCHANGED <<stock, points, reserved, orders, attempt>>
      /\ GoWith(w, "link", loc[w]) \/ GoWith(w, "idle", NoLocals)
  BY GoesWith DEF CreateGatewayOrder, CompleteKey, Ends, userVars
<1>2. \A p \in Products : Carries(pc[w], loc[w], p) = 0 /\ Carries("link", loc[w], p) = 0 /\ Carries("idle", NoLocals, p) = 0
  BY <1>1 DEF Carries, Buying
<1>3. /\ Promises(pc[w], loc[w]) = 0 /\ Promises("link", loc[w]) = 0 /\ Promises("idle", NoLocals) = 0
      /\ Takes(pc[w], loc[w]) = 0 /\ Takes("link", loc[w]) = 0 /\ Takes("idle", NoLocals) = 0
  BY <1>1 DEF Promises, Takes
<1> QED BY <1>1, <1>2, <1>3, Passed

LEMMA GiveStockAddsUp ==
  ASSUME TypeInv, TypeInv', Orderly, NEW w \in Workers, GiveStock(w) PROVE StillAddsUp
<1>0. PICK c \in Checkouts : c = loc[w].c
  BY WorkerType DEF GiveStock
<1>1. /\ pc[w] \in {"giveStock", "giveStockAgain"} /\ UNCHANGED <<stock, points, reserved, orders, attempt>>
      /\ GoWith(w, IF pc[w] = "giveStock" THEN "givePoints" ELSE "givePointsAgain", loc[w])
  BY GoesWith DEF GiveStock, userVars, Orderly, PlacementFacts, Giving
<1>2. PICK label : label = IF pc[w] = "giveStock" THEN "givePoints" ELSE "givePointsAgain"
  OBVIOUS
<1>3. /\ \A p \in Products : Carries(label, loc[w], p) = Carries(pc[w], loc[w], p)
      /\ Promises(label, loc[w]) = Promises(pc[w], loc[w]) /\ Takes(label, loc[w]) = Takes(pc[w], loc[w])
  BY <1>1, <1>2 DEF Carries, Promises, Takes, Buying
<1> QED BY <1>1, <1>2, <1>3, Passed

\* Points that are promised are reserved: what settling a payment promises away is still
\* owed by its attempt and its order.
LEMMA Covered ==
  ASSUME TypeInv, Orderly, OneSettler, PointsAddUp, NEW w \in Workers
  PROVE  /\ pc[w] = "givePoints" /\ loc[w].points => reserved >= Points[loc[w].c]
         /\ pc[w] = "dropPoints" => reserved >= Points[loc[w].c]
<1>1. /\ IsFiniteSet(Workers) /\ IsFiniteSet(Checkouts)
      /\ OfOrders("reserved") \in Nat /\ IsFiniteSet(DOMAIN orders)
      /\ \A i \in DOMAIN orders : PointsIn("reserved")[i] \in Nat
      /\ \A v \in Workers : Promises(pc[v], loc[v]) \in Int
      /\ \A v \in Workers : pc[v] # "idle" => loc[v].c \in Checkouts /\ Points[loc[v].c] \in Nat
      /\ \A c \in Checkouts : Owes(attempt[c], c) \in Nat
  BY CheckoutAssumption, OrderNumbers, PromiseTypes, WorkerType, ItemsType, AttemptIsNumbers DEF AttemptNumbers
<1>2. /\ OfAttempts("reserved") \in Nat /\ \A c \in Checkouts : Owes(attempt[c], c) <= OfAttempts("reserved")
  <2> DEFINE f == PointsFor("reserved")
  <2>1. \A c \in Checkouts : f[c] = Owes(attempt[c], c)
    BY DEF PointsFor, Owes
  <2>2. OfAttempts("reserved") = SumFunctionOnSet(f, Checkouts)
    BY DEF OfAttempts
  <2> HIDE DEF f
  <2> QED BY <1>1, <2>1, <2>2, SumIsNat
<1>3. \A i \in DOMAIN orders : PointsIn("reserved")[i] <= OfOrders("reserved")
  BY <1>1, SumIsNat DEF OfOrders
<1>4. reserved = OfAttempts("reserved") + OfOrders("reserved") + InPromise
  BY DEF PointsAddUp
<1>5. \A v \in Workers : Promised[v] = Promises(pc[v], loc[v])
  BY DEF Promised
<1>6. \A v \in Workers : pc[v] \notin Buying \cup {"dropMark"} => Promised[v] \in Nat
  BY <1>1, <1>5 DEF Promises, Buying
<1>7. pc[w] = "givePoints" /\ loc[w].points => Promised[w] = Points[loc[w].c]
  BY <1>5 DEF Promises
<1>8. pc[w] = "dropPoints" => Owes(attempt[loc[w].c], loc[w].c) = Points[loc[w].c]
  BY DEF Orderly, SettlementFacts, Owes, Dropping
<1>9. CASE \A v \in Workers : pc[v] \notin Buying \cup {"dropMark"}
  <2>1. InPromise \in Nat /\ Promised[w] <= InPromise /\ Promised[w] \in Nat
    BY <1>1, <1>6, <1>9, SumIsNat DEF InPromise
  <2>2. ASSUME pc[w] = "givePoints" /\ loc[w].points PROVE reserved >= Points[loc[w].c]
    BY <1>1, <1>2, <1>4, <1>7, <2>1, <2>2
  <2>3. ASSUME pc[w] = "dropPoints" PROVE reserved >= Points[loc[w].c]
    <3>1. loc[w].c \in Checkouts /\ Points[loc[w].c] \in Nat
      BY <1>1, <2>3
    <3>2. Points[loc[w].c] <= OfAttempts("reserved")
      BY <1>2, <1>8, <2>3, <3>1
    <3> QED BY <1>1, <1>2, <1>4, <2>1, <3>1, <3>2
  <2> QED BY <2>2, <2>3
<1>10. ASSUME NEW s \in Workers, pc[s] \in Buying \cup {"dropMark"}
       PROVE  pc[w] # "dropPoints" /\ (pc[w] = "givePoints" /\ loc[w].points => reserved >= Points[loc[w].c])
  <2>1. \A v \in Workers : v # s => pc[v] \notin Buying \cup {"dropMark", "dropPoints"}
    <3>1. s \in Settlers
      BY <1>10 DEF Orderly, SettlementFacts, Settlement, Buying, Dropping
    <3>2. \A v \in Workers : pc[v] \in Buying \cup {"dropMark", "dropPoints"} => v \in Settlers
      BY DEF Orderly, SettlementFacts, Settlement, Buying, Dropping
    <3> QED BY <3>1, <3>2 DEF OneSettler
  <2>2. pc[w] # "dropPoints" /\ (pc[w] = "givePoints" => w # s)
    BY <1>10, <2>1 DEF Buying
  <2> SUFFICES ASSUME pc[w] = "givePoints", loc[w].points PROVE reserved >= Points[loc[w].c]
    BY <2>2
  <2>3. w \in Workers \ {s} /\ IsFiniteSet(Workers \ {s}) /\ \A v \in Workers \ {s} : Promised[v] \in Nat
    BY <1>1, <1>6, <2>1, <2>2, FS_RemoveElement
  <2>4. Promised[w] <= SumFunctionOnSet(Promised, Workers \ {s}) /\ SumFunctionOnSet(Promised, Workers \ {s}) \in Nat
    BY <2>3, SumIsNat
  <2>5. SumFunctionOnSet(Promised, Workers \ {s}) = InPromise - Promised[s]
    <3>1. \A v \in Workers : Promised[v] \in Int
      BY <1>1, <1>5
    <3> QED BY <1>1, <3>1, SumWithout DEF InPromise
  <2>6. Promised[s] \in Int /\ InPromise \in Int
    <3>1. \A v \in Workers : Promised[v] \in Int
      BY <1>1, <1>5
    <3> QED BY <1>1, <3>1, SumIsInt DEF InPromise
  <2>7. PICK d \in Checkouts : d = loc[s].c
    BY <1>1, <1>10 DEF Buying
  <2>8. OfAttempts("reserved") + OfOrders("reserved") + Promised[s] >= 0
    <3>1. CASE pc[s] \in Buying
      <4>1. attempt[d].stock
        BY <2>7, <3>1 DEF Orderly, SettlementFacts
      <4>2. AttemptFacts(d)
        BY DEF Orderly
      <4>3. Owes(attempt[d], d) = Points[d] /\ Points[d] \in Nat
        BY <4>1, <4>2, ItemsType DEF AttemptFacts, Owes
      <4>4. Points[d] <= OfAttempts("reserved")
        BY <1>2, <4>3
      <4>5. CASE pc[s] \in {"finalize", "attach"}
        <5>1. Promised[s] = -Points[d]
          BY <1>5, <2>7, <4>5 DEF Promises
        <5> QED BY <1>1, <1>2, <4>3, <4>4, <5>1
      <4>6. CASE pc[s] = "redeem"
        <5>1. loc[s].order \in DOMAIN orders /\ orders[loc[s].order].c = d /\ orders[loc[s].order].points = "reserved"
          BY <2>7, <3>1, <4>6 DEF Orderly, SettlementFacts
        <5>2. PointsIn("reserved")[loc[s].order] = Points[d]
          BY <5>1 DEF PointsIn
        <5>3. Points[d] <= OfOrders("reserved")
          BY <1>3, <5>1, <5>2
        <5>4. Promised[s] = -(2 * Points[d])
          BY <1>5, <2>7, <4>6 DEF Promises
        <5> QED BY <1>1, <1>2, <4>3, <4>4, <5>3, <5>4
      <4> QED BY <3>1, <4>5, <4>6 DEF Buying
    <3>2. CASE pc[s] = "dropMark"
      <4>1. loc[s].seen.points = attempt[d].points
        BY <2>7, <3>2 DEF Orderly, SettlementFacts, Dropping
      <4>2. Promised[s] = (IF attempt[d].points = "reserved" THEN -Points[d] ELSE 0)
        BY <1>5, <2>7, <3>2, <4>1 DEF Promises
      <4>3. Owes(attempt[d], d) = (IF attempt[d].points = "reserved" THEN Points[d] ELSE 0)
        BY DEF Owes
      <4> QED BY <1>1, <1>2, <4>2, <4>3, ItemsType
    <3> QED BY <1>10, <3>1, <3>2
  <2> QED BY <1>1, <1>2, <1>4, <1>7, <2>4, <2>5, <2>6, <2>8
<1> QED BY <1>9, <1>10

\* Points given back twice, of an online checkout that was refused.
Given(c) ==
  /\ c \notin Cod /\ Points[c] > 0
  /\ key[c] = "refused" \/ \E w \in Workers : pc[w] = "refuse" /\ loc[w].c = c
NothingGiven == \A c \in Checkouts : ~Given(c)

\* The points of a refused checkout are given back: exactly those it reserved, the first time.
LEMMA GivePointsAddsUp ==
  ASSUME TypeInv, TypeInv', Orderly, OneSettler, NEW w \in Workers, GivePoints(w)
  PROVE  (UnitsAddUp => UnitsAddUp') /\ (PointsAddUp /\ (NothingGiven)' => PointsAddUp')
<1>0. PICK c \in Checkouts : c = loc[w].c
  BY WorkerType DEF GivePoints
<1>1. /\ pc[w] \in {"givePoints", "givePointsAgain"} /\ UNCHANGED <<stock, points, orders, attempt, key>>
      /\ IF loc[w].points THEN reserved' = (IF reserved >= Points[c] THEN reserved - Points[c] ELSE 0)
                          ELSE reserved' = reserved
      /\ reserved \in Nat /\ Points[c] \in Nat
  BY <1>0, ItemsType DEF GivePoints, ReleasePoints, userVars, TypeInv, DataOK
<1>2. PICK label \in {"drop", "giveStockAgain", "refuse"} :
        GoWith(w, label, loc[w]) /\ (label = "drop" => attempt[c] # NoAttempt)
        /\ (pc[w] = "givePointsAgain" => label = "refuse")
  BY <1>0, GoesWith DEF GivePoints
<1>3. attempt[c] = NoAttempt
  BY <1>0, <1>1 DEF Orderly, PlacementFacts, Giving
<1>4. /\ \A p \in Products : Carries(label, loc[w], p) = 0 /\ Carries(pc[w], loc[w], p) = 0
      /\ Promises(label, loc[w]) = 0
      /\ Promises(pc[w], loc[w]) = IF pc[w] = "givePoints" /\ loc[w].points THEN Points[c] ELSE 0
      /\ Takes(label, loc[w]) = 0 /\ Takes(pc[w], loc[w]) = 0
  BY <1>0, <1>1, <1>2, <1>3 DEF Carries, Promises, Takes, Buying
<1>5. UnitsAddUp => UnitsAddUp'
  <2>1. \A p \in Products : Sold(p)' = Sold(p)
    BY <1>1, OrdersSame
  <2> QED BY <1>1, <1>2, <1>4, <2>1, UnitsMoved
<1>6. CASE pc[w] = "givePoints" \/ ~loc[w].points \/ Points[c] = 0
  <2>1. PointsAddUp => reserved' - Promises(label, loc[w]) = reserved - Promises(pc[w], loc[w])
    <3>1. PointsAddUp /\ pc[w] = "givePoints" /\ loc[w].points => reserved >= Points[c]
      BY <1>0, Covered
    <3> QED BY <1>1, <1>4, <1>6, <3>1
  <2>2. points' + Takes(label, loc[w]) = points + Takes(pc[w], loc[w])
    BY <1>1, <1>4
  <2>3. \A p \in Products : stock'[p] + Carries(label, loc[w], p) = stock[p] + Carries(pc[w], loc[w], p)
    BY <1>1, <1>4
  <2>4. StillAddsUp
    BY <1>1, <1>2, <2>1, <2>2, <2>3, Kept
  <2> QED BY <2>4 DEF StillAddsUp
<1>7. CASE pc[w] = "givePointsAgain" /\ Points[c] > 0
  <2>1. pc'[w] = "refuse" /\ loc'[w].c = c
    BY <1>0, <1>2, <1>7 DEF GoWith, TypeInv, WorkersOK
  <2>2. c \notin Cod => ~(NothingGiven)'
    BY <2>1, <1>7 DEF NothingGiven, Given
  <2>3. c \notin Cod
    BY <1>0, <1>7 DEF Orderly, PlacementFacts
  <2> QED BY <1>5, <2>2, <2>3
<1> QED BY <1>1, <1>5, <1>6, <1>7

\* The steps that only look.
LEMMA LookingAddsUp ==
  ASSUME TypeInv, TypeInv', Orderly, NEW w \in Workers, FindAttempt(w) \/ Settle(w) PROVE StillAddsUp
<1>0. PICK c \in Checkouts : c = loc[w].c
  BY WorkerType DEF FindAttempt, Settle
<1>1. /\ pc[w] \in {"find", "settle"} /\ UNCHANGED <<stock, points, reserved, orders, attempt>>
      /\ pc[w] \in Settlement
  BY DEF FindAttempt, Settle, userVars, Settlement
<1>2. \E label \in {"idle", "drop", "settle", "order"}, l \in {loc[w], NoLocals, [loc[w] EXCEPT !.seen = attempt[c]]} :
        GoWith(w, label, l)
  BY <1>0, <1>1, GoesWith, AnsweredEnds DEF FindAttempt, Settle
<1>3. PICK label \in {"idle", "drop", "settle", "order"}, l \in {loc[w], NoLocals, [loc[w] EXCEPT !.seen = attempt[c]]} :
        GoWith(w, label, l)
  BY <1>2
<1>4. /\ \A p \in Products : Carries(label, l, p) = 0 /\ Carries(pc[w], loc[w], p) = 0
      /\ Promises(label, l) = 0 /\ Promises(pc[w], loc[w]) = 0
      /\ Takes(label, l) = 0 /\ Takes(pc[w], loc[w]) = 0
  BY <1>1 DEF Carries, Promises, Takes, Buying
<1> QED BY <1>1, <1>3, <1>4, Passed

\* Every step that settles a payment keeps the sums.
LEMMA CreatePaidOrderAddsUp ==
  ASSUME TypeInv, TypeInv', Orderly, NEW w \in Workers, CreatePaidOrder(w) PROVE StillAddsUp
<1>0. PICK c \in Checkouts : c = loc[w].c
  BY WorkerType DEF CreatePaidOrder
<1> DEFINE l == [loc[w] EXCEPT !.order = Len(orders')]
           label == IF Points[c] > 0 THEN "finalize" ELSE "attach"
<1>1. /\ pc[w] = "order" /\ UNCHANGED <<stock, points, reserved, attempt>>
      /\ orders' = Append(orders, NewOrder(c, TRUE)) /\ GoWith(w, label, l)
      /\ loc[w] \in Locals
  BY <1>0 DEF CreatePaidOrder, userVars, TypeInv, WorkersOK
<1>2. /\ \A p \in Products : Sold(p)' = Sold(p) + UnitsOf(c, p)
      /\ OfOrders("reserved")' = OfOrders("reserved") + Points[c]
      /\ OfOrders("redeemed")' = OfOrders("redeemed")
  BY <1>1, OrderAdded
<1>3. /\ \A p \in Products : Carries(pc[w], loc[w], p) = 0 /\ Carries(label, l, p) = -UnitsOf(c, p)
      /\ Promises(pc[w], loc[w]) = 0 /\ Promises(label, l) = -Points[c]
      /\ Takes(pc[w], loc[w]) = 0 /\ Takes(label, l) = 0
  <2>1. l.c = c /\ label \in Buying /\ label \in {"finalize", "attach"}
    BY <1>0, <1>1 DEF Locals, Buying
  <2> HIDE DEF l, label
  <2> QED BY <1>1, <2>1 DEF Carries, Promises, Takes, Buying
<1> HIDE DEF l, label
<1>4. /\ OrderSums /\ AttemptNumbers /\ Points[c] \in Nat /\ \A p \in Products : UnitsOf(c, p) \in Nat
      /\ stock \in [Products -> Nat] /\ points \in Nat /\ reserved \in Nat
  BY OrdersAreNumbers, AttemptIsNumbers, CartType, ItemsType DEF TypeInv, DataOK
<1>5. \A p \in Products :
        stock'[p] + Holds(attempt'[c], c, p) + Sold(p)' + Carries(label, l, p)
          = stock[p] + Holds(attempt[c], c, p) + Sold(p) + Carries(pc[w], loc[w], p)
  <2> SUFFICES ASSUME NEW p \in Products
      PROVE  stock[p] + Holds(attempt[c], c, p) + (Sold(p) + UnitsOf(c, p)) + (-UnitsOf(c, p))
               = stock[p] + Holds(attempt[c], c, p) + Sold(p) + 0
    BY <1>1, <1>2, <1>3
  <2>1. stock[p] \in Nat /\ Holds(attempt[c], c, p) \in Nat /\ Sold(p) \in Nat /\ UnitsOf(c, p) \in Nat
    BY <1>4 DEF OrderSums, AttemptNumbers
  <2> QED BY <2>1
<1>6. /\ OfOrders("reserved") \in Nat /\ OfOrders("redeemed") \in Nat /\ Owes(attempt[c], c) \in Nat
  BY <1>4 DEF OrderSums, AttemptNumbers
<1>7. reserved' - Owes(attempt'[c], c) - OfOrders("reserved")' - Promises(label, l)
        = reserved - Owes(attempt[c], c) - OfOrders("reserved") - Promises(pc[w], loc[w])
  BY <1>1, <1>2, <1>3, <1>4, <1>6
<1>8. points' + OfOrders("redeemed")' + Takes(label, l)
        = points + OfOrders("redeemed") + Takes(pc[w], loc[w])
  BY <1>1, <1>2, <1>3, <1>4, <1>6
<1> QED BY <1>1, <1>5, <1>7, <1>8, Moved

LEMMA FinalizePointsAddsUp ==
  ASSUME TypeInv, TypeInv', NEW w \in Workers, FinalizePoints(w) PROVE StillAddsUp
<1>0. PICK c \in Checkouts : c = loc[w].c
  BY WorkerType DEF FinalizePoints
<1>1. /\ pc[w] = "finalize" /\ UNCHANGED <<stock, orders, attempt>>
      /\ points \in Nat /\ reserved \in Nat /\ Points[c] \in Nat
  BY ItemsType DEF FinalizePoints, TypeInv, DataOK
<1>2. \/ points' = points - Points[c] /\ reserved' = reserved - Points[c] /\ GoWith(w, "redeem", loc[w])
      \/ UNCHANGED <<points, reserved>> /\ GoWith(w, "attach", loc[w])
  BY <1>0, GoesWith DEF FinalizePoints, userVars
<1>3. /\ \A p \in Products : /\ Carries("redeem", loc[w], p) = Carries(pc[w], loc[w], p)
                             /\ Carries("attach", loc[w], p) = Carries(pc[w], loc[w], p)
      /\ Promises(pc[w], loc[w]) = -Points[c] /\ Promises("attach", loc[w]) = -Points[c]
      /\ Promises("redeem", loc[w]) = -(2 * Points[c])
      /\ Takes(pc[w], loc[w]) = 0 /\ Takes("attach", loc[w]) = 0 /\ Takes("redeem", loc[w]) = Points[c]
  BY <1>0, <1>1 DEF Carries, Promises, Takes, Buying
<1>4. CASE UNCHANGED <<points, reserved>> /\ GoWith(w, "attach", loc[w])
  BY <1>1, <1>3, <1>4, Passed
<1>5. CASE points' = points - Points[c] /\ reserved' = reserved - Points[c] /\ GoWith(w, "redeem", loc[w])
  <2>1. reserved' - Promises("redeem", loc[w]) = reserved - Promises(pc[w], loc[w])
    BY <1>1, <1>3, <1>5
  <2>2. points' + Takes("redeem", loc[w]) = points + Takes(pc[w], loc[w])
    BY <1>1, <1>3, <1>5
  <2>3. \A p \in Products : stock'[p] + Carries("redeem", loc[w], p) = stock[p] + Carries(pc[w], loc[w], p)
    BY <1>1, <1>3
  <2> QED BY <1>1, <1>5, <2>1, <2>2, <2>3, Kept
<1> QED BY <1>2, <1>4, <1>5

LEMMA RedeemAddsUp ==
  ASSUME TypeInv, TypeInv', Orderly, NEW w \in Workers, Redeem(w) PROVE StillAddsUp
<1>0. PICK c \in Checkouts : c = loc[w].c
  BY WorkerType DEF Redeem
<1>1. /\ pc[w] = "redeem" /\ UNCHANGED <<stock, points, reserved, attempt>>
      /\ orders' = [orders EXCEPT ![loc[w].order].points = "redeemed"] /\ GoWith(w, "attach", loc[w])
      /\ loc[w].order \in DOMAIN orders /\ orders[loc[w].order].c = c /\ orders[loc[w].order].points = "reserved"
  BY <1>0, GoesWith DEF Redeem, userVars, Orderly, SettlementFacts, Buying
<1>2. /\ \A p \in Products : Sold(p)' = Sold(p)
      /\ OfOrders("reserved")' = OfOrders("reserved") - Points[c]
      /\ OfOrders("redeemed")' = OfOrders("redeemed") + Points[c]
  BY <1>1, OrderRedeemed
<1>3. /\ \A p \in Products : Carries("attach", loc[w], p) = Carries(pc[w], loc[w], p)
      /\ Promises(pc[w], loc[w]) = -(2 * Points[c]) /\ Promises("attach", loc[w]) = -Points[c]
      /\ Takes(pc[w], loc[w]) = Points[c] /\ Takes("attach", loc[w]) = 0
  BY <1>0, <1>1 DEF Carries, Promises, Takes, Buying
<1>4. /\ OrderSums /\ AttemptNumbers /\ Points[c] \in Nat /\ points \in Nat /\ reserved \in Nat
  BY OrdersAreNumbers, AttemptIsNumbers, ItemsType DEF TypeInv, DataOK
<1>5. \A p \in Products :
        stock'[p] + Holds(attempt'[c], c, p) + Sold(p)' + Carries("attach", loc[w], p)
          = stock[p] + Holds(attempt[c], c, p) + Sold(p) + Carries(pc[w], loc[w], p)
  BY <1>1, <1>2, <1>3
<1>6. /\ OfOrders("reserved") \in Nat /\ OfOrders("redeemed") \in Nat /\ Owes(attempt[c], c) \in Nat
  BY <1>4 DEF OrderSums, AttemptNumbers
<1>7. reserved' - Owes(attempt'[c], c) - OfOrders("reserved")' - Promises("attach", loc[w])
        = reserved - Owes(attempt[c], c) - OfOrders("reserved") - Promises(pc[w], loc[w])
  BY <1>1, <1>2, <1>3, <1>4, <1>6
<1>8. points' + OfOrders("redeemed")' + Takes("attach", loc[w])
        = points + OfOrders("redeemed") + Takes(pc[w], loc[w])
  BY <1>1, <1>2, <1>3, <1>4, <1>6
<1> QED BY <1>1, <1>5, <1>7, <1>8, Moved

LEMMA AttachOrderAddsUp ==
  ASSUME TypeInv, TypeInv', Orderly, NEW w \in Workers, AttachOrder(w) PROVE StillAddsUp
<1>0. PICK c \in Checkouts : c = loc[w].c
  BY WorkerType DEF AttachOrder
<1> DEFINE a == Bought(attempt[c], loc[w].order)
<1>1. /\ pc[w] = "attach" /\ pc[w] \in Settlement /\ UNCHANGED <<stock, points, reserved, orders>>
      /\ AttemptFacts(c) /\ attempt \in [Checkouts -> Attempts] /\ Update(c, a)
      /\ attempt[c].stock /\ Answered(w)
  BY <1>0 DEF AttachOrder, userVars, Orderly, Settlement, Buying, TypeInv, DataOK, SettlementFacts
<1>2. GoWith(w, "idle", NoLocals)
  BY <1>1, AnsweredEnds
<1>3. attempt[c].status # "absent"
  BY <1>1 DEF AttemptFacts, NoAttempt
<1>4. attempt'[c] = a /\ \A d \in Checkouts : d # c => attempt'[d] = attempt[d]
  BY <1>1, <1>3 DEF Update
<1>5. ~a.stock /\ a.points # "reserved"
  BY <1>1 DEF Bought, Attempts
<1> HIDE DEF a
<1>6. /\ \A p \in Products : Holds(attempt'[c], c, p) = 0 /\ Holds(attempt[c], c, p) = UnitsOf(c, p)
      /\ Owes(attempt'[c], c) = 0 /\ Owes(attempt[c], c) = Points[c] /\ Points[c] \in Nat
  BY <1>1, <1>4, <1>5, ItemsType DEF Holds, Owes, AttemptFacts
<1>7. /\ \A p \in Products : Carries(pc[w], loc[w], p) = -UnitsOf(c, p) /\ Carries("idle", NoLocals, p) = 0
      /\ Promises(pc[w], loc[w]) = -Points[c] /\ Promises("idle", NoLocals) = 0
      /\ Takes(pc[w], loc[w]) = Takes("idle", NoLocals)
  BY <1>0, <1>1 DEF Carries, Promises, Takes, Buying
<1>8. \A p \in Products : Holds(attempt'[c], c, p) + Carries("idle", NoLocals, p)
                            = Holds(attempt[c], c, p) + Carries(pc[w], loc[w], p)
  BY <1>6, <1>7, CartType
<1>9. Owes(attempt'[c], c) + Promises("idle", NoLocals) = Owes(attempt[c], c) + Promises(pc[w], loc[w])
  BY <1>6, <1>7
<1> QED BY <1>1, <1>2, <1>4, <1>7, <1>8, <1>9, HandedOver

LEMMA CompleteAddsUp ==
  ASSUME TypeInv, TypeInv', Orderly, NEW w \in Workers, Complete(w) PROVE StillAddsUp
BY LookingAddsUp, CreatePaidOrderAddsUp, FinalizePointsAddsUp, RedeemAddsUp, AttachOrderAddsUp DEF Complete

LEMMA DropAddsUp ==
  ASSUME TypeInv, TypeInv', Orderly, NEW w \in Workers, Drop(w) PROVE StillAddsUp
<1>0. PICK c \in Checkouts : c = loc[w].c
  BY WorkerType DEF Drop
<1> DEFINE a == attempt[c]
           l == [loc[w] EXCEPT !.seen = a]
           label == IF a.stock THEN "dropStock" ELSE IF a.points = "reserved" THEN "dropPoints" ELSE "dropMark"
<1>1. /\ pc[w] = "drop" /\ pc[w] \in Settlement /\ UNCHANGED <<stock, points, reserved, orders, attempt>>
      /\ loc[w] \in Locals /\ AttemptFacts(c)
  BY DEF Drop, userVars, Settlement, TypeInv, WorkersOK, Orderly
<1>2. GoWith(w, "idle", NoLocals) \/ GoWith(w, label, l)
  BY <1>0, <1>1, AnsweredEnds DEF Drop
<1>3. /\ \A p \in Products : Carries(pc[w], loc[w], p) = 0 /\ Carries("idle", NoLocals, p) = 0
      /\ Promises(pc[w], loc[w]) = 0 /\ Promises("idle", NoLocals) = 0
      /\ Takes(pc[w], loc[w]) = 0 /\ Takes("idle", NoLocals) = 0
  BY <1>1 DEF Carries, Promises, Takes, Buying
<1>4. l.seen = a
  BY <1>1 DEF Locals
<1>5. /\ label \in {"dropStock", "dropPoints", "dropMark"}
      /\ label = "dropStock" \/ (~l.seen.stock /\ l.seen.points # "reserved")
  BY <1>1, <1>4 DEF AttemptFacts
<1> HIDE DEF l, label
<1>6. /\ \A p \in Products : Carries(label, l, p) = 0
      /\ Promises(label, l) = 0 /\ Takes(label, l) = 0
  BY <1>5 DEF Carries, Promises, Takes, Buying
<1> QED BY <1>1, <1>2, <1>3, <1>6, Passed

LEMMA DropStockAddsUp ==
  ASSUME TypeInv, TypeInv', Orderly, NEW w \in Workers, DropStock(w) PROVE StillAddsUp
<1>0. PICK c \in Checkouts : c = loc[w].c
  BY WorkerType DEF DropStock
<1>1. /\ pc[w] = "dropStock" /\ UNCHANGED <<points, reserved, orders, attempt>>
      /\ stock' = [p \in Products |-> stock[p] + Units(SubSeq(Items[c], 1, Len(Items[c])), p)]
      /\ loc[w].seen.stock /\ stock \in [Products -> Nat]
  BY <1>0 DEF DropStock, ReleaseItems, userVars, Orderly, SettlementFacts, TypeInv, DataOK
<1>2. PICK label \in {"dropPoints", "dropMark"} :
        GoWith(w, label, loc[w]) /\ (label = "dropMark" => loc[w].seen.points # "reserved")
  BY GoesWith DEF DropStock
<1>3. /\ \A p \in Products : Carries(pc[w], loc[w], p) = 0 /\ Carries(label, loc[w], p) = -UnitsOf(c, p)
      /\ Promises(pc[w], loc[w]) = 0 /\ Promises(label, loc[w]) = 0
      /\ Takes(pc[w], loc[w]) = Takes(label, loc[w])
  BY <1>0, <1>1, <1>2 DEF Carries, Promises, Takes, Buying
<1>4. ASSUME NEW p \in Products PROVE stock'[p] + Carries(label, loc[w], p) = stock[p] + Carries(pc[w], loc[w], p)
  <2>1. stock'[p] = stock[p] + UnitsOf(c, p)
    BY <1>1, ItemsType, UnitsOfAll DEF UnitsOf
  <2> QED BY <1>1, <1>3, <2>1, CartType
<1>5. reserved' - Promises(label, loc[w]) = reserved - Promises(pc[w], loc[w])
      /\ points' + Takes(label, loc[w]) = points + Takes(pc[w], loc[w])
  BY <1>1, <1>3
<1> QED BY <1>1, <1>2, <1>4, <1>5, Kept

LEMMA DropPointsAddsUp ==
  ASSUME TypeInv, TypeInv', Orderly, OneSettler, NEW w \in Workers, DropPoints(w) PROVE StillAddsUp
<1>0. PICK c \in Checkouts : c = loc[w].c
  BY WorkerType DEF DropPoints
<1>1. /\ pc[w] = "dropPoints" /\ UNCHANGED <<stock, points, orders, attempt>>
      /\ reserved' = IF reserved >= Points[c] THEN reserved - Points[c] ELSE 0
      /\ reserved \in Nat /\ Points[c] \in Nat /\ loc[w].seen.points = "reserved"
      /\ GoWith(w, "dropMark", loc[w])
  BY <1>0, GoesWith, ItemsType DEF DropPoints, ReleasePoints, Orderly, SettlementFacts, TypeInv, DataOK
<1>2. /\ \A p \in Products : Carries(pc[w], loc[w], p) = Carries("dropMark", loc[w], p)
      /\ Promises(pc[w], loc[w]) = 0 /\ Promises("dropMark", loc[w]) = -Points[c]
      /\ Takes(pc[w], loc[w]) = Takes("dropMark", loc[w])
  BY <1>0, <1>1 DEF Carries, Promises, Takes, Buying
<1>3. PointsAddUp => reserved' - Promises("dropMark", loc[w]) = reserved - Promises(pc[w], loc[w])
  <2>1. PointsAddUp => reserved >= Points[c]
    BY <1>0, <1>1, Covered
  <2> QED BY <1>1, <1>2, <2>1
<1>4. /\ \A p \in Products : stock'[p] + Carries("dropMark", loc[w], p) = stock[p] + Carries(pc[w], loc[w], p)
      /\ points' + Takes("dropMark", loc[w]) = points + Takes(pc[w], loc[w])
  BY <1>1, <1>2
<1> QED BY <1>1, <1>3, <1>4, Kept

LEMMA DropMarkAddsUp ==
  ASSUME TypeInv, TypeInv', Orderly, NEW w \in Workers, DropMark(w) PROVE StillAddsUp
<1>0. PICK c \in Checkouts : c = loc[w].c
  BY WorkerType DEF DropMark
<1> DEFINE a == [attempt[c] EXCEPT !.stock = FALSE, !.points = IF Points[c] > 0 THEN "released" ELSE @]
<1>1. /\ pc[w] = "dropMark" /\ UNCHANGED <<stock, points, reserved, orders>>
      /\ AttemptFacts(c) /\ attempt \in [Checkouts -> Attempts] /\ Update(c, a)
      /\ GoWith(w, "dropStatus", loc[w]) /\ attempt[c] # NoAttempt
      /\ loc[w].seen.stock = attempt[c].stock /\ loc[w].seen.points = attempt[c].points
      /\ Points[c] \in Nat
  BY <1>0, GoesWith, ItemsType DEF DropMark, userVars, Orderly, SettlementFacts, Dropping, TypeInv, DataOK
<1>2. attempt[c].status # "absent"
  BY <1>1 DEF AttemptFacts
<1>3. attempt'[c] = a /\ \A d \in Checkouts : d # c => attempt'[d] = attempt[d]
  BY <1>1, <1>2 DEF Update
<1>4. ~a.stock /\ a.points # "reserved"
  <2>1. a.points = (IF Points[c] > 0 THEN "released" ELSE attempt[c].points) /\ ~a.stock
    BY <1>1 DEF Attempts
  <2> QED BY <1>1, <2>1 DEF AttemptFacts
<1> HIDE DEF a
<1>5. /\ \A p \in Products : Holds(attempt'[c], c, p) = 0 /\ Holds(attempt[c], c, p) = IF attempt[c].stock THEN UnitsOf(c, p) ELSE 0
      /\ Owes(attempt'[c], c) = 0 /\ Owes(attempt[c], c) = IF attempt[c].points = "reserved" THEN Points[c] ELSE 0
  BY <1>3, <1>4 DEF Holds, Owes
<1>6. /\ \A p \in Products : /\ Carries(pc[w], loc[w], p) = IF attempt[c].stock THEN -UnitsOf(c, p) ELSE 0
                             /\ Carries("dropStatus", loc[w], p) = 0
      /\ Promises(pc[w], loc[w]) = IF attempt[c].points = "reserved" THEN -Points[c] ELSE 0
      /\ Promises("dropStatus", loc[w]) = 0
      /\ Takes(pc[w], loc[w]) = Takes("dropStatus", loc[w])
  BY <1>0, <1>1 DEF Carries, Promises, Takes, Buying
<1>7. \A p \in Products : Holds(attempt'[c], c, p) + Carries("dropStatus", loc[w], p)
                            = Holds(attempt[c], c, p) + Carries(pc[w], loc[w], p)
  BY <1>5, <1>6, CartType
<1>8. Owes(attempt'[c], c) + Promises("dropStatus", loc[w]) = Owes(attempt[c], c) + Promises(pc[w], loc[w])
  BY <1>1, <1>5, <1>6
<1> QED BY <1>1, <1>3, <1>6, <1>7, <1>8, HandedOver

LEMMA DropStatusAddsUp ==
  ASSUME TypeInv, TypeInv', Orderly, NEW w \in Workers, DropStatus(w) PROVE StillAddsUp
<1>0. PICK c \in Checkouts : c = loc[w].c
  BY WorkerType DEF DropStatus
<1> DEFINE a == [attempt[c] EXCEPT !.status = IF loc[w].op = "cancel" THEN "cancelled" ELSE "failed"]
<1>1. /\ pc[w] = "dropStatus" /\ pc[w] \in Settlement /\ UNCHANGED <<stock, points, reserved, orders>>
      /\ attempt \in [Checkouts -> Attempts] /\ Update(c, a) /\ Answered(w)
  BY <1>0 DEF DropStatus, userVars, Settlement, TypeInv, DataOK
<1>2. GoWith(w, "idle", NoLocals)
  BY <1>1, AnsweredEnds
<1>3. (attempt'[c] = attempt[c] \/ attempt'[c] = a) /\ \A d \in Checkouts : d # c => attempt'[d] = attempt[d]
  BY <1>1 DEF Update
<1>4. a.stock = attempt[c].stock /\ a.points = attempt[c].points
  BY <1>1 DEF Attempts
<1> HIDE DEF a
<1>5. Owes(attempt'[c], c) = Owes(attempt[c], c) /\ \A p \in Products : Holds(attempt'[c], c, p) = Holds(attempt[c], c, p)
  BY <1>3, <1>4 DEF Holds, Owes
<1>6. /\ \A p \in Products : Carries(pc[w], loc[w], p) = 0 /\ Carries("idle", NoLocals, p) = 0
      /\ Promises(pc[w], loc[w]) = 0 /\ Promises("idle", NoLocals) = 0
      /\ Takes(pc[w], loc[w]) = Takes("idle", NoLocals)
  BY <1>1 DEF Carries, Promises, Takes, Buying
<1> QED BY <1>1, <1>2, <1>3, <1>5, <1>6, HandedOver

LEMMA NotCompleteAddsUp ==
  ASSUME TypeInv, TypeInv', Orderly, OneSettler, NEW w \in Workers, NotComplete(w) PROVE StillAddsUp
BY DropAddsUp, DropStockAddsUp, DropPointsAddsUp, DropMarkAddsUp, DropStatusAddsUp DEF NotComplete

LEMMA ArrivalAddsUp ==
  ASSUME TypeInv, TypeInv', NEW w \in Workers,
         \/ \E c \in Checkouts : StartPlace(w, c) \/ StartVerify(w, c) \/ StartCancel(w, c)
         \/ \E e \in Events : StartWebhook(w, e)
  PROVE  StillAddsUp
<1>1. PICK label \in {"claim", "settle", "drop", "find"}, c \in Checkouts,
           op \in {"place", "verify", "cancel", "webhook"},
           event \in {"none", "payment.captured", "order.paid", "payment.failed"} :
        Begin(w, label, c, op, event)
  BY DEF StartPlace, StartVerify, StartCancel, StartWebhook, BeginSettling, Events
<1>2. UNCHANGED <<stock, points, reserved, orders, attempt>>
  BY DEF StartPlace, StartVerify, StartCancel, StartWebhook, userVars
<1> DEFINE l == [NoLocals EXCEPT !.c = c, !.op = op, !.event = event]
<1>3. pc[w] = "idle" /\ GoWith(w, label, l)
  BY <1>1 DEF Begin
<1> HIDE DEF l
<1>4. /\ \A p \in Products : Carries(label, l, p) = 0 /\ Carries(pc[w], loc[w], p) = 0
      /\ Promises(label, l) = 0 /\ Promises(pc[w], loc[w]) = 0
      /\ Takes(label, l) = 0 /\ Takes(pc[w], loc[w]) = 0
  BY <1>3 DEF Carries, Promises, Takes, Buying
<1> QED BY <1>2, <1>3, <1>4, Passed

\* Units add up; points do, unless some were given back twice.
Books == UnitsAddUp /\ (NothingGiven => PointsAddUp)

\* Points given back twice stay so.
LEMMA GivenStays ==
  ASSUME TypeInv, Orderly, NEW w \in Workers, Continue(w), (NothingGiven)'
  PROVE  NothingGiven
<1> SUFFICES ASSUME NEW d \in Checkouts, Given(d) PROVE Given(d)'
  BY DEF NothingGiven
<1>1. loc[w].c \in Checkouts /\ pc[w] # "idle"
  BY WorkerType DEF Continue, Place, Complete, NotComplete, ClaimKey, ReservePoints, ReserveItem, Shortage,
     CreateCodOrder, CreateAttempt, CreateGatewayOrder, LinkAttempt, CompleteKey, GiveStock, GivePoints,
     FindAttempt, Settle, CreatePaidOrder, FinalizePoints, Redeem, AttachOrder,
     Drop, DropStock, DropPoints, DropMark, DropStatus
<1>2. \A v \in Workers : v # w => pc'[v] = pc[v] /\ loc'[v] = loc[v]
  <2>1. ASSUME NEW label, NEW l, GoWith(w, label, l) PROVE \A v \in Workers : v # w => pc'[v] = pc[v] /\ loc'[v] = loc[v]
    BY <2>1 DEF GoWith, TypeInv, WorkersOK
  <2>2. (\E label : GoTo(w, label)) => \E label, l : GoWith(w, label, l)
    BY GoesWith
  <2>3. Answered(w) \/ Ends(w) => \E label, l : GoWith(w, label, l)
    BY GoesWith DEF Answered, Ends
  <2>4. Place(w) => \E label, l : GoWith(w, label, l)
    BY <2>2, <2>3 DEF Place, ClaimKey, ReservePoints, ReserveItem, Shortage, CreateCodOrder, CreateAttempt,
       CreateGatewayOrder, LinkAttempt, CompleteKey, GiveStock, GivePoints
  <2>5. Complete(w) => \E label, l : GoWith(w, label, l)
    BY <2>2, <2>3 DEF Complete, FindAttempt, Settle, CreatePaidOrder, FinalizePoints, Redeem, AttachOrder
  <2>6. NotComplete(w) => \E label, l : GoWith(w, label, l)
    BY <2>2, <2>3 DEF NotComplete, Drop, DropStock, DropPoints, DropMark, DropStatus
  <2> QED BY <2>1, <2>4, <2>5, <2>6 DEF Continue
<1>3. \/ key' = key
      \/ /\ pc[w] = "claim" /\ key[loc[w].c] = "absent"
         /\ key' = [key EXCEPT ![loc[w].c] = "in_progress"]
      \/ /\ pc[w] \in {"complete", "refuse"}
         /\ key' = [key EXCEPT ![loc[w].c] = IF pc[w] = "complete" THEN "completed" ELSE "refused"]
  BY DEF Continue, Place, Complete, NotComplete, ClaimKey, ReservePoints, ReserveItem, Shortage,
     CreateCodOrder, CreateAttempt, CreateGatewayOrder, LinkAttempt, CompleteKey, GiveStock, GivePoints,
     FindAttempt, Settle, CreatePaidOrder, FinalizePoints, Redeem, AttachOrder,
     Drop, DropStock, DropPoints, DropMark, DropStatus
<1>4. key \in [Checkouts -> {"absent", "in_progress", "completed", "refused"}]
  BY DEF TypeInv, DataOK
<1>5. CASE key[d] = "refused"
  <2>1. pc[w] \in {"complete", "refuse"} => key[loc[w].c] = "in_progress"
    BY DEF Orderly, PlacementFacts, Placement
  <2>2. key'[d] = "refused"
    BY <1>1, <1>3, <1>4, <1>5, <2>1
  <2> QED BY <2>2 DEF Given
<1>6. ASSUME NEW v \in Workers, pc[v] = "refuse", loc[v].c = d PROVE Given(d)'
  <2>1. CASE v # w
    BY <1>2, <1>6, <2>1 DEF Given
  <2>2. CASE v = w
    <3>1. CompleteKey(w)
      BY <1>6, <2>2 DEF Continue, Place, Complete, NotComplete, ClaimKey, ReservePoints, ReserveItem, Shortage,
         CreateCodOrder, CreateAttempt, CreateGatewayOrder, LinkAttempt, CompleteKey, GiveStock, GivePoints,
         FindAttempt, Settle, CreatePaidOrder, FinalizePoints, Redeem, AttachOrder,
         Drop, DropStock, DropPoints, DropMark, DropStatus
    <3>2. key'[d] = "refused"
      BY <1>4, <1>6, <2>2, <3>1 DEF CompleteKey
    <3> QED BY <3>2 DEF Given
  <2> QED BY <2>1, <2>2
<1> QED BY <1>5, <1>6 DEF Given

\* The books stay right as handlers go on.
LEMMA BooksContinue ==
  ASSUME TypeInv, TypeInv', Orderly, OneSettler, Books, NEW w \in Workers, Continue(w)
  PROVE  Books'
<1>1. (NothingGiven)' => NothingGiven
  BY GivenStays
<1>2. CASE StillAddsUp
  BY <1>1, <1>2 DEF StillAddsUp, Books
<1>3. CASE GivePoints(w)
  BY <1>1, <1>3, GivePointsAddsUp DEF Books
<1> QED
  BY <1>2, <1>3, ClaimKeyAddsUp, ReservePointsAddsUp, ReserveItemAddsUp, ShortageAddsUp, CreateCodOrderAddsUp,
     CreateAttemptAddsUp, CreateGatewayOrderAddsUp, LinkAttemptAddsUp, GiveStockAddsUp,
     CompleteAddsUp, NotCompleteAddsUp DEF Continue, Place

LEMMA BooksUnchanged ==
  ASSUME Books, UNCHANGED <<stock, points, reserved, key, attempt, orders, pc, loc>> PROVE Books'
<1>1. \A p \in Products : Held(p)' = Held(p) /\ Sold(p)' = Sold(p) /\ InHands(p)' = InHands(p)
  BY DEF Held, HeldFor, Sold, SoldBy, InHands, Carried
<1>2. /\ OfAttempts("reserved")' = OfAttempts("reserved") /\ OfOrders("reserved")' = OfOrders("reserved")
      /\ OfOrders("redeemed")' = OfOrders("redeemed") /\ InPromise' = InPromise /\ InTaking' = InTaking
  BY DEF OfAttempts, PointsFor, OfOrders, PointsIn, InPromise, Promised, InTaking, Taken
<1>3. (NothingGiven)' => NothingGiven
  BY DEF NothingGiven, Given
<1> QED BY <1>1, <1>2, <1>3 DEF Books, UnitsAddUp, PointsAddUp

\* The books stay right.
LEMMA BooksSteps ==
  ASSUME TypeInv, TypeInv', Orderly, OneSettler, Books, faults = 0, [Next]_vars, faults' = 0
  PROVE  Books'
<1>1. ASSUME NEW w \in Workers, Continue(w) PROVE Books'
  BY <1>1, BooksContinue
<1>2. ASSUME NEW w \in Workers,
             \/ \E c \in Checkouts : StartPlace(w, c) \/ StartVerify(w, c) \/ StartCancel(w, c)
             \/ \E e \in Events : StartWebhook(w, e)
      PROVE  Books'
  <2>1. StillAddsUp
    BY <1>2, ArrivalAddsUp
  <2>2. key' = key /\ \A v \in Workers : pc[v] = "refuse" => pc'[v] = "refuse" /\ loc'[v] = loc[v]
    <3>1. key' = key /\ pc[w] = "idle" /\ \E label, l : GoWith(w, label, l)
      BY <1>2 DEF StartPlace, StartVerify, StartCancel, StartWebhook, BeginSettling, Begin
    <3> QED BY <3>1 DEF GoWith, TypeInv, WorkersOK
  <2>3. (NothingGiven)' => NothingGiven
    BY <2>2 DEF NothingGiven, Given
  <2> QED BY <2>1, <2>3 DEF StillAddsUp, Books
<1>3. ASSUME NEW w \in Workers, PlacingFails(w) \/ Abandons(w) PROVE Books'
  BY <1>3 DEF PlacingFails, Abandons, Fault
<1>4. CASE \/ \E e \in Events : Duplicate(e)
           \/ \E c \in Checkouts : Pay(c) \/ PaymentFails(c) \/ ExpireAttempt(c)
  <2>1. ASSUME NEW c \in Checkouts, ExpireAttempt(c) PROVE FALSE
    BY <2>1 DEF ExpireAttempt, Fault
  <2>2. UNCHANGED <<stock, points, reserved, key, attempt, orders, pc, loc>>
    BY <1>4, <2>1 DEF Duplicate, Pay, PaymentFails, appVars, userVars
  <2> QED BY <2>2, BooksUnchanged
<1>5. CASE UNCHANGED vars
  BY <1>5, BooksUnchanged DEF vars
<1> QED BY <1>1, <1>2, <1>3, <1>4, <1>5 DEF Next

\* At first everything is on the shelf.
LEMMA BooksAtFirst == Init => Books
<1> SUFFICES ASSUME Init PROVE Books
  OBVIOUS
<1>1. /\ orders = <<>> /\ \A c \in Checkouts : attempt[c] = NoAttempt
      /\ \A w \in Workers : pc[w] = "idle" /\ loc[w] = NoLocals
      /\ stock = Stock /\ points = Balance /\ reserved = 0
      /\ IsFiniteSet(Workers) /\ IsFiniteSet(Checkouts) /\ DOMAIN orders = {}
  BY CheckoutAssumption DEF Init
<1>2. ASSUME NEW p \in Products PROVE Held(p) = 0 /\ Sold(p) = 0 /\ InHands(p) = 0
  <2>1. \A c \in Checkouts : HeldFor(p)[c] = 0
    BY <1>1 DEF HeldFor, NoAttempt
  <2>2. \A w \in Workers : Carried(p)[w] = 0
    BY <1>1 DEF Carried, Carries, Buying
  <2> QED BY <1>1, <2>1, <2>2, SumOfZeros, SumOfNone DEF Held, Sold, InHands
<1>3. OfAttempts("reserved") = 0 /\ OfOrders("reserved") = 0 /\ OfOrders("redeemed") = 0
  <2>1. \A c \in Checkouts : PointsFor("reserved")[c] = 0
    BY <1>1 DEF PointsFor, NoAttempt
  <2> QED BY <1>1, <2>1, SumOfZeros, SumOfNone DEF OfAttempts, OfOrders
<1>4. InPromise = 0 /\ InTaking = 0
  <2>1. \A w \in Workers : Promised[w] = 0 /\ Taken[w] = 0
    BY <1>1 DEF Promised, Promises, Taken, Takes
  <2> QED BY <1>1, <2>1, SumOfZeros DEF InPromise, InTaking
<1>5. UnitsAddUp
  BY <1>1, <1>2, CheckoutAssumption DEF UnitsAddUp
<1>6. PointsAddUp
  BY <1>1, <1>3, <1>4, CheckoutBounds DEF PointsAddUp
<1> QED BY <1>5, <1>6 DEF Books

\* What failed has failed.
LEMMA FaultsStay == TypeInv /\ [Next]_vars /\ faults' = 0 => faults = 0
<1> SUFFICES ASSUME TypeInv, [Next]_vars, faults' = 0 PROVE faults = 0
  OBVIOUS
<1>1. ASSUME NEW w \in Workers, Continue(w) PROVE faults' = faults
  BY <1>1 DEF Continue, Place, Complete, NotComplete, ClaimKey, ReservePoints, ReserveItem, Shortage,
     CreateCodOrder, CreateAttempt, CreateGatewayOrder, LinkAttempt, CompleteKey, GiveStock, GivePoints,
     FindAttempt, Settle, CreatePaidOrder, FinalizePoints, Redeem, AttachOrder,
     Drop, DropStock, DropPoints, DropMark, DropStatus
<1>2. ASSUME NEW w \in Workers,
             \/ \E c \in Checkouts : StartPlace(w, c) \/ StartVerify(w, c) \/ StartCancel(w, c)
             \/ \E e \in Events : StartWebhook(w, e)
      PROVE  faults' = faults
  BY <1>2 DEF StartPlace, StartVerify, StartCancel, StartWebhook
<1>3. Fault => FALSE
  BY DEF Fault, TypeInv, DataOK
<1>4. ASSUME NEW w \in Workers, PlacingFails(w) \/ Abandons(w) PROVE FALSE
  BY <1>3, <1>4 DEF PlacingFails, Abandons
<1>5. CASE \/ \E e \in Events : Duplicate(e)
           \/ \E c \in Checkouts : Pay(c) \/ PaymentFails(c) \/ ExpireAttempt(c)
  BY <1>3, <1>5 DEF Duplicate, Pay, PaymentFails, ExpireAttempt
<1>6. CASE UNCHANGED vars
  BY <1>6 DEF vars
<1> QED BY <1>1, <1>2, <1>4, <1>5, <1>6 DEF Next

\* The inductive invariant: types and keys always, the rest until something fails.
BooksInv == TypeInv /\ CashInv /\ (faults = 0 => Orderly /\ Books)

\* Between requests the books say what the property asks of them.
LEMMA BooksShowIt == BooksInv => OrdersAddUp
<1> SUFFICES ASSUME BooksInv PROVE OrdersAddUp
  OBVIOUS
<1>1. TypeInv /\ (faults = 0 => Orderly /\ UnitsAddUp /\ (NothingGiven => PointsAddUp))
  BY DEF BooksInv, Books
<1>2. OneOrderUndisturbed
  BY <1>1 DEF OneOrderUndisturbed, OneOrderPerPayment, Orderly, OneEach
<1>3. IsFiniteSet(Workers)
  BY CheckoutAssumption
<1>4. StockAccounted
  <2> SUFFICES ASSUME NEW p \in Products
      PROVE  stock[p] >= 0 /\ (Quiet /\ faults = 0 => stock[p] + Held(p) + Sold(p) = Stock[p])
    BY DEF StockAccounted
  <2>1. stock[p] \in Nat
    BY <1>1 DEF TypeInv, DataOK
  <2>2. ASSUME Quiet, faults = 0 PROVE stock[p] + Held(p) + Sold(p) = Stock[p]
    <3>1. \A w \in Workers : Carried(p)[w] = 0
      BY <2>2 DEF Quiet, Carried, Carries, Buying
    <3>2. InHands(p) = 0
      BY <1>3, <3>1, SumOfZeros DEF InHands
    <3>3. Held(p) \in Int /\ Sold(p) \in Int
      <4>1. IsFiniteSet(Checkouts) /\ \A c \in Checkouts : HeldFor(p)[c] \in Int
        BY <1>1, CheckoutAssumption, CartType DEF HeldFor, UnitsOf
      <4> QED BY <1>1, <4>1, SumIsInt, OrderNumbers DEF Held
    <3>4. stock[p] + Held(p) + Sold(p) + InHands(p) = Stock[p]
      BY <1>1, <2>2 DEF UnitsAddUp
    <3> QED BY <2>1, <3>2, <3>3, <3>4
  <2> QED BY <2>1, <2>2
<1>5. LoyaltyAccounted
  <2> SUFFICES ASSUME Quiet, faults = 0, NoneGivenTwice
      PROVE  reserved = OfAttempts("reserved") + OfOrders("reserved") /\ points + OfOrders("redeemed") = Balance
    BY DEF LoyaltyAccounted
  <2>1. NothingGiven
    BY ItemsType DEF NothingGiven, Given, Quiet, NoneGivenTwice
  <2>2. \A w \in Workers : Promised[w] = 0 /\ Taken[w] = 0
    BY DEF Quiet, Promised, Promises, Taken, Takes
  <2>3. InPromise = 0 /\ InTaking = 0
    BY <1>3, <2>2, SumOfZeros DEF InPromise, InTaking
  <2>4. /\ reserved = OfAttempts("reserved") + OfOrders("reserved") + InPromise
        /\ points + OfOrders("redeemed") + InTaking = Balance
    BY <1>1, <2>1 DEF PointsAddUp
  <2>5. OfOrders("reserved") \in Nat /\ OfOrders("redeemed") \in Nat /\ points \in Nat
    BY <1>1, OrderNumbers DEF TypeInv, DataOK
  <2>6. OfAttempts("reserved") \in Int
    <3>1. IsFiniteSet(Checkouts) /\ \A c \in Checkouts : PointsFor("reserved")[c] \in Int
      BY CheckoutAssumption, ItemsType DEF PointsFor
    <3> QED BY <3>1, SumIsInt DEF OfAttempts
  <2> QED BY <2>3, <2>4, <2>5, <2>6
<1> QED BY <1>2, <1>4, <1>5 DEF OrdersAddUp, NothingLost

\* While one handler settles payments and nothing fails, whatever customers race for,
\* decline, cancel or pay twice: between requests every unit is on the shelf, held or sold,
\* every point is reserved for somebody or spent (unless a refused online checkout gave its
\* points back twice), and a payment makes one order (orderController.js).
THEOREM NothingIsLost == OneSettler /\ Spec => []OrdersAddUp
<1> SUFFICES ASSUME OneSettler PROVE Spec => []OrdersAddUp
  OBVIOUS
<1>1. Init => BooksInv
  BY InitType, InitCash, OrderlyAtFirst, BooksAtFirst DEF BooksInv
<1>2. BooksInv /\ [Next]_vars => BooksInv'
  <2> SUFFICES ASSUME BooksInv, [Next]_vars PROVE BooksInv'
    OBVIOUS
  <2>1. TypeInv' /\ CashInv'
    BY NextType, NextCash DEF BooksInv
  <2>2. ASSUME faults' = 0 PROVE Orderly' /\ Books'
    <3>1. faults = 0
      BY <2>2, FaultsStay DEF BooksInv
    <3>2. TypeInv /\ CashInv /\ Orderly /\ Books
      BY <3>1 DEF BooksInv
    <3> QED BY <2>1, <2>2, <3>1, <3>2, OrderlySteps, BooksSteps
  <2> QED BY <2>1, <2>2 DEF BooksInv
<1>3. BooksInv => OrdersAddUp
  BY BooksShowIt
<1> QED
  BY <1>1, <1>2, <1>3, PTL DEF Spec

=============================================================================
