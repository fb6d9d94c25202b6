---------------------------- MODULE ShiprocketSync ----------------------------
(***************************************************************************)
(* How an order gets to the courier and is cancelled there:                *)
(* syncOrderToShiprocket of services/shiprocketService.js, run when an     *)
(* order is placed or settled and again when an admin retries it, the      *)
(* cancellation mirrored by services/orderStatusService.js, and what the   *)
(* courier's webhooks write about ids.  Each request to the courier goes   *)
(* through the client of ShiprocketToken.                                  *)
(*                                                                         *)
(* The courier is external: it may or may not refuse a second order with   *)
(* a reference it has, and numbers the orders it makes for one reference.  *)
(* Configuration, pricing and tracking fields are left out.                *)
(***************************************************************************)
EXTENDS ShiprocketToken

CONSTANTS
  Orders,
  MaxMade   \* bound: courier orders for one reference, and doubts counted for one order

ASSUME CourierBounds == MaxMade \in Nat \ {0}

VARIABLES
  order,       \* cancelled; sync: shiprocket.syncStatus; id: shiprocket.orderId, or 0; mirror: cancelStatus
  made,        \* external: how many courier orders were made for the order
  dead,        \* external: those of them that are cancelled
  pc, loc,
  crossed,     \* history: the orders two requests were at together, that were synced after
               \* their cancellation, or whose cancellation was lost before it was mirrored
  doubts       \* history: how often a sync of the order was begun beside another or for an order
               \* with ids, or left behind what the shop does not know of

historyVars == <<crossed, doubts>>
shopVars == <<order, made, dead, pc, loc, historyVars>>
vars == <<tokenVars, faults, shopVars>>

\* o: the order; read: its id as read at the start; id: as the courier told it; sent: the
\* courier may have made an order that neither a search nor a write has dealt with since.
NoLocals == [o |-> "none", read |-> 0, id |-> 0, sent |-> FALSE]

Placed == [cancelled |-> FALSE, sync |-> "pending", id |-> 0, mirror |-> "none"]

Init ==
  /\ TokenInit
  /\ faults = 0
  /\ order = [o \in Orders |-> Placed]
  /\ made = [o \in Orders |-> 0]
  /\ dead = [o \in Orders |-> {}]
  /\ pc = [w \in Workers |-> "idle"]
  /\ loc = [w \in Workers |-> NoLocals]
  /\ crossed = {}
  /\ doubts = [o \in Orders |-> 0]

GoWith(w, label, l) ==
  /\ pc' = [pc EXCEPT ![w] = label]
  /\ loc' = [loc EXCEPT ![w] = l]

GoTo(w, label) == GoWith(w, label, loc[w])

Ends(w) == GoWith(w, "idle", NoLocals)

At(w, o) == pc[w] # "idle" /\ loc[w].o = o

Shared(o) == \E v \in Workers : At(v, o)

Syncing == {"prepare", "create", "search", "store", "fail"}

InSync(w, o) == pc[w] \in Syncing /\ loc[w].o = o

Crosses(o, how) == crossed' = IF how THEN crossed \cup {o} ELSE crossed

Doubted(o, how) ==
  doubts' = [doubts EXCEPT ![o] = IF how /\ @ < MaxMade THEN @ + 1 ELSE @]

Reads(o) == [NoLocals EXCEPT !.o = o, !.read = order[o].id]

Set(o, new) == order' = [order EXCEPT ![o] = new]

-----------------------------------------------------------------------------
(* syncOrderToShiprocket                                                   *)

\* An order that has its ids is left alone, unless an admin forces it.
StartSync(w, o, force) ==
  /\ pc[w] = "idle"
  /\ IF ~force /\ order[o].id # 0
     THEN UNCHANGED <<pc, loc, historyVars>>
     ELSE /\ GoWith(w, "prepare", Reads(o))
          /\ Crosses(o, Shared(o) \/ order[o].cancelled)
          /\ Doubted(o, order[o].id # 0 \/ \E v \in Workers : InSync(v, o))
  /\ UNCHANGED <<tokenVars, faults, order, made, dead>>

\* The payload is built and the order marked, or its data or the database do not allow it.
Prepare(w) ==
  /\ pc[w] = "prepare"
  /\ \/ /\ Set(loc[w].o, [order[loc[w].o] EXCEPT !.sync = "pending"])
        /\ GoTo(w, "create")
        /\ Calls(w)
     \/ GoTo(w, "fail") /\ UNCHANGED <<order, call>>
  /\ UNCHANGED <<token, login, logins, issued, revoked, faults, made, dead, historyVars>>

MakesOrder(o) == made[o] < MaxMade /\ made' = [made EXCEPT ![o] = @ + 1]

Answered(w) == EndsCall(w) /\ UNCHANGED <<token, login, logins, issued, revoked>>

\* Mutant of Create: a refused request fails the sync at once.
CreateUnreconciled(w) ==
  LET o == loc[w].o
  IN /\ pc[w] = "create" /\ Accepted(w)
     /\ \/ MakesOrder(o) /\ GoWith(w, "store", [loc[w] EXCEPT !.id = made[o] + 1])
        \/ GoTo(w, "fail") /\ UNCHANGED made
        \/ MakesOrder(o) /\ GoTo(w, "fail")
     /\ Answered(w)
     /\ UNCHANGED <<faults, order, dead, historyVars>>

\* The courier makes the order and tells its ids; or refuses it; or makes it and answers
\* without them.
Create(w) ==
  LET o == loc[w].o
  IN /\ pc[w] = "create" /\ Accepted(w)
     /\ \/ MakesOrder(o) /\ GoWith(w, "store", [loc[w] EXCEPT !.id = made[o] + 1])
        \/ GoWith(w, "search", [loc[w] EXCEPT !.sent = TRUE]) /\ UNCHANGED made
        \/ MakesOrder(o) /\ GoWith(w, "search", [loc[w] EXCEPT !.sent = TRUE])
     /\ IF pc'[w] = "search"
        THEN Calls(w) /\ UNCHANGED <<token, login, logins, issued, revoked>>
        ELSE Answered(w)
     /\ UNCHANGED <<faults, order, dead, historyVars>>

\* No answer, whether or not the courier made the order; or no token.  Every such error is
\* taken as ambiguous.
CreateFails(w) ==
  /\ pc[w] = "create"
  /\ \/ /\ Accepted(w)
        /\ faults < MaxFaults /\ faults' = faults + 1
        /\ MakesOrder(loc[w].o) \/ UNCHANGED made
        /\ GoWith(w, "search", [loc[w] EXCEPT !.sent = TRUE])
     \/ /\ call[w].at = "failed"
        /\ GoTo(w, "search")
        /\ UNCHANGED <<faults, made>>
  /\ Calls(w)
  /\ UNCHANGED <<token, login, logins, issued, revoked, order, dead, historyVars>>

\* Mutant of Search: an order that is not found is searched for until it is.
SearchUntilFound(w) ==
  /\ pc[w] = "search" /\ Accepted(w)
  /\ \/ /\ \E id \in 1 .. made[loc[w].o] : GoWith(w, "store", [loc[w] EXCEPT !.id = id, !.sent = FALSE])
        /\ EndsCall(w)
     \/ made[loc[w].o] = 0 /\ Calls(w) /\ UNCHANGED <<pc, loc>>
  /\ UNCHANGED <<token, login, logins, issued, revoked, faults, order, made, dead, historyVars>>

\* reconcileExistingShiprocketOrder: one of the orders with this reference, or none.
Search(w) ==
  /\ pc[w] = "search" /\ Accepted(w)
  /\ \/ \E id \in 1 .. made[loc[w].o] : GoWith(w, "store", [loc[w] EXCEPT !.id = id, !.sent = FALSE])
     \/ made[loc[w].o] = 0 /\ GoWith(w, "fail", [loc[w] EXCEPT !.sent = FALSE])
  /\ Answered(w)
  /\ UNCHANGED <<faults, order, made, dead, historyVars>>

SearchFails(w) ==
  /\ pc[w] = "search"
  /\ \/ Accepted(w) /\ faults < MaxFaults /\ faults' = faults + 1
     \/ call[w].at = "failed" /\ UNCHANGED faults
  /\ GoTo(w, "fail")
  /\ Answered(w)
  /\ UNCHANGED <<order, made, dead, historyVars>>

Stored(w) == [order[loc[w].o] EXCEPT !.sync = "synced", !.id = loc[w].id]

Store(w) ==
  /\ pc[w] = "store"
  /\ Set(loc[w].o, Stored(w))
  /\ Ends(w)
  /\ UNCHANGED <<tokenVars, faults, made, dead, historyVars>>

\* A database error, before or after the ids were written, goes to the same catch block.
StoreFails(w) ==
  /\ pc[w] = "store"
  /\ faults < MaxFaults /\ faults' = faults + 1
  /\ UNCHANGED order \/ Set(loc[w].o, Stored(w))
  /\ GoWith(w, "fail", [loc[w] EXCEPT !.id = 0, !.sent = TRUE])
  /\ UNCHANGED <<tokenVars, made, dead, historyVars>>

\* The failure is stored, with the ids as they were read at the start.
Fail(w) ==
  LET o == loc[w].o
  IN /\ pc[w] = "fail"
     /\ Set(o, [order[o] EXCEPT !.sync = "pending_retry", !.id = loc[w].read])
     /\ Ends(w)
     /\ Doubted(o, loc[w].read = 0 /\ (loc[w].sent \/ order[o].id # 0))
     /\ UNCHANGED <<tokenVars, faults, made, dead, crossed>>

\* The catch block's own write fails.
FailFails(w) ==
  LET o == loc[w].o
  IN /\ pc[w] = "fail"
     /\ faults < MaxFaults /\ faults' = faults + 1
     /\ Ends(w)
     /\ Doubted(o, loc[w].sent /\ order[o].id = 0)
     /\ UNCHANGED <<tokenVars, order, made, dead, crossed>>

-----------------------------------------------------------------------------
(* performOrderCancellation and cancelShiprocketForOrder                   *)

\* One request cancels the order; its copy, read with that write, is what is mirrored.
Cancel(w, o) ==
  /\ pc[w] = "idle" /\ ~order[o].cancelled
  /\ Set(o, [order[o] EXCEPT !.cancelled = TRUE])
  /\ IF order[o].id # 0 /\ order[o].mirror # "cancelled"
     THEN GoWith(w, "mirror", Reads(o))
     ELSE UNCHANGED <<pc, loc>>
  /\ Crosses(o, Shared(o))
  /\ UNCHANGED <<tokenVars, faults, made, dead, doubts>>

Mirror(w) ==
  /\ pc[w] = "mirror"
  /\ Set(loc[w].o, [order[loc[w].o] EXCEPT !.mirror = "pending"])
  /\ GoTo(w, "cancel")
  /\ Calls(w)
  /\ UNCHANGED <<token, login, logins, issued, revoked, faults, made, dead, historyVars>>

\* A database error before the mirror, in the releases or in the write above: no catch.
MirrorFails(w) ==
  /\ pc[w] = "mirror"
  /\ faults < MaxFaults /\ faults' = faults + 1
  /\ Ends(w)
  /\ Crosses(loc[w].o, TRUE)
  /\ UNCHANGED <<tokenVars, order, made, dead, doubts>>

MirrorIs(w, status) ==
  /\ Set(loc[w].o, [order[loc[w].o] EXCEPT !.mirror = status])
  /\ Ends(w)
  /\ Answered(w)
  /\ UNCHANGED <<made, historyVars>>

\* The courier cancels the order, or says it is cancelled already; or refuses.
CourierCancels(w) ==
  /\ pc[w] = "cancel" /\ Accepted(w)
  /\ \/ dead' = [dead EXCEPT ![loc[w].o] = @ \cup {loc[w].read}] /\ MirrorIs(w, "cancelled")
     \/ UNCHANGED dead /\ MirrorIs(w, "failed")
  /\ UNCHANGED faults

\* No answer, or no token; or the outcome cannot be written, and stays "pending" when the
\* write of the failure is the one that fails.
CancelFails(w) ==
  /\ pc[w] = "cancel"
  /\ \/ /\ Accepted(w)
        /\ faults < MaxFaults /\ faults' = faults + 1
        /\ dead' \in {dead, [dead EXCEPT ![loc[w].o] = @ \cup {loc[w].read}]}
        /\ MirrorIs(w, "failed") \/ MirrorIs(w, "pending")
     \/ /\ call[w].at = "failed"
        /\ MirrorIs(w, "failed")
        /\ UNCHANGED <<faults, dead>>

-----------------------------------------------------------------------------
\* A webhook about a courier order brings its ids (buildShiprocketWebhookUpdateSet).
Webhook(o) ==
  /\ \E id \in 1 .. made[o] :
       Set(o, [order[o] EXCEPT !.sync = "synced", !.id = id])
  /\ Crosses(o, Shared(o))
  /\ UNCHANGED <<tokenVars, faults, made, dead, pc, loc, doubts>>

Crash ==
  /\ \E w \in Workers : pc[w] # "idle"
  /\ faults < MaxFaults /\ faults' = faults + 1
  /\ TokenCrash
  /\ pc' = [w \in Workers |-> "idle"]
  /\ loc' = [w \in Workers |-> NoLocals]
  /\ crossed' = crossed \cup {loc[w].o : w \in {v \in Workers : pc[v] = "mirror"}}
  /\ doubts' = [o \in Orders |->
       IF /\ order[o].id = 0 /\ doubts[o] < MaxMade
          /\ \E w \in Workers : InSync(w, o) /\ (loc[w].sent \/ pc[w] = "store")
       THEN doubts[o] + 1 ELSE doubts[o]]
  /\ UNCHANGED <<order, made, dead>>

Continue(w) ==
  \/ Prepare(w) \/ Create(w) \/ CreateFails(w) \/ Search(w) \/ SearchFails(w) \/ Store(w) \/ StoreFails(w)
  \/ Fail(w) \/ FailFails(w) \/ Mirror(w) \/ MirrorFails(w) \/ CourierCancels(w) \/ CancelFails(w)

Next ==
  \/ \E w \in Workers :
       \/ Continue(w)
       \/ \E o \in Orders : Cancel(w, o) \/ \E force \in BOOLEAN : StartSync(w, o, force)
  \/ \E o \in Orders : Webhook(o)
  \/ Crash
  \/ TokenNext /\ UNCHANGED shopVars

Spec == Init /\ [][Next]_vars

\* Requests and logins are answered or time out, and the process runs on.
Fairness ==
  /\ \A w \in Workers :
       WF_vars(Continue(w) \/ ((Ask(w) \/ Refused(w)) /\ UNCHANGED shopVars))
  /\ WF_vars((LoginGranted \/ LoginAnswers) /\ UNCHANGED shopVars)

-----------------------------------------------------------------------------
(* Properties                                                              *)

Labels == {"idle", "prepare", "create", "search", "store", "fail", "mirror", "cancel"}
Ids == 0 .. MaxMade
Mirrors == {"none", "pending", "cancelled", "failed"}

\* Types; a request is under way exactly while a worker is at one; one login at a time.
TypeOK ==
  /\ TokenTypeOK
  /\ order \in [Orders -> [cancelled : BOOLEAN, sync : {"pending", "synced", "pending_retry"},
                           id : Ids, mirror : Mirrors]]
  /\ made \in [Orders -> Ids] /\ dead \in [Orders -> SUBSET (1 .. MaxMade)]
  /\ pc \in [Workers -> Labels]
  /\ loc \in [Workers -> [o : Orders \cup {"none"}, read : Ids, id : Ids, sent : BOOLEAN]]
  /\ crossed \subseteq Orders /\ doubts \in [Orders -> Ids]
  /\ \A w \in Workers : call[w].at # "none" <=> pc[w] \in {"create", "search", "cancel"}

\* The recovery of lost and refused requests makes no second courier order.  A second one
\* takes a sync begun beside another or for an order that has its ids, or a sync that left an
\* order at the courier without its ids stored, or erased ids stored while it ran; and each
\* of these makes one more at most.
OneShipment == \A o \in Orders : made[o] <= 1 + doubts[o]

\* What the admin is shown is true at the courier: a synced order has the ids of a courier
\* order, a mirrored cancellation is one there; and an order cancelled while no other
\* request is at it, whose shipment the shop knows, is cancelled there too, or the failure is
\* shown, or the request is still under way.
ShownIsTrue ==
  \A o \in Orders :
    /\ order[o].sync = "synced" => order[o].id \in 1 .. made[o]
    /\ order[o].mirror = "cancelled" => dead[o] # {}
    /\ o \notin crossed /\ doubts[o] = 0 /\ order[o].cancelled /\ made[o] > 0 =>
         \/ dead[o] # {} \/ order[o].mirror \in {"pending", "failed"}
         \/ \E w \in Workers : At(w, o)

\* An order has one shipment, and what the admin is shown of it is true at the courier
\* (OneShipment and ShownIsTrue; syncOrderToShiprocket and its recovery,
\* performOrderCancellation).
OneShownShipment == OneShipment /\ ShownIsTrue

\* Every request ends, whatever fails.
RequestsEnd == \A w \in Workers : pc[w] # "idle" ~> pc[w] = "idle"
=============================================================================
