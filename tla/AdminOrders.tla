----------------------------- MODULE AdminOrders -----------------------------
(***************************************************************************)
(* The list of the admin's orders page (admin/src/pages/Orders.jsx).  It   *)
(* is filled by three kinds of messages, which pass each other on the way: *)
(* answers to polls, realtime events, and answers that carry one order.    *)
(* The server's orders change by other requests, too (OrderStatus,         *)
(* RefundService); of an order the model keeps how often it was written    *)
(* and what is left to refund.                                             *)
(***************************************************************************)
EXTENDS Integers, FiniteSets

CONSTANTS PageOrders,  \* the orders listed
          Amount,      \* what each of them cost
          MaxWrites,   \* bound on the writes of one order
          MaxMisses    \* bound on requests that fail or whose answer is lost

ConstantsOK ==
  /\ PageOrders # {} /\ IsFiniteSet(PageOrders) /\ "none" \notin PageOrders
  /\ Amount \in Nat \ {0} /\ MaxWrites \in Nat /\ MaxMisses \in Nat

ASSUME AdminOrdersAssumption == ConstantsOK

VARIABLES
  \* the server
  saved,      \* each order: how often it was written, and what is left to refund
  \* the network
  events,     \* order.upsert events published and not gone: [o, copy]
  lists,      \* answers of allOrders on their way
  posts,      \* the admin's other requests: [kind, o, copy], NoCopy before the server took it
  \* the page
  shown,      \* each order as listed, or NoCopy
  applied,    \* processedEventIdsRef
  dialog,     \* the order of the refund dialog, or None
  processing, \* isProcessingRefund
  \* history
  refunded,   \* refunds accepted for the dialog that is open
  unanswered, \* refund requests of that dialog whose answer was lost
  misses

wireVars == <<events, lists, posts>>
listVars == <<shown, applied>>
dialogVars == <<dialog, processing, refunded, unanswered>>
orderVars == <<saved, wireVars, listVars, dialogVars, misses>>

None == "none"
Copies == [writes : 0..MaxWrites, left : 0..Amount]
NoCopy == [writes |-> -1, left |-> 0]
Snapshots == [PageOrders -> Copies]
PostKinds == {"status", "verify", "refund"}

OrdersTypeOK ==
  /\ saved \in Snapshots
  /\ events \subseteq [o : PageOrders, copy : Copies]
  /\ lists \subseteq Snapshots
  /\ posts \subseteq [kind : PostKinds, o : PageOrders, copy : Copies \cup {NoCopy}]
  /\ shown \in [PageOrders -> Copies \cup {NoCopy}]
  /\ applied \subseteq [o : PageOrders, copy : Copies]
  /\ dialog \in PageOrders \cup {None}
  /\ processing \in BOOLEAN
  /\ refunded \in Nat
  /\ unanswered \in Nat
  /\ misses \in 0..MaxMisses

\* The page was just opened: nothing listed yet.
OrdersInit ==
  /\ saved = [o \in PageOrders |-> [writes |-> 0, left |-> Amount]]
  /\ events = {}
  /\ lists = {}
  /\ posts = {}
  /\ shown = [o \in PageOrders |-> NoCopy]
  /\ applied = {}
  /\ dialog = None
  /\ processing = FALSE
  /\ refunded = 0
  /\ unanswered = 0
  /\ misses = 0

-----------------------------------------------------------------------------
(* The server.                                                             *)

\* The order as it is after one more write that takes n off what is left.
Written(o, n) == [writes |-> saved[o].writes + 1, left |-> saved[o].left - n]

\* publishAdminOrderUpsert: the order with the write, as an event; it may get lost, or come
\* before or after any answer.
Publish(o, copy) == events' = events \cup {[o |-> o, copy |-> copy]}

Miss == misses < MaxMisses /\ misses' = misses + 1

\* Someone else's request writes the order: a webhook, a job, another admin.
OtherWrite(o) ==
  /\ saved[o].writes < MaxWrites
  /\ \E n \in {0} \cup (IF saved[o].left > 0 THEN {1} ELSE {}) :
       /\ saved' = [saved EXCEPT ![o] = Written(o, n)]
       /\ Publish(o, Written(o, n))
  /\ UNCHANGED <<lists, posts, listVars, dialogVars, misses>>

\* allOrders, for a poll (every 45 s), or after a request of the admin.
AllOrders ==
  /\ lists' = lists \cup {saved}
  /\ UNCHANGED <<saved, events, posts, listVars, dialogVars, misses>>

\* updateStatus, or verifyShiprocketPricingLive, which answers with the order read again.
TakePost(p) ==
  /\ p \in posts /\ p.kind \in {"status", "verify"} /\ p.copy = NoCopy
  /\ saved[p.o].writes < MaxWrites
  /\ saved' = [saved EXCEPT ![p.o] = Written(p.o, 0)]
  /\ Publish(p.o, Written(p.o, 0))
  /\ posts' = (posts \ {p}) \cup {[p EXCEPT !.copy = Written(p.o, 0)]}
  /\ UNCHANGED <<lists, listVars, dialogVars, misses>>

\* getShiprocketOrderDetails, asked instead of a server that lacks the route of
\* verifyShiprocketPricingLive: the order as it is read; the page verifies it itself.
AnswerDetails(p) ==
  /\ p \in posts /\ p.kind = "verify" /\ p.copy = NoCopy
  /\ posts' = (posts \ {p}) \cup {[p EXCEPT !.copy = saved[p.o]]}
  /\ UNCHANGED <<saved, events, lists, listVars, dialogVars, misses>>

\* refundOrder, by way of initiateRefund: a new idempotency key with every
\* request, so each is a refund of its own if enough is left.
TakeRefund(p, n) ==
  /\ p \in posts /\ p.kind = "refund" /\ p.copy = NoCopy
  /\ saved[p.o].left >= n /\ saved[p.o].writes < MaxWrites
  /\ saved' = [saved EXCEPT ![p.o] = Written(p.o, n)]
  /\ Publish(p.o, Written(p.o, n))
  /\ posts' = (posts \ {p}) \cup {[p EXCEPT !.copy = Written(p.o, n)]}
  /\ refunded' = IF p.o = dialog THEN refunded + 1 ELSE refunded
  /\ UNCHANGED <<lists, listVars, dialog, processing, unanswered, misses>>

-----------------------------------------------------------------------------
(* The list.                                                               *)

\* Mutant of MergeSnapshot: only orders not yet listed are taken over.
MergeNewOnly(list) == [o \in PageOrders |-> IF shown[o] = NoCopy THEN list[o] ELSE shown[o]]

\* mergeOrderSnapshot: the answer replaces the list.
MergeSnapshot(list) == [o \in PageOrders |-> list[o]]

\* upsertOrderById: the order replaces the one listed, whichever is newer.
Upsert(o, copy) == [shown EXCEPT ![o] = copy]

\* fetchAllOrders, when its answer comes.
ListAnswer(list) ==
  /\ list \in lists
  /\ lists' = lists \ {list}
  /\ shown' = MergeSnapshot(list)
  /\ UNCHANGED <<saved, events, posts, applied, dialogVars, misses>>

\* A poll fails: silent, the list stays.
ListLost(list) ==
  /\ list \in lists /\ Miss
  /\ lists' = lists \ {list}
  /\ UNCHANGED <<saved, events, posts, listVars, dialogVars>>

\* onOrderUpsert: an event is taken over once, however often it is delivered.
OrderUpsert(e) ==
  /\ e \in events
  /\ applied' = applied \cup {e}
  /\ shown' = IF e \in applied THEN shown ELSE Upsert(e.o, e.copy)
  /\ UNCHANGED <<saved, wireVars, dialogVars, misses>>

\* The last delivery of an event was made, or it never will be: the page was not connected.
EventGone(e) ==
  /\ e \in events
  /\ events' = events \ {e}
  /\ applied' = applied \ {e}
  /\ UNCHANGED <<saved, lists, posts, shown, dialogVars, misses>>

-----------------------------------------------------------------------------
(* The admin's requests for one order.                                     *)

Send(kind, o) == posts' = posts \cup {[kind |-> kind, o |-> o, copy |-> NoCopy]}
Sent(kind, o) == \E p \in posts : p.kind = kind /\ p.o = o

\* applyStatusUpdate, by statusHandler or confirmCancelOrder. updatingOrderId disables only
\* the order updated last: an earlier one may be updated again before its answer.
ApplyStatusUpdate(o) ==
  /\ shown[o] # NoCopy
  /\ Send("status", o)
  /\ UNCHANGED <<saved, events, lists, listVars, dialogVars, misses>>

\* Its answer, with the list read again, silently.
StatusAnswer(p) ==
  /\ p \in posts /\ p.kind = "status" /\ p.copy # NoCopy
  /\ posts' = posts \ {p}
  /\ lists' = lists \cup {saved}
  /\ UNCHANGED <<saved, events, listVars, dialogVars, misses>>

\* verifyShiprocketPricingLive: one at a time for an order (shiprocketActionByOrderId).
VerifyLive(o) ==
  /\ shown[o] # NoCopy /\ ~Sent("verify", o)
  /\ Send("verify", o)
  /\ UNCHANGED <<saved, events, lists, listVars, dialogVars, misses>>

VerifyAnswer(p) ==
  /\ p \in posts /\ p.kind = "verify" /\ p.copy # NoCopy
  /\ posts' = posts \ {p}
  /\ shown' = Upsert(p.o, p.copy)
  /\ UNCHANGED <<saved, events, lists, applied, dialogVars, misses>>

\* Either request fails: a message; it may be made again.
PostFails(p) ==
  /\ p \in posts /\ p.kind \in {"status", "verify"} /\ Miss
  /\ posts' = posts \ {p}
  /\ UNCHANGED <<saved, events, lists, listVars, dialogVars>>

-----------------------------------------------------------------------------
(* The refund dialog.                                                      *)

\* openRefundDialog, for a cancelled order that is not shown as refunded in full; the dialog
\* covers the page.
OpenRefundDialog(o) ==
  /\ dialog = None /\ shown[o] # NoCopy /\ shown[o].left > 0
  /\ dialog' = o
  /\ refunded' = 0 /\ unanswered' = 0
  /\ UNCHANGED <<saved, wireVars, listVars, processing, misses>>

\* closeRefundDialog: not while a refund is under way.
CloseRefundDialog ==
  /\ dialog # None /\ ~processing
  /\ dialog' = None
  /\ UNCHANGED <<saved, wireVars, listVars, processing, refunded, unanswered, misses>>

\* Mutant of SubmitRefund: the button stays enabled.
SubmitAgain ==
  /\ dialog # None
  /\ processing' = TRUE
  /\ Send("refund", dialog)
  /\ UNCHANGED <<saved, events, lists, listVars, dialog, refunded, unanswered, misses>>

\* submitRefund: the button is disabled while one is under way.
SubmitRefund ==
  /\ dialog # None /\ ~processing
  /\ processing' = TRUE
  /\ Send("refund", dialog)
  /\ UNCHANGED <<saved, events, lists, listVars, dialog, refunded, unanswered, misses>>

\* Accepted: the order of the answer is listed, the dialog closed.
RefundAnswer(p) ==
  /\ p \in posts /\ p.kind = "refund" /\ p.copy # NoCopy
  /\ posts' = posts \ {p}
  /\ shown' = Upsert(p.o, p.copy)
  /\ dialog' = None
  /\ processing' = FALSE
  /\ UNCHANGED <<saved, events, lists, applied, refunded, unanswered, misses>>

\* Refused: the dialog stays open.
RefundRefused(p) ==
  /\ p \in posts /\ p.kind = "refund" /\ p.copy = NoCopy
  /\ posts' = posts \ {p}
  /\ processing' = FALSE
  /\ UNCHANGED <<saved, events, lists, listVars, dialog, refunded, unanswered, misses>>

\* The answer is lost: the page says that it failed, and the dialog stays open.
RefundUnanswered(p) ==
  /\ p \in posts /\ p.kind = "refund" /\ p.copy # NoCopy /\ Miss
  /\ posts' = posts \ {p}
  /\ processing' = FALSE
  /\ unanswered' = unanswered + 1
  /\ UNCHANGED <<saved, events, lists, listVars, dialog, refunded>>

-----------------------------------------------------------------------------
OrdersNext ==
  \/ \E o \in PageOrders : OtherWrite(o) \/ ApplyStatusUpdate(o) \/ VerifyLive(o) \/ OpenRefundDialog(o)
  \/ AllOrders
  \/ \E list \in lists : ListAnswer(list) \/ ListLost(list)
  \/ \E e \in events : OrderUpsert(e) \/ EventGone(e)
  \/ \E p \in posts : \/ TakePost(p) \/ AnswerDetails(p) \/ StatusAnswer(p) \/ VerifyAnswer(p) \/ PostFails(p)
                      \/ \E n \in 1..Amount : TakeRefund(p, n)
                      \/ RefundAnswer(p) \/ RefundRefused(p) \/ RefundUnanswered(p)
  \/ CloseRefundDialog \/ SubmitRefund

OrdersSpec == OrdersInit /\ [][OrdersNext]_orderVars

-----------------------------------------------------------------------------
\* Whatever order events, answers to polls and answers to requests come in, and whatever
\* is lost: once the orders no longer change the page shows them as they are, and goes on
\* to. An old copy may replace a newer one (nothing compares them); the next poll's answer
\* replaces the whole list (fetchAllOrders, upsertOrderById).
PageCatchesUp == <>[](shown = saved)

\* The admin who confirms a refund dialog refunds once, however often the button is
\* clicked, unless an answer was lost: then the dialog stays open, and another try has
\* another idempotency key (submitRefund).
OneRefundPerDialog == refunded <= 1 + unanswered
=============================================================================
