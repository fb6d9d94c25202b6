---------------------------- MODULE ProductList -----------------------------
(***************************************************************************)
(* The admin's product list (admin/src/pages/List.jsx) with the handlers   *)
(* behind it (server/controllers/productController.js).  A removal can be  *)
(* undone for 8 s: only a timer sends it.  A bulk change of status is      *)
(* shown at once, sent product by product, and taken back where it fails.  *)
(* Meanwhile the list may be read again, and others change the products.   *)
(***************************************************************************)
EXTENDS Integers, FiniteSets

CONSTANTS Products,
          Statuses,
          MaxConfirms,   \* bound on the removals confirmed for one product
          MaxChanges     \* bound on changes by others, lost requests and lost answers

VARIABLES
  saved,      \* each product as the server has it: there, status
  reads,      \* answers of listAdminProducts on their way
  rows,       \* products of the page: listed, status, hidden (__pendingDelete)
  bulk,       \* the bulk change under way, or NoBulk
  timers,     \* <<product, n>>: the timer of the n-th removal confirmed runs
  pending,    \* pendingUndoRef: the timer it knows for each product, or 0
  toasts,     \* <<product, n>>: Undo is offered
  removals,   \* requests to remove a product
  confirms,   \* history: how many removals of each product were confirmed
  had,        \* history: the statuses each product had
  changes

netVars == <<saved, reads, had, changes>>
undoVars == <<timers, pending, toasts, removals, confirms>>
vars == <<netVars, rows, bulk, undoVars>>

NoBulk == [ids |-> {}, next |-> "none", previous |-> <<>>, left |-> {}, failed |-> {}]
NoRow == [listed |-> FALSE, status |-> "none", hidden |-> FALSE]

\* The list is read when the page is opened.
Init ==
  /\ saved \in [Products -> [there : {TRUE}, status : Statuses]]
  /\ reads = {saved}
  /\ rows = [p \in Products |-> NoRow]
  /\ bulk = NoBulk
  /\ timers = {} /\ toasts = {} /\ removals = {}
  /\ pending = [p \in Products |-> 0]
  /\ confirms = [p \in Products |-> 0]
  /\ had = [p \in Products |-> {saved[p].status}]
  /\ changes = 0

Visible == {p \in Products : rows[p].listed /\ ~rows[p].hidden}
Change == changes < MaxChanges /\ changes' = changes + 1

\* A write of the status, and its history.
SetStatus(p, s) ==
  /\ saved' = [saved EXCEPT ![p].status = s]
  /\ had' = [had EXCEPT ![p] = @ \cup {s}]

\* Another page or another admin saves a product.
OtherSaves(p, s) ==
  /\ saved[p].there /\ s # saved[p].status /\ Change
  /\ SetStatus(p, s)
  /\ UNCHANGED <<reads, rows, bulk, undoVars>>

-----------------------------------------------------------------------------
(* The list.                                                               *)

\* fetchList, by Refresh: listAdminProducts answers with all of them.
FetchList ==
  /\ reads' = reads \cup {saved}
  /\ UNCHANGED <<saved, had, changes, rows, bulk, undoVars>>

\* The answer replaces the list, and with it the marks of removals under way.
ListAnswer(list) ==
  /\ list \in reads
  /\ reads' = reads \ {list}
  /\ rows' = [p \in Products |->
                IF list[p].there THEN [listed |-> TRUE, status |-> list[p].status, hidden |-> FALSE]
                ELSE NoRow]
  /\ UNCHANGED <<saved, had, changes, bulk, undoVars>>

ListFails(list) ==
  /\ list \in reads /\ Change
  /\ reads' = reads \ {list}
  /\ UNCHANGED <<saved, had, rows, bulk, undoVars>>

-----------------------------------------------------------------------------
(* Removal with undo.                                                      *)

Hide(ids, h) == rows' = [p \in Products |->
                           IF p \in ids /\ rows[p].listed THEN [rows[p] EXCEPT !.hidden = h] ELSE rows[p]]

\* scheduleDeleteWithUndo, once the dialog is confirmed: the rows disappear, and each gets
\* a toast and a timer, which takes the place of an earlier one in pendingUndoRef.
ScheduleDelete(ids) ==
  /\ ids # {} /\ ids \subseteq Visible
  /\ \A p \in ids : confirms[p] < MaxConfirms
  /\ confirms' = [p \in Products |-> IF p \in ids THEN confirms[p] + 1 ELSE confirms[p]]
  /\ pending' = [p \in Products |-> IF p \in ids THEN confirms'[p] ELSE pending[p]]
  /\ timers' = timers \cup {<<p, confirms'[p]>> : p \in ids}
  /\ toasts' = toasts \cup {<<p, confirms'[p]>> : p \in ids}
  /\ Hide(ids, TRUE)
  /\ UNCHANGED <<netVars, bulk, removals>>

\* Undo: it stops the timer pendingUndoRef knows, which is the newest, and shows the row.
Undo(p, n) ==
  /\ <<p, n>> \in toasts
  /\ toasts' = toasts \ {<<p, n>>}
  /\ timers' = timers \ {<<p, pending[p]>>}
  /\ pending' = [pending EXCEPT ![p] = 0]
  /\ Hide({p}, FALSE)
  /\ UNCHANGED <<netVars, bulk, removals, confirms>>

\* A toast without a running timer closes by itself.
ToastCloses(p, n) ==
  /\ <<p, n>> \in toasts \ timers
  /\ toasts' = toasts \ {<<p, n>>}
  /\ UNCHANGED <<netVars, rows, bulk, timers, pending, removals, confirms>>

\* The 8 s are over: performDelete sends the request.
TimerFires(p, n) ==
  /\ <<p, n>> \in timers
  /\ timers' = timers \ {<<p, n>>}
  /\ toasts' = toasts \ {<<p, n>>}
  /\ pending' = [pending EXCEPT ![p] = 0]
  /\ removals' = removals \cup {[p |-> p, n |-> n, at |-> "sent"]}
  /\ UNCHANGED <<netVars, rows, bulk, confirms>>

\* removeProduct: a product that is gone is answered 404. Of a page that was left nobody
\* waits for the answer.
RemoveProduct(r) ==
  /\ r \in removals /\ r.at \in {"sent", "left"}
  /\ saved' = [saved EXCEPT ![r.p].there = FALSE]
  /\ removals' = (removals \ {r}) \cup
       IF r.at = "left" THEN {} ELSE {[r EXCEPT !.at = IF saved[r.p].there THEN "removed" ELSE "refused"]}
  /\ UNCHANGED <<reads, had, changes, rows, bulk, timers, pending, toasts, confirms>>

\* The request, or its answer, is lost.
RemovalLost(r) ==
  /\ r \in removals /\ r.at \in {"sent", "removed"} /\ Change
  /\ removals' = (removals \ {r}) \cup {[r EXCEPT !.at = "refused"]}
  /\ UNCHANGED <<saved, reads, had, rows, bulk, timers, pending, toasts, confirms>>

\* performDelete: the row goes.
Removed(r) ==
  /\ r \in removals /\ r.at = "removed"
  /\ removals' = removals \ {r}
  /\ rows' = [rows EXCEPT ![r.p] = NoRow]
  /\ UNCHANGED <<netVars, bulk, timers, pending, toasts, confirms>>

\* performDelete: after an error the row is shown again.
NotRemoved(r) ==
  /\ r \in removals /\ r.at = "refused"
  /\ removals' = removals \ {r}
  /\ Hide({r.p}, FALSE)
  /\ UNCHANGED <<netVars, bulk, timers, pending, toasts, confirms>>

-----------------------------------------------------------------------------
(* Bulk change of status.                                                  *)

\* performBulkStatus: shown at once; what was shown before is kept.
BulkStatus(ids, s) ==
  /\ bulk = NoBulk /\ ids # {} /\ ids \subseteq Visible
  /\ bulk' = [ids |-> ids, next |-> s, previous |-> [p \in ids |-> rows[p].status],
              left |-> ids, failed |-> {}]
  /\ rows' = [p \in Products |-> IF p \in ids THEN [rows[p] EXCEPT !.status = s] ELSE rows[p]]
  /\ UNCHANGED <<netVars, undoVars>>

\* What a bulk change sends of a product, and what productInventoryUpdateSchema requires.
BulkBody == {"id", "status"}
Required == {"id", "stock", "lowStockThreshold", "status"}

\* updateProductInventory, behind validateRequest.
Patch(p) ==
  LET valid == Required \subseteq BulkBody /\ saved[p].there
  IN /\ p \in bulk.left
     /\ IF valid THEN SetStatus(p, bulk.next) ELSE UNCHANGED <<saved, had>>
     /\ bulk' = [bulk EXCEPT !.left = @ \ {p}, !.failed = IF valid THEN @ ELSE @ \cup {p}]
     /\ UNCHANGED <<reads, changes, rows, undoVars>>

\* Mutant of BulkEnds: what failed stays as shown.
BulkForgets ==
  /\ bulk # NoBulk /\ bulk.left = {}
  /\ bulk' = NoBulk
  /\ UNCHANGED <<netVars, rows, undoVars>>

\* All are answered: the rows of those that failed get back the status shown before, even
\* if the list was read meanwhile.
BulkEnds ==
  /\ bulk # NoBulk /\ bulk.left = {}
  /\ rows' = [p \in Products |-> IF p \in bulk.failed /\ rows[p].listed
                                 THEN [rows[p] EXCEPT !.status = bulk.previous[p]] ELSE rows[p]]
  /\ bulk' = NoBulk
  /\ UNCHANGED <<netVars, undoVars>>

-----------------------------------------------------------------------------
\* The admin leaves the page and comes back: the timers are stopped, the removals they
\* stood for are never made; what the page waited for no longer reaches it.  (The patches of
\* a bulk change go on, to be refused.)
LeavePage ==
  /\ timers' = {} /\ toasts' = {} /\ pending' = [p \in Products |-> 0]
  /\ removals' = {[r EXCEPT !.at = "left"] : r \in {q \in removals : q.at \in {"sent", "left"}}}
  /\ rows' = [p \in Products |-> NoRow]
  /\ bulk' = NoBulk
  /\ reads' = {saved}
  /\ UNCHANGED <<saved, had, changes, confirms>>

Next ==
  \/ \E p \in Products, s \in Statuses : OtherSaves(p, s)
  \/ FetchList \/ (\E list \in reads : ListAnswer(list) \/ ListFails(list))
  \/ \E ids \in SUBSET Products : ScheduleDelete(ids) \/ \E s \in Statuses : BulkStatus(ids, s)
  \/ \E t \in toasts : Undo(t[1], t[2]) \/ ToastCloses(t[1], t[2])
  \/ \E t \in timers : TimerFires(t[1], t[2])
  \/ \E r \in removals : RemoveProduct(r) \/ RemovalLost(r) \/ Removed(r) \/ NotRemoved(r)
  \/ (\E p \in bulk.left : Patch(p)) \/ BulkEnds
  \/ LeavePage

\* The request of a removal is taken and answered. (A page that was left does not wait.)
RemovalMoves(p, n) ==
  \E at \in {"sent", "removed", "refused"} :
    LET r == [p |-> p, n |-> n, at |-> at] IN RemoveProduct(r) \/ Removed(r) \/ NotRemoved(r)

\* Timers fire, requests are answered.
Spec ==
  /\ Init /\ [][Next]_vars
  /\ \A p \in Products, n \in 1..MaxConfirms : WF_vars(TimerFires(p, n)) /\ WF_vars(RemovalMoves(p, n))

-----------------------------------------------------------------------------
\* When no bulk change is under way, every status shown is one the product really had,
\* although rows are changed before the server is asked, the list may be read meanwhile, and
\* each request fails or succeeds for itself (performBulkStatus).
RowsAreReal == bulk = NoBulk => \A p \in Products : rows[p].listed => rows[p].status \in had[p]

\* A row hidden by a removal does not stay hidden: it goes with the product, or is shown
\* again by Undo, an error or the list (scheduleDeleteWithUndo, performDelete).
HiddenIsResolved == \A p \in Products : rows[p].hidden ~> ~rows[p].hidden
=============================================================================
