------------------------------- MODULE MCAdmin -------------------------------
(***************************************************************************)
(* The admin's pages: the list of orders (AdminOrders), its view of the    *)
(* bulk verification (AdminJob), and the list of products (ProductList).   *)
(* They share no state that matters to them, so an instance looks at one   *)
(* of them at a time.                                                      *)
(***************************************************************************)
EXTENDS AdminOrders

CONSTANTS
  MaxStarts, MaxLostPolls,                                \* AdminJob
  ListedProducts, ListStatuses, MaxConfirms, MaxChanges   \* ProductList

VARIABLES
  page,                                                   \* the page, or part of it, looked at
  bulkJob, starts, jobs, starting, shownJob, lostPolls,   \* AdminJob
  there, listReads, listRows, bulk, timers, pending, toasts, removals, confirms, had,
  changes                                                 \* ProductList

Bulk == INSTANCE AdminJob WITH job <- bulkJob, lost <- lostPolls, MaxLost <- MaxLostPolls
List == INSTANCE ProductList WITH saved <- there, reads <- listReads, rows <- listRows,
                                  Products <- ListedProducts, Statuses <- ListStatuses

jobVars == <<bulkJob, starts, jobs, starting, shownJob, lostPolls>>
productVars == <<there, listReads, listRows, bulk, timers, pending, toasts, removals,
                 confirms, had, changes>>
adminVars == <<page, orderVars, jobVars, productVars>>

\* What is not looked at starts in one of its states, and stays there.
AdminInit ==
  /\ page \in {"list", "job", "products"}
  /\ OrdersInit /\ Bulk!Init /\ List!Init
  /\ page # "products" => \A p \in ListedProducts : there[p].status = (CHOOSE s \in ListStatuses : TRUE)

AdminNext ==
  \/ page = "list" /\ OrdersNext /\ UNCHANGED <<page, jobVars, productVars>>
  \/ page = "job" /\ Bulk!Next /\ UNCHANGED <<page, orderVars, productVars>>
  \/ page = "products" /\ List!Next /\ UNCHANGED <<page, orderVars, jobVars>>

\* The polls go on as long as the page is open, for the job while one is shown as running;
\* what they ask is answered, and the job ends. Timers of removals fire, and the requests
\* they send are answered. Nothing is assumed of the realtime events.
AdminFairness ==
  /\ WF_orderVars(page = "list" /\ AllOrders)
  /\ \A list \in Snapshots : WF_orderVars(page = "list" /\ ListAnswer(list))
  /\ WF_jobVars(page = "job" /\ Bulk!PollJob)
  /\ WF_jobVars(page = "job" /\ Bulk!JobEnds)
  /\ \A answer \in Bulk!JobStates : WF_jobVars(page = "job" /\ Bulk!JobAnswer(answer))
  /\ \A p \in ListedProducts, n \in 1..MaxConfirms :
       WF_productVars(page = "products" /\ List!TimerFires(p, n))
  /\ \A p \in ListedProducts, n \in 1..MaxConfirms : WF_productVars(page = "products" /\ List!RemovalMoves(p, n))

AdminSpec == AdminInit /\ [][AdminNext]_adminVars /\ AdminFairness

\* The pages come to show what is so: once the orders no longer change, the list has them as
\* they are, whatever came late or was lost (Orders.jsx, fetchAllOrders); a job that is over
\* is not shown as running for good (its poll, fetchShiprocketBulkVerifyJob); and the row of
\* a product hidden by a removal does not stay hidden (List.jsx, scheduleDeleteWithUndo).
PagesCatchUp ==
  /\ page = "list" => PageCatchesUp
  /\ Bulk!EndIsSeen
  /\ List!HiddenIsResolved

\* ProductList!RowsAreReal: when no bulk change is under way, every status shown is one the
\* product really had (List.jsx, performBulkStatus).
RowsAreReal == page = "products" => List!RowsAreReal

=============================================================================
