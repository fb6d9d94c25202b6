--------------------------- MODULE MCRefundService ---------------------------
(***************************************************************************)
(* A small instance of RefundService with four parts. "race": two admins   *)
(* refund one order under three keys, one of which the gateway settles,    *)
(* nothing failing. "retry": one refund is retried, by the job and by      *)
(* hand, among webhooks and a fault. "reports": one refund is reported by  *)
(* three listeners, old and new reports in any order, and by the           *)
(* reconciliation job, or settled by hand, while its request runs, with a  *)
(* fault. "alone": one worker makes two refunds that together refund the   *)
(* order in full.                                                          *)
(***************************************************************************)
EXTENDS RefundService, TLC

CONSTANTS k1, k2, k3, k4

VARIABLE part

mcvars == <<vars, part>>

\* Partial refunds of 2 out of 5: two fit, and the bucket never runs dry. k4 is the rest.
MCPartial == [k \in Keys |-> IF k = k4 THEN 3 ELSE 2]

WorkersOf == [race |-> {"a1", "a2", "h"}, retry |-> {"a1", "j"}, reports |-> {"a1", "h", "r"},
              alone |-> {"r"}]
KeysOf == [race |-> {k1, k2, k3}, retry |-> {k1}, reports |-> {k1}, alone |-> {k1, k4}]

MCInit ==
  /\ Init
  /\ part \in DOMAIN WorkersOf
  /\ NothingFails <=> part = "race"
  /\ part = "retry" => channel = "razorpay"

\* Who takes part, and at which refunds. In the race only one refund is settled, a report
\* of it waits until its request is over, and none of them is the late refund.created.
MCPart ==
  /\ \A w \in Workers : pc[w] = "idle" /\ pc'[w] # "idle" =>
       w \in WorkersOf[part] /\ loc'[w].key \in KeysOf[part]
  /\ part = "race" => /\ Apart'
                      /\ \A w \in Workers : loc'[w].next # PENDING
                      /\ \A w \in {"a1", "a2"} : loc'[w].op # "webhook"
                      /\ \A k \in Keys \ {k1} : gw'[k] \in {<< >>, <<"created">>}

MCNext == Next /\ MCPart /\ UNCHANGED part

MCSpec == MCInit /\ [][MCNext]_mcvars /\ Fairness({"a1", "h", "r"}, {k1, k4})

\* Where nobody retries, a refund waiting for the gateway is resolved even if every webhook
\* is lost: the reconciliation job asks the gateway (refundReconciliationJob).
PendingIsResolved ==
  \A k \in {k1, k4} :
    (part \in {"reports", "alone"} /\ refunds[k].state = PENDING) ~> (refunds[k].state # PENDING)
=============================================================================
