------------------------- MODULE RefundStateMachine -------------------------
(***************************************************************************)
(* The pure part of the refund subsystem: the states of a Refund document, *)
(* the edges between them, the rule that filters webhook updates, and the  *)
(* totals the projector derives from a set of refunds                      *)
(* (server/utils/refundStateMachine.js, server/services/refundProjector.js)*)
(***************************************************************************)
EXTENDS Integers, FiniteSets, FiniteSetsExt

INITIATED == "initiated"
PENDING == "pending"
PROCESSED == "processed"
FAILED == "failed"
PERMANENTLY_FAILED == "permanently_failed"

RefundStates == {INITIATED, PENDING, PROCESSED, FAILED, PERMANENTLY_FAILED}

\* VALID_TRANSITIONS as a set of edges.
ValidTransitions ==
  {<<INITIATED, PENDING>>, <<INITIATED, PROCESSED>>, <<INITIATED, FAILED>>,
   <<PENDING, PROCESSED>>, <<PENDING, FAILED>>,
   <<FAILED, PENDING>>, <<FAILED, PERMANENTLY_FAILED>>}

TerminalStates == {PROCESSED, PERMANENTLY_FAILED}

CanTransition(from, to) == <<from, to>> \in ValidTransitions

\* Mutant of ShouldUpdateFromWebhook: any different state is taken over.
AnyWebhookUpdates(current, incoming) == current # incoming

\* Which gateway-supplied states may overwrite the persisted one.
ShouldUpdateFromWebhook(current, incoming) ==
  /\ current # incoming
  /\ current \notin TerminalStates
  /\ CanTransition(current, incoming)

\* STRATEGY_GATEWAY_STATUS_TO_STATE, for the statuses the gateway model emits.
GatewayStatuses == {"created", "processed", "failed"}
StateOfGatewayStatus(status) ==
  CASE status = "created"   -> PENDING
    [] status = "processed" -> PROCESSED
    [] status = "failed"    -> FAILED

-----------------------------------------------------------------------------
\* STATE_TO_LEGACY_STATUS: what order.refunds[] shows for a refund.
LegacyStatuses == {"pending", "processed", "failed"}
LegacyStatus(state) ==
  CASE state \in {INITIATED, PENDING}         -> "pending"
    [] state = PROCESSED                      -> "processed"
    [] state \in {FAILED, PERMANENTLY_FAILED} -> "failed"

\* computeOrderTotals over the projected refunds: status gives the legacy status of
\* each refund of the order, amount its paise.
ProcessedPaise(status, amount) ==
  MapThenSumSet(LAMBDA r : amount[r],
                {r \in DOMAIN status : status[r] = "processed"})

OrderRefundStatus(status, amount, orderAmount) ==
  LET processed == ProcessedPaise(status, amount)
      some(s) == \E r \in DOMAIN status : status[r] = s
  IN CASE processed > 0 /\ processed >= orderAmount -> "processed"
       [] processed > 0 /\ processed < orderAmount  -> "partial"
       [] processed <= 0 /\ some("pending")         -> "pending"
       [] processed <= 0 /\ ~some("pending") /\ some("failed") -> "failed"
       [] OTHER -> "none"
=============================================================================
