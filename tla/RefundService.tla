---------------------------- MODULE RefundService ----------------------------
(***************************************************************************)
(* The refund orchestrator (server/services/refundService.js) working on   *)
(* one paid order, with the projector, the ledger, the two strategies and  *)
(* the jobs that drive it.  A worker is one request handler or one job     *)
(* body.  Every await of the code is a point where other workers run, so   *)
(* each action below ends where the code awaits: one database operation,   *)
(* or one gateway call, per action.                                        *)
(*                                                                         *)
(* A refund is named by its idempotency key (the unique index makes the    *)
(* two interchangeable), a gateway refund by its key and its position in   *)
(* gw[key]; position 0 stands for the empty gatewayRefundId.               *)
(***************************************************************************)
EXTENDS RefundStateMachine, Sequences

CONSTANTS
  Keys,          \* idempotency keys of the refund requests
  Amount,        \* order.amountInPaise
  AmountOf,      \* the paise each request asks for
  Channels,      \* chooseChannel of the orders considered
  Initiators,    \* workers that run initiateRefund
  Listeners,     \* workers that deliver refund webhooks
  Reconcilers,   \* workers that run the reconciliation job
  RetryJobs,     \* workers that run the retry job
  RetryAdmins,   \* workers that run the admin's "retry now"
  Markers,       \* workers that run markManualRefundProcessed
  EventKinds,    \* gateway statuses the merchant is sent webhooks for
  MaxRetries,    \* refund.maxRetries
  MaxFaults      \* bound: database errors, lost answers and crashes

Workers == Initiators \cup Listeners \cup Reconcilers
             \cup RetryJobs \cup RetryAdmins \cup Markers

ASSUME KeysAssumption == Keys # {} /\ IsFiniteSet(Keys) /\ IsFiniteSet(Workers)
ASSUME AmountAssumption ==
  /\ Amount \in Nat \ {0}
  /\ AmountOf \in [Keys -> Nat \ {0}]
ASSUME BoundAssumption == MaxRetries \in Nat /\ MaxFaults \in Nat
ASSUME ChannelAssumption == Channels \subseteq {"razorpay", "bank_transfer"}
ASSUME EventAssumption == EventKinds \subseteq GatewayStatuses

VARIABLES
  channel,       \* the refund channel of the order: its payment method never changes
  refundable,    \* order.refundableAmountInPaise
  view,          \* order.refunds[], as the projector last wrote it
  current,       \* workers whose copy of the order still has the stored order's __v
  refunds,       \* the Refund collection
  debits,        \* ledger rows of type refund, per refund
  credits,       \* ledger rows of type adjustment, per refund
  gw,            \* the gateway: the status of every refund it accepted
  inbox,         \* refund webhooks sent and not yet delivered
  pc, loc,       \* where each worker is, and its local variables
  faults         \* faults so far

orderVars == <<channel, refundable, view, current>>
ledgerVars == <<debits, credits>>
gatewayVars == <<gw, inbox>>
workerVars == <<pc, loc>>
vars == <<channel, refundable, view, current, refunds, debits, credits, gw, inbox,
          pc, loc, faults>>

Absent == [state |-> "absent", gid |-> 0, retryCount |-> 0, nextRetryAt |-> FALSE]
Exists(k) == refunds[k].state # "absent"

\* Some behaviours start past the bound: in them nothing fails.
NothingFails == faults > MaxFaults

NotShown == [status |-> "absent", gid |-> 0]
NothingShown == [k \in Keys |-> NotShown]

\* op: the service function running; key: its refund; own: the refund document was
\* created by this request; gid, dirty: the local gatewayRefundId and whether it is
\* unsaved; before, next: the state read and the state to write; count: the local
\* retryCount; new: the entries the projector will write.
NoLocals == [op |-> "none", key |-> CHOOSE k \in Keys : TRUE, own |-> FALSE,
             gid |-> 0, dirty |-> FALSE, before |-> "absent", next |-> "absent",
             count |-> 0, new |-> NothingShown]

Init ==
  /\ channel \in Channels
  /\ refundable \in {0, Amount}       \* 0: captured before the paise fields existed
  /\ view = NothingShown
  /\ current = {}
  /\ refunds = [k \in Keys |-> Absent]
  /\ debits = [k \in Keys |-> 0]
  /\ credits = [k \in Keys |-> 0]
  /\ gw = [k \in Keys |-> <<>>]
  /\ inbox = {}
  /\ pc = [w \in Workers |-> "idle"]
  /\ loc = [w \in Workers |-> NoLocals]
  /\ faults \in {0, MaxFaults + 1}

-----------------------------------------------------------------------------
(* How a worker moves on.                                                  *)

Begin(w, label, locals) ==
  /\ pc[w] = "idle"
  /\ pc' = [pc EXCEPT ![w] = label]
  /\ loc' = [loc EXCEPT ![w] = locals]

GoTo(w, label) == pc' = [pc EXCEPT ![w] = label] /\ UNCHANGED loc

GoWith(w, label, locals) ==
  /\ pc' = [pc EXCEPT ![w] = label]
  /\ loc' = [loc EXCEPT ![w] = locals]

Finish(w) == GoWith(w, "idle", NoLocals)

\* The catch block an error inside the service function reaches.
Throw(w) ==
  \/ loc[w].op = "initiate" /\ GoTo(w, "release")
  \/ loc[w].op = "retry" /\ GoTo(w, "retryFail")
  \/ loc[w].op \in {"webhook", "mark", "exhaust"} /\ Finish(w)

\* The gateway accepts a refund of key k: razorpayService.createRefund has no
\* gateway-side idempotency, so every accepted call is one more refund.
GatewayAccept(k) ==
  /\ gw' = [gw EXCEPT ![k] = Append(@, "created")]
  /\ inbox' = inbox \cup
       {m \in [key : {k}, gid : {Len(gw[k]) + 1}, status : {"created"}] :
          m.status \in EventKinds}

-----------------------------------------------------------------------------
(* initiateRefund                                                          *)

\* The duplicate-key lookup, then the order check. A key that has a refund is
\* replayed: nothing is written.
StartInitiate(w, k) ==
  /\ w \in Initiators
  /\ ~Exists(k)
  /\ Begin(w, "seed", [NoLocals EXCEPT !.op = "initiate", !.key = k])
  /\ UNCHANGED <<orderVars, refunds, ledgerVars, gatewayVars, faults>>

\* order.refundedAmountInPaise and order.refundStatus, as the projector derived them.
ShownStatus == [k \in Keys |-> view[k].status]
RefundedPaise == ProcessedPaise(ShownStatus, AmountOf)
ShownRefundStatus == OrderRefundStatus(ShownStatus, AmountOf, Amount)

\* lazySeedRefundablePaise: the guarded update.
LazySeed(w) ==
  /\ pc[w] = "seed"
  /\ refundable' = IF refundable = 0 /\ RefundedPaise = 0 THEN Amount ELSE refundable
  /\ GoTo(w, "reserve")
  /\ UNCHANGED <<channel, view, current, refunds, ledgerVars, gatewayVars, faults>>

\* reserveRefundableAmount: the guarded $inc; InsufficientRefundableAmountError otherwise.
Reserve(w) ==
  /\ pc[w] = "reserve"
  /\ LET a == AmountOf[loc[w].key] IN
     \/ /\ refundable >= a
        /\ refundable' = refundable - a
        /\ GoTo(w, "create")
     \/ /\ refundable < a
        /\ Finish(w)
        /\ UNCHANGED refundable
  /\ UNCHANGED <<channel, view, current, refunds, ledgerVars, gatewayVars, faults>>

\* The two unique indexes of refundModel. gatewayRefundId defaults to the empty
\* string, which a sparse index still holds.
DuplicateKeyError(k) ==
  \/ Exists(k)
  \/ \E j \in Keys : Exists(j) /\ refunds[j].gid = 0

\* Mutant of CreateRefund: the insert outside the try block, so nothing is compensated.
CreateRefundUncaught(w) ==
  /\ pc[w] = "create"
  /\ LET k == loc[w].key IN
     \/ /\ ~DuplicateKeyError(k)
        /\ refunds' = [refunds EXCEPT ![k] = [Absent EXCEPT !.state = INITIATED]]
        /\ GoWith(w, "execute", [loc[w] EXCEPT !.own = TRUE])
     \/ /\ DuplicateKeyError(k)
        /\ Finish(w)
        /\ UNCHANGED refunds
  /\ UNCHANGED <<orderVars, ledgerVars, gatewayVars, faults>>

CreateRefund(w) ==
  /\ pc[w] = "create"
  /\ LET k == loc[w].key IN
     \/ /\ ~DuplicateKeyError(k)
        /\ refunds' = [refunds EXCEPT ![k] = [Absent EXCEPT !.state = INITIATED]]
        /\ GoWith(w, "execute", [loc[w] EXCEPT !.own = TRUE])
     \/ /\ DuplicateKeyError(k)
        /\ Throw(w)
        /\ UNCHANGED refunds
  /\ UNCHANGED <<orderVars, ledgerVars, gatewayVars, faults>>

\* strategy.execute: the gateway refuses or accepts; a bank transfer is only queued
\* under its synthetic id.
ExecuteStrategy(w) ==
  /\ pc[w] = "execute"
  /\ LET k == loc[w].key IN
     \/ /\ channel = "razorpay"
        /\ Throw(w)
        /\ UNCHANGED gatewayVars
     \/ /\ channel = "razorpay"
        /\ GatewayAccept(k)
        /\ GoWith(w, "save", [loc[w] EXCEPT !.gid = Len(gw[k]) + 1, !.dirty = TRUE])
     \/ /\ channel = "bank_transfer"
        /\ GoWith(w, "save", [loc[w] EXCEPT !.gid = 1, !.dirty = TRUE])
        /\ UNCHANGED gatewayVars
  /\ UNCHANGED <<orderVars, refunds, ledgerVars, faults>>

\* refund.save() after the strategy: the modified paths only. A queued bank transfer
\* stays INITIATED and posts no ledger row.
SaveAccepted(w) ==
  /\ pc[w] = "save"
  /\ LET k == loc[w].key IN
     /\ loc' = [loc EXCEPT ![w].dirty = FALSE]
     /\ \/ /\ loc[w].op = "initiate" /\ channel = "razorpay"
           /\ refunds' = [refunds EXCEPT ![k].gid = loc[w].gid, ![k].state = PENDING]
           /\ pc' = [pc EXCEPT ![w] = "ledger"]
        \/ /\ loc[w].op = "retry" \/ channel = "bank_transfer"
           /\ refunds' = [refunds EXCEPT ![k].gid = loc[w].gid]
           /\ pc' = [pc EXCEPT ![w] = "project"]
  /\ UNCHANGED <<orderVars, ledgerVars, gatewayVars, faults>>

\* ledgerService.recordRefund, on initiation and when a transfer is marked processed.
RecordRefund(w) ==
  /\ pc[w] = "ledger"
  /\ debits' = [debits EXCEPT ![loc[w].key] = @ + 1]
  /\ GoTo(w, "project")
  /\ UNCHANGED <<orderVars, refunds, credits, gatewayVars, faults>>

\* The catch block: the bucket is re-credited, then the refund is marked FAILED.
ReleaseAfterFailure(w) ==
  /\ pc[w] = "release"
  /\ refundable' = refundable + AmountOf[loc[w].key]
  /\ IF loc[w].own THEN GoTo(w, "markFailed") ELSE Finish(w)
  /\ UNCHANGED <<channel, view, current, refunds, ledgerVars, gatewayVars, faults>>

\* The save of a catch block: FAILED, the time of the next try, and the gateway id if it
\* never reached the database. No projection follows.
SaveFailed(w) ==
  /\ pc[w] \in {"markFailed", "retryFail"}
  /\ LET k == loc[w].key IN
     refunds' = [refunds EXCEPT ![k].state = FAILED, ![k].nextRetryAt = TRUE,
                                ![k].gid = IF loc[w].dirty THEN loc[w].gid ELSE @]
  /\ Finish(w)
  /\ UNCHANGED <<orderVars, ledgerVars, gatewayVars, faults>>

-----------------------------------------------------------------------------
(* refundProjector.project                                                 *)

\* buildLegacyRefundEntry for every refund of the order.
ShownEntries ==
  [k \in Keys |-> IF Exists(k) THEN [status |-> LegacyStatus(refunds[k].state),
                                     gid |-> refunds[k].gid]
                              ELSE NotShown]

\* Read the order, then its refunds. One action: a projection that writes between the
\* two reads makes this one lose as if it had written just after them. A projection
\* that replaces no array of the order saves unconditionally, and changes nothing here.
ProjectRead(w) ==
  /\ pc[w] = "project"
  /\ \/ /\ ShownEntries = view
        /\ Finish(w)
        /\ UNCHANGED current
     \/ /\ ShownEntries # view
        /\ GoWith(w, "projectSave", [loc[w] EXCEPT !.new = ShownEntries])
        /\ current' = current \cup {w}
  /\ UNCHANGED <<channel, refundable, view, refunds, ledgerVars, gatewayVars, faults>>

\* order.save(): replacing an array puts __v into the filter and bumps it, so a save
\* that lost a race with another projection raises Mongoose's VersionError.
ProjectSave(w) ==
  /\ pc[w] = "projectSave"
  /\ \/ /\ w \in current
        /\ view' = loc[w].new
        /\ current' = {}
        /\ Finish(w)
     \/ /\ w \notin current
        /\ Throw(w)
        /\ UNCHANGED <<view, current>>
  /\ UNCHANGED <<channel, refundable, refunds, ledgerVars, gatewayVars, faults>>

-----------------------------------------------------------------------------
(* processWebhookUpdate, from a webhook or from the reconciliation job     *)

\* A webhook is taken once: its event id is recorded before it is handled, so a
\* redelivery is answered as a duplicate.
StartWebhook(w, m) ==
  /\ w \in Listeners
  /\ m \in inbox
  /\ inbox' = inbox \ {m}
  /\ Begin(w, "find", [NoLocals EXCEPT !.op = "webhook", !.key = m.key, !.gid = m.gid,
                                       !.next = StateOfGatewayStatus(m.status)])
  /\ UNCHANGED <<orderVars, refunds, ledgerVars, gw, faults>>

\* Mutant of StartReconcile: only refunds the gateway was never asked about.
StartReconcileInitiated(w, k) ==
  /\ w \in Reconcilers
  /\ channel = "razorpay"
  /\ refunds[k].state = INITIATED
  /\ refunds[k].gid # 0
  /\ Begin(w, "find", [NoLocals EXCEPT !.op = "webhook", !.key = k, !.gid = refunds[k].gid,
                         !.next = StateOfGatewayStatus(gw[k][refunds[k].gid])])
  /\ UNCHANGED <<orderVars, refunds, ledgerVars, gatewayVars, faults>>

\* The reconciliation job: fetchRefund for a refund that is INITIATED or PENDING.
\* A fetch with the empty gateway id fails and is only counted.
StartReconcile(w, k) ==
  /\ w \in Reconcilers
  /\ channel = "razorpay"
  /\ refunds[k].state \in {INITIATED, PENDING}
  /\ refunds[k].gid # 0
  /\ \A v \in Workers : ~(loc[v].op = "initiate" /\ loc[v].key = k)  \* over 2 hours old
  /\ Begin(w, "find", [NoLocals EXCEPT !.op = "webhook", !.key = k, !.gid = refunds[k].gid,
                         !.next = StateOfGatewayStatus(gw[k][refunds[k].gid])])
  /\ UNCHANGED <<orderVars, refunds, ledgerVars, gatewayVars, faults>>

\* refundModel.findOne({gatewayRefundId}) and shouldUpdateFromWebhook.
FindRefund(w) ==
  /\ pc[w] = "find"
  /\ LET k == loc[w].key
         found == Exists(k) /\ refunds[k].gid = loc[w].gid
         advances == found /\ ShouldUpdateFromWebhook(refunds[k].state, loc[w].next)
     IN \/ /\ advances
           /\ GoWith(w, "applyState", [loc[w] EXCEPT !.before = refunds[k].state])
        \/ /\ ~advances
           /\ Finish(w)
  /\ UNCHANGED <<orderVars, refunds, ledgerVars, gatewayVars, faults>>

\* The save of the state decided from the document read earlier: a webhook's, a manual
\* settlement's, or PERMANENTLY_FAILED.
ApplyState(w) ==
  /\ pc[w] = "applyState"
  /\ LET l == loc[w] IN
     /\ refunds' = [refunds EXCEPT ![l.key].state = l.next]
     /\ GoTo(w, IF l.op = "mark" THEN "ledger"
                ELSE IF l.next = FAILED /\ l.before = PENDING THEN "webhookRelease"
                ELSE "project")
  /\ UNCHANGED <<orderVars, ledgerVars, gatewayVars, faults>>

\* Mutant of WebhookRelease: the compensating ledger row is forgotten.
WebhookReleaseOnly(w) ==
  /\ pc[w] = "webhookRelease"
  /\ refundable' = refundable + AmountOf[loc[w].key]
  /\ GoTo(w, "project")
  /\ UNCHANGED <<channel, view, current, refunds, ledgerVars, gatewayVars, faults>>

\* The gateway reported FAILED for a refund that was PENDING: re-credit, then a
\* compensating ledger row.
WebhookRelease(w) ==
  /\ pc[w] = "webhookRelease"
  /\ refundable' = refundable + AmountOf[loc[w].key]
  /\ GoTo(w, "webhookLedger")
  /\ UNCHANGED <<channel, view, current, refunds, ledgerVars, gatewayVars, faults>>

RecordAdjustment(w) ==
  /\ pc[w] = "webhookLedger"
  /\ credits' = [credits EXCEPT ![loc[w].key] = @ + 1]
  /\ GoTo(w, "project")
  /\ UNCHANGED <<orderVars, refunds, debits, gatewayVars, faults>>

-----------------------------------------------------------------------------
(* retry, from the job and from the admin                                  *)

\* The retry job's batch: FAILED refunds with attempts left, whose nextRetryAt has come
\* or was never set.
StartRetryJob(w, k) ==
  /\ w \in RetryJobs
  /\ channel = "razorpay"
  /\ refunds[k].state = FAILED
  /\ refunds[k].retryCount < MaxRetries
  /\ Begin(w, "retryRead", [NoLocals EXCEPT !.op = "retry", !.key = k])
  /\ UNCHANGED <<orderVars, refunds, ledgerVars, gatewayVars, faults>>

StartRetryAdmin(w, k) ==
  /\ w \in RetryAdmins
  /\ channel = "razorpay"
  /\ Exists(k)
  /\ Begin(w, "retryRead", [NoLocals EXCEPT !.op = "retry", !.key = k])
  /\ UNCHANGED <<orderVars, refunds, ledgerVars, gatewayVars, faults>>

\* retry's own read: only FAILED refunds go on, and an exhausted one is closed.
RetryRead(w) ==
  /\ pc[w] = "retryRead"
  /\ LET r == refunds[loc[w].key] IN
     \/ /\ r.state # FAILED
        /\ Finish(w)
     \/ /\ r.state = FAILED /\ r.retryCount >= MaxRetries
        /\ GoWith(w, "applyState", [loc[w] EXCEPT !.op = "exhaust", !.before = FAILED,
                                                  !.next = PERMANENTLY_FAILED])
     \/ /\ r.state = FAILED /\ r.retryCount < MaxRetries
        /\ GoWith(w, "retrySave", [loc[w] EXCEPT !.count = r.retryCount + 1])
  /\ UNCHANGED <<orderVars, refunds, ledgerVars, gatewayVars, faults>>

\* Mutant of RetrySave: the attempt is not counted.
RetrySaveUncounted(w) ==
  /\ pc[w] = "retrySave"
  /\ refunds' = [refunds EXCEPT ![loc[w].key].state = PENDING]
  /\ GoTo(w, "execute")
  /\ UNCHANGED <<orderVars, ledgerVars, gatewayVars, faults>>

\* PENDING again, one attempt more; the bucket is not touched. The gateway is called
\* next (ExecuteStrategy), then SaveAccepted or SaveFailed.
RetrySave(w) ==
  /\ pc[w] = "retrySave"
  /\ LET k == loc[w].key IN
     refunds' = [refunds EXCEPT ![k].state = PENDING, ![k].retryCount = loc[w].count]
  /\ GoTo(w, "execute")
  /\ UNCHANGED <<orderVars, ledgerVars, gatewayVars, faults>>

-----------------------------------------------------------------------------
(* markManualRefundProcessed                                               *)

\* Terminal refunds are refused, and FAILED cannot move to PROCESSED.
StartMark(w, k) ==
  /\ w \in Markers
  /\ channel = "bank_transfer"
  /\ Exists(k)
  /\ CanTransition(refunds[k].state, PROCESSED)
  /\ Begin(w, "applyState", [NoLocals EXCEPT !.op = "mark", !.key = k,
                               !.before = refunds[k].state, !.next = PROCESSED])
  /\ UNCHANGED <<orderVars, refunds, ledgerVars, gatewayVars, faults>>

-----------------------------------------------------------------------------
(* The gateway and the faults                                              *)

\* The gateway settles a refund it accepted, one way, and announces it.
GatewaySettle(k, n) ==
  /\ n \in 1..Len(gw[k])
  /\ gw[k][n] = "created"
  /\ \E s \in {"processed", "failed"} :
       /\ gw' = [gw EXCEPT ![k][n] = s]
       /\ inbox' = inbox \cup
            {m \in [key : {k}, gid : {n}, status : {s}] : m.status \in EventKinds}
  /\ UNCHANGED <<orderVars, refunds, ledgerVars, workerVars, faults>>

\* A database operation fails inside a try block, so that the catch block runs. The
\* release of the catch block has a handler of its own.
DatabaseError(w) ==
  /\ faults < MaxFaults
  /\ faults' = faults + 1
  /\ \/ /\ loc[w].op \in {"initiate", "retry"}
        /\ pc[w] \in {"create", "save", "ledger", "project",
                      "projectSave"}
        /\ Throw(w)
     \/ /\ pc[w] = "release"
        /\ IF loc[w].own THEN GoTo(w, "markFailed") ELSE Finish(w)
  /\ UNCHANGED <<orderVars, refunds, ledgerVars, gatewayVars>>

\* The gateway accepted the call but its answer is lost (a timeout).
AnswerLost(w) ==
  /\ faults < MaxFaults
  /\ faults' = faults + 1
  /\ pc[w] = "execute"
  /\ channel = "razorpay"
  /\ GatewayAccept(loc[w].key)
  /\ Throw(w)
  /\ UNCHANGED <<orderVars, refunds, ledgerVars>>

\* The process dies, or an operation outside every try block fails: nothing more of
\* this call happens.
Crash(w) ==
  /\ faults < MaxFaults
  /\ faults' = faults + 1
  /\ pc[w] # "idle"
  /\ Finish(w)
  /\ UNCHANGED <<orderVars, refunds, ledgerVars, gatewayVars>>

-----------------------------------------------------------------------------
InitiateStep(w) ==
  \/ LazySeed(w) \/ Reserve(w) \/ CreateRefund(w) \/ ExecuteStrategy(w)
  \/ SaveAccepted(w) \/ RecordRefund(w) \/ ReleaseAfterFailure(w) \/ SaveFailed(w)
ProjectStep(w) == ProjectRead(w) \/ ProjectSave(w)
WebhookStep(w) == FindRefund(w) \/ ApplyState(w) \/ WebhookRelease(w) \/ RecordAdjustment(w)
RetryStep(w) == RetryRead(w) \/ RetrySave(w)

\* What a worker that has started does next.
Continue(w) == InitiateStep(w) \/ ProjectStep(w) \/ WebhookStep(w) \/ RetryStep(w)

Start(w) ==
  \/ \E k \in Keys : \/ StartInitiate(w, k) \/ StartReconcile(w, k)
                     \/ StartRetryJob(w, k) \/ StartRetryAdmin(w, k) \/ StartMark(w, k)
  \/ \E m \in inbox : StartWebhook(w, m)

Fault(w) == DatabaseError(w) \/ AnswerLost(w) \/ Crash(w)

Next ==
  \/ \E w \in Workers : Start(w) \/ Continue(w) \/ Fault(w)
  \/ \E k \in Keys : \E n \in 1..Len(gw[k]) : GatewaySettle(k, n)

Spec == Init /\ [][Next]_vars

\* Of some workers and refunds: a handler that started runs on, the gateway settles what
\* it accepted, and the reconciliation job runs again and again over every refund it
\* selects (its batches hold all of them).
Fairness(workers, keys) ==
  /\ \A w \in workers : WF_vars(Continue(w))
  /\ \A k \in keys : WF_vars(\E n \in 1..Len(gw[k]) : GatewaySettle(k, n))
  /\ \A w \in workers \cap Reconcilers, k \in keys : SF_vars(StartReconcile(w, k))

-----------------------------------------------------------------------------
(* Properties                                                              *)

Labels ==
  {"idle", "seed", "reserve", "create", "execute", "save", "ledger", "release",
   "markFailed", "retryFail", "project", "projectSave", "find",
   "applyState", "webhookRelease", "webhookLedger", "retryRead", "retrySave"}
Operations == {"none", "initiate", "webhook", "retry", "exhaust", "mark"}

RefundDoc == [state : RefundStates \cup {"absent"}, gid : Nat, retryCount : Nat,
              nextRetryAt : BOOLEAN]
Entry == [status : LegacyStatuses \cup {"absent"}, gid : Nat]
Locals == [op : Operations, key : Keys, own : BOOLEAN, gid : Nat, dirty : BOOLEAN,
           before : RefundStates \cup {"absent"}, next : RefundStates \cup {"absent"},
           count : Nat, new : [Keys -> Entry]]

\* Every variable keeps its shape; in particular no path drives the refundable bucket
\* or a retry counter below zero (their schema minimum, which $inc does not enforce).
TypeOK ==
  /\ channel \in Channels
  /\ refundable \in Nat
  /\ view \in [Keys -> Entry]
  /\ current \subseteq Workers
  /\ refunds \in [Keys -> RefundDoc]
  /\ debits \in [Keys -> Nat] /\ credits \in [Keys -> Nat]
  /\ gw \in [Keys -> Seq(GatewayStatuses)]
  /\ inbox \subseteq [key : Keys, gid : Nat, status : GatewayStatuses]
  /\ pc \in [Workers -> Labels]
  /\ loc \in [Workers -> Locals]
  /\ faults \in 0..(MaxFaults + 1)

Live(k) == refunds[k].state \in {INITIATED, PENDING, PROCESSED}
WorkingOn(k, labels) == \E w \in Workers : pc[w] \in labels /\ loc[w].key = k

\* Only initiations share a refund: nobody else works at one that someone is at.
Apart ==
  \A v, w \in Workers :
    v # w /\ pc[v] # "idle" /\ pc[w] # "idle" /\ loc[v].key = loc[w].key
      => loc[v].op = "initiate" /\ loc[w].op = "initiate"

\* The paise reserved from the bucket and not given back: by refund documents, and by
\* requests that hold a reservation but no document.
HeldRefunds == {k \in Keys : \/ Live(k) /\ ~WorkingOn(k, {"markFailed"})
                             \/ WorkingOn(k, {"webhookRelease"})}
HeldRequests == {w \in Workers : \/ pc[w] = "create"
                                 \/ pc[w] = "release" /\ ~loc[w].own}
HeldFor == [k \in Keys |-> IF k \in HeldRefunds THEN AmountOf[k] ELSE 0]
HeldBy == [w \in Workers |-> IF w \in HeldRequests THEN AmountOf[loc[w].key] ELSE 0]
HeldPaise == SumFunctionOnSet(HeldFor, Keys) + SumFunctionOnSet(HeldBy, Workers)

Untouched == refundable = 0 /\ HeldPaise = 0 /\ \A k \in Keys : ~Exists(k)

\* As long as nothing fails, the refundable bucket and what is reserved from it add up to
\* the order's amount, and it never goes below zero, in whatever order concurrent
\* initiations, refusals, duplicate requests and compensations interleave
\* (reserveRefundableAmount, releaseRefundableAmount).
BucketConserved ==
  NothingFails => refundable >= 0 /\ (Untouched \/ refundable + HeldPaise = Amount)

\* Requests racing on one idempotency key pay once: without retries, the gateway
\* accepts at most one refund per key (the unique index on idempotencyKey decides
\* before the gateway is called).
OneGatewayRefundPerKey == \A k \in Keys : Len(gw[k]) <= 1

\* Every gateway call after the first is accounted for by a retry that was saved before
\* it, and retries stop at maxRetries: so neither crashes, lost answers nor late
\* webhooks make the retry job pay a refund out more often than its counter says.
AttemptsAreCounted ==
  \A k \in Keys : /\ Len(gw[k]) <= 1 + refunds[k].retryCount
                   /\ refunds[k].retryCount <= MaxRetries

\* A catch block has written this refund, or it has been retried: its state may have been
\* saved over what others stored meanwhile.
Troubled(k) == refunds[k].nextRetryAt \/ refunds[k].retryCount > 0

\* A refund's state only changes along an edge of the state machine, although every save
\* writes a state decided from an earlier read: whatever requests, webhooks (a late
\* refund.created too), reconciliations and settlements are at the refund together, in
\* any order, with crashes and lost answers. Refunds whose initiation failed or that were
\* retried are not spoken of: their handlers save what they hold over what is stored.
LegalStep(k) ==
  \/ refunds'[k].state = refunds[k].state
  \/ ~Exists(k) /\ refunds'[k].state = INITIATED
  \/ CanTransition(refunds[k].state, refunds'[k].state)
StatesFollowMachine == [][\A k \in Keys : ~Troubled(k)' => LegalStep(k)]_vars

Settled(k, status) == \E n \in 1..Len(gw[k]) : gw[k][n] = status
Resting(k) == \A w \in Workers : pc[w] = "idle" \/ loc[w].key # k

\* One net debit for a refund that is paid, or on its way as far as the gateway is
\* concerned; none before it is sent; and none left of one that failed, which only
\* happens when the gateway says so.
LedgerMatches(k) ==
  LET state == refunds[k].state
      net == debits[k] - credits[k]
  IN /\ state \in {"absent", INITIATED} => debits[k] = 0 /\ credits[k] = 0
     /\ state = PROCESSED \/ (state = PENDING /\ ~Settled(k, "failed")) => net = 1
     /\ state = FAILED => net <= 0 /\ Settled(k, "failed")

\* What the refunds that are processed add up to.
PaidPaise == MapThenSumSet(LAMBDA k : AmountOf[k], {k \in Keys : refunds[k].state = PROCESSED})

\* As long as nothing failed, of every refund whose initiation ran to its end and that was
\* not retried, although requests, webhooks in any order, reconciliations and a settlement
\* run at it at the same time: one that the gateway paid is never given up, one is shown
\* as processed only if it is and the gateway paid it, and when nobody is at it the ledger
\* holds what it should; and where all are of this kind, the order is shown as refunded
\* in full only when what was paid makes up its amount (initiateRefund, processWebhookUpdate,
\* markManualRefundProcessed, recordAdjustment, the projector).
RefundsAgree ==
  faults = 0 =>
    /\ \A k \in Keys : ~Troubled(k) =>
         /\ Settled(k, "processed") => Live(k)
         /\ view[k].status = "processed" \/ refunds[k].state = PROCESSED =>
              /\ refunds[k].state = PROCESSED
              /\ channel = "razorpay" => Settled(k, "processed")
         /\ Resting(k) => LedgerMatches(k)
    /\ (\A k \in Keys : ~Troubled(k)) /\ ShownRefundStatus = "processed" => PaidPaise >= Amount

\* "Apply a Razorpay refund webhook event to our records. Idempotent per (refundId,
\* gatewayStatus, gatewayUpdatedAt)." (refundService.js:521-522): no more compensating
\* ledger rows than refunds the gateway failed.
FailureCreditedOnce ==
  \A k \in Keys : credits[k] <= Cardinality({n \in 1..Len(gw[k]) : gw[k][n] = "failed"})

=============================================================================
