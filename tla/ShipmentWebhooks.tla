--------------------------- MODULE ShipmentWebhooks ---------------------------
(***************************************************************************)
(* The queue of courier webhooks (services/shiprocketWebhookService.js):   *)
(* an event is recorded once, claimed by the task its request started or   *)
(* by a drain, applied to its order, and finalized or tried again.  With   *)
(* it the part of applyOrderStatusTransition that such an event runs, and  *)
(* the WhatsApp message it sends (services/whatsappService.js).            *)
(*                                                                         *)
(* What a delivery or a cancellation does to points and stock is in        *)
(* OrderStatus; here it is one step, counted.  The lock that keeps drains  *)
(* apart is in LockedJobs; a drain may outlive it, so drains overlap here. *)
(* The courier's own fields on the order are left out.                     *)
(***************************************************************************)
EXTENDS Naturals, Sequences, FiniteSets

CONSTANTS
  Orders, Events, Workers,
  About,        \* the order an event is about
  Says,         \* the local status it stands for, or "none"
  Invalid,      \* the events whose payload has another shape
  Late,         \* the orders the courier's ids are stored on only later
  MaxAttempts,  \* MAX_RETRY_ATTEMPTS
  Batch,        \* batchSize of a drain
  MaxTries,     \* maxRetryAttempts of a message
  MaxFaults     \* bound: errors, crashes, and time that runs out

Pipeline == {"Order Placed", "Shipped", "Out for delivery"}
Final == {"Delivered", "Cancelled"}
Status == Pipeline \cup Final
Told == {"Out for delivery", "Delivered"}   \* statuses with a message

ASSUME EventAssumption ==
  /\ About \in [Events -> Orders]
  /\ Says \in [Events -> (Status \ {"Order Placed"}) \cup {"none"}]
  /\ Invalid \subseteq Events /\ Late \subseteq Orders
  /\ "none" \notin Events
  /\ IsFiniteSet(Workers)
ASSUME EventBounds ==
  MaxAttempts \in Nat \ {0} /\ Batch \in Nat \ {0} /\ MaxTries \in Nat \ {0} /\ MaxFaults \in Nat

VARIABLES
  queue,     \* the recorded events, the oldest first
  event,     \* their documents
  order,     \* status; known: the courier's ids are stored on it
  note,      \* whatsappNotifications of each order, for each status with a message
  effects,   \* history: how often the effects of a final status ran
  entered,   \* history: how often an order became delivered or cancelled
  messages,  \* history: how many messages the customer got
  overrun,   \* history: the events that went stale while a worker was at them
  raced,     \* history: the orders that two workers were at together
  doubted,   \* history: the messages of which a failure or a lapse hid what became of them
  pc, loc,
  faults

historyVars == <<effects, entered, messages, overrun, raced, doubted>>
vars == <<queue, event, order, note, historyVars, pc, loc, faults>>

\* due: nextRetryAt is not in the future; stale: it was claimed too long ago.
NoEvent == [status |-> "absent", attempts |-> 0, due |-> TRUE, stale |-> FALSE]

\* lock: free, held, or lapsed: still sending although lockExpiresAt has passed.
NoNote == [sent |-> FALSE, lock |-> "free"]

\* e, attempt: the claimed event; left: what the drain may still claim; seen: the order's
\* status as read; out: what the event is finalized as; then: where to go on after the
\* message; tries: requests sent for it.
NoLocals ==
  [e |-> "none", attempt |-> 0, left |-> 0, seen |-> "none", out |-> "none",
   then |-> "none", tries |-> 0]

Init ==
  /\ queue = <<>>
  /\ event = [e \in Events |-> NoEvent]
  /\ order = [o \in Orders |-> [status |-> "Order Placed", known |-> o \notin Late]]
  /\ note = [o \in Orders |-> [t \in Told |-> NoNote]]
  /\ effects = [o \in Orders |-> [s \in Final |-> 0]]
  /\ entered = [o \in Orders |-> [s \in Final |-> 0]]
  /\ messages = [o \in Orders |-> [t \in Told |-> 0]]
  /\ overrun = {}
  /\ raced = {}
  /\ doubted = {}
  /\ pc = [w \in Workers |-> "idle"]
  /\ loc = [w \in Workers |-> NoLocals]
  /\ faults = 0

Order(w) == About[loc[w].e]

GoWith(w, label, l) ==
  /\ pc' = [pc EXCEPT ![w] = label]
  /\ loc' = [loc EXCEPT ![w] = l]

GoTo(w, label) == GoWith(w, label, loc[w])

\* w is processing an event.
At(w) == pc[w] \notin {"idle", "byId", "claim"}

Doubt(which) == doubted' = doubted \cup which

-----------------------------------------------------------------------------
(* Recording and claiming                                                  *)

\* recordShiprocketWebhookEvent: the unique key swallows a repetition; the request of a
\* new event starts a task for it.
Receive(w, e) ==
  /\ IF event[e].status = "absent"
     THEN /\ pc[w] = "idle"
          /\ event' = [event EXCEPT ![e].status = "queued"]
          /\ queue' = Append(queue, e)
          /\ GoWith(w, "byId", [NoLocals EXCEPT !.e = e])
     ELSE UNCHANGED <<event, queue, pc, loc>>
  /\ UNCHANGED <<order, note, historyVars, faults>>

\* Mutant of Eligible: an event that is being processed is open.
EligibleInProcess(e) ==
  LET d == event[e]
  IN \/ d.status = "queued"
     \/ d.status \in {"failed", "unmatched", "processing"} /\ d.attempts < MaxAttempts /\ d.due

\* Mutant of Eligible: a failed event is not tried again.
EligibleOnce(e) ==
  LET d == event[e]
  IN \/ d.status = "queued"
     \/ d.status = "processing" /\ d.attempts < MaxAttempts /\ d.stale

\* Mutant of Eligible: a processed event is claimed again.
EligibleAgain(e) ==
  LET d == event[e]
  IN \/ d.status = "queued"
     \/ d.status \in {"failed", "unmatched", "processed"} /\ d.attempts < MaxAttempts /\ d.due
     \/ d.status = "processing" /\ d.attempts < MaxAttempts /\ d.stale

\* buildDrainEligibilityQuery
Eligible(e) ==
  LET d == event[e]
  IN \/ d.status = "queued"
     \/ d.status \in {"failed", "unmatched"} /\ d.attempts < MaxAttempts /\ d.due
     \/ d.status = "processing" /\ d.attempts < MaxAttempts /\ d.stale

\* claimQueuedWebhookEvent, of an eligible event.
ClaimEvent(w, e, left) ==
  /\ event' = [event EXCEPT ![e] =
       [status |-> "processing", attempts |-> @.attempts + 1, due |-> TRUE, stale |-> FALSE]]
  /\ raced' = IF \E v \in Workers :
                   At(v) /\ Order(v) = About[e]
              THEN raced \cup {About[e]} ELSE raced
  /\ GoWith(w, "read", [NoLocals EXCEPT !.e = e, !.attempt = event[e].attempts + 1, !.left = left])
  /\ UNCHANGED <<effects, entered, messages, overrun, doubted>>

\* scheduleShiprocketWebhookProcessing: the task handles its own event, then drains two.
ClaimOwn(w) ==
  /\ pc[w] = "byId"
  /\ IF Eligible(loc[w].e)
     THEN ClaimEvent(w, loc[w].e, 2)
     ELSE GoWith(w, "claim", [NoLocals EXCEPT !.left = 2]) /\ UNCHANGED <<event, historyVars>>
  /\ UNCHANGED <<queue, order, note, faults>>

\* runShiprocketWebhookDrain, by the cron request or an admin.
StartDrain(w) ==
  /\ pc[w] = "idle"
  /\ GoWith(w, "claim", [NoLocals EXCEPT !.left = Batch])
  /\ UNCHANGED <<queue, event, order, note, historyVars, faults>>

Oldest(i) == Eligible(queue[i]) /\ \A j \in 1 .. (i - 1) : ~Eligible(queue[j])

\* drainQueuedShiprocketWebhookEvents: the oldest eligible event, until the batch is used
\* up, or there is none.
Claim(w) ==
  /\ pc[w] = "claim"
  /\ \/ /\ loc[w].left > 0
        /\ \E i \in DOMAIN queue : Oldest(i) /\ ClaimEvent(w, queue[i], loc[w].left - 1)
     \/ /\ loc[w].left > 0 => \A i \in DOMAIN queue : ~Eligible(queue[i])
        /\ GoWith(w, "idle", NoLocals)
        /\ UNCHANGED <<event, historyVars>>
  /\ UNCHANGED <<queue, order, note, faults>>

-----------------------------------------------------------------------------
(* processClaimedWebhookEvent                                              *)

Finalizes(w, out) == GoWith(w, "finalize", [loc[w] EXCEPT !.out = out])

\* Mutant of Read: the final state of the order is not looked at.
ReadAnyStatus(w) ==
  LET e == loc[w].e
  IN /\ pc[w] = "read"
     /\ CASE e \in Invalid          -> Finalizes(w, "ignored")
          [] ~order[About[e]].known -> Finalizes(w, "unmatched")
          [] Says[e] = "none"       -> Finalizes(w, "processed")
          [] OTHER -> GoWith(w, "write", [loc[w] EXCEPT !.seen = order[About[e]].status])
     /\ UNCHANGED <<queue, event, order, note, historyVars, faults>>

\* What the event says and the order as it is read decide.
Read(w) ==
  LET e == loc[w].e
      o == order[About[e]]
  IN /\ pc[w] = "read"
     /\ CASE e \in Invalid    -> Finalizes(w, "ignored")
          [] ~o.known         -> Finalizes(w, "unmatched")
          [] Says[e] = "none" -> Finalizes(w, "processed")
          [] o.status \in Final /\ o.status # Says[e] -> Finalizes(w, "ignored")
          [] OTHER -> GoWith(w, "write", [loc[w] EXCEPT !.seen = o.status])
     /\ UNCHANGED <<queue, event, order, note, historyVars, faults>>

WriteStatus(o, s) ==
  /\ order' = [order EXCEPT ![o].status = s]
  /\ entered' = IF s \in Final THEN [entered EXCEPT ![o][s] = @ + 1] ELSE entered

Goes(w, label, then) ==
  GoWith(w, label, [loc[w] EXCEPT !.then = then, !.out = "processed", !.seen = "none"])

\* Mutant of Write: the effects run whether or not the update found the order.
WriteAnyway(w) ==
  LET s == Says[loc[w].e]
      new == s \in Final => order[Order(w)].status # s
      then == IF s \in Final THEN "effects" ELSE "finalize"
  IN /\ pc[w] = "write"
     /\ IF new THEN WriteStatus(Order(w), s) ELSE UNCHANGED <<order, entered>>
     /\ Goes(w, IF s \in Told THEN "notify" ELSE then, then)
     /\ UNCHANGED <<queue, event, note, effects, messages, overrun, raced, doubted, faults>>

\* applyOrderStatusTransition: a final status is written by one request, the others by any;
\* the customer is told in any case.  An order read as cancelled is not cancelled again.
Write(w) ==
  LET s == Says[loc[w].e]
      new == /\ s \in Final => order[Order(w)].status # s
             /\ ~(s = "Cancelled" /\ loc[w].seen = "Cancelled")
      then == IF s \in Final /\ new THEN "effects" ELSE "finalize"
  IN /\ pc[w] = "write"
     /\ IF new THEN WriteStatus(Order(w), s) ELSE UNCHANGED <<order, entered>>
     /\ Goes(w, IF s \in Told THEN "notify" ELSE then, then)
     /\ UNCHANGED <<queue, event, note, effects, messages, overrun, raced, doubted, faults>>

\* processDeliveredOrderEffects, or what a cancellation gives back.
Effects(w) ==
  /\ pc[w] = "effects"
  /\ effects' = [effects EXCEPT ![Order(w)][Says[loc[w].e]] = @ + 1]
  /\ GoTo(w, "finalize")
  /\ UNCHANGED <<queue, event, order, note, entered, messages, overrun, raced, doubted, faults>>

\* After an event the drain claims the next one.
GoesOn(w) == GoWith(w, "claim", [NoLocals EXCEPT !.left = loc[w].left])

\* computeNextRetryAt gives no time once the attempts are used up.
Closed(w, status) ==
  [event[loc[w].e] EXCEPT !.status = status, !.stale = FALSE,
                          !.due = status \notin {"failed", "unmatched"} \/ loc[w].attempt >= MaxAttempts]

\* finalizeWebhookEvent, whatever became of the event since.
Finalize(w) ==
  /\ pc[w] = "finalize"
  /\ event' = [event EXCEPT ![loc[w].e] = Closed(w, loc[w].out)]
  /\ GoesOn(w)
  /\ UNCHANGED <<queue, order, note, historyVars, faults>>

-----------------------------------------------------------------------------
(* sendOrderNotification                                                   *)

Note(w) == note[Order(w)][Says[loc[w].e]]

SetNote(w, n) == note' = [note EXCEPT ![Order(w)][Says[loc[w].e]] = n]

AfterNote(w) == GoWith(w, loc[w].then, [loc[w] EXCEPT !.tries = 0, !.then = "none"])

\* Mutant of Acquire: only the sent flag is looked at.
AcquireUnlessSent(w) ==
  /\ pc[w] = "notify"
  /\ IF ~Note(w).sent
     THEN /\ SetNote(w, [Note(w) EXCEPT !.lock = "held"])
          /\ GoWith(w, "send", [loc[w] EXCEPT !.tries = 1])
     ELSE AfterNote(w) /\ UNCHANGED note
  /\ UNCHANGED <<queue, event, order, historyVars, faults>>

\* acquireNotificationLock
Acquire(w) ==
  /\ pc[w] = "notify"
  /\ IF ~Note(w).sent /\ Note(w).lock # "held"
     THEN /\ SetNote(w, [Note(w) EXCEPT !.lock = "held"])
          /\ GoWith(w, "send", [loc[w] EXCEPT !.tries = 1])
     ELSE AfterNote(w) /\ UNCHANGED note
  /\ UNCHANGED <<queue, event, order, historyVars, faults>>

\* sendTemplateMessageRequest: the message is sent, or refused for good.
Send(w) ==
  /\ pc[w] = "send"
  /\ \/ /\ messages' = [messages EXCEPT ![Order(w)][Says[loc[w].e]] = @ + 1]
        /\ GoTo(w, "mark")
     \/ GoTo(w, "unmark") /\ UNCHANGED messages
  /\ UNCHANGED <<queue, event, order, note, effects, entered, overrun, raced, doubted, faults>>

\* No answer, or a busy platform: the message may have gone out; it is tried again.
SendFails(w) ==
  /\ pc[w] = "send"
  /\ faults < MaxFaults
  /\ faults' = faults + 1
  /\ messages' \in {messages, [messages EXCEPT ![Order(w)][Says[loc[w].e]] = @ + 1]}
  /\ IF loc[w].tries < MaxTries
     THEN GoWith(w, "send", [loc[w] EXCEPT !.tries = @ + 1])
     ELSE GoTo(w, "unmark")
  /\ Doubt({<<Order(w), Says[loc[w].e]>>})
  /\ UNCHANGED <<queue, event, order, note, effects, entered, overrun, raced>>

\* markNotificationSuccess
Mark(w) ==
  /\ pc[w] = "mark"
  /\ SetNote(w, [sent |-> TRUE, lock |-> "free"])
  /\ AfterNote(w)
  /\ UNCHANGED <<queue, event, order, historyVars, faults>>

\* markNotificationFailure, whoever holds the lock.
Unmark(w) ==
  /\ pc[w] = "unmark"
  /\ SetNote(w, [Note(w) EXCEPT !.lock = "free"])
  /\ AfterNote(w)
  /\ UNCHANGED <<queue, event, order, historyVars, faults>>

-----------------------------------------------------------------------------
(* What goes wrong, and time                                               *)

\* The database fails.  A message is given up; an event is marked failed, to be tried
\* again while it has attempts.
DatabaseError(w) ==
  /\ faults < MaxFaults
  /\ faults' = faults + 1
  /\ \/ /\ pc[w] \in {"notify", "mark"}
        /\ GoTo(w, "unmark")
        /\ Doubt({<<Order(w), Says[loc[w].e]>>})
        /\ UNCHANGED event
     \/ /\ pc[w] \in {"read", "write", "effects", "finalize"}
        /\ event' = [event EXCEPT ![loc[w].e] = Closed(w, "failed")]
        /\ GoesOn(w)
        /\ UNCHANGED doubted
  /\ UNCHANGED <<queue, order, note, effects, entered, messages, overrun, raced>>

\* The process dies, or the platform ends it after the answer was sent.
Crash(w) ==
  /\ pc[w] # "idle"
  /\ faults < MaxFaults
  /\ faults' = faults + 1
  /\ GoWith(w, "idle", NoLocals)
  /\ Doubt(IF pc[w] = "mark" THEN {<<Order(w), Says[loc[w].e]>>} ELSE {})
  /\ UNCHANGED <<queue, event, order, note, effects, entered, messages, overrun, raced>>

\* An event has been processed for too long; within the bound when a worker still is at it.
BecomesStale(e) ==
  /\ event[e].status = "processing" /\ ~event[e].stale
  /\ IF \E w \in Workers : At(w) /\ loc[w].e = e
     THEN /\ faults < MaxFaults /\ faults' = faults + 1
          /\ overrun' = overrun \cup {e}
     ELSE UNCHANGED <<faults, overrun>>
  /\ event' = [event EXCEPT ![e].stale = TRUE]
  /\ UNCHANGED <<queue, order, note, effects, entered, messages, raced, doubted, pc, loc>>

\* lockExpiresAt of a message passes, likewise.
Lapses(o, t) ==
  /\ note[o][t].lock = "held"
  /\ IF \E w \in Workers :
          pc[w] \in {"send", "mark", "unmark"} /\ Order(w) = o /\ Says[loc[w].e] = t
     THEN /\ faults < MaxFaults /\ faults' = faults + 1
          /\ Doubt({<<o, t>>})
     ELSE UNCHANGED <<faults, doubted>>
  /\ note' = [note EXCEPT ![o][t].lock = "lapsed"]
  /\ UNCHANGED <<queue, event, order, effects, entered, messages, overrun, raced, pc, loc>>

RetryDue(e) ==
  /\ ~event[e].due
  /\ event' = [event EXCEPT ![e].due = TRUE]
  /\ UNCHANGED <<queue, order, note, historyVars, pc, loc, faults>>

\* The courier's ids of the order are stored on it.
Sync(o) ==
  /\ ~order[o].known
  /\ order' = [order EXCEPT ![o].known = TRUE]
  /\ UNCHANGED <<queue, event, note, historyVars, pc, loc, faults>>

-----------------------------------------------------------------------------
Notifies(w) == Acquire(w) \/ Send(w) \/ Mark(w) \/ Unmark(w)
Continue(w) ==
  ClaimOwn(w) \/ Claim(w) \/ Read(w) \/ Write(w) \/ Effects(w) \/ Finalize(w) \/ Notifies(w)

Next ==
  \/ \E w \in Workers :
       \/ Continue(w) \/ StartDrain(w) \/ SendFails(w) \/ DatabaseError(w) \/ Crash(w)
       \/ \E e \in Events : Receive(w, e)
  \/ \E e \in Events : BecomesStale(e) \/ RetryDue(e)
  \/ \E o \in Orders : Sync(o)
  \/ \E o \in Orders, t \in Told : Lapses(o, t)

Spec == Init /\ [][Next]_vars

\* Requests go on, the cron request comes again and again, and time passes.
FairSpec ==
  /\ Spec
  /\ \A w \in Workers : WF_vars(Continue(w) \/ StartDrain(w))
  /\ WF_vars(\E e \in Events : BecomesStale(e) \/ RetryDue(e))

-----------------------------------------------------------------------------
(* Properties                                                              *)

EventStates ==
  {"absent", "queued", "processing", "processed", "ignored", "unmatched", "failed"}
Labels ==
  {"idle", "byId", "claim", "read", "write", "notify", "send", "mark", "unmark", "effects",
   "finalize"}
Documents ==
  [status : EventStates, attempts : 0 .. MaxAttempts, due : BOOLEAN, stale : BOOLEAN]
Notes == [sent : BOOLEAN, lock : {"free", "held", "lapsed"}]
Locals ==
  [e : Events \cup {"none"}, attempt : 0 .. MaxAttempts, left : Nat, seen : Status \cup {"none"},
   out : {"none", "processed", "ignored", "unmatched"},
   then : {"none", "effects", "finalize"}, tries : 0 .. MaxTries]

\* Types. No event is tried more than MAX_RETRY_ATTEMPTS times, also when its workers die.
TypeOK ==
  /\ queue \in Seq(Events)
  /\ event \in [Events -> Documents]
  /\ order \in [Orders -> [status : Status, known : BOOLEAN]]
  /\ note \in [Orders -> [Told -> Notes]]
  /\ effects \in [Orders -> [Final -> Nat]] /\ entered \in [Orders -> [Final -> Nat]]
  /\ messages \in [Orders -> [Told -> Nat]]
  /\ overrun \subseteq Events /\ raced \subseteq Orders /\ doubted \subseteq Orders \X Told
  /\ pc \in [Workers -> Labels] /\ loc \in [Workers -> Locals]
  /\ faults \in 0 .. MaxFaults

\* Two workers are at one event only when the second claimed it after it went stale.
OneProcessor ==
  \A v, w \in Workers :
    v # w /\ At(v) /\ At(w) /\ loc[v].e = loc[w].e => loc[v].e \in overrun

Settled == {"processed", "ignored"}

\* A processed or ignored event is never opened again, unless a worker outlived its claim.
SettledStays ==
  [][\A e \in Events \ overrun' :
       event[e].status \in Settled => event'[e].status = event[e].status]_vars

\* "Never downgrade a final state": however often, late and out of order events come, and
\* whatever fails, while no two workers are at the order together.
FinalIsKept ==
  [][\A o \in Orders \ raced' :
       order[o].status \in Final => order'[o].status = order[o].status]_vars

\* Retries and repetitions reward or give back at most once for each time the order became
\* delivered or cancelled.
EffectsOnce == \A o \in Orders, s \in Final : effects[o][s] <= entered[o][s]

\* However often and late webhooks come, and however many workers process them, a message
\* is sent once, but for those whose fate a failure or a lapsed lock hid; and what is marked
\* as sent was sent.
OneMessage ==
  \A o \in Orders, t \in Told :
    /\ <<o, t>> \notin doubted => messages[o][t] <= 1
    /\ note[o][t].sent => messages[o][t] >= 1

\* getShiprocketWebhookQueueMetrics counts the exhausted; so is one whose last worker died.
Exhausted(e) ==
  event[e].status \in {"failed", "unmatched", "processing"} /\ event[e].attempts >= MaxAttempts

\* Every recorded event is processed, ignored, or tried until its attempts are used up,
\* whichever workers die on the way.
EventsSettle ==
  \A e \in Events :
    event[e].status # "absent" ~> event[e].status \in Settled \/ Exhausted(e)
=============================================================================
