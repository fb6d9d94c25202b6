----------------------- MODULE ShipmentWebhooks_proofs -----------------------
(***************************************************************************)
(* ShipmentWebhooks, for every set of orders, events and workers, whatever *)
(* fails: types and the bound of the attempts, one processor for an event, *)
(* the finality of an event and of an order's status, one run of the       *)
(* effects for each time an order became delivered or cancelled, and one   *)
(* message for each status, as long as nothing hides what became of it.    *)
(***************************************************************************)
EXTENDS ShipmentWebhooks, FiniteSetTheorems, TLAPS

(* What a worker's locals are good for, where it is.                       *)
Notifying == {"notify", "send", "mark", "unmark"}

Fits(label, l) ==
  /\ label \notin {"idle", "claim"} => l.e \in Events
  /\ label = "write" => Says[l.e] \in Status /\ l.seen \in Status
  /\ label \in Notifying =>
       /\ Says[l.e] \in Told
       /\ l.then \in {"effects", "finalize"}
       /\ l.then = "effects" => Says[l.e] \in Final
  /\ label = "effects" => Says[l.e] \in Final
  /\ label \in Notifying \cup {"effects", "finalize"} => l.out \in {"processed", "ignored", "unmatched"}

DataOK ==
  /\ queue \in Seq(Events)
  /\ event \in [Events -> Documents]
  /\ order \in [Orders -> [status : Status, known : BOOLEAN]]
  /\ note \in [Orders -> [Told -> Notes]]
  /\ effects \in [Orders -> [Final -> Nat]] /\ entered \in [Orders -> [Final -> Nat]]
  /\ messages \in [Orders -> [Told -> Nat]]
  /\ overrun \subseteq Events /\ raced \subseteq Orders /\ doubted \subseteq Orders \X Told
  /\ faults \in 0 .. MaxFaults
  /\ \A e \in Events : event[e].status \in {"absent", "queued"} => event[e].attempts = 0

WorkersOK ==
  /\ pc \in [Workers -> Labels]
  /\ loc \in [Workers -> Locals]
  /\ \A w \in Workers : Fits(pc[w], loc[w])

LEMMA TypeParts == DataOK /\ WorkersOK => TypeOK
BY DEF TypeOK, DataOK, WorkersOK

LEMMA RecordTypes ==
  /\ NoLocals \in Locals
  /\ NoEvent \in Documents
  /\ NoNote \in Notes
BY EventBounds DEF NoLocals, Locals, NoEvent, Documents, EventStates, NoNote, Notes

LEMMA LocalUpdates ==
  ASSUME NEW l \in Locals, NEW x
  PROVE  /\ x \in Events \cup {"none"} => [l EXCEPT !.e = x] \in Locals
         /\ x \in 0 .. MaxAttempts => [l EXCEPT !.attempt = x] \in Locals
         /\ x \in Nat => [l EXCEPT !.left = x] \in Locals
         /\ x \in Status \cup {"none"} => [l EXCEPT !.seen = x] \in Locals
         /\ x \in {"none", "processed", "ignored", "unmatched"} => [l EXCEPT !.out = x] \in Locals
         /\ x \in {"none", "effects", "finalize"} => [l EXCEPT !.then = x] \in Locals
         /\ x \in 0 .. MaxTries => [l EXCEPT !.tries = x] \in Locals
BY DEF Locals

LEMMA GoOK ==
  ASSUME WorkersOK, NEW w \in Workers, NEW label \in Labels, NEW l \in Locals,
         Fits(label, l), GoWith(w, label, l)
  PROVE  WorkersOK'
BY DEF WorkersOK, GoWith

LEMMA Idle ==
  ASSUME NEW l \in Locals, NEW label \in {"idle", "claim"}
  PROVE  Fits(label, l) /\ label \in Labels
BY DEF Fits, Notifying, Labels

LEMMA TypeInit == Init => DataOK /\ WorkersOK
<1> SUFFICES ASSUME Init PROVE DataOK /\ WorkersOK
  OBVIOUS
<1>1. order \in [Orders -> [status : Status, known : BOOLEAN]]
  BY DEF Init, Status, Pipeline
<1>2. /\ faults = 0 /\ queue = <<>> /\ overrun = {} /\ raced = {} /\ doubted = {}
      /\ event = [e \in Events |-> NoEvent] /\ note = [o \in Orders |-> [t \in Told |-> NoNote]]
  BY DEF Init
<1>5. /\ effects \in [Orders -> [Final -> Nat]] /\ entered \in [Orders -> [Final -> Nat]]
      /\ messages \in [Orders -> [Told -> Nat]]
  BY DEF Init
<1>6. queue \in Seq(Events) /\ faults \in 0 .. MaxFaults
  BY <1>2, EventBounds
<1>7. event \in [Events -> Documents] /\ note \in [Orders -> [Told -> Notes]]
  BY <1>2, RecordTypes
<1>8. \A e \in Events : event[e].attempts = 0
  BY <1>2 DEF NoEvent
<1>3. DataOK
  BY <1>1, <1>2, <1>5, <1>6, <1>7, <1>8 DEF DataOK
<1>4. WorkersOK
  BY RecordTypes, Idle DEF Init, WorkersOK, Labels
<1> QED
  BY <1>3, <1>4

\* The event and the order of a worker that is at one.
LEMMA AtOne ==
  ASSUME DataOK, WorkersOK, NEW w \in Workers, pc[w] \notin {"idle", "claim"}
  PROVE  /\ loc[w] \in Locals /\ loc[w].e \in Events
         /\ Order(w) \in Orders /\ order[Order(w)].status \in Status
         /\ event[loc[w].e] \in Documents
         /\ Says[loc[w].e] \in Told => note[Order(w)][Says[loc[w].e]] \in Notes
<1>1. loc[w] \in Locals /\ loc[w].e \in Events
  BY DEF WorkersOK, Fits
<1>2. Order(w) \in Orders
  BY <1>1, EventAssumption DEF Order
<1>3. order[Order(w)] \in [status : Status, known : BOOLEAN]
  BY <1>2 DEF DataOK
<1> QED
  BY <1>1, <1>2, <1>3 DEF DataOK

LEMMA ClaimType ==
  ASSUME DataOK, WorkersOK, NEW w \in Workers, NEW e \in Events, NEW left \in Nat,
         Eligible(e), ClaimEvent(w, e, left),
         UNCHANGED <<queue, order, note, faults>>
  PROVE  DataOK' /\ WorkersOK'
<1> DEFINE d == [status |-> "processing", attempts |-> event[e].attempts + 1, due |-> TRUE, stale |-> FALSE]
           l == [NoLocals EXCEPT !.e = e, !.attempt = event[e].attempts + 1, !.left = left]
<1>1. event[e].attempts + 1 \in 0 .. MaxAttempts
  BY EventBounds DEF DataOK, Documents, Eligible
<1>2. d \in Documents
  BY <1>1 DEF Documents, EventStates
<1>3. event' \in [Events -> Documents] /\ event' = [event EXCEPT ![e] = d]
  BY <1>2 DEF ClaimEvent, DataOK
<1>4. raced' \subseteq Orders
  BY EventAssumption DEF ClaimEvent, DataOK
<1>5. DataOK'
  BY <1>3, <1>4 DEF DataOK, ClaimEvent
<1>6. l \in Locals /\ l.e = e
  BY <1>1, RecordTypes DEF Locals, NoLocals
<1>7. Fits("read", l) /\ "read" \in Labels
  BY <1>6 DEF Fits, Labels, Notifying
<1>8. GoWith(w, "read", l)
  BY DEF ClaimEvent
<1>9. WorkersOK'
  BY <1>6, <1>7, <1>8, GoOK
<1> QED
  BY <1>5, <1>9

\* An event's document when a worker lets go of it, and the worker's locals then.
LEMMA CloseType ==
  ASSUME DataOK, WorkersOK, NEW w \in Workers, pc[w] \notin {"idle", "claim"},
         NEW status \in {"processed", "ignored", "unmatched", "failed"},
         event' = [event EXCEPT ![loc[w].e] = Closed(w, status)], GoesOn(w)
  PROVE  /\ event' \in [Events -> Documents] /\ WorkersOK'
         /\ \A e \in Events : event'[e].status \in {"absent", "queued"} => event'[e].attempts = 0
         /\ event'[loc[w].e].status = status
<1>1. loc[w] \in Locals /\ loc[w].e \in Events /\ event[loc[w].e] \in Documents
  BY AtOne
<1>2. Closed(w, status) \in Documents /\ Closed(w, status).status = status
  BY <1>1 DEF Closed, Documents, EventStates
<1>3. [NoLocals EXCEPT !.left = loc[w].left] \in Locals
  BY <1>1, RecordTypes, LocalUpdates, ZenonT(30) DEF Locals
<1>4. WorkersOK'
  BY <1>3, Idle, GoOK DEF GoesOn
<1> QED
  BY <1>1, <1>2, <1>4 DEF DataOK

LEMMA DrainType ==
  ASSUME DataOK, WorkersOK, NEW w \in Workers,
         \/ \E e \in Events : Receive(w, e)
         \/ ClaimOwn(w) \/ StartDrain(w) \/ Claim(w) \/ Finalize(w) \/ DatabaseError(w) \/ Crash(w)
  PROVE  DataOK' /\ WorkersOK'
<1>1. ASSUME NEW e \in Events, Receive(w, e) PROVE DataOK' /\ WorkersOK'
  <2>1. CASE event[e].status = "absent"
    <3>1. event' = [event EXCEPT ![e].status = "queued"] /\ event[e] \in Documents
      BY <1>1, <2>1 DEF Receive, DataOK
    <3>2. [event[e] EXCEPT !.status = "queued"] \in Documents
      BY <3>1 DEF Documents, EventStates
    <3>3. event' \in [Events -> Documents] /\ event'[e].attempts = 0
      BY <2>1, <3>1, <3>2 DEF DataOK, Documents
    <3>7. queue' \in Seq(Events)
      <4>1. queue' = Append(queue, e) /\ queue \in Seq(Events)
        BY <1>1, <2>1 DEF Receive, DataOK
      <4> QED
        BY <4>1
    <3>8. \A f \in Events : event'[f].status \in {"absent", "queued"} => event'[f].attempts = 0
      BY <3>1, <3>3 DEF DataOK
    <3>4. DataOK'
      BY <1>1, <3>3, <3>7, <3>8 DEF Receive, DataOK, historyVars
    <3>5. [NoLocals EXCEPT !.e = e] \in Locals /\ [NoLocals EXCEPT !.e = e].e = e
      BY RecordTypes, LocalUpdates DEF NoLocals
    <3>6. Fits("byId", [NoLocals EXCEPT !.e = e]) /\ "byId" \in Labels
      BY <3>5 DEF Fits, Notifying, Labels
    <3> QED
      BY <1>1, <2>1, <3>4, <3>5, <3>6, GoOK DEF Receive
  <2>2. CASE event[e].status # "absent"
    BY <1>1, <2>2 DEF Receive, DataOK, WorkersOK, historyVars
  <2> QED
    BY <2>1, <2>2
<1>2. CASE ClaimOwn(w)
  <2>1. CASE Eligible(loc[w].e)
    <3>1. loc[w].e \in Events
      BY <1>2, AtOne DEF ClaimOwn
    <3> QED
      BY <1>2, <2>1, <3>1, ClaimType DEF ClaimOwn
  <2>2. CASE ~Eligible(loc[w].e)
    <3>1. [NoLocals EXCEPT !.left = 2] \in Locals
      BY RecordTypes, LocalUpdates
    <3>2. GoWith(w, "claim", [NoLocals EXCEPT !.left = 2]) /\ UNCHANGED <<event, historyVars>>
      BY <1>2, <2>2 DEF ClaimOwn
    <3>3. WorkersOK'
      BY <3>1, <3>2, Idle, GoOK
    <3> QED
      BY <1>2, <3>2, <3>3 DEF ClaimOwn, DataOK, historyVars
  <2> QED
    BY <2>1, <2>2
<1>3. CASE StartDrain(w)
  <2>1. [NoLocals EXCEPT !.left = Batch] \in Locals
    BY RecordTypes, LocalUpdates, EventBounds
  <2>2. WorkersOK'
    BY <1>3, <2>1, Idle, GoOK DEF StartDrain
  <2> QED
    BY <1>3, <2>2 DEF StartDrain, DataOK, historyVars
<1>4. CASE Claim(w)
  <2>1. CASE loc[w].left > 0 /\ \E i \in DOMAIN queue : Oldest(i) /\ ClaimEvent(w, queue[i], loc[w].left - 1)
    <3>1. PICK i \in DOMAIN queue : Oldest(i) /\ ClaimEvent(w, queue[i], loc[w].left - 1)
      BY <2>1
    <3>2. queue[i] \in Events /\ Eligible(queue[i])
      BY <3>1 DEF DataOK, Oldest
    <3>3. loc[w].left - 1 \in Nat
      BY <2>1 DEF WorkersOK, Locals
    <3> QED
      BY <1>4, <3>1, <3>2, <3>3, ClaimType DEF Claim
  <2>2. CASE GoWith(w, "idle", NoLocals) /\ UNCHANGED <<event, historyVars>>
    <3>1. WorkersOK'
      BY <2>2, RecordTypes, Idle, GoOK
    <3> QED
      BY <1>4, <2>2, <3>1 DEF Claim, DataOK, historyVars
  <2> QED
    BY <1>4, <2>1, <2>2 DEF Claim
<1>5. CASE Finalize(w)
  <2>1. loc[w].out \in {"processed", "ignored", "unmatched"}
    BY <1>5 DEF Finalize, WorkersOK, Fits
  <2> QED
    BY <1>5, <2>1, CloseType DEF Finalize, DataOK, historyVars
<1>6. CASE DatabaseError(w)
  <2>1. faults' \in 0 .. MaxFaults
    BY <1>6, EventBounds DEF DatabaseError, DataOK
  <2>2. CASE pc[w] \in {"notify", "mark"} /\ GoTo(w, "unmark") /\ Doubt({<<Order(w), Says[loc[w].e]>>}) /\ UNCHANGED event
    <3>1. loc[w] \in Locals /\ Order(w) \in Orders /\ Says[loc[w].e] \in Told /\ Fits(pc[w], loc[w])
      BY <2>2, AtOne DEF WorkersOK, Fits, Notifying
    <3>2. Fits("unmark", loc[w]) /\ "unmark" \in Labels
      BY <2>2, <3>1 DEF Fits, Notifying, Labels
    <3>3. WorkersOK'
      BY <2>2, <3>1, <3>2, GoOK DEF GoTo
    <3>4. doubted' \subseteq Orders \X Told
      BY <2>2, <3>1 DEF Doubt, DataOK
    <3> QED
      BY <1>6, <2>1, <2>2, <3>3, <3>4 DEF DatabaseError, DataOK
  <2>3. CASE /\ pc[w] \in {"read", "write", "effects", "finalize"}
             /\ event' = [event EXCEPT ![loc[w].e] = Closed(w, "failed")] /\ GoesOn(w) /\ UNCHANGED doubted
    BY <1>6, <2>1, <2>3, CloseType DEF DatabaseError, DataOK
  <2> QED
    BY <1>6, <2>2, <2>3 DEF DatabaseError
<1>7. CASE Crash(w)
  <2>1. faults' \in 0 .. MaxFaults
    BY <1>7, EventBounds DEF Crash, DataOK
  <2>2. doubted' \subseteq Orders \X Told
    <3>1. CASE pc[w] = "mark"
      BY <1>7, <3>1, AtOne DEF Crash, Doubt, DataOK, WorkersOK, Fits, Notifying
    <3>2. CASE pc[w] # "mark"
      BY <1>7, <3>2 DEF Crash, Doubt, DataOK
    <3> QED
      BY <3>1, <3>2
  <2>3. WorkersOK'
    BY <1>7, RecordTypes, Idle, GoOK DEF Crash
  <2> QED
    BY <1>7, <2>1, <2>2, <2>3 DEF Crash, DataOK
<1> QED
  BY <1>1, <1>2, <1>3, <1>4, <1>5, <1>6, <1>7

LEMMA ProcessType ==
  ASSUME DataOK, WorkersOK, NEW w \in Workers, Read(w) \/ Write(w) \/ Effects(w)
  PROVE  DataOK' /\ WorkersOK'
<1>1. /\ loc[w] \in Locals /\ loc[w].e \in Events /\ Order(w) \in Orders
      /\ order[Order(w)].status \in Status /\ Fits(pc[w], loc[w])
  BY AtOne DEF Read, Write, Effects, WorkersOK
<1>2. CASE Read(w)
  <2>1. DataOK'
    BY <1>2 DEF Read, DataOK, historyVars
  <2>2. ASSUME NEW out \in {"processed", "ignored", "unmatched"}, Finalizes(w, out)
        PROVE  WorkersOK'
    <3>1. [loc[w] EXCEPT !.out = out] \in Locals
      BY <1>1, LocalUpdates
    <3>2. Fits("finalize", [loc[w] EXCEPT !.out = out]) /\ "finalize" \in Labels
      BY <1>1, <3>1 DEF Fits, Notifying, Labels, Locals
    <3> QED
      BY <2>2, <3>1, <3>2, GoOK DEF Finalizes
  <2>3. ASSUME Says[loc[w].e] # "none", GoWith(w, "write", [loc[w] EXCEPT !.seen = order[About[loc[w].e]].status])
        PROVE  WorkersOK'
    <3> DEFINE l == [loc[w] EXCEPT !.seen = order[About[loc[w].e]].status]
    <3>0. order[About[loc[w].e]].status \in Status
      BY <1>1 DEF Order
    <3>1. l \in Locals /\ l.e = loc[w].e /\ l.seen \in Status
      BY <1>1, <3>0 DEF Locals
    <3>2. Fits("write", l) /\ "write" \in Labels
      BY <1>1, <2>3, <3>1, EventAssumption DEF Fits, Notifying, Labels
    <3> QED
      BY <2>3, <3>1, <3>2, GoOK
  <2> QED
    BY <1>2, <2>1, <2>2, <2>3 DEF Read
<1>3. CASE Write(w)
  <2> DEFINE s == Says[loc[w].e]
  <2>1. s \in Status /\ pc[w] = "write"
    BY <1>1, <1>3 DEF Fits, Write
  <2>2. ASSUME WriteStatus(Order(w), s)
        PROVE  /\ order' \in [Orders -> [status : Status, known : BOOLEAN]]
               /\ entered' \in [Orders -> [Final -> Nat]]
    <3>1. ASSUME s \in Final
          PROVE  [entered EXCEPT ![Order(w)][s] = @ + 1] \in [Orders -> [Final -> Nat]]
      BY <3>1, <1>1 DEF DataOK
    <3>2. order' \in [Orders -> [status : Status, known : BOOLEAN]]
      BY <2>1, <2>2, <1>1, ZenonT(30) DEF WriteStatus, DataOK
    <3> QED
      BY <2>2, <3>1, <3>2 DEF WriteStatus, DataOK
  <2>3. /\ order' \in [Orders -> [status : Status, known : BOOLEAN]]
        /\ entered' \in [Orders -> [Final -> Nat]]
    BY <1>3, <2>2 DEF Write, DataOK
  <2>4. DataOK'
    BY <1>3, <2>3 DEF Write, DataOK
  <2>5. ASSUME NEW then \in {"effects", "finalize"}, then = "effects" => s \in Final,
               Goes(w, IF s \in Told THEN "notify" ELSE then, then)
        PROVE  WorkersOK'
    <3> DEFINE l == [loc[w] EXCEPT !.then = then, !.out = "processed", !.seen = "none"]
               label == IF s \in Told THEN "notify" ELSE then
    <3>1. l \in Locals /\ l.e = loc[w].e /\ l.then = then /\ l.out = "processed"
      BY <1>1 DEF Locals
    <3>2. Fits(label, l) /\ label \in Labels
      BY <1>1, <2>1, <2>5, <3>1 DEF Fits, Notifying, Labels
    <3>3. GoWith(w, label, l)
      BY <2>5 DEF Goes
    <3> QED
      BY <3>1, <3>2, <3>3, GoOK
  <2> QED
    BY <1>3, <2>4, <2>5 DEF Write
<1>4. CASE Effects(w)
  <2>1. Says[loc[w].e] \in Final
    BY <1>1, <1>4 DEF Effects, Fits
  <2>2. effects' \in [Orders -> [Final -> Nat]]
    BY <1>1, <1>4, <2>1 DEF Effects, DataOK
  <2>3. DataOK'
    BY <1>4, <2>2 DEF Effects, DataOK
  <2>4. Fits("finalize", loc[w]) /\ "finalize" \in Labels
    BY <1>1, <1>4 DEF Effects, Fits, Notifying, Labels
  <2> QED
    BY <1>1, <1>4, <2>3, <2>4, GoOK DEF Effects, GoTo
<1> QED
  BY <1>2, <1>3, <1>4

LEMMA NotifyType ==
  ASSUME DataOK, WorkersOK, NEW w \in Workers, Notifies(w) \/ SendFails(w)
  PROVE  DataOK' /\ WorkersOK'
<1> DEFINE s == Says[loc[w].e]
           counted == [messages EXCEPT ![Order(w)][s] = @ + 1]
<1>1. /\ loc[w] \in Locals /\ loc[w].e \in Events /\ Order(w) \in Orders
      /\ Fits(pc[w], loc[w]) /\ pc[w] \in Notifying
      /\ s \in Told /\ Note(w) \in Notes
  BY AtOne DEF Notifies, Acquire, Send, SendFails, Mark, Unmark, WorkersOK, Fits, Notifying, Note
<1>2. counted \in [Orders -> [Told -> Nat]]
  BY <1>1 DEF DataOK
<1>3. ASSUME NEW n \in Notes, SetNote(w, n)
      PROVE  note' \in [Orders -> [Told -> Notes]]
  BY <1>1, <1>3 DEF SetNote, DataOK
<1>4. ASSUME AfterNote(w)
      PROVE  WorkersOK'
  <2>1. [loc[w] EXCEPT !.tries = 0, !.then = "none"] \in Locals
    <3>1. 0 \in 0 .. MaxTries
      BY EventBounds
    <3> QED
      BY <1>1, <3>1 DEF Locals
  <2>2. /\ Fits(loc[w].then, [loc[w] EXCEPT !.tries = 0, !.then = "none"])
        /\ loc[w].then \in Labels
    BY <1>1, <2>1 DEF Fits, Notifying, Labels, Locals
  <2> QED
    BY <1>4, <2>1, <2>2, GoOK DEF AfterNote
<1>5. ASSUME NEW label \in Notifying, NEW tries \in 0 .. MaxTries,
             GoWith(w, label, [loc[w] EXCEPT !.tries = tries])
      PROVE  WorkersOK'
  <2>1. [loc[w] EXCEPT !.tries = tries] \in Locals
    BY <1>1 DEF Locals
  <2>2. Fits(label, [loc[w] EXCEPT !.tries = tries]) /\ label \in Labels
    BY <1>1, <2>1 DEF Fits, Notifying, Labels, Locals
  <2> QED
    BY <1>5, <2>1, <2>2, GoOK
<1>6. ASSUME NEW label \in Notifying, GoTo(w, label)
      PROVE  WorkersOK'
  <2>1. Fits(label, loc[w]) /\ label \in Labels
    BY <1>1 DEF Fits, Notifying, Labels
  <2> QED
    BY <1>1, <1>6, <2>1, GoOK DEF GoTo
<1>7. /\ [Note(w) EXCEPT !.lock = "held"] \in Notes
      /\ [Note(w) EXCEPT !.lock = "free"] \in Notes
      /\ [sent |-> TRUE, lock |-> "free"] \in Notes
  BY <1>1 DEF Notes
<1>8. CASE Acquire(w)
  <2>1. note' \in [Orders -> [Told -> Notes]]
    BY <1>3, <1>7, <1>8 DEF Acquire, DataOK
  <2>2. WorkersOK'
    BY <1>4, <1>5, <1>8, EventBounds DEF Acquire, Notifying
  <2> QED
    BY <1>8, <2>1, <2>2 DEF Acquire, DataOK, historyVars
<1>9. CASE Send(w)
  <2>1. messages' \in [Orders -> [Told -> Nat]]
    BY <1>2, <1>9 DEF Send, DataOK
  <2>2. WorkersOK'
    BY <1>6, <1>9 DEF Send, Notifying
  <2> QED
    BY <1>9, <2>1, <2>2 DEF Send, DataOK
<1>10. CASE SendFails(w)
  <2>1. messages' \in [Orders -> [Told -> Nat]]
    BY <1>2, <1>10 DEF SendFails, DataOK
  <2>2. faults' \in 0 .. MaxFaults /\ doubted' \subseteq Orders \X Told
    BY <1>1, <1>10, EventBounds DEF SendFails, DataOK, Doubt
  <2>3. CASE loc[w].tries < MaxTries
    <3>1. loc[w].tries + 1 \in 0 .. MaxTries
      BY <1>1, <2>3, EventBounds DEF Locals
    <3>2. GoWith(w, "send", [loc[w] EXCEPT !.tries = loc[w].tries + 1])
      BY <1>10, <2>3 DEF SendFails
    <3>3. WorkersOK'
      BY <1>5, <3>1, <3>2 DEF Notifying
    <3> QED
      BY <1>10, <2>1, <2>2, <3>3 DEF SendFails, DataOK
  <2>4. CASE ~(loc[w].tries < MaxTries)
    <3>1. WorkersOK'
      BY <1>6, <1>10, <2>4 DEF SendFails, Notifying
    <3> QED
      BY <1>10, <2>1, <2>2, <3>1 DEF SendFails, DataOK
  <2> QED
    BY <2>3, <2>4
<1>11. CASE Mark(w)
  BY <1>3, <1>4, <1>7, <1>11 DEF Mark, DataOK, historyVars
<1>12. CASE Unmark(w)
  BY <1>3, <1>4, <1>7, <1>12 DEF Unmark, DataOK, historyVars
<1> QED
  BY <1>8, <1>9, <1>10, <1>11, <1>12 DEF Notifies

LEMMA TimeType ==
  ASSUME DataOK, WorkersOK,
         \/ \E e \in Events : BecomesStale(e) \/ RetryDue(e)
         \/ \E o \in Orders : Sync(o)
         \/ \E o \in Orders, t \in Told : Lapses(o, t)
  PROVE  DataOK' /\ WorkersOK'
<1>1. ASSUME NEW e \in Events, BecomesStale(e) PROVE DataOK' /\ WorkersOK'
  <2>1. [event[e] EXCEPT !.stale = TRUE] \in Documents /\ event[e].status = "processing"
    BY <1>1, ZenonT(30) DEF BecomesStale, DataOK, Documents
  <2>2. faults' \in 0 .. MaxFaults /\ overrun' \subseteq Events
    BY <1>1, EventBounds DEF BecomesStale, DataOK
  <2>3. event' = [event EXCEPT ![e] = [event[e] EXCEPT !.stale = TRUE]]
    BY <1>1 DEF BecomesStale
  <2>4. /\ event' \in [Events -> Documents]
        /\ \A f \in Events : event'[f].status \in {"absent", "queued"} => event'[f].attempts = 0
    BY <2>1, <2>3 DEF DataOK, Documents
  <2> QED
    BY <1>1, <2>2, <2>4 DEF BecomesStale, DataOK, WorkersOK
<1>2. ASSUME NEW e \in Events, RetryDue(e) PROVE DataOK' /\ WorkersOK'
  <2>1. [event[e] EXCEPT !.due = TRUE] \in Documents
    BY DEF DataOK, Documents
  <2>2. event' = [event EXCEPT ![e] = [event[e] EXCEPT !.due = TRUE]]
    BY <1>2 DEF RetryDue
  <2>3. /\ event' \in [Events -> Documents]
        /\ \A f \in Events : event'[f].status \in {"absent", "queued"} => event'[f].attempts = 0
    BY <2>1, <2>2 DEF DataOK, Documents
  <2> QED
    BY <1>2, <2>3 DEF RetryDue, DataOK, WorkersOK, historyVars
<1>3. ASSUME NEW o \in Orders, Sync(o) PROVE DataOK' /\ WorkersOK'
  <2>1. order' \in [Orders -> [status : Status, known : BOOLEAN]]
    BY <1>3 DEF Sync, DataOK
  <2> QED
    BY <1>3, <2>1 DEF Sync, DataOK, WorkersOK, historyVars
<1>4. ASSUME NEW o \in Orders, NEW t \in Told, Lapses(o, t) PROVE DataOK' /\ WorkersOK'
  <2>1. [note[o][t] EXCEPT !.lock = "lapsed"] \in Notes
    <3>1. note[o][t] \in Notes
      BY DEF DataOK
    <3> QED
      BY <3>1 DEF Notes
  <2>2. note' \in [Orders -> [Told -> Notes]]
    BY <1>4, <2>1 DEF Lapses, DataOK
  <2>3. faults' \in 0 .. MaxFaults /\ doubted' \subseteq Orders \X Told
    BY <1>4, EventBounds DEF Lapses, Doubt, DataOK
  <2> QED
    BY <1>4, <2>2, <2>3 DEF Lapses, DataOK, WorkersOK
<1> QED
  BY <1>1, <1>2, <1>3, <1>4

LEMMA TypeNext == DataOK /\ WorkersOK /\ [Next]_vars => DataOK' /\ WorkersOK'
<1> SUFFICES ASSUME DataOK, WorkersOK, [Next]_vars PROVE DataOK' /\ WorkersOK'
  OBVIOUS
<1>1. CASE UNCHANGED vars
  BY <1>1 DEF vars, historyVars, DataOK, WorkersOK
<1>2. ASSUME NEW w \in Workers,
             \/ Continue(w) \/ StartDrain(w) \/ SendFails(w) \/ DatabaseError(w) \/ Crash(w)
             \/ \E e \in Events : Receive(w, e)
      PROVE  DataOK' /\ WorkersOK'
  BY <1>2, DrainType, ProcessType, NotifyType DEF Continue
<1> QED
  BY <1>1, <1>2, TimeType DEF Next

(* However many workers, faults and repetitions: variables keep their      *)
(* types; in particular no event is tried more than MaxAttempts times.     *)
THEOREM TypeCorrect == Spec => []TypeOK
<1>1. DataOK /\ WorkersOK => TypeOK
  BY TypeParts
<1> QED
  BY <1>1, TypeInit, TypeNext, PTL DEF Spec

-----------------------------------------------------------------------------
(* What a step does to who is at what.                                     *)

Others(w) == \A v \in Workers \ {w} : pc'[v] = pc[v] /\ loc'[v] = loc[v]

SameOrders == \A o \in Orders : order'[o].status = order[o].status

Takes(w) ==
  /\ ~At(w) /\ pc'[w] = "read" /\ loc'[w].e \in Events /\ Eligible(loc'[w].e)
  /\ event'[loc'[w].e].status = "processing" /\ ~event'[loc'[w].e].stale
  /\ \A f \in Events : f # loc'[w].e => event'[f] = event[f]
  /\ raced' = IF \E v \in Workers : At(v) /\ Order(v) = About[loc'[w].e]
              THEN raced \cup {About[loc'[w].e]} ELSE raced
  /\ overrun' = overrun /\ SameOrders /\ Others(w)

Works(w) ==
  /\ At(w) /\ pc'[w] \notin {"idle", "byId", "claim"} /\ loc'[w].e = loc[w].e
  /\ event' = event /\ raced' = raced /\ overrun' = overrun /\ Others(w)
  /\ \/ /\ pc[w] = "write" /\ pc'[w] # "write"
        /\ \A o \in Orders : order'[o].status \in {order[o].status, IF o = Order(w) THEN Says[loc[w].e] ELSE order[o].status}
     \/ /\ pc'[w] = "write" => /\ loc'[w].seen = order[Order(w)].status
                               /\ loc'[w].seen \in Final => loc'[w].seen = Says[loc[w].e]
        /\ SameOrders

Leaves(w) ==
  /\ At(w) /\ pc'[w] \in {"idle", "claim"}
  /\ \A f \in Events : f # loc[w].e => event'[f] = event[f]
  /\ raced' = raced /\ overrun' = overrun /\ SameOrders /\ Others(w)

Waits(w) ==
  /\ ~At(w) /\ pc'[w] \in {"idle", "byId", "claim"}
  /\ \A f \in Events : \/ event'[f] = event[f]
                       \/ event[f].status = "absent" /\ event'[f].status = "queued"
  /\ raced' = raced /\ overrun' = overrun /\ SameOrders /\ Others(w)

Passes ==
  /\ UNCHANGED <<pc, loc, raced>>
  /\ overrun \subseteq overrun' /\ SameOrders
  /\ \A f \in Events :
       /\ event'[f].status = event[f].status
       /\ \/ event'[f].stale = event[f].stale
          \/ f \in overrun'
          \/ \A w \in Workers : ~(At(w) /\ loc[w].e = f)

LEMMA ClaimTakes ==
  ASSUME DataOK, WorkersOK, NEW w \in Workers, NEW e \in Events, NEW left \in Nat,
         ~At(w), Eligible(e), ClaimEvent(w, e, left), UNCHANGED order
  PROVE  Takes(w)
<1>1. pc'[w] = "read" /\ loc'[w].e = e /\ Others(w)
  BY DEF ClaimEvent, GoWith, WorkersOK, Others, NoLocals
<1>2. /\ event'[e].status = "processing" /\ ~event'[e].stale
      /\ \A f \in Events : f # e => event'[f] = event[f]
  BY DEF ClaimEvent, DataOK
<1> QED
  BY <1>1, <1>2 DEF Takes, ClaimEvent, SameOrders

LEMMA CloseLeaves ==
  ASSUME DataOK, WorkersOK, NEW w \in Workers, At(w),
         NEW d, event' = [event EXCEPT ![loc[w].e] = d] \/ event' = event,
         NEW label \in {"idle", "claim"}, NEW l, GoWith(w, label, l),
         UNCHANGED <<order, raced, overrun>>
  PROVE  Leaves(w)
BY DEF Leaves, GoWith, WorkersOK, DataOK, Others, SameOrders

LEMMA DrainKinds ==
  ASSUME DataOK, WorkersOK, NEW w \in Workers,
         \/ \E e \in Events : Receive(w, e)
         \/ ClaimOwn(w) \/ StartDrain(w) \/ Claim(w) \/ Finalize(w) \/ DatabaseError(w) \/ Crash(w)
  PROVE  Takes(w) \/ Works(w) \/ Leaves(w) \/ Waits(w) \/ Passes
<1>1. ASSUME NEW e \in Events, Receive(w, e) PROVE Waits(w) \/ Passes
  <2>1. CASE event[e].status = "absent"
    BY <1>1, <2>1 DEF Receive, Waits, At, GoWith, Others, SameOrders, WorkersOK, DataOK, Documents, historyVars
  <2>2. CASE event[e].status # "absent"
    BY <1>1, <2>2 DEF Receive, Passes, SameOrders, historyVars
  <2> QED
    BY <2>1, <2>2
<1>2. CASE ClaimOwn(w)
  <2>1. CASE Eligible(loc[w].e)
    BY <1>2, <2>1, AtOne, ClaimTakes DEF ClaimOwn, At
  <2>2. CASE ~Eligible(loc[w].e)
    BY <1>2, <2>2 DEF ClaimOwn, Waits, At, GoWith, Others, SameOrders, WorkersOK, historyVars
  <2> QED
    BY <2>1, <2>2
<1>3. CASE StartDrain(w)
  BY <1>3 DEF StartDrain, Waits, At, GoWith, Others, SameOrders, WorkersOK, historyVars
<1>4. CASE Claim(w)
  <2>1. CASE loc[w].left > 0 /\ \E i \in DOMAIN queue : Oldest(i) /\ ClaimEvent(w, queue[i], loc[w].left - 1)
    <3>1. PICK i \in DOMAIN queue : Oldest(i) /\ ClaimEvent(w, queue[i], loc[w].left - 1)
      BY <2>1
    <3>2. queue[i] \in Events /\ Eligible(queue[i])
      BY <3>1 DEF DataOK, Oldest
    <3>3. loc[w].left - 1 \in Nat
      BY <2>1 DEF WorkersOK, Locals
    <3> QED
      BY <1>4, <3>1, <3>2, <3>3, ClaimTakes DEF Claim, At
  <2>2. CASE GoWith(w, "idle", NoLocals) /\ UNCHANGED <<event, historyVars>>
    BY <1>4, <2>2 DEF Claim, Waits, At, GoWith, Others, SameOrders, WorkersOK, historyVars
  <2> QED
    BY <1>4, <2>1, <2>2 DEF Claim
<1>5. CASE Finalize(w)
  BY <1>5, CloseLeaves DEF Finalize, GoesOn, At, historyVars
<1>6. CASE DatabaseError(w)
  <2>1. CASE pc[w] \in {"notify", "mark"} /\ GoTo(w, "unmark") /\ Doubt({<<Order(w), Says[loc[w].e]>>}) /\ UNCHANGED event
    BY <1>6, <2>1 DEF DatabaseError, Works, At, GoTo, GoWith, Others, SameOrders, WorkersOK
  <2>2. CASE /\ pc[w] \in {"read", "write", "effects", "finalize"}
             /\ event' = [event EXCEPT ![loc[w].e] = Closed(w, "failed")] /\ GoesOn(w) /\ UNCHANGED doubted
    BY <1>6, <2>2, CloseLeaves DEF DatabaseError, GoesOn, At
  <2> QED
    BY <1>6, <2>1, <2>2 DEF DatabaseError
<1>7. CASE Crash(w)
  <2>1. CASE At(w)
    BY <1>7, <2>1, CloseLeaves DEF Crash
  <2>2. CASE ~At(w)
    BY <1>7, <2>2 DEF Crash, Waits, At, GoWith, Others, SameOrders, WorkersOK
  <2> QED
    BY <2>1, <2>2
<1> QED
  BY <1>1, <1>2, <1>3, <1>4, <1>5, <1>6, <1>7

LEMMA WorkKinds ==
  ASSUME DataOK, WorkersOK, NEW w \in Workers,
         Read(w) \/ Write(w) \/ Effects(w) \/ Notifies(w) \/ SendFails(w)
  PROVE  Works(w)
<1>1. loc[w] \in Locals /\ loc[w].e \in Events /\ Order(w) \in Orders /\ Fits(pc[w], loc[w]) /\ At(w)
  BY AtOne DEF Read, Write, Effects, Notifies, Acquire, Send, Mark, Unmark, SendFails, WorkersOK, At
<1>2. ASSUME NEW label \in Labels \ {"idle", "byId", "claim", "write"}, NEW l \in Locals,
             l.e = loc[w].e, GoWith(w, label, l), UNCHANGED <<event, raced, overrun, order>>
      PROVE  Works(w)
  BY <1>1, <1>2 DEF Works, GoWith, Others, SameOrders, WorkersOK
<1>3. CASE Read(w)
  <2>1. CASE \E out \in {"ignored", "unmatched", "processed"} : Finalizes(w, out)
    <3>1. PICK out \in {"ignored", "unmatched", "processed"} : Finalizes(w, out)
      BY <2>1
    <3>2. [loc[w] EXCEPT !.out = out] \in Locals /\ [loc[w] EXCEPT !.out = out].e = loc[w].e
      BY <1>1, LocalUpdates DEF Locals
    <3> QED
      BY <1>2, <1>3, <3>1, <3>2 DEF Read, Finalizes, Labels, historyVars
  <2>2. CASE /\ ~(order[About[loc[w].e]].status \in Final /\ order[About[loc[w].e]].status # Says[loc[w].e])
             /\ GoWith(w, "write", [loc[w] EXCEPT !.seen = order[About[loc[w].e]].status])
    <3>1. /\ pc'[w] = "write" /\ loc'[w].e = loc[w].e
          /\ loc'[w].seen = order[Order(w)].status /\ Others(w)
      BY <1>1, <2>2 DEF GoWith, WorkersOK, Locals, Others, Order
    <3> QED
      BY <1>1, <1>3, <2>2, <3>1 DEF Read, Works, Order, SameOrders, historyVars
  <2> QED
    BY <1>3, <2>1, <2>2 DEF Read
<1>4. CASE Write(w)
  <2> DEFINE s == Says[loc[w].e]
  <2>1. \A o \in Orders : order'[o].status \in {order[o].status, IF o = Order(w) THEN s ELSE order[o].status}
    BY <1>1, <1>4, SMTT(30) DEF Write, WriteStatus, DataOK
  <2>2. PICK label, then : Goes(w, label, then) /\ label \in {"notify", "effects", "finalize"}
    BY <1>4 DEF Write
  <2>3. pc'[w] = label /\ loc'[w].e = loc[w].e /\ Others(w)
    BY <1>1, <2>2 DEF Goes, GoWith, WorkersOK, Locals, Others
  <2> QED
    BY <1>1, <1>4, <2>1, <2>2, <2>3 DEF Write, Works
<1>5. CASE Effects(w)
  BY <1>1, <1>2, <1>5 DEF Effects, GoTo, Labels
<1>6. CASE Notifies(w) \/ SendFails(w)
  <2>1. UNCHANGED <<event, raced, overrun, order>>
    BY <1>6 DEF Notifies, Acquire, Send, Mark, Unmark, SendFails, historyVars
  <2>2. CASE AfterNote(w)
    <3>1. pc[w] \in Notifying
      BY <1>6 DEF Notifies, Acquire, Send, Mark, Unmark, SendFails, Notifying
    <3>2. loc[w].then \in {"effects", "finalize"}
      BY <1>1, <3>1 DEF Fits
    <3>3. pc'[w] \in {"effects", "finalize"} /\ loc'[w].e = loc[w].e /\ Others(w)
      BY <1>1, <2>2, <3>2 DEF AfterNote, GoWith, WorkersOK, Locals, Others
    <3> QED
      BY <1>1, <2>1, <3>3 DEF Works, SameOrders
  <2>3. ASSUME NEW label \in {"send", "mark", "unmark"}, GoTo(w, label) PROVE Works(w)
    BY <1>1, <1>2, <2>1, <2>3 DEF GoTo, Labels
  <2>4. ASSUME NEW tries, GoWith(w, "send", [loc[w] EXCEPT !.tries = tries]) PROVE Works(w)
    <3>1. pc'[w] = "send" /\ loc'[w].e = loc[w].e /\ Others(w)
      BY <1>1, <2>4 DEF GoWith, WorkersOK, Locals, Others
    <3> QED
      BY <1>1, <2>1, <3>1 DEF Works, SameOrders
  <2> QED
    BY <1>6, <2>2, <2>3, <2>4 DEF Notifies, Acquire, Send, Mark, Unmark, SendFails
<1> QED
  BY <1>3, <1>4, <1>5, <1>6

LEMMA TimeKinds ==
  ASSUME DataOK, WorkersOK,
         \/ \E e \in Events : BecomesStale(e) \/ RetryDue(e)
         \/ \E o \in Orders : Sync(o)
         \/ \E o \in Orders, t \in Told : Lapses(o, t)
  PROVE  Passes
<1>1. ASSUME NEW e \in Events, BecomesStale(e) PROVE Passes
  <2>1. \A f \in Events : /\ event'[f].status = event[f].status
                          /\ f # e => event'[f] = event[f]
    BY <1>1 DEF BecomesStale, DataOK, Documents
  <2>2. overrun \subseteq overrun' /\ (e \in overrun' \/ \A w \in Workers : ~(At(w) /\ loc[w].e = e))
    BY <1>1 DEF BecomesStale
  <2> QED
    BY <1>1, <2>1, <2>2 DEF BecomesStale, Passes, SameOrders
<1>2. ASSUME NEW e \in Events, RetryDue(e) PROVE Passes
  <2>1. \A f \in Events : event'[f].status = event[f].status /\ event'[f].stale = event[f].stale
    BY <1>2 DEF RetryDue, DataOK, Documents
  <2> QED
    BY <1>2, <2>1 DEF RetryDue, Passes, SameOrders, historyVars
<1>3. ASSUME NEW o \in Orders, Sync(o) PROVE Passes
  BY <1>3 DEF Sync, Passes, SameOrders, DataOK, historyVars
<1>4. ASSUME NEW o \in Orders, NEW t \in Told, Lapses(o, t) PROVE Passes
  BY <1>4 DEF Lapses, Passes, SameOrders
<1> QED
  BY <1>1, <1>2, <1>3, <1>4

LEMMA Kinds ==
  ASSUME DataOK, WorkersOK, [Next]_vars
  PROVE  Passes \/ \E w \in Workers : Takes(w) \/ Works(w) \/ Leaves(w) \/ Waits(w)
<1>1. CASE UNCHANGED vars
  BY <1>1 DEF vars, historyVars, Passes, SameOrders
<1>2. ASSUME NEW w \in Workers,
             \/ Continue(w) \/ StartDrain(w) \/ SendFails(w) \/ DatabaseError(w) \/ Crash(w)
             \/ \E e \in Events : Receive(w, e)
      PROVE  Passes \/ Takes(w) \/ Works(w) \/ Leaves(w) \/ Waits(w)
  BY <1>2, DrainKinds, WorkKinds DEF Continue
<1> QED
  BY <1>1, <1>2, TimeKinds DEF Next

-----------------------------------------------------------------------------
(* One worker at an event, one at an order, or it is known.                *)

ClaimsHold ==
  \A w \in Workers :
    At(w) /\ loc[w].e \notin overrun =>
      event[loc[w].e].status = "processing" /\ ~event[loc[w].e].stale

Apart ==
  \A v, w \in Workers : v # w /\ At(v) /\ At(w) /\ Order(v) = Order(w) => Order(v) \in raced

SeenHolds ==
  \A w \in Workers :
    pc[w] = "write" /\ Order(w) \notin raced =>
      /\ loc[w].seen = order[Order(w)].status
      /\ loc[w].seen \in Final => loc[w].seen = Says[loc[w].e]

Alone == ClaimsHold /\ OneProcessor /\ Apart /\ SeenHolds

LEMMA AloneInit == Init => Alone
BY DEF Init, Alone, ClaimsHold, OneProcessor, Apart, SeenHolds, At

LEMMA TakesAlone ==
  ASSUME DataOK, WorkersOK, Alone, NEW w \in Workers, Takes(w)
  PROVE  Alone'
<1> DEFINE e == loc'[w].e
<1>1. \A v \in Workers : v # w => (At(v)' <=> At(v)) /\ Order(v)' = Order(v) /\ loc'[v] = loc[v] /\ pc'[v] = pc[v]
  BY DEF Takes, Others, At, Order
<1>2. At(w)' /\ Order(w)' = About[e] /\ pc'[w] # "write" /\ overrun' = overrun /\ raced \subseteq raced'
  BY DEF Takes, At, Order
<1>3. \A v \in Workers : v # w /\ At(v) /\ loc[v].e = e => e \in overrun
  BY DEF Alone, ClaimsHold, Takes, Eligible
<1>4. ClaimsHold'
  <2> SUFFICES ASSUME NEW v \in Workers, At(v)', loc'[v].e \notin overrun
               PROVE  event'[loc'[v].e].status = "processing" /\ ~event'[loc'[v].e].stale
    BY <1>2 DEF ClaimsHold
  <2>1. CASE v = w
    BY <2>1 DEF Takes
  <2>2. CASE v # w
    <3>1. At(v) /\ loc'[v] = loc[v] /\ loc[v].e # e /\ loc[v].e \in Events
      BY <1>1, <1>3, <2>2, AtOne DEF At
    <3> QED
      BY <3>1 DEF Takes, Alone, ClaimsHold
  <2> QED
    BY <2>1, <2>2
<1>5. OneProcessor'
  BY <1>1, <1>2, <1>3 DEF Alone, OneProcessor
<1>6. Apart'
  <2>1. \A v \in Workers : v # w /\ At(v) /\ Order(v) = About[e] => About[e] \in raced'
    BY DEF Takes
  <2> QED
    BY <1>1, <1>2, <2>1 DEF Alone, Apart
<1>7. SeenHolds'
  <2> SUFFICES ASSUME NEW v \in Workers, pc'[v] = "write", Order(v)' \notin raced'
               PROVE  /\ loc'[v].seen = order'[Order(v)'].status
                      /\ loc'[v].seen \in Final => loc'[v].seen = Says[loc'[v].e]
    BY DEF SeenHolds
  <2>1. v # w /\ pc[v] = "write" /\ Order(v) \notin raced /\ loc'[v] = loc[v] /\ Order(v)' = Order(v) /\ Order(v) \in Orders
    BY <1>1, <1>2, AtOne
  <2> QED
    BY <2>1 DEF Alone, SeenHolds, Takes, SameOrders
<1> QED
  BY <1>4, <1>5, <1>6, <1>7 DEF Alone

LEMMA WorksAlone ==
  ASSUME DataOK, WorkersOK, Alone, NEW w \in Workers, Works(w)
  PROVE  Alone'
<1>1. \A v \in Workers : (At(v)' <=> At(v)) /\ Order(v)' = Order(v) /\ loc'[v].e = loc[v].e
  BY DEF Works, Others, At, Order
<1>2. ClaimsHold' /\ OneProcessor' /\ Apart'
  BY <1>1 DEF Alone, ClaimsHold, OneProcessor, Apart, Works
<1>3. SeenHolds'
  <2> SUFFICES ASSUME NEW v \in Workers, pc'[v] = "write", Order(v)' \notin raced'
               PROVE  /\ loc'[v].seen = order'[Order(v)'].status
                      /\ loc'[v].seen \in Final => loc'[v].seen = Says[loc'[v].e]
    BY DEF SeenHolds
  <2>0. At(v) /\ Order(v) \in Orders
    <3>1. At(v)
      BY <1>1 DEF At
    <3> QED
      BY <3>1, AtOne DEF At
  <2>1. CASE v = w
    BY <1>1, <2>0, <2>1 DEF Works, SameOrders
  <2>2. CASE v # w
    <3>1. pc[v] = "write" /\ loc'[v] = loc[v] /\ Order(v) \notin raced
      BY <1>1, <2>2 DEF Works, Others
    <3>2. Order(v) # Order(w)
      BY <2>0, <2>2, <3>1 DEF Alone, Apart, Works
    <3>3. order'[Order(v)].status = order[Order(v)].status
      BY <2>0, <3>2 DEF Works, SameOrders
    <3> QED
      BY <1>1, <3>1, <3>3 DEF Alone, SeenHolds
  <2> QED
    BY <2>1, <2>2
<1> QED
  BY <1>2, <1>3 DEF Alone

LEMMA LeavesAlone ==
  ASSUME DataOK, WorkersOK, Alone, NEW w \in Workers, Leaves(w)
  PROVE  Alone'
<1>1. \A v \in Workers \ {w} : (At(v)' <=> At(v)) /\ Order(v)' = Order(v) /\ loc'[v] = loc[v] /\ pc'[v] = pc[v]
  BY DEF Leaves, Others, At, Order
<1>2. ~At(w)' /\ pc'[w] # "write" /\ overrun' = overrun /\ raced' = raced
  BY DEF Leaves, At
<1>3. ClaimsHold'
  <2> SUFFICES ASSUME NEW v \in Workers, At(v)', loc'[v].e \notin overrun
               PROVE  event'[loc'[v].e].status = "processing" /\ ~event'[loc'[v].e].stale
    BY <1>2 DEF ClaimsHold
  <2>1. v # w /\ At(v) /\ loc'[v] = loc[v]
    BY <1>1, <1>2
  <2>2. loc[v].e # loc[w].e /\ loc[v].e \in Events
    BY <2>1, AtOne DEF Alone, OneProcessor, Leaves, At
  <2> QED
    BY <2>1, <2>2 DEF Leaves, Alone, ClaimsHold
<1>4. OneProcessor' /\ Apart'
  BY <1>1, <1>2 DEF Alone, OneProcessor, Apart
<1>5. SeenHolds'
  <2> SUFFICES ASSUME NEW v \in Workers, pc'[v] = "write", Order(v)' \notin raced'
               PROVE  /\ loc'[v].seen = order'[Order(v)'].status
                      /\ loc'[v].seen \in Final => loc'[v].seen = Says[loc'[v].e]
    BY DEF SeenHolds
  <2>1. v # w /\ pc[v] = "write" /\ loc'[v] = loc[v] /\ Order(v)' = Order(v) /\ Order(v) \notin raced /\ Order(v) \in Orders
    BY <1>1, <1>2, AtOne
  <2> QED
    BY <2>1 DEF Alone, SeenHolds, Leaves, SameOrders
<1> QED
  BY <1>3, <1>4, <1>5 DEF Alone

LEMMA WaitsAlone ==
  ASSUME DataOK, WorkersOK, Alone, NEW w \in Workers, Waits(w)
  PROVE  Alone'
<1>1. \A v \in Workers \ {w} : (At(v)' <=> At(v)) /\ Order(v)' = Order(v) /\ loc'[v] = loc[v] /\ pc'[v] = pc[v]
  BY DEF Waits, Others, At, Order
<1>2. ~At(w)' /\ pc'[w] # "write" /\ overrun' = overrun /\ raced' = raced
  BY DEF Waits, At
<1>3. ClaimsHold'
  <2> SUFFICES ASSUME NEW v \in Workers, At(v)', loc'[v].e \notin overrun
               PROVE  event'[loc'[v].e].status = "processing" /\ ~event'[loc'[v].e].stale
    BY <1>2 DEF ClaimsHold
  <2>1. v # w /\ At(v) /\ loc'[v] = loc[v] /\ loc[v].e \in Events
    BY <1>1, <1>2, AtOne DEF At
  <2> QED
    BY <2>1 DEF Waits, Alone, ClaimsHold
<1>4. OneProcessor' /\ Apart'
  BY <1>1, <1>2 DEF Alone, OneProcessor, Apart
<1>5. SeenHolds'
  <2> SUFFICES ASSUME NEW v \in Workers, pc'[v] = "write", Order(v)' \notin raced'
               PROVE  /\ loc'[v].seen = order'[Order(v)'].status
                      /\ loc'[v].seen \in Final => loc'[v].seen = Says[loc'[v].e]
    BY DEF SeenHolds
  <2>1. v # w /\ pc[v] = "write" /\ loc'[v] = loc[v] /\ Order(v)' = Order(v) /\ Order(v) \notin raced /\ Order(v) \in Orders
    BY <1>1, <1>2, AtOne
  <2> QED
    BY <2>1 DEF Alone, SeenHolds, Waits, SameOrders
<1> QED
  BY <1>3, <1>4, <1>5 DEF Alone

LEMMA PassesAlone ==
  ASSUME DataOK, WorkersOK, Alone, Passes
  PROVE  Alone'
<1>1. \A v \in Workers : (At(v)' <=> At(v)) /\ Order(v)' = Order(v)
  BY DEF Passes, At, Order
<1>2. ClaimsHold'
  <2> SUFFICES ASSUME NEW v \in Workers, At(v), loc[v].e \notin overrun'
               PROVE  event'[loc[v].e].status = "processing" /\ ~event'[loc[v].e].stale
    BY <1>1 DEF ClaimsHold, Passes
  <2>1. loc[v].e \in Events /\ loc[v].e \notin overrun
    BY AtOne DEF At, Passes
  <2> QED
    BY <2>1 DEF Passes, Alone, ClaimsHold
<1>3. OneProcessor' /\ Apart'
  BY <1>1 DEF Alone, OneProcessor, Apart, Passes
<1>4. \A v \in Workers : pc[v] = "write" => Order(v) \in Orders
  BY AtOne
<1>5. SeenHolds'
  BY <1>1, <1>4 DEF Alone, SeenHolds, Passes, SameOrders
<1> QED
  BY <1>2, <1>3, <1>5 DEF Alone

LEMMA AloneNext == DataOK /\ WorkersOK /\ Alone /\ [Next]_vars => Alone'
BY Kinds, TakesAlone, WorksAlone, LeavesAlone, WaitsAlone, PassesAlone

IInv == DataOK /\ WorkersOK /\ Alone

LEMMA IInvInit == Init => IInv
BY TypeInit, AloneInit DEF IInv

LEMMA IInvNext == IInv /\ [Next]_vars => IInv'
BY TypeNext, AloneNext DEF IInv

(* For any number of workers, drains and repetitions, and whatever fails:  *)
(* two workers are at one event only after the first outlived its claim.   *)
THEOREM EventProcessedByOne == Spec => []OneProcessor
<1>1. IInv => OneProcessor
  BY DEF IInv, Alone
<1> QED
  BY <1>1, IInvInit, IInvNext, PTL DEF Spec

(* A processed or ignored event stays so, unless a worker outlived its     *)
(* claim on it.                                                            *)
THEOREM SettledForGood == Spec => SettledStays
<1>1. ASSUME IInv, [Next]_vars
      PROVE  [\A e \in Events \ overrun' :
                event[e].status \in Settled => event'[e].status = event[e].status]_vars
  <2> SUFFICES ASSUME NEW e \in Events, e \notin overrun', event[e].status \in Settled
               PROVE  event'[e].status = event[e].status
    OBVIOUS
  <2>1. CASE Passes
    BY <2>1 DEF Passes
  <2>2. ASSUME NEW w \in Workers, Takes(w) PROVE event'[e].status = event[e].status
    BY <2>2 DEF Takes, Eligible, Settled
  <2>3. ASSUME NEW w \in Workers, Works(w) PROVE event'[e].status = event[e].status
    BY <2>3 DEF Works
  <2>4. ASSUME NEW w \in Workers, Leaves(w) PROVE event'[e].status = event[e].status
    BY <1>1, <2>4 DEF Leaves, IInv, Alone, ClaimsHold, Settled
  <2>5. ASSUME NEW w \in Workers, Waits(w) PROVE event'[e].status = event[e].status
    BY <2>5 DEF Waits, Settled
  <2> QED
    BY <1>1, <2>1, <2>2, <2>3, <2>4, <2>5, Kinds DEF IInv
<1> QED
  BY <1>1, IInvInit, IInvNext, PTL DEF Spec, SettledStays

(* Whatever order webhooks come in, however often, and whatever fails: a   *)
(* delivered or cancelled order keeps its status while no two workers are  *)
(* at it together.                                                         *)
THEOREM FinalStatusIsKept == Spec => FinalIsKept
<1>1. ASSUME IInv, [Next]_vars
      PROVE  [\A o \in Orders \ raced' :
                order[o].status \in Final => order'[o].status = order[o].status]_vars
  <2> SUFFICES ASSUME NEW o \in Orders, o \notin raced', order[o].status \in Final
               PROVE  order'[o].status = order[o].status
    OBVIOUS
  <2>1. CASE Passes
    BY <2>1 DEF Passes, SameOrders
  <2>2. ASSUME NEW w \in Workers, Takes(w) \/ Leaves(w) \/ Waits(w)
        PROVE  order'[o].status = order[o].status
    BY <2>2 DEF Takes, Leaves, Waits, SameOrders
  <2>3. ASSUME NEW w \in Workers, Works(w) PROVE order'[o].status = order[o].status
    BY <1>1, <2>3 DEF Works, SameOrders, IInv, Alone, SeenHolds
  <2> QED
    BY <1>1, <2>1, <2>2, <2>3, Kinds DEF IInv
<1> QED
  BY <1>1, IInvInit, IInvNext, PTL DEF Spec, FinalIsKept

-----------------------------------------------------------------------------
(* The effects of a final status, by counting the workers that owe them.   *)

Owed(o, s) ==
  {w \in Workers :
     /\ pc[w] = "effects" \/ (pc[w] \in Notifying /\ loc[w].then = "effects")
     /\ Order(w) = o /\ Says[loc[w].e] = s}

Counted ==
  \A o \in Orders, s \in Final : effects[o][s] + Cardinality(Owed(o, s)) <= entered[o][s]

LEMMA OwedFinite ==
  ASSUME NEW o, NEW s
  PROVE  IsFiniteSet(Owed(o, s)) /\ Cardinality(Owed(o, s)) \in Nat
BY EventAssumption, FS_Subset, FS_CardinalityType DEF Owed

LEMMA CountedInit == Init => Counted
<1> SUFFICES ASSUME Init, NEW o \in Orders, NEW s \in Final
             PROVE  effects[o][s] + Cardinality(Owed(o, s)) <= entered[o][s]
  BY DEF Counted
<1>1. Owed(o, s) = {}
  BY DEF Init, Owed, Notifying
<1>2. effects[o][s] = 0 /\ entered[o][s] = 0
  BY DEF Init
<1> QED
  BY <1>1, <1>2, FS_EmptySet

\* Nothing more is owed, nothing done and nothing forgotten.
LEMMA CountedStays ==
  ASSUME DataOK, DataOK', Counted, effects' = effects, entered' = entered,
         \A o \in Orders, s \in Final : Owed(o, s)' \subseteq Owed(o, s)
  PROVE  Counted'
<1> SUFFICES ASSUME NEW o \in Orders, NEW s \in Final
             PROVE  effects'[o][s] + Cardinality(Owed(o, s)') <= entered'[o][s]
  BY DEF Counted
<1>1. Cardinality(Owed(o, s)') <= Cardinality(Owed(o, s)) /\ Cardinality(Owed(o, s)') \in Nat
  BY OwedFinite, FS_Subset, FS_CardinalityType
<1>2. Cardinality(Owed(o, s)) \in Nat /\ effects[o][s] \in Nat /\ entered[o][s] \in Nat
  BY OwedFinite DEF DataOK
<1>3. effects[o][s] + Cardinality(Owed(o, s)) <= entered[o][s]
  BY DEF Counted
<1> QED
  BY <1>1, <1>2, <1>3

\* A worker that is not at its message or the effects, or stays there with the same
\* promise, owes no more than before.
LEMMA OwesNoMore ==
  ASSUME WorkersOK, NEW w \in Workers, Others(w),
         \/ pc'[w] \notin Notifying \cup {"effects"}
         \/ /\ pc[w] \in Notifying /\ pc'[w] \in Notifying
            /\ loc'[w].e = loc[w].e /\ loc'[w].then = loc[w].then
         \/ /\ pc[w] \in Notifying /\ pc'[w] = loc[w].then /\ loc'[w].e = loc[w].e
         \/ pc'[w] \in Notifying /\ loc'[w].then # "effects"
  PROVE  \A o \in Orders, s \in Final : Owed(o, s)' \subseteq Owed(o, s)
<1> SUFFICES ASSUME NEW o \in Orders, NEW s \in Final, NEW v \in Owed(o, s)'
             PROVE  v \in Owed(o, s)
  OBVIOUS
<1>1. v \in Workers
  BY DEF Owed
<1>2. CASE v = w
  BY <1>1, <1>2 DEF Owed, Order, Notifying, WorkersOK, Fits
<1>3. CASE v # w
  BY <1>1, <1>3 DEF Owed, Order, Others
<1> QED
  BY <1>2, <1>3

LEMMA WriteCounted ==
  ASSUME DataOK, DataOK', WorkersOK, Counted, NEW w \in Workers, Write(w)
  PROVE  Counted'
<1> DEFINE s == Says[loc[w].e]
           new == /\ s \in Final => order[Order(w)].status # s
                  /\ ~(s = "Cancelled" /\ loc[w].seen = "Cancelled")
           then == IF s \in Final /\ new THEN "effects" ELSE "finalize"
           label == IF s \in Told THEN "notify" ELSE then
<1>1. loc[w] \in Locals /\ Order(w) \in Orders /\ pc[w] = "write"
  BY AtOne DEF Write
<1>2. Goes(w, label, then) /\ effects' = effects
  BY DEF Write
<1>3. pc'[w] = label /\ loc'[w].then = then /\ loc'[w].e = loc[w].e /\ Others(w)
  BY <1>1, <1>2 DEF Goes, GoWith, WorkersOK, Locals, Others
<1>4. CASE ~(s \in Final /\ new)
  <2>1. entered' = entered
    BY <1>4 DEF Write, WriteStatus
  <2>2. then = "finalize" /\ label \in {"notify", "finalize"}
    BY <1>4
  <2>3. \A p \in Orders, t \in Final : Owed(p, t)' \subseteq Owed(p, t)
    BY <1>3, <2>2, OwesNoMore DEF Notifying
  <2> QED
    BY <1>2, <2>1, <2>3, CountedStays
<1>5. CASE s \in Final /\ new
  <2>1. entered' = [entered EXCEPT ![Order(w)][s] = @ + 1]
    BY <1>5 DEF Write, WriteStatus
  <2>2. then = "effects" /\ label \in {"notify", "effects"}
    BY <1>5
  <2> SUFFICES ASSUME NEW p \in Orders, NEW t \in Final
               PROVE  effects'[p][t] + Cardinality(Owed(p, t)') <= entered'[p][t]
    BY DEF Counted
  <2>3. effects[p][t] \in Nat /\ entered[p][t] \in Nat /\ Cardinality(Owed(p, t)) \in Nat
    BY OwedFinite DEF DataOK
  <2>4. effects[p][t] + Cardinality(Owed(p, t)) <= entered[p][t]
    BY DEF Counted
  <2>5. CASE p = Order(w) /\ t = s
    <3>1. w \notin Owed(p, t)
      BY <1>1 DEF Owed, Notifying
    <3>2. Owed(p, t)' = Owed(p, t) \cup {w}
      BY <1>1, <1>3, <2>2, <2>5 DEF Owed, Order, Notifying, Others
    <3>3. Cardinality(Owed(p, t)') = Cardinality(Owed(p, t)) + 1
      BY <3>1, <3>2, OwedFinite, FS_AddElement
    <3>4. entered'[p][t] = entered[p][t] + 1
      BY <1>1, <2>1, <2>5, <1>5 DEF DataOK
    <3> QED
      BY <1>2, <2>3, <2>4, <3>3, <3>4
  <2>6. CASE ~(p = Order(w) /\ t = s)
    <3>1. Owed(p, t)' = Owed(p, t)
      BY <1>1, <1>3, <2>6 DEF Owed, Order, Notifying, Others
    <3>2. entered'[p][t] = entered[p][t]
      BY <1>1, <2>1, <2>6, <1>5 DEF DataOK
    <3> QED
      BY <1>2, <2>4, <3>1, <3>2
  <2> QED
    BY <2>5, <2>6
<1> QED
  BY <1>4, <1>5

LEMMA EffectsCounted ==
  ASSUME DataOK, DataOK', WorkersOK, Counted, NEW w \in Workers, Effects(w)
  PROVE  Counted'
<1> DEFINE s == Says[loc[w].e]
<1>1. loc[w] \in Locals /\ Order(w) \in Orders /\ pc[w] = "effects" /\ s \in Final
  BY AtOne DEF Effects, WorkersOK, Fits
<1>2. /\ effects' = [effects EXCEPT ![Order(w)][s] = @ + 1] /\ entered' = entered
      /\ pc'[w] = "finalize" /\ Others(w)
  BY DEF Effects, GoTo, GoWith, WorkersOK, Others
<1> SUFFICES ASSUME NEW p \in Orders, NEW t \in Final
             PROVE  effects'[p][t] + Cardinality(Owed(p, t)') <= entered'[p][t]
  BY DEF Counted
<1>3. effects[p][t] \in Nat /\ entered[p][t] \in Nat /\ Cardinality(Owed(p, t)) \in Nat
  BY OwedFinite DEF DataOK
<1>4. effects[p][t] + Cardinality(Owed(p, t)) <= entered[p][t]
  BY DEF Counted
<1>5. CASE p = Order(w) /\ t = s
  <2>1. w \in Owed(p, t) /\ Owed(p, t)' = Owed(p, t) \ {w}
    BY <1>1, <1>2, <1>5 DEF Owed, Order, Notifying, Others
  <2>2. Cardinality(Owed(p, t)') = Cardinality(Owed(p, t)) - 1
    BY <2>1, OwedFinite, FS_RemoveElement
  <2>3. effects'[p][t] = effects[p][t] + 1
    BY <1>1, <1>2, <1>5 DEF DataOK
  <2> QED
    BY <1>2, <1>3, <1>4, <2>2, <2>3
<1>6. CASE ~(p = Order(w) /\ t = s)
  <2>1. Owed(p, t)' = Owed(p, t)
    BY <1>1, <1>2, <1>6 DEF Owed, Order, Notifying, Others
  <2>2. effects'[p][t] = effects[p][t]
    BY <1>1, <1>2, <1>6 DEF DataOK
  <2> QED
    BY <1>2, <1>4, <2>1, <2>2
<1> QED
  BY <1>5, <1>6

LEMMA NotifyCounted ==
  ASSUME DataOK, DataOK', WorkersOK, Counted, NEW w \in Workers, Notifies(w) \/ SendFails(w)
  PROVE  Counted'
<1>1. loc[w] \in Locals /\ pc[w] \in Notifying /\ Others(w)
  BY AtOne DEF Notifies, Acquire, Send, Mark, Unmark, SendFails, Notifying, AfterNote, GoTo,
               GoWith, WorkersOK, Others
<1>2. \/ pc'[w] \in Notifying /\ loc'[w].e = loc[w].e /\ loc'[w].then = loc[w].then
      \/ pc'[w] = loc[w].then /\ loc'[w].e = loc[w].e
  <2>1. CASE AfterNote(w)
    BY <1>1, <2>1 DEF AfterNote, GoWith, WorkersOK, Locals
  <2>2. ASSUME NEW label \in Notifying, GoTo(w, label)
        PROVE  pc'[w] \in Notifying /\ loc'[w] = loc[w]
    BY <2>2 DEF GoTo, GoWith, WorkersOK
  <2>3. ASSUME NEW tries, GoWith(w, "send", [loc[w] EXCEPT !.tries = tries])
        PROVE  pc'[w] \in Notifying /\ loc'[w].e = loc[w].e /\ loc'[w].then = loc[w].then
    BY <1>1, <2>3 DEF GoWith, WorkersOK, Locals, Notifying
  <2> QED
    BY <2>1, <2>2, <2>3 DEF Notifies, Acquire, Send, Mark, Unmark, SendFails, Notifying
<1>3. \A o \in Orders, s \in Final : Owed(o, s)' \subseteq Owed(o, s)
  BY <1>1, <1>2, OwesNoMore
<1> QED
  BY <1>3, CountedStays DEF Notifies, Acquire, Send, Mark, Unmark, SendFails, historyVars

LEMMA DrainCounted ==
  ASSUME DataOK, DataOK', WorkersOK, Counted, NEW w \in Workers,
         \/ \E e \in Events : Receive(w, e)
         \/ ClaimOwn(w) \/ StartDrain(w) \/ Claim(w) \/ Read(w) \/ Finalize(w)
         \/ DatabaseError(w) \/ Crash(w)
  PROVE  Counted'
<1>1. effects' = effects /\ entered' = entered
  BY DEF Receive, ClaimOwn, StartDrain, Claim, ClaimEvent, Read, Finalize, DatabaseError, Crash, historyVars
<1>2. CASE Others(w) /\ pc'[w] \notin Notifying \cup {"effects"}
  BY <1>1, <1>2, OwesNoMore, CountedStays
<1>3. CASE UNCHANGED <<pc, loc>>
  <2>1. \A o \in Orders, s \in Final : Owed(o, s)' = Owed(o, s)
    BY <1>3 DEF Owed, Order
  <2> QED
    BY <1>1, <2>1, CountedStays
<1>4. CASE pc[w] \in {"notify", "mark"} /\ GoTo(w, "unmark")
  <2>1. /\ Others(w) /\ pc[w] \in Notifying /\ pc'[w] \in Notifying
        /\ loc'[w].e = loc[w].e /\ loc'[w].then = loc[w].then
    BY <1>4 DEF GoTo, GoWith, WorkersOK, Others, Notifying
  <2> QED
    BY <1>1, <2>1, OwesNoMore, CountedStays
<1>5. ASSUME NEW label \in Labels \ (Notifying \cup {"effects"}), NEW l, GoWith(w, label, l)
      PROVE  Others(w) /\ pc'[w] \notin Notifying \cup {"effects"}
  BY <1>5 DEF GoWith, WorkersOK, Others
<1>6. {"idle", "byId", "claim", "read", "write", "finalize"} \subseteq Labels \ (Notifying \cup {"effects"})
  BY DEF Labels, Notifying
<1>7. CASE \E e \in Events : Receive(w, e)
  BY <1>2, <1>3, <1>5, <1>6, <1>7 DEF Receive
<1>8. CASE ClaimOwn(w) \/ StartDrain(w) \/ Claim(w)
  BY <1>2, <1>5, <1>6, <1>8 DEF ClaimOwn, StartDrain, Claim, ClaimEvent
<1>9. CASE Read(w) \/ Finalize(w) \/ Crash(w)
  BY <1>2, <1>5, <1>6, <1>9 DEF Read, Finalizes, Finalize, GoesOn, Crash
<1>10. CASE DatabaseError(w)
  BY <1>2, <1>4, <1>5, <1>6, <1>10 DEF DatabaseError, GoesOn
<1> QED
  BY <1>7, <1>8, <1>9, <1>10

LEMMA CountedNext == DataOK /\ DataOK' /\ WorkersOK /\ Counted /\ [Next]_vars => Counted'
<1> SUFFICES ASSUME DataOK, DataOK', WorkersOK, Counted, [Next]_vars PROVE Counted'
  OBVIOUS
<1>1. ASSUME NEW w \in Workers,
             \/ Continue(w) \/ StartDrain(w) \/ SendFails(w) \/ DatabaseError(w) \/ Crash(w)
             \/ \E e \in Events : Receive(w, e)
      PROVE  Counted'
  BY <1>1, DrainCounted, WriteCounted, EffectsCounted, NotifyCounted DEF Continue
<1>2. CASE \/ UNCHANGED vars
           \/ \E e \in Events : BecomesStale(e) \/ RetryDue(e)
           \/ \E o \in Orders : Sync(o)
           \/ \E o \in Orders, t \in Told : Lapses(o, t)
  <2>1. UNCHANGED <<pc, loc, effects, entered>>
    BY <1>2 DEF vars, historyVars, BecomesStale, RetryDue, Sync, Lapses
  <2>2. \A o \in Orders, s \in Final : Owed(o, s)' = Owed(o, s)
    BY <2>1 DEF Owed, Order
  <2> QED
    BY <2>1, <2>2, CountedStays
<1> QED
  BY <1>1, <1>2 DEF Next

(* Retries and repetitions run the effects of a delivery or a cancellation *)
(* at most once for each time the order entered that status: what ran and  *)
(* what workers still owe is together never more.                          *)
THEOREM EffectsRunOnce == Spec => []EffectsOnce
<1> DEFINE CInv == IInv /\ Counted
<1>1. Init => CInv
  BY IInvInit, CountedInit
<1>2. CInv /\ [Next]_vars => CInv'
  BY IInvNext, CountedNext DEF IInv
<1>3. CInv => EffectsOnce
  <2> SUFFICES ASSUME CInv, NEW o \in Orders, NEW s \in Final
               PROVE  effects[o][s] <= entered[o][s]
    BY DEF EffectsOnce
  <2>1. effects[o][s] \in Nat /\ entered[o][s] \in Nat /\ Cardinality(Owed(o, s)) \in Nat
    BY OwedFinite DEF IInv, DataOK
  <2> QED
    BY <2>1 DEF Counted
<1> QED
  BY <1>1, <1>2, <1>3, PTL DEF Spec

-----------------------------------------------------------------------------
(* One message.                                                            *)

Holding == {"send", "mark", "unmark"}

\* w has the lock of a message, or had it before it lapsed.
Holds(w, o, t) == pc[w] \in Holding /\ Order(w) = o /\ Says[loc[w].e] = t

\* The lock of a message is held by the one worker that sends it, and a message that went
\* out is marked, or its worker is about to.
NoteHolds(o, t) ==
  /\ \A w \in Workers : Holds(w, o, t) => note[o][t].lock = "held" /\ ~note[o][t].sent
  /\ \A v, w \in Workers : Holds(v, o, t) /\ Holds(w, o, t) => v = w
  /\ messages[o][t] <= 1
  /\ messages[o][t] >= 1 => note[o][t].sent \/ \E w \in Workers : Holds(w, o, t) /\ pc[w] = "mark"

\* Whatever is marked, or about to be, was sent.
MarkedIsSent ==
  /\ \A o \in Orders, t \in Told : note[o][t].sent => messages[o][t] >= 1
  /\ \A w \in Workers : pc[w] = "mark" => messages[Order(w)][Says[loc[w].e]] >= 1

NotesHold == \A o \in Orders, t \in Told : <<o, t>> \notin doubted => NoteHolds(o, t)

MessageInv == MarkedIsSent /\ NotesHold

\* Steps aside from messages: who holds a lock after such a step held it before, or the
\* message is doubted; and nobody leaves a message sent and not marked without a doubt.
Aside ==
  /\ UNCHANGED <<note, messages>> /\ doubted \subseteq doubted'
  /\ \A w \in Workers :
       /\ pc'[w] \in Holding =>
            \/ pc'[w] = pc[w] /\ loc'[w].e = loc[w].e
            \/ pc'[w] # "mark" /\ <<About[loc'[w].e], Says[loc'[w].e]>> \in doubted'
       /\ pc[w] = "mark" =>
            \/ pc'[w] = "mark" /\ loc'[w].e = loc[w].e
            \/ <<About[loc[w].e], Says[loc[w].e]>> \in doubted'

LEMMA AsideKeeps ==
  ASSUME MessageInv, Aside
  PROVE  MessageInv'
<1>1. MarkedIsSent'
  <2>1. \A w \in Workers : pc'[w] = "mark" => pc[w] = "mark" /\ loc'[w].e = loc[w].e
    BY DEF Aside, Holding
  <2> QED
    BY <2>1 DEF Aside, MessageInv, MarkedIsSent, Order
<1>2. ASSUME NEW o \in Orders, NEW t \in Told, <<o, t>> \notin doubted' PROVE NoteHolds(o, t)'
  <2>1. NoteHolds(o, t)
    BY <1>2 DEF Aside, MessageInv, NotesHold
  <2>2. \A w \in Workers : Holds(w, o, t)' => Holds(w, o, t)
    BY <1>2 DEF Aside, Holds, Order
  <2>3. \A w \in Workers : Holds(w, o, t) /\ pc[w] = "mark" => Holds(w, o, t)' /\ pc'[w] = "mark"
    BY <1>2 DEF Aside, Holds, Order
  <2> QED
    BY <2>1, <2>2, <2>3 DEF NoteHolds, Aside
<1> QED
  BY <1>1, <1>2 DEF MessageInv, NotesHold

\* A worker that goes to a label without a lock leaves none but one in doubt.
LEMMA GoesAside ==
  ASSUME WorkersOK, NEW w \in Workers, NEW label, NEW l, GoWith(w, label, l),
         label \notin Holding, doubted \subseteq doubted', UNCHANGED <<note, messages>>,
         pc[w] = "mark" => <<Order(w), Says[loc[w].e]>> \in doubted'
  PROVE  Aside
<1>1. pc'[w] = label /\ \A v \in Workers \ {w} : pc'[v] = pc[v] /\ loc'[v] = loc[v]
  BY DEF GoWith, WorkersOK
<1> QED
  BY <1>1 DEF Aside, Order

LEMMA DrainAside ==
  ASSUME DataOK, WorkersOK, NEW w \in Workers,
         \/ \E e \in Events : Receive(w, e)
         \/ ClaimOwn(w) \/ StartDrain(w) \/ Claim(w) \/ Read(w) \/ Write(w) \/ Effects(w)
         \/ Finalize(w) \/ DatabaseError(w) \/ Crash(w)
  PROVE  Aside
<1>0. {"idle", "byId", "claim", "read", "write", "notify", "effects", "finalize"} \cap Holding = {}
  BY DEF Holding
<1>1. ASSUME NEW e \in Events, Receive(w, e) PROVE Aside
  <2>1. UNCHANGED <<note, messages, doubted>>
    BY <1>1 DEF Receive, historyVars
  <2>2. CASE UNCHANGED <<pc, loc>>
    BY <2>1, <2>2 DEF Aside
  <2>3. CASE pc[w] = "idle" /\ GoWith(w, "byId", [NoLocals EXCEPT !.e = e])
    BY <1>0, <2>1, <2>3, GoesAside
  <2> QED
    BY <1>1, <2>2, <2>3 DEF Receive
<1>2. CASE ClaimOwn(w) \/ StartDrain(w) \/ Claim(w)
  <2>1. UNCHANGED <<note, messages, doubted>> /\ pc[w] # "mark"
    BY <1>2 DEF ClaimOwn, StartDrain, Claim, ClaimEvent, historyVars
  <2>2. ASSUME NEW e, NEW left, ClaimEvent(w, e, left) PROVE Aside
    BY <1>0, <2>1, <2>2, GoesAside DEF ClaimEvent
  <2>3. ASSUME NEW label \in {"idle", "claim"}, NEW l, GoWith(w, label, l) PROVE Aside
    BY <1>0, <2>1, <2>3, GoesAside
  <2>4. CASE ClaimOwn(w)
    BY <2>2, <2>3, <2>4 DEF ClaimOwn
  <2>5. CASE StartDrain(w)
    BY <2>3, <2>5 DEF StartDrain
  <2>6. CASE Claim(w)
    BY <2>2, <2>3, <2>6 DEF Claim
  <2> QED
    BY <1>2, <2>4, <2>5, <2>6
<1>3. CASE Read(w) \/ Effects(w) \/ Finalize(w)
  <2>1. UNCHANGED <<note, messages, doubted>> /\ pc[w] # "mark"
    BY <1>3 DEF Read, Effects, Finalize, historyVars
  <2>2. PICK label, l : label \in {"write", "claim", "finalize"} /\ GoWith(w, label, l)
    <3>1. CASE Read(w)
      BY <3>1 DEF Read, Finalizes, GoTo, GoesOn
    <3>2. CASE Effects(w)
      BY <3>2 DEF Effects, Finalizes, GoTo, GoesOn
    <3>3. CASE Finalize(w)
      BY <3>3 DEF Finalize, Finalizes, GoTo, GoesOn
    <3> QED
      BY <1>3, <3>1, <3>2, <3>3
  <2> QED
    BY <1>0, <2>1, <2>2, GoesAside
<1>4. CASE Write(w)
  <2>1. UNCHANGED <<note, messages, doubted>> /\ pc[w] # "mark"
    BY <1>4 DEF Write
  <2>2. PICK label, l : label \in {"notify", "effects", "finalize"} /\ GoWith(w, label, l)
    BY <1>4 DEF Write, Goes
  <2> QED
    BY <1>0, <2>1, <2>2, GoesAside
<1>5. CASE Crash(w)
  <2>1. UNCHANGED <<note, messages>> /\ doubted \subseteq doubted' /\ GoWith(w, "idle", NoLocals)
        /\ (pc[w] = "mark" => <<Order(w), Says[loc[w].e]>> \in doubted')
    BY <1>5 DEF Crash, Doubt
  <2> QED
    BY <1>0, <2>1, GoesAside
<1>6. CASE DatabaseError(w)
  <2>1. UNCHANGED <<note, messages>>
    BY <1>6 DEF DatabaseError
  <2>2. CASE /\ pc[w] \in {"notify", "mark"} /\ GoTo(w, "unmark")
             /\ Doubt({<<Order(w), Says[loc[w].e]>>})
    <3>1. /\ pc'[w] = "unmark" /\ loc'[w] = loc[w]
          /\ \A v \in Workers \ {w} : pc'[v] = pc[v] /\ loc'[v] = loc[v]
      BY <2>2 DEF GoTo, GoWith, WorkersOK
    <3>2. doubted \subseteq doubted' /\ <<Order(w), Says[loc[w].e]>> \in doubted'
      BY <2>2 DEF Doubt
    <3> QED
      BY <2>1, <3>1, <3>2 DEF Aside, Order
  <2>3. CASE /\ pc[w] \in {"read", "write", "effects", "finalize"} /\ GoesOn(w)
             /\ UNCHANGED doubted
    BY <1>0, <2>1, <2>3, GoesAside DEF GoesOn
  <2> QED
    BY <1>6, <2>2, <2>3 DEF DatabaseError
<1> QED
  BY <1>1, <1>2, <1>3, <1>4, <1>5, <1>6

\* A step of a worker at its message, which leaves the other messages alone.
AtMessage(w) ==
  /\ pc[w] \in Notifying /\ Others(w) /\ loc'[w].e = loc[w].e
  /\ doubted \subseteq doubted'
  /\ \A o \in Orders, t \in Told :
       ~(o = Order(w) /\ t = Says[loc[w].e]) => note'[o][t] = note[o][t] /\ messages'[o][t] = messages[o][t]

LEMMA MessageFacts ==
  ASSUME DataOK, WorkersOK, NEW w \in Workers, pc[w] \in Notifying
  PROVE  /\ loc[w] \in Locals /\ Order(w) \in Orders /\ Says[loc[w].e] \in Told
         /\ note[Order(w)][Says[loc[w].e]] \in Notes
         /\ messages[Order(w)][Says[loc[w].e]] \in Nat
         /\ loc[w].then \in {"effects", "finalize"}
<1>1. Order(w) \in Orders /\ loc[w] \in Locals /\ Says[loc[w].e] \in Told
      /\ loc[w].then \in {"effects", "finalize"}
  BY AtOne DEF WorkersOK, Fits, Notifying
<1> QED
  BY <1>1 DEF DataOK

\* For such a step only its own message is to be looked at.
LEMMA OwnMessage ==
  ASSUME DataOK, WorkersOK, MessageInv, NEW w \in Workers, AtMessage(w),
         NEW o, NEW t, o = Order(w), t = Says[loc[w].e],
         note'[o][t].sent => messages'[o][t] >= 1,
         messages[o][t] >= 1 => messages'[o][t] >= 1,
         pc'[w] = "mark" => messages'[o][t] >= 1,
         <<o, t>> \notin doubted' => NoteHolds(o, t)'
  PROVE  MessageInv'
<1>1. o \in Orders /\ t \in Told
  BY MessageFacts DEF AtMessage
<1>2. \A v \in Workers : v # w => pc'[v] = pc[v] /\ loc'[v] = loc[v]
  BY DEF AtMessage, Others
<1>3. ASSUME NEW v \in Workers, pc'[v] = "mark" PROVE (messages[Order(v)][Says[loc[v].e]] >= 1)'
  <2>1. CASE v = w
    BY <1>3, <2>1 DEF AtMessage, Order
  <2>2. CASE v # w
    <3>1. pc[v] = "mark" /\ loc'[v].e = loc[v].e
      BY <1>2, <1>3, <2>2
    <3>2. Order(v) \in Orders /\ Says[loc[v].e] \in Told
      BY <3>1, MessageFacts DEF Notifying
    <3> QED
      BY <3>1, <3>2 DEF AtMessage, MessageInv, MarkedIsSent, Order
  <2> QED
    BY <2>1, <2>2
<1>4. \A p \in Orders, u \in Told : note'[p][u].sent => messages'[p][u] >= 1
  BY DEF AtMessage, MessageInv, MarkedIsSent
<1>5. ASSUME NEW p \in Orders, NEW u \in Told, <<p, u>> \notin doubted' PROVE NoteHolds(p, u)'
  <2>1. CASE p = o /\ u = t
    BY <1>5, <2>1
  <2>2. CASE ~(p = o /\ u = t)
    <3>1. NoteHolds(p, u) /\ note'[p][u] = note[p][u] /\ messages'[p][u] = messages[p][u]
      BY <1>5, <2>2 DEF AtMessage, MessageInv, NotesHold
    <3>2. \A v \in Workers : /\ Holds(v, p, u)' <=> Holds(v, p, u)
                             /\ Holds(v, p, u) => pc'[v] = pc[v]
      BY <1>2, <2>2 DEF AtMessage, Holds, Order
    <3> QED
      BY <3>1, <3>2 DEF NoteHolds
  <2> QED
    BY <2>1, <2>2
<1> QED
  BY <1>3, <1>4, <1>5 DEF MessageInv, MarkedIsSent, NotesHold

LEMMA AcquireMessage ==
  ASSUME DataOK, WorkersOK, MessageInv, NEW w \in Workers, Acquire(w)
  PROVE  MessageInv'
<1>0. PICK o, t : o = Order(w) /\ t = Says[loc[w].e]
  OBVIOUS
<1> USE <1>0
<1>1. pc[w] = "notify" /\ pc[w] \in Notifying /\ UNCHANGED <<messages, doubted>>
  BY DEF Acquire, Notifying, historyVars
<1>2. /\ o \in Orders /\ t \in Told /\ note[o][t] \in Notes /\ messages[o][t] \in Nat
      /\ loc[w] \in Locals /\ loc[w].then \in {"effects", "finalize"}
  BY <1>1, MessageFacts
<1>3. CASE AfterNote(w) /\ UNCHANGED note
  BY <1>1, <1>2, <1>3, GoesAside, AsideKeeps DEF AfterNote, Holding
<1>4. CASE /\ ~Note(w).sent /\ Note(w).lock # "held"
           /\ SetNote(w, [Note(w) EXCEPT !.lock = "held"])
           /\ GoWith(w, "send", [loc[w] EXCEPT !.tries = 1])
  <2>1. note' = [note EXCEPT ![o][t] = [note[o][t] EXCEPT !.lock = "held"]]
    BY <1>4 DEF SetNote, Note
  <2>2. /\ note'[o][t] = [note[o][t] EXCEPT !.lock = "held"]
        /\ \A p \in Orders, u \in Told : ~(p = o /\ u = t) => note'[p][u] = note[p][u]
    BY <1>2, <2>1 DEF DataOK
  <2>3. note'[o][t].lock = "held" /\ ~note'[o][t].sent /\ ~note[o][t].sent /\ note[o][t].lock # "held"
    BY <1>2, <1>4, <2>2 DEF Note, Notes
  <2>4. pc'[w] = "send" /\ loc'[w].e = loc[w].e /\ Others(w)
    BY <1>2, <1>4 DEF GoWith, WorkersOK, Others, Locals
  <2>5. AtMessage(w)
    BY <1>1, <2>2, <2>4 DEF AtMessage
  <2>6. ASSUME <<o, t>> \notin doubted' PROVE NoteHolds(o, t)'
    <3>1. NoteHolds(o, t)
      BY <1>1, <1>2, <2>6 DEF MessageInv, NotesHold
    <3>2. \A v \in Workers : ~Holds(v, o, t)
      BY <2>3, <3>1 DEF NoteHolds
    <3>3. \A v \in Workers : Holds(v, o, t)' => v = w
      BY <2>4, <3>2 DEF Others, Holds, Order
    <3>4. messages[o][t] <= 1 /\ ~(messages[o][t] >= 1)
      BY <2>3, <3>1, <3>2 DEF NoteHolds
    <3> QED
      BY <1>1, <2>3, <3>3, <3>4 DEF NoteHolds
  <2> QED
    BY <1>1, <2>3, <2>4, <2>5, <2>6, OwnMessage
<1> QED
  BY <1>3, <1>4 DEF Acquire

LEMMA SendMessage ==
  ASSUME DataOK, WorkersOK, MessageInv, NEW w \in Workers, Send(w) \/ SendFails(w)
  PROVE  MessageInv'
<1>0. PICK o, t : o = Order(w) /\ t = Says[loc[w].e]
  OBVIOUS
<1> USE <1>0
<1>1. pc[w] = "send" /\ pc[w] \in Notifying /\ UNCHANGED note /\ doubted \subseteq doubted'
  BY DEF Send, SendFails, Notifying, Doubt
<1>2. /\ o \in Orders /\ t \in Told /\ note[o][t] \in Notes /\ messages[o][t] \in Nat
      /\ loc[w] \in Locals
  BY <1>1, MessageFacts
<1>3. messages' = messages \/ messages' = [messages EXCEPT ![o][t] = @ + 1]
  BY DEF Send, SendFails
<1>4. /\ messages'[o][t] \in {messages[o][t], messages[o][t] + 1}
      /\ \A p \in Orders, u \in Told : ~(p = o /\ u = t) => messages'[p][u] = messages[p][u]
  BY <1>2, <1>3 DEF DataOK
<1>5. loc'[w].e = loc[w].e /\ Others(w) /\ pc'[w] \in Holding
  BY <1>2 DEF Send, SendFails, GoTo, GoWith, WorkersOK, Others, Locals, Holding
<1>6. AtMessage(w)
  BY <1>1, <1>4, <1>5 DEF AtMessage
<1>7. note[o][t].sent => messages[o][t] >= 1
  BY <1>2 DEF MessageInv, MarkedIsSent
<1>8. messages[o][t] >= 1 => messages'[o][t] >= 1
  BY <1>2, <1>4
<1>9. CASE SendFails(w)
  <2>1. pc'[w] # "mark" /\ <<o, t>> \in doubted'
    BY <1>9 DEF SendFails, GoTo, GoWith, WorkersOK, Doubt
  <2> QED
    BY <1>1, <1>6, <1>7, <1>8, <2>1, OwnMessage
<1>10. CASE Send(w)
  <2>1. \/ pc'[w] = "mark" /\ messages'[o][t] = messages[o][t] + 1
        \/ pc'[w] = "unmark" /\ messages'[o][t] = messages[o][t]
    BY <1>2, <1>10 DEF Send, GoTo, GoWith, WorkersOK, DataOK
  <2>2. pc'[w] = "mark" => messages'[o][t] >= 1
    BY <1>2, <2>1
  <2>3. ASSUME <<o, t>> \notin doubted' PROVE NoteHolds(o, t)'
    <3>1. NoteHolds(o, t)
      BY <1>1, <1>2, <2>3 DEF MessageInv, NotesHold
    <3>2. Holds(w, o, t)
      BY <1>1 DEF Holds, Holding
    <3>3. \A v \in Workers : Holds(v, o, t) => v = w
      BY <3>1, <3>2 DEF NoteHolds
    <3>4. note[o][t].lock = "held" /\ ~note[o][t].sent /\ messages[o][t] <= 1 /\ ~(messages[o][t] >= 1)
      BY <1>1, <3>1, <3>2, <3>3 DEF NoteHolds
    <3>5. Holds(w, o, t)' /\ \A v \in Workers : Holds(v, o, t)' => v = w
      BY <1>5, <3>3 DEF Others, Holds, Order
    <3>6. messages[o][t] = 0
      BY <1>2, <3>4
    <3> QED
      BY <1>1, <2>1, <3>4, <3>5, <3>6 DEF NoteHolds
  <2> QED
    BY <1>1, <1>6, <1>7, <1>8, <2>2, <2>3, OwnMessage
<1> QED
  BY <1>9, <1>10

LEMMA MarkMessage ==
  ASSUME DataOK, WorkersOK, MessageInv, NEW w \in Workers, Mark(w) \/ Unmark(w)
  PROVE  MessageInv'
<1>0. PICK o, t : o = Order(w) /\ t = Says[loc[w].e]
  OBVIOUS
<1> USE <1>0
<1>1. /\ pc[w] \in {"mark", "unmark"} /\ pc[w] \in Notifying
      /\ UNCHANGED <<messages, doubted>> /\ AfterNote(w)
  BY DEF Mark, Unmark, Notifying, historyVars
<1>2. /\ o \in Orders /\ t \in Told /\ note[o][t] \in Notes /\ messages[o][t] \in Nat
      /\ loc[w] \in Locals /\ loc[w].then \in {"effects", "finalize"}
  BY <1>1, MessageFacts
<1>3. pc'[w] \notin Holding /\ loc'[w].e = loc[w].e /\ Others(w)
  BY <1>1, <1>2 DEF AfterNote, GoWith, WorkersOK, Others, Locals, Holding
<1>4. PICK n \in Notes : /\ note' = [note EXCEPT ![o][t] = n]
                         /\ n.sent <=> (pc[w] = "mark" \/ note[o][t].sent)
  <2>1. CASE Mark(w)
    <3>1. [sent |-> TRUE, lock |-> "free"] \in Notes /\ pc[w] = "mark"
          /\ note' = [note EXCEPT ![o][t] = [sent |-> TRUE, lock |-> "free"]]
      BY <2>1 DEF Notes, Mark, SetNote
    <3> QED
      BY <3>1
  <2>2. CASE Unmark(w)
    <3>1. pc[w] = "unmark" /\ note' = [note EXCEPT ![o][t] = [note[o][t] EXCEPT !.lock = "free"]]
      BY <2>2 DEF Unmark, SetNote, Note
    <3>2. [note[o][t] EXCEPT !.lock = "free"] \in Notes
          /\ [note[o][t] EXCEPT !.lock = "free"].sent = note[o][t].sent
      BY <1>2 DEF Notes
    <3> QED
      BY <3>1, <3>2
  <2> QED
    BY <2>1, <2>2
<1>5. /\ note'[o][t] = n
      /\ \A p \in Orders, u \in Told : ~(p = o /\ u = t) => note'[p][u] = note[p][u]
  BY <1>2, <1>4 DEF DataOK
<1>6. AtMessage(w)
  BY <1>1, <1>3, <1>5 DEF AtMessage
<1>7. n.sent => messages[o][t] >= 1
  BY <1>2, <1>4 DEF MessageInv, MarkedIsSent
<1>8. ASSUME <<o, t>> \notin doubted' PROVE NoteHolds(o, t)'
  <2>1. NoteHolds(o, t)
    BY <1>1, <1>2, <1>8 DEF MessageInv, NotesHold
  <2>2. Holds(w, o, t)
    BY <1>1 DEF Holds, Holding
  <2>3. \A v \in Workers : Holds(v, o, t) => v = w
    BY <2>1, <2>2 DEF NoteHolds
  <2>4. \A v \in Workers : ~Holds(v, o, t)'
    BY <1>3, <2>3 DEF Others, Holds, Order
  <2>5. messages[o][t] <= 1 /\ (messages[o][t] >= 1 => n.sent)
    BY <1>4, <2>1, <2>3 DEF NoteHolds
  <2> QED
    BY <1>1, <1>5, <2>4, <2>5 DEF NoteHolds
<1> QED
  BY <1>1, <1>3, <1>5, <1>6, <1>7, <1>8, OwnMessage DEF Holding

LEMMA LapseKeeps ==
  ASSUME DataOK, WorkersOK, MessageInv, NEW o \in Orders, NEW t \in Told, Lapses(o, t)
  PROVE  MessageInv'
<1>1. /\ UNCHANGED <<messages, pc, loc>> /\ doubted \subseteq doubted'
      /\ note' = [note EXCEPT ![o][t].lock = "lapsed"]
  BY DEF Lapses, Doubt
<1>2. /\ \A p \in Orders, u \in Told : ~(p = o /\ u = t) => note'[p][u] = note[p][u]
      /\ note'[o][t].sent = note[o][t].sent
  BY <1>1 DEF DataOK, Notes
<1>3. (\E w \in Workers : Holds(w, o, t)) => <<o, t>> \in doubted'
  BY DEF Lapses, Doubt, Holds, Holding
<1>4. \A p \in Orders, u \in Told, w \in Workers : Holds(w, p, u)' <=> Holds(w, p, u)
  BY <1>1 DEF Holds, Order
<1>5. MarkedIsSent'
  BY <1>1, <1>2 DEF MessageInv, MarkedIsSent, Order
<1>6. ASSUME NEW p \in Orders, NEW u \in Told, <<p, u>> \notin doubted' PROVE NoteHolds(p, u)'
  <2>1. NoteHolds(p, u)
    BY <1>1, <1>6 DEF MessageInv, NotesHold
  <2> QED
    BY <1>1, <1>2, <1>3, <1>4, <1>6, <2>1 DEF NoteHolds
<1> QED
  BY <1>5, <1>6 DEF MessageInv, NotesHold

LEMMA MessageNext == DataOK /\ WorkersOK /\ MessageInv /\ [Next]_vars => MessageInv'
<1> SUFFICES ASSUME DataOK, WorkersOK, MessageInv, [Next]_vars PROVE MessageInv'
  OBVIOUS
<1>1. ASSUME NEW w \in Workers,
             \/ Continue(w) \/ StartDrain(w) \/ SendFails(w) \/ DatabaseError(w) \/ Crash(w)
             \/ \E e \in Events : Receive(w, e)
      PROVE  MessageInv'
  BY <1>1, DrainAside, AsideKeeps, AcquireMessage, SendMessage, MarkMessage DEF Continue, Notifies
<1>2. CASE \/ UNCHANGED vars
           \/ \E e \in Events : BecomesStale(e) \/ RetryDue(e)
           \/ \E o \in Orders : Sync(o)
  <2>1. UNCHANGED <<pc, loc, note, messages, doubted>>
    BY <1>2 DEF vars, historyVars, BecomesStale, RetryDue, Sync
  <2>2. Aside
    BY <2>1 DEF Aside
  <2> QED
    BY <2>2, AsideKeeps
<1> QED
  BY <1>1, <1>2, LapseKeeps DEF Next

\* However often and late webhooks come and however many workers process them, and whatever
\* fails, a message is sent once, but for those whose fate a failure or a lapsed lock hid;
\* and what is marked as sent was sent (sendOrderNotification).
THEOREM MessageSentOnce == Spec => []OneMessage
<1>1. Init => MessageInv
  <2> SUFFICES ASSUME Init PROVE MessageInv
    OBVIOUS
  <2>1. /\ \A w \in Workers : pc[w] = "idle"
        /\ \A o \in Orders, t \in Told : messages[o][t] = 0 /\ ~note[o][t].sent
    BY DEF Init, NoNote
  <2> QED
    BY <2>1 DEF MessageInv, MarkedIsSent, NotesHold, NoteHolds, Holds, Holding
<1>2. MessageInv => OneMessage
  BY DEF MessageInv, MarkedIsSent, NotesHold, NoteHolds, OneMessage
<1> QED
  BY <1>1, <1>2, TypeInit, TypeNext, MessageNext, PTL DEF Spec

=============================================================================
